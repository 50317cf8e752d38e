\* Three packets, two ticks, cooldowns of one, two and four.
CONSTANTS
  Graph <- MCGraph
  Configs <- MCConfigs
  DefaultCapacity = 2
  DefaultLatency = 1
  Sizes = {3}
  FixedOne = 4
  LossOne = 32
  CooldownInitial = 1
  CooldownMax = 4
  MaxTime = 2
  MaxPlans = 3
SPECIFICATION RoutingSpec
INVARIANTS TypeOK PlanIsEarliest PlanIfAnyEdge
PROPERTIES GraphIsConfig CooldownLiftedByNews
CHECK_DEADLOCK FALSE
