-------------------------- MODULE ForwardOutProofs --------------------------
(***************************************************************************)
(* What ForwardOut guarantees for every capacity: the types, and, for a    *)
(* node with one channel whose batches are no larger than the failures     *)
(* queue, that forward_out and the worker never wait for each other; and   *)
(* what a reverse channel guarantees for every interval, timeout and       *)
(* pattern of losses: when the sender still has its peer.                  *)
(***************************************************************************)
EXTENDS ReverseUdp, TLAPS

-----------------------------------------------------------------------------
(* Types. *)

\* One step of any task keeps the queues within their capacities.
LEMMA TypeStep == ASSUME TypeOK, [Next]_vars PROVE TypeOK'
<1> USE ForwardAssumption DEF TypeOK
<1>1. CASE Produce BY <1>1 DEF Produce
<1>2. CASE TakeFailure BY <1>2 DEF TakeFailure
<1>3. CASE Handle
  <2>1. pc' \in {"select", "resend"} BY <1>3 DEF Handle
  <2> QED BY <1>3, <2>1 DEF Handle
<1>4. CASE Resend BY <1>4 DEF Resend
<1>5. CASE TakeBatch
  <2>1. BatchSize \in 1..Batch /\ BatchSize \in 1..rayq
    BY <1>5 DEF TakeBatch, BatchReady, BatchSize
  <2> QED BY <1>5, <2>1 DEF TakeBatch
<1>6. CASE Send BY <1>6 DEF Send
<1>7. CASE \E c \in Channels : Worker(c)
  <2>1. PICK c \in Channels : Worker(c) BY <1>7
  <2>2. CASE WorkerTake(c) BY <2>2 DEF WorkerTake
  <2>3. CASE WorkerSent(c) BY <2>3 DEF WorkerSent
  <2>4. CASE WorkerReport(c) BY <2>4 DEF WorkerReport
  <2> QED BY <2>1, <2>2, <2>3, <2>4 DEF Worker
<1>8. CASE UNCHANGED vars BY <1>8 DEF vars
<1> QED BY <1>1, <1>2, <1>3, <1>4, <1>5, <1>6, <1>7, <1>8 DEF Next, ForwardOut

\* Type correctness of forward_out, the workers and their queues.
THEOREM TypeCorrect == Spec => []TypeOK
<1>1. Init => TypeOK BY ForwardAssumption DEF Init, TypeOK
<1>2. TypeOK /\ [Next]_vars => TypeOK' BY TypeStep
<1> QED BY <1>1, <1>2, PTL DEF Spec

-----------------------------------------------------------------------------
(* No mutual wait. *)

\* The packets of channel c that can still turn into, or are, reported failures.
Load(c) == failq + chq[c] + (IF worker[c] = "idle" THEN 0 ELSE 1)

\* While a batch is being sent, what is behind forward_out is at most what was
\* there when the batch was taken, when the failures queue was empty, and what
\* the batch has added.
LoadBound(c) == pc = "send" => Load(c) <= ChanCap + 1 + (batch - left)

\* With one channel, one step keeps the bound on the load.
LEMMA LoadStep ==
  ASSUME NEW c \in Channels, Channels = {c}, TypeOK, LoadBound(c), [Next]_vars
  PROVE  LoadBound(c)'
<1> USE ForwardAssumption DEF TypeOK, LoadBound, Load
<1>1. CASE Produce BY <1>1 DEF Produce
<1>2. CASE TakeFailure BY <1>2 DEF TakeFailure
<1>3. CASE Handle
  <2>1. pc' \in {"select", "resend"} BY <1>3 DEF Handle
  <2> QED BY <2>1
<1>4. CASE Resend BY <1>4 DEF Resend
<1>5. CASE TakeBatch
  <2>1. failq' = 0 /\ batch' = left' /\ batch' \in Int
    BY <1>5 DEF TakeBatch, BatchReady, BatchSize
  <2>2. chq'[c] \in 0..ChanCap BY <1>5 DEF TakeBatch
  <2> QED BY <2>1, <2>2
<1>6. CASE Send
  <2>1. dest = c /\ chq'[c] = chq[c] + 1 /\ left' = left - 1 BY <1>6 DEF Send
  <2>2. failq' = failq /\ batch' = batch /\ worker' = worker /\ pc = "send" BY <1>6 DEF Send
  <2>3. chq[c] \in Int /\ failq \in Int /\ left \in Int /\ batch \in Int OBVIOUS
  <2> QED BY <2>1, <2>2, <2>3
<1>7. CASE \E d \in Channels : Worker(d)
  <2>1. Worker(c) BY <1>7
  <2>2. chq[c] \in Int /\ failq \in Int /\ left \in Int /\ batch \in Int OBVIOUS
  <2>3. CASE WorkerTake(c) BY <2>2, <2>3 DEF WorkerTake
  <2>4. CASE WorkerSent(c) BY <2>2, <2>4 DEF WorkerSent
  <2>5. CASE WorkerReport(c) BY <2>2, <2>5 DEF WorkerReport
  <2> QED BY <2>1, <2>3, <2>4, <2>5 DEF Worker
<1>8. CASE UNCHANGED vars BY <1>8 DEF vars
<1> QED BY <1>1, <1>2, <1>3, <1>4, <1>5, <1>6, <1>7, <1>8 DEF Next, ForwardOut

\* A node with one channel whose PACKET_BATCH_SIZE is at most the capacity of
\* the failures queue never has forward_out and the worker wait for each other,
\* whatever the failure handler does.
THEOREM OneChannelNeverWaits ==
  ASSUME NEW c \in Channels, Channels = {c}, Batch <= FailCap
  PROVE  Spec => []NoMutualWait
<1>1. Init => LoadBound(c) BY DEF Init, LoadBound
<1>2. TypeOK /\ LoadBound(c) /\ [Next]_vars => LoadBound(c)' BY LoadStep
<1>3. TypeOK /\ LoadBound(c) => NoMutualWait
  BY ForwardAssumption DEF TypeOK, LoadBound, Load, NoMutualWait
<1> QED BY <1>1, <1>2, <1>3, TypeCorrect, PTL DEF Spec

-----------------------------------------------------------------------------
(* The peer of a reverse channel. *)

\* Types of the probes' state.
ReverseTypes ==
  /\ seen \in 0..PeerTimeout /\ timer \in Int /\ held \in BOOLEAN
  /\ lost \in 0..MaxLost /\ late \in Nat

\* The entry is as old as the probes lost since, and the one that is due or not
\* yet due, make it; the count of lost probes is exact below its bound.
SeenSince == lost < MaxLost => seen <= (lost + 1) * ProbeInterval - timer

ReverseInv == ReverseTypes /\ SeenSince

\* A step of the receiver or the network keeps the age of the entry below that.
LEMMA ReverseStep ==
  ASSUME ReverseInv, [ReverseNext]_<<vars, reverseVars>>
  PROVE  ReverseInv'
<1>0. ProbeInterval \in Nat \ {0} /\ PeerTimeout \in Nat \ {0} /\ MaxLost \in Nat
  BY ReverseAssumption
<1> USE <1>0 DEF ReverseInv, ReverseTypes, SeenSince
<1>1. CASE Probe
  <2>1. timer' = timer + ProbeInterval /\ timer <= 0 /\ held' = held
    BY <1>1 DEF Probe
  <2>2. CASE seen' = 0 /\ lost' = 0 /\ late' = 0
    BY <2>1, <2>2
  <2>3. CASE /\ lost' = AtMost(lost + 1, MaxLost) /\ late' = AtLeast(late, - timer)
             /\ UNCHANGED seen
    <3>1. lost' \in 0..MaxLost /\ late' \in Nat /\ (lost' < MaxLost => lost' = lost + 1)
      BY <2>1, <2>3 DEF AtMost, AtLeast
    <3>2. (lost + 1 + 1) * ProbeInterval = (lost + 1) * ProbeInterval + ProbeInterval
          /\ (lost + 1) * ProbeInterval \in Int
      OBVIOUS
    <3>3. SeenSince'
      <4> SUFFICES ASSUME lost' < MaxLost PROVE seen' <= (lost' + 1) * ProbeInterval - timer'
        OBVIOUS
      <4>1. lost' = lost + 1 /\ lost < MaxLost
        BY <3>1
      <4>2. seen <= (lost + 1) * ProbeInterval - timer
        BY <4>1
      <4>3. (lost' + 1) * ProbeInterval = (lost + 1) * ProbeInterval + ProbeInterval
        BY <3>2, <4>1
      <4> QED
        BY <2>1, <2>3, <3>2, <4>2, <4>3
    <3> QED
      BY <2>1, <2>3, <3>1, <3>3
  <2> QED
    BY <1>1, <2>2, <2>3 DEF Probe, Refreshed
<1>2. CASE HoldUp \/ Release
  BY <1>2 DEF HoldUp, Release
<1>3. CASE Tick
  BY <1>3 DEF Tick, AtMost
<1>4. CASE UNCHANGED reverseVars
  BY <1>4 DEF reverseVars
<1> QED
  BY <1>1, <1>2, <1>3, <1>4 DEF ReverseNext, Reverse

\* The sender of a reverse channel keeps its peer as long as lost probes and the
\* time the receiver was held up leave one probe within PEER_TIMEOUT, for every
\* probe interval and timeout.
THEOREM PeerIsKept == ReverseSpec => []PeerKept
<1>1. ReverseInit => ReverseInv
  <2>1. PeerTimeout \in Nat /\ MaxLost \in Nat
    BY ReverseAssumption
  <2> SUFFICES ASSUME ReverseInit PROVE ReverseInv
    OBVIOUS
  <2>2. seen = PeerTimeout /\ timer = 0 /\ lost = MaxLost /\ late = 0
    BY DEF ReverseInit
  <2>3. held \in BOOLEAN
    BY DEF ReverseInit
  <2> QED
    BY <2>1, <2>2, <2>3 DEF ReverseInv, ReverseTypes, SeenSince
<1>2. ReverseInv /\ [ReverseNext]_<<vars, reverseVars>> => ReverseInv'
  BY ReverseStep
<1>3. ReverseInv => PeerKept
  <2> SUFFICES ASSUME ReverseInv,
                      (lost + 1) * ProbeInterval + AtLeast(late, - timer) < PeerTimeout
               PROVE  seen < PeerTimeout
    BY DEF PeerKept, HasPeer
  <2>1. /\ ProbeInterval \in Nat /\ PeerTimeout \in Nat /\ MaxLost \in Nat
        /\ (MaxLost + 1) * ProbeInterval >= PeerTimeout
    BY ReverseAssumption
  <2>2. AtLeast(late, - timer) \in Nat /\ AtLeast(late, - timer) >= - timer
    BY DEF ReverseInv, ReverseTypes, AtLeast
  <2>3. (lost + 1) * ProbeInterval \in Nat
    BY <2>1 DEF ReverseInv, ReverseTypes
  <2>4. lost # MaxLost
    BY <2>1, <2>2, <2>3
  <2> QED
    BY <2>1, <2>2, <2>3, <2>4 DEF ReverseInv, ReverseTypes, SeenSince
<1> QED
  BY <1>1, <1>2, <1>3, PTL DEF ReverseSpec
=============================================================================
