--------------------------- MODULE SequenceFilter ---------------------------
(***************************************************************************)
(* The duplicate and freshness filter of crates/raynet-core/src/sequence.rs*)
(* as its two callers use it: check_and_insert for every decoded packet,   *)
(* remove_expired from poll (endpoint) or after a packet (relay).          *)
(*                                                                         *)
(* Time is counted in ticks of 2^TS_SHIFT ms.  `now' is the tick the       *)
(* receiver's clock really shows and p.time the one the sender's clock     *)
(* showed; the code only ever sees both modulo TimeMod (2^TIME_BITS).      *)
(***************************************************************************)
EXTENDS Integers, FiniteSets

CONSTANTS
  SeqIds,      \* sequence ids: one per start of a sending process
  Packets,     \* stamped packets the network may deliver, any number of times
  WindowBits,  \* WINDOW_BITS
  TimeMod,     \* 2^TIME_BITS
  MaxPast,     \* MAX_PAST_TICKS
  MaxFuture,   \* MAX_FUTURE_TICKS
  SoftCap,     \* the cap given to remove_expired: 1 at an endpoint, 0 at a relay
  First, Last  \* the ticks all clocks stay within while this process runs

ASSUME WindowAssumption == WindowBits \in Nat \ {0}

ASSUME TimeAssumption ==
  /\ TimeMod \in Nat \ {0} /\ TimeMod % 2 = 0
  /\ MaxPast \in Nat /\ MaxFuture \in Nat /\ SoftCap \in Nat
  /\ First \in Nat /\ Last \in Nat /\ First <= Last
  \* Half a turn of the 26-bit counter is 2^25 * 1.024 s, more than a year.
  /\ 2 * (Last - First) < TimeMod

ASSUME PacketAssumption ==
  Packets \subseteq [id : SeqIds, no : Nat, time : First..Last]

ASSUME FiniteAssumption == IsFiniteSet(SeqIds)

VARIABLES
  windows,  \* the HashMap: a window for each sequence id it holds
  now,      \* the receiver's clock
  accepts   \* history: how often each packet passed the filter

vars == <<windows, now, accepts>>

-----------------------------------------------------------------------------
(* The window of one sequence id. *)

NoWindow == [max |-> -1, newest |-> 0, bits |-> {}]

Window == [max : Nat, newest : 0..(TimeMod - 1), bits : SUBSET (0..(WindowBits - 1))]

Index(seqNo) == seqNo % WindowBits

NewWindow(seqNo, time) == [max |-> seqNo, newest |-> time, bits |-> {Index(seqNo)}]

\* The signed distance of two time stamps on the circle of TimeMod ticks.
TimeDiff(later, earlier) ==
  LET difference == (later - earlier) % TimeMod
  IN  IF 2 * difference >= TimeMod THEN difference - TimeMod ELSE difference

IsReplay(w, seqNo) ==
  /\ seqNo <= w.max
  /\ w.max - seqNo >= WindowBits \/ Index(seqNo) \in w.bits

\* Mutant: the range starts one bit late.
ClearedAfterShort(oldMax, count) == {Index(oldMax + i) : i \in 2..count}

\* The bits that stand for the `count' numbers after oldMax.
ClearedAfter(oldMax, count) == {Index(oldMax + i) : i \in 1..count}

\* Mutant: a jump of the window forgets what it slides over.
KeptBitsForget(w, seqNo) == IF seqNo <= w.max THEN w.bits ELSE {}

KeptBits(w, seqNo) ==
  IF seqNo <= w.max THEN w.bits
  ELSE IF seqNo - w.max >= WindowBits THEN {}
  ELSE w.bits \ ClearedAfter(w.max, seqNo - w.max)

\* Mutant: the time of the latest arrival replaces the newest one.
NewestTimeOverwrite(w, time) == time

NewestTime(w, time) == IF TimeDiff(time, w.newest) > 0 THEN time ELSE w.newest

Insert(w, seqNo, time) ==
  [max    |-> IF seqNo <= w.max THEN w.max ELSE seqNo,
   newest |-> NewestTime(w, time),
   bits   |-> KeptBits(w, seqNo) \cup {Index(seqNo)}]

-----------------------------------------------------------------------------
(* The filter. *)

\* Mutant: the stamp is not reduced to TIME_BITS.
WireUnmasked(tick) == tick

Wire(tick) == tick % TimeMod

Open == {id \in SeqIds : windows[id] # NoWindow}

Fresh(current, time) ==
  /\ TimeDiff(current, time) <= MaxPast
  /\ TimeDiff(current, time) >= -MaxFuture

\* check_and_insert: Ok, Err(Freshness) or Err(Replay).
Verdict(p) ==
  IF ~ Fresh(Wire(now), Wire(p.time)) THEN "freshness"
  ELSE IF p.id \in Open /\ IsReplay(windows[p.id], p.no) THEN "replay"
  ELSE "ok"

Stored(p) ==
  IF p.id \in Open THEN Insert(windows[p.id], p.no, Wire(p.time))
  ELSE NewWindow(p.no, Wire(p.time))

ExpiredAt(current) ==
  {id \in Open : TimeDiff(current, windows[id].newest) > MaxPast}

MinOf(a, b) == IF a <= b THEN a ELSE b

RemoveCount(current) ==
  IF Cardinality(Open) <= SoftCap THEN 0
  ELSE MinOf(Cardinality(ExpiredAt(current)), Cardinality(Open) - SoftCap)

\* Oldest first; windows of equal age are removed in the map's arbitrary order.
Removable(current) ==
  {S \in SUBSET ExpiredAt(current) :
     /\ Cardinality(S) = RemoveCount(current)
     /\ \A id \in S, kept \in ExpiredAt(current) \ S :
          TimeDiff(current, windows[id].newest) >= TimeDiff(current, windows[kept].newest)}

\* next_expiry_delay_ms in ticks, None as -1: the least of the windows' delays.
ExpiryDelays(current) ==
  {LET left == MaxPast + 1 - TimeDiff(current, windows[id].newest)
   IN  IF left < 0 THEN 0 ELSE left : id \in Open}

\* Mutant: the delay leads to the last tick on which the window is kept.
NextExpiryDelayShort(current) ==
  IF Cardinality(Open) <= SoftCap THEN -1
  ELSE LET delays == {IF d = 0 THEN 0 ELSE d - 1 : d \in ExpiryDelays(current)}
       IN  CHOOSE d \in delays : \A e \in delays : d <= e

NextExpiryDelay(current) ==
  IF Cardinality(Open) <= SoftCap THEN -1
  ELSE CHOOSE d \in ExpiryDelays(current) : \A e \in ExpiryDelays(current) : d <= e

-----------------------------------------------------------------------------
(* Steps. *)

Init ==
  /\ windows = [id \in SeqIds |-> NoWindow]
  /\ now \in First..Last
  /\ accepts = [p \in Packets |-> 0]

\* A delivered packet that passes; one that is dropped leaves the filter alone.
Receive(p) ==
  /\ Verdict(p) = "ok"
  /\ windows' = [windows EXCEPT ![p.id] = Stored(p)]
  /\ accepts' = [accepts EXCEPT ![p] = @ + 1]
  /\ UNCHANGED now

RemoveExpired ==
  \E S \in Removable(Wire(now)) :
    /\ S # {}
    /\ windows' = [id \in SeqIds |-> IF id \in S THEN NoWindow ELSE windows[id]]
    /\ UNCHANGED <<now, accepts>>

\* The monotonic clock; it never runs back.
Tick ==
  /\ now < Last
  /\ now' = now + 1
  /\ UNCHANGED <<windows, accepts>>

Next == (\E p \in Packets : Receive(p)) \/ RemoveExpired \/ Tick

Spec == Init /\ [][Next]_vars

-----------------------------------------------------------------------------
(* Properties. *)

\* Types of the filter's state: every stored window is well formed.
TypeOK ==
  /\ windows \in [SeqIds -> Window \cup {NoWindow}]
  /\ now \in First..Last
  /\ accepts \in [Packets -> Nat]

\* At-most-once delivery: however the network duplicates, delays and reorders,
\* check_and_insert lets each stamped packet through once, also across window
\* slides, removal and re-creation of its window, and the wrap of the time stamp.
NoReplay == \A p \in Packets : accepts[p] <= 1

\* No false replay: a bit that is set stands for a packet inside the window
\* that was accepted, so no packet is refused for a number it does not carry
\* (clear_after must clear exactly what the window slides over).
BitsJustified ==
  \A id \in Open : \A b \in windows[id].bits :
    \E p \in Packets :
      /\ p.id = id /\ accepts[p] > 0 /\ Index(p.no) = b
      /\ p.no <= windows[id].max /\ windows[id].max - p.no < WindowBits

\* The deadline next_expiry_delay_ms announces is the first tick at which
\* remove_expired removes something: an earlier wake-up would spin, a later
\* one would keep dead windows over the cap.
ExpiryDeadlineExact ==
  LET delay == NextExpiryDelay(Wire(now))
  IN  /\ delay = 0 <=> RemoveCount(Wire(now)) > 0
      /\ delay > 0 /\ now + delay <= Last =>
           /\ RemoveCount(Wire(now + delay)) > 0
           /\ RemoveCount(Wire(now + delay - 1)) = 0

-----------------------------------------------------------------------------
(* The inductive strengthening of NoReplay, proved in SequenceFilterProofs. *)

Covered(w, seqNo) == IsReplay(w, seqNo)

\* `tick' is the real time behind the window's newest stamp.
NewestIs(w, tick) == w.newest = Wire(tick)

\* Every packet that passed is too old to pass again, or its window knows it.
Remembered(p, tick) ==
  \/ now - p.time > MaxPast
  \/ p.id \in Open /\ p.time <= tick /\ Covered(windows[p.id], p.no)

Remembers(id) ==
  \E tick \in First..Last :
    /\ id \in Open => NewestIs(windows[id], tick)
    /\ \A p \in Packets : p.id = id /\ accepts[p] > 0 => Remembered(p, tick)

IInv == TypeOK /\ NoReplay /\ \A id \in SeqIds : Remembers(id)
=============================================================================
