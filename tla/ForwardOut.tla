----------------------------- MODULE ForwardOut -----------------------------
(***************************************************************************)
(* The outbound half of a node's shell: the tasks that execute core        *)
(* actions put packets into ray_tx, forward_out of                         *)
(* crates/raynet-shell/src/remote.rs moves them to the channels' queues,   *)
(* and one worker per channel sends them and reports failures, which       *)
(* forward_out hands back to the core.  All queues are bounded and all     *)
(* sends wait.  A packet is a unit of a count: nothing here looks inside.  *)
(***************************************************************************)
EXTENDS Integers

CONSTANTS
  Channels,  \* the node's local channels
  RayCap,    \* capacity of ray_tx
  ChanCap,   \* QUEUE_SIZE of a channel
  FailCap,   \* capacity of the failures queue
  Batch      \* PACKET_BATCH_SIZE

ASSUME ForwardAssumption ==
  /\ Channels # {}
  /\ RayCap \in Nat \ {0} /\ ChanCap \in Nat \ {0}
  /\ FailCap \in Nat \ {0} /\ Batch \in Nat \ {0}

VARIABLES
  kind,     \* of the node: the failure handler of an endpoint may send
  rayq,     \* packets in ray_tx
  chq,      \* packets in each channel's queue
  failq,    \* reported failures
  pc,       \* where forward_out is
  dest,     \* the channel forward_out is sending to
  left,     \* packets of the batch not yet sent
  batch,    \* history: size of the batch
  worker    \* what each channel's worker does

vars == <<kind, rayq, chq, failq, pc, dest, left, batch, worker>>

Init ==
  /\ kind \in {"endpoint", "relay"}
  /\ rayq = 0 /\ failq = 0 /\ left = 0 /\ batch = 0
  /\ chq = [c \in Channels |-> 0]
  /\ pc = "select" /\ dest \in Channels
  /\ worker = [c \in Channels |-> "idle"]

\* execute, send_transport_actions: a task puts a packet into ray_tx.
Produce ==
  /\ rayq < RayCap
  /\ rayq' = rayq + 1
  /\ UNCHANGED <<kind, chq, failq, pc, dest, left, batch, worker>>

-----------------------------------------------------------------------------
(* forward_out *)

\* Failures come first: the select is biased.
TakeFailure ==
  /\ pc = "select" /\ failq > 0
  /\ failq' = failq - 1
  /\ pc' = "handle"
  /\ UNCHANGED <<kind, rayq, chq, dest, left, batch, worker>>

\* on_failure: the core is told; an endpoint's core may answer with a packet.
Handle ==
  /\ pc = "handle"
  /\ pc' \in IF kind = "endpoint" THEN {"select", "resend"} ELSE {"select"}
  /\ UNCHANGED <<kind, rayq, chq, failq, dest, left, batch, worker>>

\* The packet of the answer goes through ray_tx like any other.
Resend ==
  /\ pc = "resend" /\ rayq < RayCap
  /\ rayq' = rayq + 1
  /\ pc' = "select"
  /\ UNCHANGED <<kind, chq, failq, dest, left, batch, worker>>

\* Mutant: packets are preferred to failures.
BatchReadyUnbiased == pc = "select" /\ rayq > 0

\* The select polls both queues in one step here: what a worker reports between
\* the two polls is the same as if it were reported just after the batch is taken.
BatchReady == pc = "select" /\ failq = 0 /\ rayq > 0

\* Mutant: the batch takes all there is.
BatchSizeAll == rayq

BatchSize == IF rayq < Batch THEN rayq ELSE Batch

TakeBatch ==
  /\ BatchReady
  /\ left' = BatchSize /\ batch' = BatchSize
  /\ rayq' = rayq - BatchSize
  /\ pc' = "send" /\ dest' \in Channels
  /\ UNCHANGED <<kind, chq, failq, worker>>

\* ChannelSenders::send of the next packet of the batch: waits for room.  It
\* fails only for a channel the node does not have, which the cores never name,
\* or whose worker has ended, which none does while forward_out runs.
Send ==
  /\ pc = "send" /\ chq[dest] < ChanCap
  /\ chq' = [chq EXCEPT ![dest] = @ + 1]
  /\ left' = left - 1
  /\ IF left = 1 THEN pc' = "select" /\ dest' = dest
     ELSE pc' = pc /\ dest' \in Channels
  /\ UNCHANGED <<kind, rayq, failq, batch, worker>>

ForwardOut == TakeFailure \/ Handle \/ Resend \/ TakeBatch \/ Send

-----------------------------------------------------------------------------
(* The worker of a channel. *)

WorkerTake(c) ==
  /\ worker[c] = "idle" /\ chq[c] > 0
  /\ chq' = [chq EXCEPT ![c] = @ - 1]
  /\ worker' = [worker EXCEPT ![c] = "sending"]
  /\ UNCHANGED <<kind, rayq, failq, pc, dest, left, batch>>

\* send_to succeeds or fails.
WorkerSent(c) ==
  /\ worker[c] = "sending"
  /\ \E next \in {"idle", "report"} : worker' = [worker EXCEPT ![c] = next]
  /\ UNCHANGED <<kind, rayq, chq, failq, pc, dest, left, batch>>

WorkerReport(c) ==
  /\ worker[c] = "report" /\ failq < FailCap
  /\ failq' = failq + 1
  /\ worker' = [worker EXCEPT ![c] = "idle"]
  /\ UNCHANGED <<kind, rayq, chq, pc, dest, left, batch>>

Worker(c) == WorkerTake(c) \/ WorkerSent(c) \/ WorkerReport(c)

Next == Produce \/ ForwardOut \/ \E c \in Channels : Worker(c)

Spec == Init /\ [][Next]_vars

\* Every task is scheduled; nothing is assumed of the producers.
FairSpec == Spec /\ WF_vars(ForwardOut) /\ \A c \in Channels : WF_vars(Worker(c))

-----------------------------------------------------------------------------
(* Properties. *)

\* Types; no queue exceeds its capacity.
TypeOK ==
  /\ kind \in {"endpoint", "relay"}
  /\ rayq \in 0..RayCap /\ failq \in 0..FailCap
  /\ chq \in [Channels -> 0..ChanCap]
  /\ pc \in {"select", "handle", "resend", "send"} /\ dest \in Channels
  /\ batch \in 0..Batch /\ left \in 0..batch
  /\ pc = "send" <=> left > 0
  /\ worker \in [Channels -> {"idle", "sending", "report"}]

\* forward_out and a worker never wait for each other: forward_out for room in
\* the queue only that worker empties, the worker for room in the failures
\* queue only forward_out empties.
NoMutualWait ==
  \A c \in Channels :
    ~ (/\ pc = "send" /\ dest = c /\ chq[c] = ChanCap
       /\ worker[c] = "report" /\ failq = FailCap)

\* forward_out always returns to its select: every enqueue ends.  The one way
\* for it to stay away is that of an endpoint whose failure handler waits for
\* room in ray_tx, which only forward_out itself could make.
ForwardReturns ==
  \/ []<>(pc = "select")
  \/ <>[](kind = "endpoint" /\ pc = "resend" /\ rayq = RayCap)
=============================================================================
