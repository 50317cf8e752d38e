------------------------------ MODULE PollLoop ------------------------------
(***************************************************************************)
(* Time in the endpoint: the poll task of crates/raynet-shell/src/remote.rs *)
(* asks the core for its next deadline, sleeps, and polls; the core's      *)
(* deadlines are those of a session's KCP timers (flush interval, resend   *)
(* times, fast resend), of its close and of its tombstone.  Other tasks    *)
(* call the core in between and then notify the poll task.                 *)
(*                                                                         *)
(* All times are distances from the present instant, negative when past,   *)
(* so no clock is bounded.  One conversation at a time; the peer's window  *)
(* is open (module Kcp closes it).                                         *)
(***************************************************************************)
EXTENDS Integers, Sequences, FiniteSetsExt

CONSTANTS
  Interval,    \* KcpTiming.interval
  MinRto,      \* rx_minrto: rto_nodelay
  MaxRto,      \* rto_max
  FastResend,  \* fast_resend
  FastLimit,   \* KCP_FASTACK_LIMIT
  SendWindow,  \* send_window
  CloseTicks,  \* close_deadline_ms
  TombTicks,   \* SESSION_TOMBSTONE_MS
  MaxSleep,    \* the longest sleep before a deadline, 100 ms
  IdleSleep,   \* the sleep without a deadline, 20 ms
  Stall,       \* bound: how long one round of the loop waits, for the lock and in execute
  MaxOwed      \* bound: tasks between their call of the core and their notification

ASSUME PollAssumption ==
  /\ {Interval, MinRto, MaxRto, FastResend, FastLimit, SendWindow} \subseteq Nat \ {0}
  /\ {CloseTicks, TombTicks, MaxSleep, IdleSleep, MaxOwed} \subseteq Nat \ {0}
  /\ MinRto <= MaxRto
  \* A round of the loop is shorter than the time between two flushes.  The code
  \* has no such bound: execute waits for room in ray_tx and in the input queue of
  \* a session whose CloseSession poll has returned.
  /\ Stall \in 1..(Interval - 1)

VARIABLES
  phase,   \* of the conversation: None, Open, ClosingLocal, ClosingRemote, Tombstone
  timer,   \* to the close deadline or the end of the tombstone
  queued,  \* close_queued
  flush,   \* to ts_flush
  segs,    \* snd_buf, oldest first
  pc,      \* where the poll task is: lock, poll, exec or sleep
  wake,    \* to the end of the sleep
  stall,   \* since the loop read `now', while it is awake
  permit,  \* the permit stored in deadline_changed
  owed     \* tasks that called the core and have not notified yet

core == <<phase, timer, queued, flush, segs>>
loop == <<pc, wake, stall>>
vars == <<core, loop, permit, owed>>

-----------------------------------------------------------------------------
(* KCP timers; k is a record of flush and segs.  r is rx_rto, of which only    *)
(* the range matters that update_ack clamps it to.                             *)

Rtos == MinRto..MaxRto

\* due: to resendts; fast: fastack, as far as it matters.
Segment(r) == [due |-> r, rto |-> r, xmit |-> 1, fast |-> 0]

Transmitted(s) == [s EXCEPT !.xmit = Min({@ + 1, FastLimit + 1})]

\* Mutant: the timeout grows without limit.
FlushSegmentUncapped(s) ==
  IF s.due <= 0
  THEN Transmitted([s EXCEPT !.rto = @ + @ \div 2, !.due = s.rto + s.rto \div 2])
  ELSE s

\* flush: resend after the timeout with a longer one, or after enough later acks.
FlushSegment(s) ==
  LET backoff == Min({s.rto + s.rto \div 2, MaxRto})
  IN  CASE s.due <= 0 -> Transmitted([s EXCEPT !.rto = backoff, !.due = backoff])
        [] s.due > 0 /\ s.fast >= FastResend /\ s.xmit <= FastLimit ->
             Transmitted([s EXCEPT !.due = s.rto, !.fast = 0])
        [] OTHER -> s

Flush(k) == [k EXCEPT !.segs = [i \in DOMAIN @ |-> FlushSegment(@[i])]]

\* Mutant: the flush waits until ts_flush is past, check does not.
UpdateLate(k) ==
  IF k.flush < 0 THEN Flush([k EXCEPT !.flush = IF @ + Interval <= 0 THEN Interval ELSE @ + Interval])
  ELSE k

\* update: flush when ts_flush has come, and set the next one.
Update(k) ==
  IF k.flush <= 0 THEN Flush([k EXCEPT !.flush = IF @ + Interval <= 0 THEN Interval ELSE @ + Interval])
  ELSE k

FlushNow(k) == Flush(Update(k))

\* parse_ack, parse_una and parse_fastack: acked are removed, those in passed
\* count one more acknowledgement of a later segment.
Acknowledge(acked, passed) ==
  LET counted(i) == IF i \in passed THEN [segs[i] EXCEPT !.fast = Min({@ + 1, FastResend})]
                    ELSE segs[i]
      kept[i \in 0..Len(segs)] ==
        IF i = 0 THEN <<>>
        ELSE IF i \in acked THEN kept[i - 1] ELSE Append(kept[i - 1], counted(i))
  IN  kept[Len(segs)]

\* check, as seen by a caller whose `now' is age in the past.
Check(age) ==
  LET dues == {segs[i].due + age : i \in DOMAIN segs}
  IN  IF flush + age <= 0 \/ \E d \in dues : d <= 0 THEN 0
      ELSE Min(dues \cup {flush + age, Interval})

-----------------------------------------------------------------------------
(* The endpoint's timers; st is a record of phase, timer, queued, flush and segs. *)

Closing == {"ClosingLocal", "ClosingRemote"}

State == [phase |-> phase, timer |-> timer, queued |-> queued, flush |-> flush, segs |-> segs]

\* Mutant: the close deadline is no deadline of the loop.
NextDeadlinesNoClose(age) ==
  (IF segs # <<>> THEN {Check(age)} ELSE {}) \cup
  (IF phase = "Tombstone" THEN {timer + age} ELSE {})

\* next_deadline, as distances from the caller's `now', for one conversation; the
\* deadlines of samples, keepalives, windows and PendingRemote sessions, which
\* only make the loop poll earlier, are left out.
NextDeadlines(age) ==
  (IF segs # <<>> THEN {Check(age)} ELSE {}) \cup
  (IF phase \in Closing \cup {"Tombstone"} THEN {timer + age} ELSE {})

\* queue_local_close
QueueLocalClose(st, r) ==
  IF st.phase = "ClosingLocal" /\ ~ st.queued /\ st.timer > 0 /\ Len(st.segs) < SendWindow
  THEN [FlushNow([st EXCEPT !.segs = Append(@, Segment(r))]) EXCEPT !.queued = TRUE]
  ELSE st

Done(st) ==
  \/ st.phase \in Closing /\ st.timer <= 0
  \/ st.phase = "ClosingLocal" /\ st.segs = <<>>

\* finish_closed_session
Finish(st) ==
  IF Done(st) THEN [st EXCEPT !.phase = "Tombstone", !.timer = TombTicks, !.queued = FALSE, !.segs = <<>>]
  ELSE st

Store(st) ==
  /\ phase' = st.phase /\ timer' = st.timer /\ queued' = st.queued
  \* Without a session there are no KCP timers.
  /\ segs' = st.segs
  /\ flush' = IF st.phase \in {"None", "Tombstone"} THEN Interval ELSE st.flush

\* The endpoint's poll: tombstones.retain, queue_local_close, update, finish.
PollCore(r) ==
  IF phase = "Tombstone" /\ timer <= 0 THEN [State EXCEPT !.phase = "None", !.timer = 0]
  ELSE IF phase \in {"None", "Tombstone"} THEN State
  ELSE Finish(Update(QueueLocalClose(State, r)))

Init ==
  /\ phase = "None" /\ timer = 0 /\ queued = FALSE
  /\ flush = Interval /\ segs = <<>>
  /\ pc = "lock" /\ wake = 0 /\ stall = 0
  /\ permit = FALSE /\ owed = 0

-----------------------------------------------------------------------------
(* Other tasks: a call of the core under the lock, then notify_one. *)

Call == owed < MaxOwed /\ owed' = owed + 1 /\ UNCHANGED <<loop, permit>>

\* SessionOpen: the new session sends its Open; its first update sets ts_flush.
SessionOpen(r) ==
  /\ phase = "None" /\ Call
  /\ Store([State EXCEPT !.phase = "Open", !.flush = Interval, !.segs = <<Segment(r)>>])

SessionWrite(r) ==
  /\ phase = "Open" /\ Len(segs) < SendWindow /\ Call
  /\ Store(FlushNow([State EXCEPT !.segs = Append(@, Segment(r))]))

SessionClose(r) ==
  /\ phase = "Open" /\ Call
  /\ Store(QueueLocalClose([State EXCEPT !.phase = "ClosingLocal", !.timer = CloseTicks], r))

\* A packet of the peer: some segments are acknowledged, and it may bring the
\* peer's Close.
Receive(acked, passed, close, r) ==
  /\ phase \in Closing \cup {"Open"} /\ (close => phase = "Open")
  /\ Call
  /\ LET input == FlushNow([State EXCEPT !.segs = Acknowledge(acked, passed)])
         read  == IF close
                  THEN [input EXCEPT !.phase = "ClosingRemote", !.timer = CloseTicks] ELSE input
     IN  Store(Finish(QueueLocalClose(read, r)))

\* Mutant: nobody tells the poll task that its deadline may have changed.
NotifyNever == owed > 0 /\ owed' = owed - 1 /\ UNCHANGED <<core, loop, permit>>

Notify == owed > 0 /\ owed' = owed - 1 /\ permit' = TRUE /\ UNCHANGED <<core, loop>>

-----------------------------------------------------------------------------
(* The poll task. *)

Top == pc' = "lock" /\ stall' = 0 /\ wake' = 0

\* The lock is there: next_deadline(now), where now is stall in the past.
Decide ==
  /\ pc = "lock"
  /\ LET deadlines == NextDeadlines(stall)
     IN  IF \E d \in deadlines : d <= 0 THEN pc' = "poll" /\ UNCHANGED <<wake, stall>>
         ELSE /\ pc' = "sleep" /\ stall' = 0
              /\ wake' = IF deadlines = {} THEN IdleSleep ELSE Min(deadlines \cup {MaxSleep})
  /\ UNCHANGED <<core, permit, owed>>

\* The lock is there again: poll at the present time.
Poll ==
  /\ pc = "poll" /\ pc' = "exec"
  /\ \E r \in Rtos : Store(PollCore(r))
  /\ UNCHANGED <<wake, stall, permit, owed>>

\* The actions are executed and the loop starts again.
Execute == pc = "exec" /\ Top /\ UNCHANGED <<core, permit, owed>>

\* The select ends by the permit or by the sleep.
Wake ==
  /\ pc = "sleep" /\ Top
  /\ \/ permit /\ permit' = FALSE
     \/ wake = 0 /\ permit' = permit
  /\ UNCHANGED <<core, owed>>

Loop == Decide \/ Poll \/ Execute \/ Wake

\* The latest a deadline is served: the sleep may be longer by one round's
\* stall, the next round takes another, and a resend waits for ts_flush.
Late == Interval + 2 * Stall

Past(t, bound) == Max({t - 1, -bound})

\* A millisecond.  The sleep ends on time, a notification follows the call
\* without an await, and one round of the loop waits Stall at most.  A ts_flush
\* that is Interval past or more is as good as any older one (also for the
\* resynchronisation after 10 s).
Tick ==
  /\ owed = 0
  /\ IF pc = "sleep" THEN wake > 0 /\ ~ permit ELSE stall < Stall
  /\ IF pc = "sleep" THEN wake' = wake - 1 /\ stall' = stall ELSE stall' = stall + 1 /\ wake' = wake
  /\ timer' = IF phase \in Closing \cup {"Tombstone"} THEN Past(timer, Late + 1) ELSE timer
  /\ flush' = IF phase \in {"None", "Tombstone"} THEN flush ELSE Past(flush, Interval)
  /\ segs' = [i \in DOMAIN segs |-> [segs[i] EXCEPT !.due = Past(@, Late + 1)]]
  /\ UNCHANGED <<phase, queued, pc, permit, owed>>

Next ==
  \/ \E r \in Rtos : SessionOpen(r) \/ SessionWrite(r) \/ SessionClose(r)
  \/ \E r \in Rtos, close \in BOOLEAN, acked \in SUBSET DOMAIN segs :
       \E passed \in SUBSET (DOMAIN segs \ acked) : Receive(acked, passed, close, r)
  \/ Notify
  \/ Loop
  \/ Tick

\* Every task is scheduled, and time goes on: a millisecond has room for finitely
\* many packets.  Nothing is assumed of the peer or of the proxy.
Spec == Init /\ [][Next]_vars /\ WF_vars(Notify) /\ WF_vars(Loop) /\ []<><<Tick>>_vars

-----------------------------------------------------------------------------
(* Properties. *)

\* Types; a session without KCP state has no segments.
TypeOK ==
  /\ phase \in {"None", "Open", "Tombstone"} \cup Closing
  /\ timer \in -(Late + 1)..Max({CloseTicks, TombTicks}) /\ queued \in BOOLEAN
  /\ flush \in -Interval..Interval
  /\ Len(segs) <= SendWindow
  /\ \A i \in DOMAIN segs :
       segs[i] \in [due : -(Late + 1)..MaxRto, rto : Rtos,
                    xmit : 1..(FastLimit + 1), fast : 0..FastResend]
  /\ pc \in {"lock", "poll", "exec", "sleep"} /\ wake \in 0..Max({MaxSleep, IdleSleep})
  /\ stall \in 0..Stall /\ permit \in BOOLEAN /\ owed \in 0..MaxOwed

\* No deadline is slept over, although the loop reads `now' before it waits for
\* the lock and other tasks move deadlines while it sleeps: a segment is resent,
\* a close ended and a tombstone removed within a flush interval and two rounds.
DeadlinesMet ==
  /\ \A i \in DOMAIN segs : segs[i].due >= -Late
  /\ phase \in Closing \cup {"Tombstone"} => timer >= -2 * Stall

\* check and update agree on when there is something to do, but for one case: a
\* poll changes nothing only if another task served the deadline first, or if a
\* resend time has come before ts_flush.
IdlePollOnlyBeforeFlush ==
  [][pc = "poll" /\ pc' = "exec" /\ ~ permit /\ owed = 0 /\ UNCHANGED core =>
       flush > 0 /\ \E i \in DOMAIN segs : segs[i].due <= 0]_vars

\* A closing session ends even if the peer never answers: its deadline is one
\* the loop waits for.  Of the local side this takes for granted that execute
\* returns (Stall), so that no proxy leaves its input queue full for ever.
ClosingEnds == (phase \in Closing) ~> (phase \notin Closing)
=============================================================================
