------------------------------ MODULE Feedback ------------------------------
(***************************************************************************)
(* Route feedback of crates/raynet-core/src/endpoint.rs between two        *)
(* endpoints: which packets become samples, the chain of replies, expiry,  *)
(* and what a local send failure does to a sample.                         *)
(*                                                                         *)
(* Timers hold the ticks left, so no clock is bounded.  A packet is in     *)
(* `flight' from the core's action until it is received: until then its    *)
(* channel worker may report its failure, and a lost packet is one that    *)
(* stays there.  The network delays and reorders; duplicates are dropped   *)
(* by the sequence filter.  Whether a route exists is a free choice        *)
(* (module RoutePlanner).                                                  *)
(***************************************************************************)
EXTENDS Integers, FiniteSets

CONSTANTS
  Interval,    \* route.feedback_interval_ms
  Timeout,     \* route.feedback_timeout_ms
  KeepTicks,   \* keepalive_interval_ms of each endpoint, 0 for none
  Senders,     \* endpoints that have session data to send
  Late,        \* bound: ticks by which a poll comes after a sample's deadline
  MaxNo,       \* bound: packets an endpoint stamps
  MaxFails     \* bound: local failures of samples

Endpoints == {"A", "B"}

ASSUME FeedbackAssumption ==
  /\ {Interval, Timeout} \subseteq Nat \ {0} /\ {Late, MaxFails} \subseteq Nat
  /\ KeepTicks \in [Endpoints -> Nat] /\ MaxNo \in [Endpoints -> Nat \ {0}]
  /\ Senders \subseteq Endpoints

VARIABLES
  due,      \* ticks until next_feedback_at, 0 when a sample is due
  out,      \* outstanding: packet number and ticks until a poll has removed it
  keep,     \* ticks until next_keepalive_at
  nextNo,   \* next_seq_no
  flight,   \* packets handed to the shell and not received yet
  fails,    \* local failures of samples so far
  counted   \* history: note_feedback calls for each packet

vars == <<due, out, keep, nextNo, flight, fails, counted>>

Peer(e) == IF e = "A" THEN "B" ELSE "A"
Numbers == UNION {0..(MaxNo[e] - 1) : e \in Endpoints}

Init ==
  /\ due = [e \in Endpoints |-> 0]
  /\ out = [e \in Endpoints |-> {}]
  /\ keep = KeepTicks
  /\ nextNo = [e \in Endpoints |-> 0]
  /\ flight = {} /\ fails = 0
  /\ counted = [e \in Endpoints |-> [n \in Numbers |-> 0]]

-----------------------------------------------------------------------------
(* Sending. *)

FeedbackDue(e) == due[e] = 0

\* hops counts the replies since the chain began; the code does not see it.
Packet(e, no, kind, depth, answers, hops) ==
  [from |-> e, no |-> no, kind |-> kind, depth |-> depth, answers |-> answers, hops |-> hops]

Without(samples, no) == {s \in samples : s.no # no}

\* A poll may remove the sample Timeout ticks from now, and has Late ticks after
\* that: a sample is past its deadline once Late or fewer are left.
NewSample(no) == [no |-> no, left |-> Timeout + Late]
Expired(samples) == {s \in samples : s.left <= Late}

\* send_envelope of p: a sample is recorded and uses up the budget.  Without a
\* route nothing is sent and the keepalive is left at `idle'.  `samples' and
\* `budget' are e's state so far.
SendEnvelope(e, p, sample, samples, budget, rest, idle) ==
  \/ /\ flight' = rest \cup {p}
     /\ keep' = [keep EXCEPT ![e] = KeepTicks[e]]
     /\ IF sample
        THEN /\ out' = [out EXCEPT ![e] = Without(samples, p.no) \cup {NewSample(p.no)}]
             /\ \E jitter \in 0..(Interval - 1) : due' = [due EXCEPT ![e] = Interval + jitter]
        ELSE /\ out' = [out EXCEPT ![e] = samples]
             /\ due' = [due EXCEPT ![e] = budget]
  \/ /\ flight' = rest
     /\ keep' = [keep EXCEPT ![e] = idle]
     /\ out' = [out EXCEPT ![e] = samples]
     /\ due' = [due EXCEPT ![e] = budget]

Stamp(e) == nextNo[e] < MaxNo[e] /\ nextNo' = [nextNo EXCEPT ![e] = @ + 1]

\* send_kcp_packets: a KCP packet is a sample if one is due.
SendKcp(e) ==
  /\ Stamp(e)
  /\ LET sample == FeedbackDue(e)
     IN  SendEnvelope(e, Packet(e, nextNo[e], "Kcp", IF sample THEN 1 ELSE 0, -1, 0),
                      sample, out[e], due[e], flight, keep[e])
  /\ UNCHANGED <<fails, counted>>

CountAll(e, gone) ==
  [counted EXCEPT ![e] = [n \in Numbers |-> IF \E s \in gone : s.no = n THEN @[n] + 1 ELSE @[n]]]

KeepAliveDue(e) == KeepTicks[e] # 0 /\ keep[e] = 0

\* poll: expire_feedback, which counts a failure for each expired sample, then
\* the keepalive, whose timer restarts with or without a route.
Poll(e) ==
  LET samples == out[e] \ Expired(out[e])
      sample  == FeedbackDue(e)
  IN  /\ KeepAliveDue(e) \/ Expired(out[e]) # {}
      /\ counted' = CountAll(e, Expired(out[e]))
      /\ IF KeepAliveDue(e) /\ nextNo[e] < MaxNo[e]
         THEN /\ Stamp(e)
              /\ SendEnvelope(e, Packet(e, nextNo[e], "KeepAlive", IF sample THEN 1 ELSE 0, -1, 0),
                              sample, samples, due[e], flight, KeepTicks[e])
         ELSE /\ out' = [out EXCEPT ![e] = samples]
              /\ UNCHANGED <<due, keep, nextNo, flight>>
      /\ UNCHANGED fails

-----------------------------------------------------------------------------
(* A local failure. *)

\* Mutant: every failure lets the next packet be a sample.
BudgetAlwaysReset(was, budget) == 0

\* next_feedback_at, reset by the failure of a sample.
BudgetAfter(was, budget) == IF was THEN 0 ELSE budget

\* TransportPacketSendFailed: the sample ends without an observation, the next
\* packet may be one, and a KCP packet is sent again under its own stamp.
SendFailed(p) ==
  LET e       == p.from
      was     == \E s \in out[e] : s.no = p.no
      samples == Without(out[e], p.no)
      budget  == BudgetAfter(was, due[e])
  IN  /\ was => fails < MaxFails
      /\ fails' = IF was THEN fails + 1 ELSE fails
      /\ IF p.kind = "Kcp"
         THEN SendEnvelope(e, p, was, samples, budget, flight \ {p}, keep[e])
         ELSE /\ flight' = flight \ {p}
              /\ out' = [out EXCEPT ![e] = samples]
              /\ due' = [due EXCEPT ![e] = budget]
              /\ keep' = keep
      /\ UNCHANGED <<nextNo, counted>>

-----------------------------------------------------------------------------
(* Receiving. *)

\* Mutant: a chain is continued as long as samples are due.
ContinuesAlways(depth, isDue) == isDue

\* Whether the reply to a packet of this depth asks for a reply itself.
Continues(depth, isDue) == depth < 3 /\ isDue

\* Mutant: an answered sample stays outstanding until it expires.
AnsweredKept(samples, p) == samples

\* What a RouteReply leaves outstanding.
Answered(samples, p) == IF p.kind = "Reply" THEN Without(samples, p.answers) ELSE samples

Receive(p) ==
  LET e       == Peer(p.from)
      samples == Answered(out[e], p)
      sample  == Continues(p.depth, FeedbackDue(e))
      reply   == Packet(e, nextNo[e], "Reply", IF sample THEN p.depth + 1 ELSE 0, p.no, p.hops + 1)
  IN  /\ counted' = IF p.kind = "Reply" THEN CountAll(e, {s \in out[e] : s.no = p.answers})
                    ELSE counted
      /\ IF p.depth # 0
         THEN Stamp(e) /\ SendEnvelope(e, reply, sample, samples, due[e], flight \ {p}, keep[e])
         ELSE /\ out' = [out EXCEPT ![e] = samples]
              /\ flight' = flight \ {p} /\ UNCHANGED <<due, keep, nextNo>>
      /\ UNCHANGED fails

Less(n) == IF n > 0 THEN n - 1 ELSE 0

\* The poll task may be held up, by Late ticks after the deadline of a sample;
\* keepalives may be late without a limit.
Tick ==
  /\ \A e \in Endpoints : \A s \in out[e] : s.left > 0
  /\ due' = [e \in Endpoints |-> Less(due[e])]
  /\ out' = [e \in Endpoints |-> {[s EXCEPT !.left = @ - 1] : s \in out[e]}]
  /\ keep' = [e \in Endpoints |-> Less(keep[e])]
  /\ UNCHANGED <<nextNo, flight, fails, counted>>

Next ==
  \/ \E e \in Senders : SendKcp(e)
  \/ \E e \in Endpoints : Poll(e)
  \/ \E p \in flight : SendFailed(p)
  \/ \E p \in flight : Receive(p)
  \/ Tick

Spec == Init /\ [][Next]_vars

-----------------------------------------------------------------------------
(* Properties. *)

\* One observation per sample: a packet that was answered is not counted as
\* lost when its deadline passes, and a late answer to an expired sample, or to
\* one whose local failure was reported, changes nothing.
CountedOnce == \A e \in Endpoints, n \in Numbers : counted[e][n] <= 1

\* Feedback dies out by itself: one sample causes at most three replies,
\* however long both sides have budget for samples.
ChainsEnd == \A p \in flight : p.hops <= 3

\* Samples outstanding at once are bounded by interval, timeout and the lateness
\* of poll, and the local failure of a sample, which lets the next one follow at
\* once, adds one at most: failures that are reported late do not pile up beyond
\* their number, and failures of other packets add nothing.
MaxOutstanding ==
  \A e \in Endpoints :
    Cardinality(out[e]) <= (Timeout + Late) \div Interval + 1 + fails
=============================================================================
