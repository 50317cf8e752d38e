--------------------------- MODULE SessionIoProofs ---------------------------
(***************************************************************************)
(* What the tasks of one session in the endpoint's shell guarantee for     *)
(* every send window, queue capacity and batch: no session stays open in   *)
(* the core without its shell, and no blocked writer misses its wake-up.   *)
(***************************************************************************)
EXTENDS SessionIo, TLAPS

\* Message m is somewhere in the queue q.
Holds(q, m) == \E i \in 1..Len(q) : q[i] = m

Actions == Kinds \cup {"open"}

TaskStates == [pc : {"core", "notify", "execute", "push", "aborted"}, acts : Seq(Actions)]

WriterStates ==
  [pc : {"none", "recv", "try", "blocked", "wait", "close", "unmap", "done", "aborted"},
   woken : BOOLEAN]

ProxyStates ==
  [pc : {"none", "await", "select", "write", "put", "done", "aborted"},
   part : {"request", "reply", "grant", "deny", "first", "refuse", "transfer"},
   msg : Kinds, readOpen : BOOLEAN, writeOpen : BOOLEAN, refused : BOOLEAN]

\* A task that executes has an action to execute, and only what is for the proxy
\* is pushed.
WellFormed(k) ==
  /\ k.pc \in {"execute", "push"} => k.acts # <<>>
  /\ k.pc = "push" => Head(k.acts) # "open"

TaskTypes == task \in [Tasks -> TaskStates] /\ \A t \in Tasks : WellFormed(task[t])

Types ==
  /\ phase \in {"Open", "ClosingLocal", "ClosingRemote", "Gone"}
  /\ TaskTypes
  /\ writer \in WriterStates
  /\ proxy \in ProxyStates
  /\ input \in Seq(Kinds) /\ output \in Seq(Kinds)

\* attach is called once: the one OpenSession is the first action of its task,
\* and the writer starts with it.
OpensOnce ==
  \A t \in Tasks : Holds(task[t].acts, "open") =>
    /\ t = (IF side = "entry" THEN "listen" ELSE "receive") /\ writer.pc = "none"
    /\ ~ Holds(Tail(task[t].acts), "open")

\* A Close on its way to the proxy comes from a core whose session is closed.
CloseIsTold ==
  phase = "Open" => ~ Holds(input, "close") /\ \A t \in Tasks : ~ Holds(task[t].acts, "close")

\* The map entry of an open session goes only with the writer, and only a
\* session that is gone makes the process abort.
MappedWhileOpen ==
  /\ phase = "Open" /\ ~ mapped => writer.pc \in {"none", "done"}
  /\ writer.pc = "aborted" => phase = "Gone"

\* A proxy that has ended while the session is open has left its Close behind,
\* or was refused.
CloseIsLeft ==
  phase = "Open" /\ proxy.pc = "done" =>
    proxy.refused \/ Holds(output, "close") \/ writer.pc = "close"

\* NoLostWakeup from the moment the core refused the write.
NotifiedInTime ==
  writer.pc \in {"blocked", "wait"} /\ ~ writer.woken /\ (snd < Window \/ phase = "Gone") =>
    \E t \in Tasks : task[t].pc = "notify"

IInv ==
  /\ Types /\ OpensOnce /\ CloseIsTold /\ MappedWhileOpen /\ CloseIsLeft
  /\ NoOrphan /\ NotifiedInTime

-----------------------------------------------------------------------------
(* Queues. *)

\* Taking a message out of a queue.
LEMMA TailHolds ==
  ASSUME NEW S, NEW q \in Seq(S), q # <<>>, NEW m
  PROVE  /\ Tail(q) \in Seq(S) /\ Head(q) \in S /\ Holds(q, Head(q))
         /\ Holds(Tail(q), m) => Holds(q, m)
         /\ Holds(q, m) /\ Head(q) # m => Holds(Tail(q), m)
<1>1. Len(q) \in Nat \ {0} /\ Len(Tail(q)) = Len(q) - 1 /\ Head(q) = q[1] /\ Tail(q) \in Seq(S)
  OBVIOUS
<1>2. \A i \in 1..Len(Tail(q)) : Tail(q)[i] = q[i + 1] /\ i + 1 \in 1..Len(q)
  BY <1>1
<1>3. \A i \in 1..Len(q) : i # 1 => i - 1 \in 1..Len(Tail(q)) /\ Tail(q)[i - 1] = q[i]
  BY <1>1
<1>4. Holds(Tail(q), m) => Holds(q, m)
  BY <1>2 DEF Holds
<1>5. Holds(q, m) /\ Head(q) # m => Holds(Tail(q), m)
  BY <1>1, <1>3 DEF Holds
<1> QED
  BY <1>1, <1>4, <1>5 DEF Holds

\* Putting a message into a queue.
LEMMA AppendHolds ==
  ASSUME NEW S, NEW q \in Seq(S), NEW x \in S, NEW m
  PROVE  /\ Append(q, x) \in Seq(S)
         /\ Holds(Append(q, x), m) <=> Holds(q, m) \/ x = m
<1>1. /\ Append(q, x) \in Seq(S) /\ Len(Append(q, x)) = Len(q) + 1 /\ Len(q) \in Nat
      /\ Append(q, x)[Len(q) + 1] = x
      /\ \A i \in 1..Len(q) : Append(q, x)[i] = q[i]
  OBVIOUS
<1>2. \A i \in 1..(Len(q) + 1) : i \in 1..Len(q) \/ i = Len(q) + 1
  BY <1>1
<1> HIDE DEF Holds
<1>3. Holds(q, m) => Holds(Append(q, x), m)
  BY <1>1 DEF Holds
<1>4. x = m => Holds(Append(q, x), m)
  BY <1>1 DEF Holds
<1>5. Holds(Append(q, x), m) => Holds(q, m) \/ x = m
  BY <1>1, <1>2 DEF Holds
<1> QED
  BY <1>1, <1>3, <1>4, <1>5

\* A message of two queues in a row is in one of them.
LEMMA ConcatHolds ==
  ASSUME NEW S, NEW q \in Seq(S), NEW r \in Seq(S), NEW m, Holds(q \o r, m)
  PROVE  Holds(q, m) \/ Holds(r, m)
<1>1. PICK i \in 1..Len(q \o r) : (q \o r)[i] = m
  BY DEF Holds
<1>2. Len(q \o r) = Len(q) + Len(r) /\ Len(q) \in Nat /\ Len(r) \in Nat
  OBVIOUS
<1>3. CASE i <= Len(q)
  BY <1>1, <1>2, <1>3 DEF Holds
<1>4. CASE i > Len(q)
  <2>1. (q \o r)[i] = r[i - Len(q)] /\ i - Len(q) \in 1..Len(r)
    BY <1>1, <1>2, <1>4
  <2> QED
    BY <1>1, <2>1 DEF Holds
<1> QED
  BY <1>1, <1>2, <1>3, <1>4

-----------------------------------------------------------------------------
(* The tasks that call the core. *)

\* What a batch of packets brings is data.
LEMMA BatchesAreData ==
  ASSUME NEW data \in Batches
  PROVE  data \in Seq(Kinds) /\ ~ Holds(data, "open") /\ ~ Holds(data, "close")
<1>1. CASE \E n \in 0..Batch : data = [i \in 1..n |-> "bytes"]
  <2>1. PICK n \in 0..Batch : data = [i \in 1..n |-> "bytes"]
    BY <1>1
  <2>2. n \in Nat
    BY SessionIoAssumption
  <2>3. data \in Seq(Kinds) /\ Len(data) = n
    BY <2>1, <2>2 DEF Kinds
  <2>4. \A i \in 1..n : data[i] = "bytes"
    BY <2>1
  <2> QED
    BY <2>3, <2>4 DEF Holds
<1>2. CASE data = <<"eof">>
  BY <1>2 DEF Kinds, Holds
<1> QED
  BY <1>1, <1>2 DEF Batches

\* A call of the core that closes the session, if it tells so, and does not let
\* snd fall or the session go without the notification to follow.
LEMMA CallStep ==
  ASSUME IInv, NEW t \in {"receive", "poll"}, NEW acts \in Seq(Kinds), Called(t, acts),
         task[t].pc = "core",
         phase' \in {"Open", "ClosingLocal", "ClosingRemote", "Gone"},
         phase # "Open" => phase' # "Open", phase = "Gone" => phase' = "Gone",
         Holds(acts, "close") => phase' # "Open",
         ~ Holds(acts, "open"),
         UNCHANGED <<side, mapped, writer, proxy, input, output>>
  PROVE  IInv'
<1> USE DEF Tasks
<1>1. acts \in Seq(Actions)
  BY DEF Actions
<1>2. task' \in [Tasks -> TaskStates] /\ task'[t] = [pc |-> "notify", acts |-> acts]
      /\ \A u \in Tasks : u # t => task'[u] = task[u]
  BY <1>1 DEF IInv, Types, TaskTypes, Called, TaskStates
<1>3. Types'
  BY <1>2 DEF IInv, Types, TaskTypes, WellFormed
<1>4. OpensOnce'
  BY <1>2 DEF IInv, OpensOnce
<1>5. CloseIsTold'
  BY <1>2 DEF IInv, CloseIsTold
<1>6. MappedWhileOpen' /\ CloseIsLeft' /\ NoOrphan'
  BY DEF IInv, MappedWhileOpen, CloseIsLeft, NoOrphan
<1>7. NotifiedInTime'
  BY <1>2 DEF NotifiedInTime
<1> QED
  BY <1>3, <1>4, <1>5, <1>6, <1>7 DEF IInv

\* receive_packets and the three kinds of poll.
LEMMA CoreStep ==
  ASSUME IInv, ReceivePackets \/ PollRetransmit \/ PollDeadline \/ PollExpire
  PROVE  IInv'
<1>0. <<>> \in Seq(Kinds) /\ ~ Holds(<<>>, "open") /\ ~ Holds(<<>>, "close")
      /\ <<"close">> \in Seq(Kinds) /\ ~ Holds(<<"close">>, "open")
  BY DEF Kinds, Holds
<1>1. CASE ReceivePackets
  <2>1. PICK freed \in 0..Window, data \in Batches, close \in BOOLEAN : Receive(freed, data, close)
    BY <1>1 DEF ReceivePackets
  <2> DEFINE queue == pending /\ freed > 0
             rest  == snd - freed + (IF queue THEN 1 ELSE 0)
             ended == close /\ phase = "Open"
             done  == phase = "ClosingLocal" /\ rest = 0
             first == IF phase = "Open" THEN data ELSE <<>>
             last  == IF ended \/ done THEN <<"close">> ELSE <<>>
  <2>2. /\ task["receive"].pc = "core" /\ phase # "Gone"
        /\ phase' = IF ended THEN "ClosingRemote" ELSE IF done THEN "Gone" ELSE phase
        /\ Called("receive", first \o last)
        /\ UNCHANGED <<side, mapped, writer, proxy, input, output>>
    BY <2>1 DEF Receive
  <2>3. first \in Seq(Kinds) /\ ~ Holds(first, "open") /\ ~ Holds(first, "close")
    BY <1>0, BatchesAreData
  <2>4. last \in Seq(Kinds) /\ ~ Holds(last, "open") /\ (Holds(last, "close") => ended \/ done)
    BY <1>0
  <2>5. ended \/ done => phase' # "Open"
    BY <2>2
  <2>6. phase' \in {"Open", "ClosingLocal", "ClosingRemote", "Gone"} /\ (phase # "Open" => phase' # "Open")
    BY <2>2 DEF IInv, Types
  <2> HIDE DEF first, last, ended, done
  <2> DEFINE acts == first \o last
  <2>7. acts \in Seq(Kinds) /\ ~ Holds(acts, "open") /\ (Holds(acts, "close") => ended \/ done)
    BY <2>3, <2>4, ConcatHolds
  <2> HIDE DEF acts
  <2> QED
    BY <2>2, <2>5, <2>6, <2>7, CallStep DEF acts
<1>2. CASE PollRetransmit
  <2>1. Called("poll", <<>>) /\ task["poll"].pc = "core" /\ phase' = phase
        /\ UNCHANGED <<side, mapped, writer, proxy, input, output>>
    BY <1>2 DEF PollRetransmit
  <2>2. phase \in {"Open", "ClosingLocal", "ClosingRemote", "Gone"}
    BY DEF IInv, Types
  <2> QED
    BY <1>0, <2>1, <2>2, CallStep
<1>3. CASE PollDeadline
  <2> DEFINE acts == IF phase = "ClosingLocal" THEN <<"close">> ELSE <<>>
  <2>1. Called("poll", acts) /\ task["poll"].pc = "core" /\ phase' = "Gone"
        /\ UNCHANGED <<side, mapped, writer, proxy, input, output>>
    BY <1>3 DEF PollDeadline
  <2>2. acts \in Seq(Kinds) /\ ~ Holds(acts, "open")
    BY <1>0
  <2> HIDE DEF acts
  <2> QED
    BY <2>1, <2>2, CallStep
<1>4. CASE PollExpire
  <2>1. Called("poll", <<"close">>) /\ task["poll"].pc = "core" /\ phase' = "Gone"
        /\ UNCHANGED <<side, mapped, writer, proxy, input, output>>
    BY <1>4 DEF PollExpire
  <2> QED
    BY <1>0, <2>1, CallStep
<1> QED
  BY <1>1, <1>2, <1>3, <1>4

\* The state of task t changes and it has no action it did not have; what is
\* left may be shorter by the first.
LEMMA ActsStep ==
  ASSUME IInv, NEW t \in Tasks, NEW new \in TaskStates,
         task' = [task EXCEPT ![t] = new],
         WellFormed(new),
         \/ new.acts = task[t].acts
         \/ task[t].acts # <<>> /\ new.acts = Tail(task[t].acts),
         \/ writer'.pc = writer.pc
         \/ task[t].acts # <<>> /\ new.acts = Tail(task[t].acts) /\ Head(task[t].acts) = "open",
         side' = side, phase' = phase
  PROVE  /\ TaskTypes' /\ OpensOnce'
         /\ phase' = "Open" => \A u \in Tasks : ~ Holds(task'[u].acts, "close")
<1>1. task \in [Tasks -> TaskStates]
  BY DEF IInv, Types, TaskTypes
<1>2. task'[t] = new /\ \A u \in Tasks : u # t => task'[u] = task[u]
  BY <1>1
<1>3. task' \in [Tasks -> TaskStates]
  BY <1>1
<1>4. TaskTypes'
  BY <1>2, <1>3 DEF IInv, Types, TaskTypes
<1>5. task[t].acts \in Seq(Actions)
  BY <1>1 DEF TaskStates
<1>6. task[t].acts # <<>> => \A m : Holds(Tail(task[t].acts), m) => Holds(task[t].acts, m)
  BY <1>5, TailHolds
<1>7. task[t].acts # <<>> => Holds(task[t].acts, Head(task[t].acts))
  BY <1>5, TailHolds
<1>8. OpensOnce'
  <2> SUFFICES ASSUME NEW u \in Tasks, Holds(task'[u].acts, "open")
               PROVE  /\ u = (IF side' = "entry" THEN "listen" ELSE "receive") /\ writer'.pc = "none"
                      /\ ~ Holds(Tail(task'[u].acts), "open")
    BY DEF OpensOnce
  <2>1. CASE u = t
    BY <1>2, <1>6, <1>7, <2>1 DEF IInv, OpensOnce
  <2>2. CASE u # t
    <3>1. Holds(task[u].acts, "open")
      BY <1>2, <2>2
    <3>2. writer'.pc = writer.pc
      BY <1>7, <2>2, <3>1 DEF IInv, OpensOnce
    <3> QED
      BY <1>2, <2>2, <3>1, <3>2 DEF IInv, OpensOnce
  <2> QED
    BY <2>1, <2>2
<1>9. phase' = "Open" => \A u \in Tasks : ~ Holds(task'[u].acts, "close")
  BY <1>2, <1>6 DEF IInv, CloseIsTold
<1> QED
  BY <1>3, <1>4, <1>8, <1>9

\* What follows the first action of a task.
LEMMA NextActionType ==
  ASSUME NEW acts \in Seq(Actions)
  PROVE  /\ NextAction(acts) \in TaskStates /\ NextAction(acts).acts = acts
         /\ NextAction(acts).pc \in {"core", "execute"} /\ WellFormed(NextAction(acts))
BY DEF NextAction, TaskStates, WellFormed

\* A task executes one of its actions.
LEMMA ExecuteStep == ASSUME IInv, NEW t \in Tasks, Attach(t) \/ Lookup(t) \/ Push(t) PROVE IInv'
<1> DEFINE acts == task[t].acts
           rest == NextAction(Tail(acts))
<1>1. task[t] \in TaskStates /\ acts \in Seq(Actions) /\ task[t].pc \in {"execute", "push"} /\ acts # <<>>
  BY DEF IInv, Types, TaskTypes, WellFormed, Attach, Lookup, Push, TaskStates
<1>2. /\ Tail(acts) \in Seq(Actions) /\ Head(acts) \in Actions /\ Holds(acts, Head(acts))
  BY <1>1, TailHolds
<1>3. /\ rest \in TaskStates /\ rest.acts = Tail(acts) /\ rest.pc \in {"core", "execute"}
      /\ WellFormed(rest)
  BY <1>2, NextActionType
<1>4. [task[t] EXCEPT !.pc = "push"] \in TaskStates /\ [task[t] EXCEPT !.pc = "push"].acts = acts
  BY <1>1 DEF TaskStates
<1> HIDE DEF rest
<1>5. CASE Attach(t)
  <2>1. Head(acts) = "open" /\ task' = [task EXCEPT ![t] = rest] /\ mapped' = TRUE
    BY <1>5 DEF Attach, rest
  <2>2. writer' = [writer EXCEPT !.pc = "recv"]
        /\ proxy' = [proxy EXCEPT !.pc = IF side = "exit" THEN "await" ELSE @]
        /\ UNCHANGED <<side, asked, phase, snd, pending, input, output, recvd, read>>
    BY <1>5 DEF Attach
  <2>3. writer.pc = "none"
    BY <1>2, <2>1 DEF IInv, OpensOnce
  <2>4. writer' \in WriterStates /\ writer'.pc = "recv"
    BY <2>2 DEF IInv, Types, WriterStates
  <2>5. proxy' \in ProxyStates /\ proxy'.refused = proxy.refused
        /\ (proxy'.pc = "done" => proxy.pc = "done")
    BY <2>2 DEF IInv, Types, ProxyStates
  <2>6. /\ TaskTypes' /\ OpensOnce'
        /\ phase' = "Open" => \A u \in Tasks : ~ Holds(task'[u].acts, "close")
    <3>1. /\ side' = side /\ phase' = phase
          /\ \/ rest.acts = task[t].acts
             \/ task[t].acts # <<>> /\ rest.acts = Tail(task[t].acts)
          /\ \/ writer'.pc = writer.pc
             \/ task[t].acts # <<>> /\ rest.acts = Tail(task[t].acts) /\ Head(task[t].acts) = "open"
      BY <1>1, <1>3, <2>1, <2>2
    <3>2. t \in Tasks /\ rest \in TaskStates /\ task' = [task EXCEPT ![t] = rest] /\ WellFormed(rest)
      BY <1>1, <1>3, <2>1, <2>2
    <3> QED
      BY ONLY IInv, <3>1, <3>2, ActsStep, Zenon
  <2>7. Types'
    BY <2>2, <2>4, <2>5, <2>6 DEF IInv, Types
  <2>8. CloseIsTold'
    BY <2>2, <2>6 DEF IInv, CloseIsTold
  <2>9. MappedWhileOpen' /\ NoOrphan' /\ NotifiedInTime'
    BY <2>1, <2>4 DEF MappedWhileOpen, NoOrphan, NotifiedInTime
  <2>10. CloseIsLeft'
    BY <2>2, <2>3, <2>5 DEF IInv, CloseIsLeft
  <2> QED
    BY <2>6, <2>7, <2>8, <2>9, <2>10 DEF IInv
<1>6. CASE Lookup(t)
  <2> DEFINE new == IF mapped THEN [task[t] EXCEPT !.pc = "push"] ELSE rest
  <2>1. /\ task[t].pc = "execute" /\ Head(acts) # "open"
        /\ task' = [task EXCEPT ![t] = new]
        /\ mapped' = (mapped /\ Head(acts) # "close")
    BY <1>6 DEF Lookup, rest
  <2>2. UNCHANGED <<side, asked, phase, snd, pending, writer, proxy, input, output, recvd, read>>
    BY <1>6 DEF Lookup
  <2>3. /\ new \in TaskStates /\ (new.acts = acts \/ new.acts = Tail(acts)) /\ new.pc # "notify"
        /\ WellFormed(new)
    <3>1. CASE mapped
      <4>1. new = [task[t] EXCEPT !.pc = "push"] /\ new.pc = "push"
        BY <1>1, <3>1 DEF TaskStates
      <4>2. new.acts = acts
        BY <1>4, <4>1
      <4> QED
        BY <1>1, <1>4, <2>1, <4>1, <4>2 DEF WellFormed
    <3>2. CASE ~ mapped
      BY <1>3, <3>2
    <3> QED
      BY <3>1, <3>2
  <2> HIDE DEF new
  <2>4. /\ TaskTypes' /\ OpensOnce'
        /\ phase' = "Open" => \A u \in Tasks : ~ Holds(task'[u].acts, "close")
    <3>1. /\ side' = side /\ phase' = phase
          /\ \/ new.acts = task[t].acts
             \/ task[t].acts # <<>> /\ new.acts = Tail(task[t].acts)
          /\ \/ writer'.pc = writer.pc
             \/ task[t].acts # <<>> /\ new.acts = Tail(task[t].acts) /\ Head(task[t].acts) = "open"
      BY <1>1, <2>1, <2>2, <2>3
    <3>2. t \in Tasks /\ new \in TaskStates /\ task' = [task EXCEPT ![t] = new] /\ WellFormed(new)
      BY <1>1, <2>1, <2>2, <2>3
    <3> QED
      BY ONLY IInv, <3>1, <3>2, ActsStep, Zenon
  <2>5. Types' /\ CloseIsTold'
    BY <2>2, <2>4 DEF IInv, Types, CloseIsTold
  <2>6. MappedWhileOpen'
    <3>1. phase = "Open" /\ mapped => mapped'
      BY <1>2, <2>1 DEF IInv, CloseIsTold
    <3> QED
      BY <2>2, <3>1 DEF IInv, MappedWhileOpen
  <2>7. CloseIsLeft' /\ NoOrphan'
    BY <2>2 DEF IInv, CloseIsLeft, NoOrphan
  <2>8. NotifiedInTime'
    <3>1. \A u \in Tasks : task[u].pc = "notify" => task'[u].pc = "notify"
      BY <2>1 DEF IInv, Types, TaskTypes
    <3> QED
      BY <2>2, <3>1 DEF IInv, NotifiedInTime
  <2> QED
    BY <2>4, <2>5, <2>6, <2>7, <2>8 DEF IInv
<1>7. CASE Push(t)
  <2>1. /\ task[t].pc = "push"
        /\ task' = [task EXCEPT ![t] = rest]
        /\ input' = input \/ input' = Append(input, Head(acts))
        /\ UNCHANGED <<side, asked, phase, snd, pending, mapped, writer, proxy, output, recvd, read>>
    BY <1>7 DEF Push, rest
  <2>2. /\ TaskTypes' /\ OpensOnce'
        /\ phase' = "Open" => \A u \in Tasks : ~ Holds(task'[u].acts, "close")
    <3>1. /\ side' = side /\ phase' = phase
          /\ \/ rest.acts = task[t].acts
             \/ task[t].acts # <<>> /\ rest.acts = Tail(task[t].acts)
          /\ \/ writer'.pc = writer.pc
             \/ task[t].acts # <<>> /\ rest.acts = Tail(task[t].acts) /\ Head(task[t].acts) = "open"
      BY <1>1, <1>3, <2>1
    <3>2. t \in Tasks /\ rest \in TaskStates /\ task' = [task EXCEPT ![t] = rest] /\ WellFormed(rest)
      BY <1>1, <1>3, <2>1
    <3> QED
      BY ONLY IInv, <3>1, <3>2, ActsStep, Zenon
  <2>3. CASE Head(acts) \in Kinds
    <3>1. input' \in Seq(Kinds) /\ (Holds(input', "close") => Holds(input, "close") \/ Head(acts) = "close")
      <4>1. input \in Seq(Kinds)
        BY DEF IInv, Types
      <4> DEFINE x == Head(acts)
      <4>2. x \in Kinds /\ (input' = input \/ input' = Append(input, x))
        BY <2>1, <2>3
      <4> HIDE DEF x
      <4>3. Append(input, x) \in Seq(Kinds) /\ (Holds(Append(input, x), "close") <=> Holds(input, "close") \/ x = "close")
        BY ONLY <4>1, <4>2, AppendHolds
      <4>4. input' \in Seq(Kinds) /\ (Holds(input', "close") => Holds(input, "close") \/ x = "close")
        BY ONLY <4>1, <4>2, <4>3, Zenon
      <4> QED
        BY <4>4 DEF x
    <3>2. Types' /\ CloseIsTold'
      BY <1>2, <2>1, <2>2, <3>1 DEF IInv, Types, CloseIsTold
    <3>3. MappedWhileOpen' /\ CloseIsLeft' /\ NoOrphan'
      BY <2>1 DEF IInv, MappedWhileOpen, CloseIsLeft, NoOrphan
    <3>4. NotifiedInTime'
      <4>1. \A u \in Tasks : task[u].pc = "notify" => task'[u].pc = "notify"
        BY <2>1 DEF IInv, Types, TaskTypes
      <4> QED
        BY <2>1, <4>1 DEF IInv, NotifiedInTime
    <3> QED
      BY <2>2, <3>2, <3>3, <3>4 DEF IInv
  <2>4. Head(acts) # "open"
    BY <2>1 DEF IInv, Types, TaskTypes, WellFormed
  <2> QED
    BY <1>2, <2>3, <2>4 DEF Actions
<1> QED
  BY <1>5, <1>6, <1>7

\* notify_waiters, after a call of the core or after a failure to send.
LEMMA NotifyStep ==
  ASSUME IInv, SendFailed \/ \E t \in Tasks : NotifyWaiters(t)
  PROVE  IInv'
<1>1. /\ writer' \in WriterStates /\ writer'.pc = writer.pc
      /\ writer.woken \/ writer.pc \in {"blocked", "wait"} => writer'.woken
  BY DEF IInv, Types, SendFailed, NotifyWaiters, WriterStates, Registered
<1>2. UNCHANGED <<side, phase, snd, mapped, proxy, input, output>>
  BY DEF SendFailed, NotifyWaiters
<1>3. MappedWhileOpen' /\ CloseIsLeft' /\ NoOrphan'
  BY <1>1, <1>2 DEF IInv, MappedWhileOpen, CloseIsLeft, NoOrphan
<1>4. NotifiedInTime'
  BY <1>1 DEF NotifiedInTime
<1>5. CASE SendFailed
  <2>1. task' = task
    BY <1>5 DEF SendFailed
  <2> QED
    BY <1>1, <1>2, <1>3, <1>4, <2>1 DEF IInv, Types, TaskTypes, OpensOnce, CloseIsTold
<1>6. CASE \E t \in Tasks : NotifyWaiters(t)
  <2>1. PICK t \in Tasks : NotifyWaiters(t)
    BY <1>6
  <2> DEFINE new == NextAction(task[t].acts)
  <2>2. task[t].acts \in Seq(Actions)
    BY DEF IInv, Types, TaskTypes, TaskStates
  <2>3. task' = [task EXCEPT ![t] = new] /\ side' = side /\ phase' = phase
    BY <2>1 DEF NotifyWaiters
  <2>4. new \in TaskStates /\ WellFormed(new) /\ new.acts = task[t].acts
    BY <2>2, NextActionType
  <2> HIDE DEF new
  <2>5. /\ TaskTypes' /\ OpensOnce'
        /\ phase' = "Open" => \A u \in Tasks : ~ Holds(task'[u].acts, "close")
    BY ONLY IInv, t \in Tasks, <1>1, <2>3, <2>4, ActsStep, Zenon
  <2> QED
    BY <1>1, <1>2, <1>3, <1>4, <2>5 DEF IInv, Types, CloseIsTold
<1> QED
  BY <1>5, <1>6

-----------------------------------------------------------------------------
(* The writer. *)

\* The states a writer comes to.
LEMMA WriterSet ==
  ASSUME writer \in WriterStates, NEW x \in {"close", "try", "unmap", "wait", "done"}
  PROVE  /\ [pc |-> x, woken |-> FALSE] \in WriterStates /\ [writer EXCEPT !.pc = x] \in WriterStates
         /\ [pc |-> x, woken |-> FALSE].pc = x /\ [writer EXCEPT !.pc = x].pc = x
<1>1. FALSE \in BOOLEAN
  OBVIOUS
<1>2. [writer EXCEPT !.pc = x] \in WriterStates /\ [writer EXCEPT !.pc = x].pc = x
  BY DEF WriterStates
<1>3. [pc |-> x, woken |-> FALSE] \in WriterStates
  BY <1>1 DEF WriterStates
<1> QED
  BY <1>2, <1>3

\* A writer whose session is gone takes the process with it.
LEMMA AbortStep ==
  ASSUME IInv, Writer, Abort
  PROVE  IInv'
<1>1. writer \in WriterStates /\ writer'.pc = "aborted" /\ writer' \in WriterStates
  BY DEF IInv, Types, WriterStates, Abort
<1>2. Rejected /\ UNCHANGED <<side, phase, mapped, input, output>>
  <2>1. CASE WriterTry \/ WriterClose
    BY <1>1, <2>1 DEF WriterTry, WriterClose, WriterStates
  <2>2. CASE WriterRecv
    BY <1>1, <2>2 DEF WriterRecv, WriterStates
  <2>3. CASE WriterAwait \/ WriterWoken \/ WriterUnmap
    BY <1>1, <2>3, WriterSet DEF WriterAwait, WriterWoken, WriterUnmap
  <2> QED
    BY <2>1, <2>2, <2>3 DEF Writer
<1>3. phase = "Gone" /\ phase' = "Gone"
  BY <1>2 DEF Rejected
<1>4. proxy' \in ProxyStates
  BY DEF IInv, Types, ProxyStates, Abort
<1>5. \A t \in Tasks : task'[t] = [pc |-> "aborted", acts |-> <<>>]
  BY DEF Abort, NewTask
<1>6. TaskTypes'
  <2>1. <<>> \in Seq(Actions)
    OBVIOUS
  <2>2. task' \in [Tasks -> TaskStates]
    BY <2>1 DEF Abort, NewTask, TaskStates
  <2> QED
    BY <1>5, <2>2 DEF TaskTypes, WellFormed
<1>7. OpensOnce'
  BY <1>5 DEF OpensOnce, Holds
<1> QED
  BY <1>1, <1>2, <1>3, <1>4, <1>6, <1>7
     DEF IInv, Types, CloseIsTold, MappedWhileOpen, CloseIsLeft, NoOrphan, NotifiedInTime

\* A step of the writer.
LEMMA WriterStep ==
  ASSUME IInv, Writer
  PROVE  IInv'
<1>0. CASE Abort
  BY <1>0, AbortStep
<1> SUFFICES ASSUME ~ Abort PROVE IInv'
  BY <1>0
<1>1. UNCHANGED <<side, task, proxy, input>>
  BY DEF Writer, WriterRecv, WriterTry, WriterAwait, WriterWoken, WriterClose, WriterUnmap
<1>2. writer' \in WriterStates /\ writer.pc # "none" /\ writer'.pc # "none"
  <2>1. writer \in WriterStates
    BY DEF IInv, Types
  <2>2. CASE WriterRecv
    <3>1. PICK x \in {"close", "try", "unmap"} :
            writer' = [pc |-> x, woken |-> FALSE] \/ writer' = [writer EXCEPT !.pc = x]
      BY <2>2 DEF WriterRecv
    <3> QED
      BY <2>1, <2>2, <3>1, WriterSet DEF WriterRecv
  <2>3. CASE WriterTry
    BY <2>1, <2>3 DEF WriterStates, WriterTry
  <2>4. CASE WriterAwait \/ WriterWoken \/ WriterUnmap
    BY <2>1, <2>4, WriterSet DEF WriterAwait, WriterWoken, WriterUnmap
  <2>5. CASE WriterClose
    BY <2>1, <2>5 DEF WriterStates, WriterClose
  <2> QED
    BY <2>2, <2>3, <2>4, <2>5 DEF Writer
<1>3. /\ phase' \in {"Open", "ClosingLocal", "ClosingRemote", "Gone"} /\ (phase' = "Open" => phase = "Open")
      /\ phase = "Gone" => phase' = "Gone"
  BY DEF IInv, Types, Writer, WriterRecv, WriterTry, WriterAwait, WriterWoken, WriterClose, WriterUnmap,
         Rejected
<1>4. output' = output \/ (output # <<>> /\ output' = Tail(output))
  BY DEF Writer, WriterRecv, WriterTry, WriterAwait, WriterWoken, WriterClose, WriterUnmap
<1>5. /\ output' \in Seq(Kinds)
      /\ output # <<>> /\ Holds(output, "close") /\ Head(output) # "close" => Holds(Tail(output), "close")
  BY <1>4, TailHolds DEF IInv, Types
<1>6. Types' /\ OpensOnce' /\ CloseIsTold'
  BY <1>1, <1>2, <1>3, <1>5 DEF IInv, Types, TaskTypes, OpensOnce, CloseIsTold
<1>7. CASE WriterRecv
  <2>1. MappedWhileOpen'
    BY <1>7 DEF WriterRecv, IInv, Types, WriterStates, MappedWhileOpen
  <2>2. CloseIsLeft'
    <3>1. CASE output # <<>>
      <4>1. output' = Tail(output) /\ (writer'.pc = "close" <=> Head(output) = "close")
            /\ phase' = phase /\ writer.pc = "recv"
        BY <1>7, <3>1 DEF WriterRecv
      <4> QED
        BY <1>1, <1>5, <3>1, <4>1 DEF IInv, CloseIsLeft
    <3>2. CASE output = <<>>
      <4>1. output' = output /\ phase' = phase /\ writer.pc = "recv"
        BY <1>7, <3>2 DEF WriterRecv
      <4> QED
        BY <1>1, <4>1 DEF IInv, CloseIsLeft
    <3> QED
      BY <3>1, <3>2
  <2>3. NoOrphan'
    <3>1. output = <<>> => ~ Holds(output, "close")
      BY DEF Holds
    <3> QED
      BY <1>7, <3>1 DEF WriterRecv, IInv, CloseIsLeft, NoOrphan
  <2>4. NotifiedInTime'
    BY <1>7 DEF WriterRecv, IInv, Types, WriterStates, NotifiedInTime
  <2> QED
    BY <1>6, <2>1, <2>2, <2>3, <2>4 DEF IInv
<1>8. CASE WriterTry
  <2>1. MappedWhileOpen' /\ CloseIsLeft' /\ NoOrphan'
    BY <1>8 DEF WriterTry, Rejected, IInv, Types, WriterStates, MappedWhileOpen, CloseIsLeft, NoOrphan
  <2>2. NotifiedInTime'
    BY <1>8 DEF WriterTry, Rejected, IInv, Types, WriterStates, NotifiedInTime
  <2> QED
    BY <1>6, <2>1, <2>2 DEF IInv
<1>9. CASE WriterAwait \/ WriterWoken
  <2>1. MappedWhileOpen' /\ CloseIsLeft' /\ NoOrphan'
    BY <1>9 DEF WriterAwait, WriterWoken, IInv, Types, WriterStates, MappedWhileOpen, CloseIsLeft, NoOrphan
  <2>2. NotifiedInTime'
    BY <1>9 DEF WriterAwait, WriterWoken, IInv, Types, WriterStates, NotifiedInTime
  <2> QED
    BY <1>6, <2>1, <2>2 DEF IInv
<1>10. CASE WriterClose
  <2>1. phase' # "Open" /\ writer'.pc = "unmap"
    BY <1>10 DEF WriterClose, Rejected, IInv, Types, WriterStates
  <2> QED
    BY <1>6, <2>1 DEF IInv, MappedWhileOpen, CloseIsLeft, NoOrphan, NotifiedInTime
<1>11. CASE WriterUnmap
  <2>1. writer.pc = "unmap" /\ writer'.pc = "done" /\ phase' = phase /\ output' = output
    BY <1>11 DEF WriterUnmap, IInv, Types, WriterStates
  <2> QED
    BY <1>1, <1>6, <2>1 DEF IInv, MappedWhileOpen, CloseIsLeft, NoOrphan, NotifiedInTime
<1> QED
  BY <1>7, <1>8, <1>9, <1>10, <1>11 DEF Writer

-----------------------------------------------------------------------------
(* The proxy. *)

\* A step of the proxy: it takes from its input, adds to its output, and ends
\* only with a reason.
LEMMA ProxyStep ==
  ASSUME IInv, UNCHANGED <<side, phase, snd, mapped, task, writer>>,
         input' = input \/ (input # <<>> /\ input' = Tail(input)),
         output' = output \/ output' = Append(output, proxy.msg),
         proxy' \in ProxyStates, proxy.refused => proxy'.refused,
         proxy'.pc = "done" /\ phase = "Open" =>
           proxy'.refused \/ Holds(output', "close") \/ writer.pc = "close"
  PROVE  IInv'
<1>1. input \in Seq(Kinds) /\ output \in Seq(Kinds) /\ proxy.msg \in Kinds
  BY DEF IInv, Types, ProxyStates
<1>2. input' \in Seq(Kinds) /\ (Holds(input', "close") => Holds(input, "close"))
  BY <1>1, TailHolds
<1>3. output' \in Seq(Kinds)
  BY <1>1, AppendHolds
<1>4. Types' /\ OpensOnce' /\ CloseIsTold'
  BY <1>2, <1>3 DEF IInv, Types, TaskTypes, OpensOnce, CloseIsTold
<1>5. MappedWhileOpen' /\ CloseIsLeft' /\ NoOrphan'
  BY DEF IInv, MappedWhileOpen, CloseIsLeft, NoOrphan
<1>6. NotifiedInTime'
  BY DEF IInv, NotifiedInTime
<1> QED
  BY <1>4, <1>5, <1>6 DEF IInv

\* Where transfer and its callers go on.
LEMMA ProxySet ==
  ASSUME NEW p \in ProxyStates
  PROVE  /\ Loop(p) \in ProxyStates /\ Loop(p).pc # "done" /\ Loop(p).refused = p.refused
         /\ Failed(p) \in ProxyStates /\ Failed(p).pc # "done" /\ Failed(p).refused = p.refused
         /\ Ended(p) \in ProxyStates /\ Ended(p).pc = "done" /\ Ended(p).refused = p.refused
<1>1. "close" \in Kinds /\ "bytes" \in Kinds
  BY DEF Kinds
<1>2. Failed(p) \in ProxyStates /\ Failed(p).pc # "done" /\ Failed(p).refused = p.refused
  BY <1>1 DEF ProxyStates, Failed, Returned
<1>3. Ended(p) \in ProxyStates /\ Ended(p).pc = "done" /\ Ended(p).refused = p.refused
  BY <1>1 DEF ProxyStates, Ended, Returned
<1>4. Loop(p) \in ProxyStates /\ Loop(p).pc # "done" /\ Loop(p).refused = p.refused
  BY <1>1 DEF ProxyStates, Loop
<1> QED
  BY <1>2, <1>3, <1>4

\* All senders of the proxy's input are gone: the session is closed, or the
\* writer left after the proxy.
LEMMA InputClosedReason ==
  ASSUME IInv, InputClosed, phase = "Open"
  PROVE  proxy.refused
BY DEF IInv, InputClosed, MappedWhileOpen, NoOrphan

\* run_entry and run_exit wait for the first message, or transfer for the next.
LEMMA ProxyTake ==
  ASSUME IInv, ProxyAwait \/ ProxyInput
  PROVE  IInv'
<1>1. UNCHANGED <<side, phase, snd, mapped, task, writer>> /\ output' = output
      /\ (input' = input \/ (input # <<>> /\ input' = Tail(input)))
  BY DEF ProxyAwait, ProxyInput
<1>2. proxy \in ProxyStates /\ input \in Seq(Kinds)
  BY DEF IInv, Types
<1>3. CASE proxy' = Ended(proxy) /\ input = <<>> /\ InputClosed
  <2>1. /\ proxy' \in ProxyStates /\ (proxy.refused => proxy'.refused)
        /\ phase = "Open" => proxy'.refused
    BY <1>2, <1>3, ProxySet, InputClosedReason
  <2> QED
    BY <1>1, <2>1, ProxyStep
<1>4. CASE proxy' = Ended(proxy) /\ input # <<>> /\ Head(input) = "close"
  <2>1. Holds(input, "close")
    BY <1>2, <1>4, TailHolds
  <2>2. phase # "Open"
    BY <2>1 DEF IInv, CloseIsTold
  <2>3. proxy' \in ProxyStates /\ (proxy.refused => proxy'.refused)
    BY <1>2, <1>4, ProxySet
  <2> QED
    BY <1>1, <2>2, <2>3, ProxyStep
<1>5. CASE proxy' = Failed(proxy)
  <2>1. proxy' \in ProxyStates /\ (proxy.refused => proxy'.refused) /\ proxy'.pc # "done"
    BY <1>2, <1>5, ProxySet
  <2> QED
    BY <1>1, <2>1, ProxyStep
<1>6. CASE input # <<>> /\ proxy' = [proxy EXCEPT !.pc = "write", !.msg = Head(input)]
  <2>1. Head(input) \in Kinds
    BY <1>2, <1>6
  <2>2. proxy' \in ProxyStates /\ (proxy.refused => proxy'.refused) /\ proxy'.pc # "done"
    BY <1>2, <1>6, <2>1 DEF ProxyStates
  <2> QED
    BY <1>1, <2>2, ProxyStep
<1>7. CASE proxy' \in Answers
  <2>1. proxy' \in ProxyStates /\ (proxy.refused => proxy'.refused)
        /\ proxy'.pc # "done"
    <3>1. "bytes" \in Kinds
      BY DEF Kinds
    <3>2. CASE proxy' = Failed(proxy)
      BY <1>2, <3>2, ProxySet
    <3>3. CASE \/ proxy' = [proxy EXCEPT !.pc = "write", !.part = "grant"]
               \/ proxy' = [proxy EXCEPT !.pc = "write", !.part = "deny"]
      BY <1>2, <3>3 DEF ProxyStates
    <3>4. CASE \/ proxy' = [proxy EXCEPT !.pc = "put", !.msg = "bytes", !.part = "transfer"]
               \/ proxy' = [proxy EXCEPT !.pc = "put", !.msg = "bytes", !.part = "refuse"]
      BY <1>2, <3>1, <3>4 DEF ProxyStates
    <3> QED
      BY <1>7, <3>2, <3>3, <3>4 DEF Answers
  <2> QED
    BY <1>1, <2>1, ProxyStep
<1>8. input # <<>> => Head(input) \in Kinds
  BY <1>2
<1> QED
  BY <1>3, <1>4, <1>5, <1>6, <1>7, <1>8 DEF ProxyAwait, ProxyInput, Kinds

\* run_entry or transfer writes to the local stream.
LEMMA ProxyWrites == ASSUME IInv, ProxyWrite PROVE IInv'
<1>1. UNCHANGED <<side, phase, snd, mapped, task, writer, input, output>>
  BY DEF ProxyWrite
<1>2. proxy \in ProxyStates
  BY DEF IInv, Types
<1>3. CASE proxy' = Failed(proxy) \/ proxy' = Loop(proxy)
  <2>1. proxy' \in ProxyStates /\ (proxy.refused => proxy'.refused) /\ proxy'.pc # "done"
    BY <1>2, <1>3, ProxySet
  <2> QED
    BY <1>1, <2>1, ProxyStep
<1>4. CASE proxy' = Loop([proxy EXCEPT !.writeOpen = FALSE])
  <2> DEFINE half == [proxy EXCEPT !.writeOpen = FALSE]
  <2>1. half \in ProxyStates /\ half.refused = proxy.refused
    BY <1>2 DEF ProxyStates
  <2> HIDE DEF half
  <2>2. proxy' \in ProxyStates /\ (proxy.refused => proxy'.refused) /\ proxy'.pc # "done"
    BY <1>4, <2>1, ProxySet DEF half
  <2> QED
    BY <1>1, <2>2, ProxyStep
<1>5. CASE proxy' = [proxy EXCEPT !.pc = "select", !.part = "transfer"]
  <2>1. proxy' \in ProxyStates /\ (proxy.refused => proxy'.refused) /\ proxy'.pc # "done"
    BY <1>2, <1>5 DEF ProxyStates
  <2> QED
    BY <1>1, <2>1, ProxyStep
<1>6. CASE proxy' = Ended([proxy EXCEPT !.refused = TRUE])
  <2> DEFINE told == [proxy EXCEPT !.refused = TRUE]
  <2>1. told \in ProxyStates /\ told.refused
    BY <1>2 DEF ProxyStates
  <2> HIDE DEF told
  <2>2. proxy' \in ProxyStates /\ proxy'.refused
    BY <1>6, <2>1, ProxySet DEF told
  <2> QED
    BY <1>1, <2>2, ProxyStep
<1> QED
  BY <1>3, <1>4, <1>5, <1>6 DEF ProxyWrite, Written

\* transfer reads from the local stream.
LEMMA ProxyReads == ASSUME IInv, ProxyRead PROVE IInv'
<1>1. UNCHANGED <<side, phase, snd, mapped, task, writer, input, output>>
  BY DEF ProxyRead
<1>2. proxy' \in ProxyStates /\ (proxy.refused => proxy'.refused) /\ proxy'.pc # "done"
  <2>1. proxy \in ProxyStates /\ "bytes" \in Kinds /\ "eof" \in Kinds
    BY DEF IInv, Types, Kinds
  <2>2. CASE proxy' = Failed(proxy)
    BY <2>1, <2>2, ProxySet
  <2>3. CASE \/ proxy' = [proxy EXCEPT !.pc = "put", !.msg = "bytes"]
             \/ proxy' = [proxy EXCEPT !.pc = "put", !.msg = "eof", !.readOpen = FALSE]
    BY <2>1, <2>3 DEF ProxyStates
  <2> QED
    BY <2>2, <2>3 DEF ProxyRead
<1> QED
  BY <1>1, <1>2, ProxyStep

\* The proxy hands a message to the writer, or finds that the writer has ended.
LEMMA ProxyPuts == ASSUME IInv, ProxyPut PROVE IInv'
<1>1. UNCHANGED <<side, phase, snd, mapped, task, writer, input>>
  BY DEF ProxyPut
<1>2. proxy \in ProxyStates /\ output \in Seq(Kinds) /\ proxy.msg \in Kinds
  BY DEF IInv, Types, ProxyStates
<1>3. CASE WriterEnded /\ output' = output /\ proxy' = Ended(proxy)
  <2>1. proxy' \in ProxyStates /\ (proxy.refused => proxy'.refused)
    BY <1>2, <1>3, ProxySet
  <2>2. phase = "Open" => proxy.refused
    BY <1>3 DEF IInv, WriterEnded, MappedWhileOpen, NoOrphan
  <2> QED
    BY <1>1, <1>3, <2>1, <2>2, ProxyStep
<1>4. CASE output' = Append(output, proxy.msg) /\ proxy.msg = "close" /\ proxy' = Ended(proxy)
  <2>1. Holds(output', "close")
    BY <1>2, <1>4, AppendHolds
  <2>2. proxy' \in ProxyStates /\ (proxy.refused => proxy'.refused)
    BY <1>2, <1>4, ProxySet
  <2> QED
    BY <1>1, <1>4, <2>1, <2>2, ProxyStep
<1>5. CASE /\ output' = Append(output, proxy.msg)
           /\ \/ proxy' = [proxy EXCEPT !.pc = "await", !.part = "reply"]
              \/ proxy.pc = "put" /\ proxy' = [proxy EXCEPT !.msg = "close"]
              \/ proxy' = Loop(proxy)
  <2>1. proxy' \in ProxyStates /\ (proxy.refused => proxy'.refused) /\ proxy'.pc # "done"
    <3>1. CASE proxy' = Loop(proxy)
      BY <1>2, <3>1, ProxySet
    <3>2. CASE \/ proxy' = [proxy EXCEPT !.pc = "await", !.part = "reply"]
               \/ proxy.pc = "put" /\ proxy' = [proxy EXCEPT !.msg = "close"]
      BY <1>2, <3>2 DEF ProxyStates, Kinds
    <3> QED
      BY <1>5, <3>1, <3>2
  <2> QED
    BY <1>1, <1>5, <2>1, ProxyStep
<1> QED
  BY <1>3, <1>4, <1>5 DEF ProxyPut

-----------------------------------------------------------------------------
(* The theorems. *)

\* Types, the one OpenSession, the Close on its way to and from the proxy, the map
\* entry and the notification are an invariant of the session's tasks.
THEOREM InductiveInvariant == Spec => []IInv
<1>1. Init => IInv
  <2> SUFFICES ASSUME Init PROVE IInv
    OBVIOUS
  <2>1. <<>> \in Seq(Actions) /\ <<"open">> \in Seq(Actions) /\ <<>> \in Seq(Kinds)
        /\ Tail(<<"open">>) = <<>>
    BY DEF Actions
  <2>2. \A m : ~ Holds(<<>>, m)
    BY DEF Holds
  <2>3. ~ Holds(<<"open">>, "close")
    BY DEF Holds
  <2>4. TaskTypes
    BY <2>1 DEF Init, TaskTypes, TaskStates, NewTask, WellFormed
  <2>5. writer \in WriterStates
    BY DEF Init, WriterStates
  <2>6. proxy \in ProxyStates
    BY DEF Init, ProxyStates, Kinds
  <2>7. Types
    BY <2>1, <2>4, <2>5, <2>6 DEF Init, Types
  <2>8. OpensOnce
    BY <2>1, <2>2 DEF Init, OpensOnce, NewTask
  <2>9. CloseIsTold
    BY <2>2, <2>3 DEF Init, CloseIsTold, NewTask
  <2>10. MappedWhileOpen /\ CloseIsLeft /\ NoOrphan /\ NotifiedInTime
    BY DEF Init, MappedWhileOpen, CloseIsLeft, NoOrphan, NotifiedInTime
  <2> QED
    BY <2>7, <2>8, <2>9, <2>10 DEF IInv
<1>2. IInv /\ [Next]_vars => IInv'
  <2> SUFFICES ASSUME IInv, [Next]_vars PROVE IInv'
    OBVIOUS
  <2>1. CASE ReceivePackets \/ PollRetransmit \/ PollDeadline \/ PollExpire
    BY <2>1, CoreStep
  <2>2. CASE SendFailed \/ \E t \in Tasks : NotifyWaiters(t)
    BY <2>2, NotifyStep
  <2>3. CASE \E t \in Tasks : Attach(t) \/ Lookup(t) \/ Push(t)
    BY <2>3, ExecuteStep
  <2>4. CASE Writer
    BY <2>4, WriterStep
  <2>5. CASE ProxyAwait \/ ProxyInput
    BY <2>5, ProxyTake
  <2>6. CASE ProxyRead
    BY <2>6, ProxyReads
  <2>7. CASE ProxyPut
    BY <2>7, ProxyPuts
  <2>8. CASE ProxyWrite
    BY <2>8, ProxyWrites
  <2>9. CASE UNCHANGED vars
    BY <2>9 DEF vars, IInv, Types, TaskTypes, OpensOnce, CloseIsTold, MappedWhileOpen, CloseIsLeft,
                NoOrphan, NotifiedInTime
  <2> QED
    BY <2>1, <2>2, <2>3, <2>4, <2>5, <2>6, <2>7, <2>8, <2>9 DEF Next, TaskStep
<1> QED
  BY <1>1, <1>2, PTL DEF Spec

\* A session that is open in the core keeps its writer, unless the exit refused
\* the connection, for every window, queue and batch.
THEOREM ShellStaysWithSession == Spec => []NoOrphan
<1>1. IInv => NoOrphan
  BY DEF IInv
<1> QED
  BY <1>1, InductiveInvariant, PTL

\* The Notified of emit is there before the attempt, so no notification is lost
\* between the refused write and the await.
THEOREM WakeupsArrive == Spec => []NoLostWakeup
<1>1. IInv => NoLostWakeup
  BY DEF IInv, NotifiedInTime, NoLostWakeup
<1> QED
  BY <1>1, InductiveInvariant, PTL
=============================================================================
