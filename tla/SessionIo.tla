------------------------------ MODULE SessionIo ------------------------------
(***************************************************************************)
(* One session in the endpoint's shell (crates/raynet-shell/src/remote.rs  *)
(* and crates/raynet-shell-plugins/src/proxy_socks5.rs): the tasks         *)
(* receive_packets and poll, which call the core and then execute its      *)
(* actions, the listener that opens local sessions, the session's writer   *)
(* task of attach, and the proxy task, run_entry or run_exit.              *)
(* They share the core's lock, the session map, the two bounded queues of  *)
(* the ProxySession and the Notify `writable'.                             *)
(*                                                                         *)
(* Of the core this keeps the session's phase and wait_snd() (modules      *)
(* Session and Kcp); SendTransportPacket never waits here (module          *)
(* ForwardOut).  The tasks run on several threads: a step ends where       *)
(* another task may observe it (a lock is released, a queue changes).      *)
(*                                                                         *)
(* The build is the release build: debug assertions are off and a panic    *)
(* aborts the process (profile.release of Cargo.toml), so nothing follows  *)
(* a writer that panicked.                                                 *)
(***************************************************************************)
EXTENDS Integers, Sequences

CONSTANTS
  Window,       \* KcpConfig.send_window; every message is one fragment
  IoCap,        \* capacity of a ProxySession's queues
  Batch,        \* bound: session messages in one batch of packets
  MaxIn,        \* bound: Data messages of the peer
  MaxOut,       \* bound: reads from the local stream
  Closes        \* whether the peer may close or restart and the local stream may end

ASSUME SessionIoAssumption ==
  /\ {Window, IoCap, Batch} \subseteq Nat \ {0} /\ {MaxIn, MaxOut} \subseteq Nat
  /\ Closes \in BOOLEAN

VARIABLES
  side,     \* of the session: "entry" or "exit"
  heard,    \* peer_seq is set: a packet of the peer has come
  phase,    \* the session in the core: Open, ClosingLocal, ClosingRemote or Gone
  snd,      \* wait_snd()
  pending,  \* pending_close: the local Close waits for a free slot
  mapped,   \* `sessions' has the session's input queue
  task,     \* receive_packets, poll, listener: where each is, its actions
  writer,   \* the writer task: where it is, whether writable has notified it
  asked,    \* the core has taken a write
  proxy,    \* the proxy task: where it is, its part of the exchange, what it
            \* sends, which halves are open, whether it was refused
  input,    \* messages to the proxy
  output,   \* messages of the proxy
  recvd,    \* bound: messages of the peer so far
  read      \* bound: reads so far

vars == <<side, asked, heard, phase, snd, pending, mapped, task, writer, proxy, input, output, recvd, read>>

Tasks == {"receive", "poll", "listen"}

\* Messages between shell and proxy: bytes, no bytes (end of one direction), Close.
Kinds == {"bytes", "eof", "close"}

NewTask(pc, acts) == [pc |-> pc, acts |-> acts]

\* The core has just opened the session and attach has not been called: at the
\* entry by open after the handshake with the client, at the exit by the
\* batch that brought the peer's Open.
Init ==
  /\ side \in {"entry", "exit"} /\ asked = FALSE /\ heard = (side = "exit")
  /\ phase = "Open" /\ snd = (IF side = "entry" THEN 1 ELSE 0)
  /\ pending = FALSE /\ mapped = FALSE
  /\ task = [t \in Tasks |->
       IF t = "listen" /\ side = "entry" THEN NewTask("execute", <<"open">>)
       ELSE IF t = "receive" /\ side = "exit" THEN NewTask("notify", <<"open">>)
       ELSE NewTask("core", <<>>)]
  /\ writer = [pc |-> "none", woken |-> FALSE]
  /\ proxy = [pc |-> IF side = "entry" THEN "put" ELSE "none",
              part |-> IF side = "entry" THEN "request" ELSE "first", msg |-> "bytes",
              readOpen |-> TRUE, writeOpen |-> TRUE, refused |-> FALSE]
  /\ input = <<>> /\ output = <<>> /\ recvd = 0 /\ read = 0

-----------------------------------------------------------------------------
(* receive_packets and poll: the core under its lock, then notify, then the  *)
(* actions.                                                                  *)

Called(t, acts) == task' = [task EXCEPT ![t] = [pc |-> "notify", acts |-> acts]]

\* A batch of packets: acknowledgements free `freed' slots, a pending Close takes
\* one, data and a Close of the peer become actions in their order.
Receive(freed, data, close) ==
  /\ task["receive"].pc = "core" /\ phase # "Gone"
  /\ freed <= snd /\ Len(data) + recvd <= MaxIn
  /\ data # <<>> \/ close => (side = "exit" \/ asked)  \* the exit only answers
  /\ freed > 0 \/ data # <<>> \/ close
  /\ LET queue == pending /\ freed > 0
         rest  == snd - freed + (IF queue THEN 1 ELSE 0)
         ended == close /\ phase = "Open"
         done  == phase = "ClosingLocal" /\ rest = 0
     IN  /\ snd' = rest
         /\ pending' = (pending /\ ~ queue)
         /\ phase' = IF ended THEN "ClosingRemote" ELSE IF done THEN "Gone" ELSE phase
         /\ Called("receive", (IF phase = "Open" THEN data ELSE <<>>) \o
                              (IF ended \/ done THEN <<"close">> ELSE <<>>))
  /\ recvd' = recvd + Len(data)
  /\ heard' = TRUE
  /\ UNCHANGED <<side, asked, mapped, writer, proxy, input, output, read>>

\* What the peer's proxy sends in a batch.
Batches ==
  {[i \in 1..n |-> "bytes"] : n \in 0..Batch} \cup (IF Closes THEN {<<"eof">>} ELSE {})

ReceivePackets ==
  \E freed \in 0..Window, data \in Batches, close \in IF Closes THEN BOOLEAN ELSE {FALSE} :
    Receive(freed, data, close)

\* A poll for a retransmission.
PollRetransmit ==
  /\ task["poll"].pc = "core" /\ snd > 0
  /\ Called("poll", <<>>)
  /\ UNCHANGED <<side, asked, heard, phase, snd, pending, mapped, writer, proxy, input, output, recvd, read>>

\* A poll after the close deadline.
PollDeadline ==
  /\ task["poll"].pc = "core" /\ phase \in {"ClosingLocal", "ClosingRemote"}
  /\ phase' = "Gone" /\ snd' = 0 /\ pending' = FALSE
  /\ Called("poll", IF phase = "ClosingLocal" THEN <<"close">> ELSE <<>>)
  /\ UNCHANGED <<side, asked, heard, mapped, writer, proxy, input, output, recvd, read>>

\* A poll that finds the peer's window expired, after the peer restarted:
\* expire_sequences drops every session bound to it, open ones too.  The newest
\* stamp of that window is more than MAX_PAST_TICKS (eleven minutes) old, which
\* is taken to be longer than the way from opening a session to its attach.
PollExpire ==
  /\ Closes /\ heard /\ writer.pc # "none"
  /\ task["poll"].pc = "core" /\ phase # "Gone"
  /\ phase' = "Gone" /\ snd' = 0 /\ pending' = FALSE
  /\ Called("poll", <<"close">>)
  /\ UNCHANGED <<side, asked, heard, mapped, writer, proxy, input, output, recvd, read>>

\* Mutant: emit asks for the notification after its attempt.
RegisteredLate == writer.pc = "wait"

\* emit has its Notified before it tries the core.
Registered == writer.pc \in {"try", "blocked", "wait"}

NextAction(acts) == [pc |-> IF acts = <<>> THEN "core" ELSE "execute", acts |-> acts]

\* Mutant: poll wakes no writer.
NotifyByPackets(t) ==
  /\ task[t].pc = "notify"
  /\ task' = [task EXCEPT ![t] = NextAction(@.acts)]
  /\ writer' = [writer EXCEPT !.woken = @ \/ (Registered /\ t = "receive")]
  /\ UNCHANGED <<side, asked, heard, phase, snd, pending, mapped, proxy, input, output, recvd, read>>

NotifyWaiters(t) ==
  /\ task[t].pc = "notify"
  /\ task' = [task EXCEPT ![t] = NextAction(@.acts)]
  /\ writer' = [writer EXCEPT !.woken = @ \/ Registered]
  /\ UNCHANGED <<side, asked, heard, phase, snd, pending, mapped, proxy, input, output, recvd, read>>

\* execute: the queue is looked up in the map; CloseSession also removes it.
Lookup(t) ==
  /\ task[t].pc = "execute" /\ Head(task[t].acts) # "open"
  /\ task' = [task EXCEPT ![t] = IF mapped THEN [@ EXCEPT !.pc = "push"]
                                 ELSE NextAction(Tail(@.acts))]
  /\ mapped' = (mapped /\ Head(task[t].acts) # "close")
  /\ UNCHANGED <<side, asked, heard, phase, snd, pending, writer, proxy, input, output, recvd, read>>

\* attach: the map entry, the writer task and, at the exit, the proxy task.
Attach(t) ==
  /\ task[t].pc = "execute" /\ Head(task[t].acts) = "open"
  /\ task' = [task EXCEPT ![t] = NextAction(Tail(@.acts))]
  /\ mapped' = TRUE
  /\ writer' = [writer EXCEPT !.pc = "recv"]
  /\ proxy' = [proxy EXCEPT !.pc = IF side = "exit" THEN "await" ELSE @]
  /\ UNCHANGED <<side, asked, heard, phase, snd, pending, input, output, recvd, read>>

\* input.send: waits for room, fails if the proxy has ended.
Push(t) ==
  /\ task[t].pc = "push"
  /\ \/ proxy.pc = "done" /\ input' = input
     \/ /\ proxy.pc # "done" /\ Len(input) < IoCap
        /\ input' = Append(input, Head(task[t].acts))
  /\ task' = [task EXCEPT ![t] = NextAction(Tail(@.acts))]
  /\ UNCHANGED <<side, asked, heard, phase, snd, pending, mapped, writer, proxy, output, recvd, read>>

\* handle of TransportPacketSendFailed, run by forward_out: it may wake a writer.
SendFailed ==
  /\ snd > 0
  /\ writer' = [writer EXCEPT !.woken = @ \/ Registered]
  /\ UNCHANGED <<side, asked, heard, phase, snd, pending, mapped, task, proxy, input, output, recvd, read>>

-----------------------------------------------------------------------------
(* The writer task of attach. *)

WriterEnded == writer.pc = "done"

\* unwrap of a session that is gone panics.  A release build does not look at
\* the phase of one that is still there.
Rejected == phase = "Gone"

\* A panic of the writer: the process ends, and every task with it.
Abort ==
  /\ writer' = [writer EXCEPT !.pc = "aborted"]
  /\ task' = [t \in Tasks |-> NewTask("aborted", <<>>)]
  /\ proxy' = [proxy EXCEPT !.pc = "aborted"]

Aborted == writer.pc = "aborted"

WriterRecv ==
  /\ writer.pc = "recv"
  /\ \/ /\ output # <<>>
        /\ output' = Tail(output)
        /\ writer' = [pc |-> IF Head(output) = "close" THEN "close" ELSE "try", woken |-> FALSE]
     \/ /\ output = <<>> /\ proxy.pc = "done"
        /\ writer' = [writer EXCEPT !.pc = "unmap"] /\ output' = output
  /\ UNCHANGED <<side, asked, heard, phase, snd, pending, mapped, task, proxy, input, recvd, read>>

\* SessionWrite
WriterTry ==
  /\ writer.pc = "try"
  /\ \/ Rejected /\ Abort /\ UNCHANGED <<snd, asked>>
     \/ /\ ~ Rejected
        /\ snd' = IF snd < Window THEN snd + 1 ELSE snd
        /\ asked' = (asked \/ snd < Window)
        /\ writer' = [writer EXCEPT !.pc = IF snd < Window THEN "recv" ELSE "blocked"]
        /\ UNCHANGED <<task, proxy>>
  /\ UNCHANGED <<side, heard, phase, pending, mapped, input, output, recvd, read>>

\* The core is unlocked; the writer comes to its await.
WriterAwait ==
  /\ writer.pc = "blocked"
  /\ writer' = [writer EXCEPT !.pc = "wait"]
  /\ UNCHANGED <<side, asked, heard, phase, snd, pending, mapped, task, proxy, input, output, recvd, read>>

WriterWoken ==
  /\ writer.pc = "wait" /\ writer.woken
  /\ writer' = [pc |-> "try", woken |-> FALSE]
  /\ UNCHANGED <<side, asked, heard, phase, snd, pending, mapped, task, proxy, input, output, recvd, read>>

\* SessionClose
WriterClose ==
  /\ writer.pc = "close"
  /\ \/ Rejected /\ Abort /\ UNCHANGED <<phase, snd, pending>>
     \/ /\ ~ Rejected
        /\ writer' = [writer EXCEPT !.pc = "unmap"]
        /\ phase' = "ClosingLocal"
        /\ pending' = (snd = Window)
        /\ snd' = IF snd < Window THEN snd + 1 ELSE snd
        /\ UNCHANGED <<task, proxy>>
  /\ UNCHANGED <<side, asked, heard, mapped, input, output, recvd, read>>

WriterUnmap ==
  /\ writer.pc = "unmap"
  /\ mapped' = FALSE /\ writer' = [writer EXCEPT !.pc = "done"]
  /\ UNCHANGED <<side, asked, heard, phase, snd, pending, task, proxy, input, output, recvd, read>>

Writer == WriterRecv \/ WriterTry \/ WriterAwait \/ WriterWoken \/ WriterClose \/ WriterUnmap

-----------------------------------------------------------------------------
(* The proxy task. *)

\* Where the loop of transfer goes once a message is handled.
Loop(p) ==
  IF p.readOpen \/ p.writeOpen THEN [p EXCEPT !.pc = "select", !.msg = "bytes"]
  ELSE [p EXCEPT !.pc = "put", !.msg = "close"]

\* The proxy returns, and its stream is dropped.
Returned(p, pc) ==
  [p EXCEPT !.pc = pc, !.msg = "close", !.part = "transfer", !.readOpen = FALSE, !.writeOpen = FALSE]

Ended(p) == Returned(p, "done")

\* Mutant: the caller of run_entry and run_exit ignores the error.
FailedSilently(p) == Ended(p)

\* An error: the caller sends a Close.
Failed(p) == Returned(p, "put")

\* All senders of the input queue are gone.
InputClosed == ~ mapped /\ writer.pc # "none" /\ \A t \in Tasks : task[t].pc # "push"

\* What run_entry makes of the exit's reply, run_exit of the entry's request.
Answers ==
  IF proxy.part = "reply"
  THEN {[proxy EXCEPT !.pc = "write", !.part = "grant"]}
         \cup (IF Closes THEN {[proxy EXCEPT !.pc = "write", !.part = "deny"],  \* status # 0
                               Failed(proxy)} ELSE {})
  ELSE {[proxy EXCEPT !.pc = "put", !.msg = "bytes", !.part = "transfer"]}
         \cup (IF Closes THEN {[proxy EXCEPT !.pc = "put", !.msg = "bytes", !.part = "refuse"],
                               Failed(proxy)} ELSE {})

ProxyAwait ==
  /\ proxy.pc = "await"
  /\ \/ /\ input # <<>> /\ input' = Tail(input)
        /\ proxy' \in CASE Head(input) = "close" -> {Ended(proxy)}
                        [] Head(input) = "eof"   -> {Failed(proxy)}
                        [] Head(input) = "bytes" -> Answers
     \/ /\ input = <<>> /\ InputClosed
        /\ proxy' = Ended(proxy) /\ input' = input
  /\ UNCHANGED <<side, asked, heard, phase, snd, pending, mapped, task, writer, output, recvd, read>>

\* transfer: a message of the peer.
ProxyInput ==
  /\ proxy.pc = "select"
  /\ \/ /\ input # <<>> /\ input' = Tail(input)
        /\ proxy' = IF Head(input) = "close" THEN Ended(proxy)
                    ELSE [proxy EXCEPT !.pc = "write", !.msg = Head(input)]
     \/ /\ input = <<>> /\ InputClosed
        /\ proxy' = Ended(proxy) /\ input' = input
  /\ UNCHANGED <<side, asked, heard, phase, snd, pending, mapped, task, writer, output, recvd, read>>

\* Where a write to the stream leads: the reply of the exit, which ends the
\* exchange, or in transfer the end of the peer's data or some of it.
Written ==
  CASE proxy.part = "grant" -> [proxy EXCEPT !.pc = "select", !.part = "transfer"]
    [] proxy.part = "deny"  -> Ended([proxy EXCEPT !.refused = TRUE])
    [] proxy.msg = "eof"    -> Loop([proxy EXCEPT !.writeOpen = FALSE])
    [] OTHER                -> Loop(proxy)

\* write_all or shutdown: waits as long as the TCP peer does not read, or fails.
ProxyWrite ==
  /\ proxy.pc = "write"
  /\ proxy' \in {Written} \cup (IF Closes THEN {Failed(proxy)} ELSE {})
  /\ UNCHANGED <<side, asked, heard, phase, snd, pending, mapped, task, writer, input, output, recvd, read>>

ProxyRead ==
  /\ proxy.pc = "select" /\ proxy.readOpen
  /\ \/ /\ read < MaxOut
        /\ proxy' = [proxy EXCEPT !.pc = "put", !.msg = "bytes"] /\ read' = read + 1
     \/ /\ Closes  \* end of the stream
        /\ proxy' = [proxy EXCEPT !.pc = "put", !.msg = "eof", !.readOpen = FALSE] /\ read' = read
     \/ /\ Closes  \* an error
        /\ proxy' = Failed(proxy) /\ read' = read
  /\ UNCHANGED <<side, asked, heard, phase, snd, pending, mapped, task, writer, input, output, recvd>>

\* output.send: waits for room, ends the proxy if the writer has ended.
ProxyPut ==
  /\ proxy.pc = "put"
  /\ \/ WriterEnded /\ output' = output /\ proxy' = Ended(proxy)
     \/ /\ ~ WriterEnded /\ Len(output) < IoCap
        /\ output' = Append(output, proxy.msg)
        /\ proxy' = CASE proxy.msg = "close"      -> Ended(proxy)
                      [] proxy.part = "request"   -> [proxy EXCEPT !.pc = "await", !.part = "reply"]
                      [] proxy.part = "refuse"    -> [proxy EXCEPT !.msg = "close"]
                      [] OTHER                    -> Loop(proxy)
  /\ UNCHANGED <<side, asked, heard, phase, snd, pending, mapped, task, writer, input, recvd, read>>

-----------------------------------------------------------------------------

TaskStep(t) == NotifyWaiters(t) \/ Attach(t) \/ Lookup(t) \/ Push(t)

Next ==
  \/ ReceivePackets \/ PollRetransmit \/ PollDeadline \/ PollExpire \/ SendFailed
  \/ \E t \in Tasks : TaskStep(t)
  \/ Writer \/ ProxyAwait \/ ProxyInput \/ ProxyWrite \/ ProxyRead \/ ProxyPut

Spec == Init /\ [][Next]_vars

\* Tasks that can go on do, the close deadline passes, and packets that
\* acknowledge everything keep coming; nothing is assumed of data or of the
\* stream, neither that it can be read nor that it takes a write.
FairSpec ==
  /\ Spec
  /\ \A t \in Tasks : WF_vars(TaskStep(t))
  /\ WF_vars(Writer) /\ WF_vars(ProxyAwait \/ ProxyInput) /\ WF_vars(ProxyPut)
  /\ SF_vars(PollDeadline)
  /\ SF_vars(snd > 0 /\ Receive(snd, <<>>, FALSE))

-----------------------------------------------------------------------------
(* Properties. *)

\* A session that is open in the core has a shell: if its tasks are gone without
\* having closed it, the exit refused the connection, and closes it itself.
NoOrphan == phase = "Open" /\ writer.pc \in {"unmap", "done"} => proxy.refused

\* No lost wake-up: a writer that waits although the core would take its write,
\* or no longer has the session, has been notified or is about to be.
NoLostWakeup ==
  writer.pc = "wait" /\ ~ writer.woken /\ (snd < Window \/ phase = "Gone") =>
    \E t \in Tasks : task[t].pc = "notify"

\* The TCP peer keeps reading: no write to the stream waits for ever.
StreamWrites == []<>(proxy.pc # "write")

WriteEnds == writer.pc = "wait" ~> (writer.pc = "recv" \/ phase # "Open")

\* The design: the shell retries a blocked write until the core takes it or the
\* session is closed, as long as the TCP peer reads.
BlockedWriteEnds == StreamWrites => WriteEnds

\* Data in one direction only: while the peer sends nothing but the request or
\* the reply that starts the exchange, a blocked write ends, whatever the TCP
\* peer does.
OneWayWriteEnds == [](recvd <= 1) => WriteEnds

\* Once the core has dropped a session, its map entry, its writer and its proxy
\* end, whichever of them was waiting for whom, as long as the TCP peer reads.
\* The exception is named: a writer that still had a message for the session
\* panics, and the process ends before anything is released.
ShellReleased ==
  StreamWrites => (phase = "Gone" ~> (Aborted \/ (~ mapped /\ WriterEnded /\ proxy.pc = "done")))
=============================================================================
