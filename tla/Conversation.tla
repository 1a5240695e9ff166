---------------------------- MODULE Conversation ----------------------------
(***************************************************************************)
(* The call loop of keepkeylib.client: BaseClient.call() writes a message, *)
(* reads the answer, hands it to the callback of its class and, when there *)
(* is one, calls itself with what the callback returned.  Every call() and *)
(* call_raw() runs inside a session of the transport, which counts how     *)
(* deeply they are nested.  Around it: the operations of ProtocolMixin, of *)
(* which the streaming ones (sign_tx, ethereum_sign_tx, reset_device, ...) *)
(* hold a session of their own; the callbacks of TextUIMixin and           *)
(* DebugLinkMixin; and reads that are abandoned (a UDP timeout, Ctrl-C, a  *)
(* callback that raises), which leave the device where it was.             *)
(*                                                                         *)
(* The device is not part of this repository.  It is modelled as the code  *)
(* uses it: one answer to each message, prompts that wait for their        *)
(* acknowledgement, Initialize and Cancel accepted everywhere.             *)
(***************************************************************************)
EXTENDS Integers, Sequences

CONSTANTS
    Simple,      \* operations of one call (get_address, sign_message, ...)
    Stream,      \* @session operations of several calls (sign_tx, ...)
    Inits,       \* init_device()
    NoOp,
    DebugLink,   \* TRUE for KeepKeyDebuglinkClient, FALSE for KeepKeyClient
    MaxAsks,     \* bound: prompts and data requests of the device per operation
    MaxFaults    \* bound: abandoned reads, failing callbacks, bare cancel()s

Ops == Simple \cup Stream \cup Inits

ASSUME ConversationAssumption ==
    /\ NoOp \notin Ops
    /\ Simple \cap Stream = {} /\ Simple \cap Inits = {} /\ Stream \cap Inits = {}
    /\ DebugLink \in BOOLEAN
    /\ MaxAsks \in Nat /\ MaxFaults \in Nat

Prompts == {"ButtonRequest", "PinMatrixRequest", "PassphraseRequest", "CharacterRequest"}
Answers == Prompts \cup {"More", "Result", "Features", "Failure"}
Commands == {"Request", "Initialize", "Ack", "ButtonAck", "PinMatrixAck",
             "PassphraseAck", "CharacterAck", "Cancel"}

\* kind: the message's class.  op: the operation it belongs to.  n: the number
\* of an answer of the device, or of the answer an acknowledgement reacts to.
\* op and n are history; neither side looks at them to decide what to do.
Message(k, o, i) == [kind |-> k, op |-> o, n |-> i]
NoMsg == Message("none", NoOp, 0)

VARIABLES
    pc,         \* the client: idle, send, wait, got, press, body
    cur,        \* the operation it is running
    msg,        \* the message to send next, or the one just read
    calls,      \* live frames of call(), recursion included
    depth,      \* transport.session_depth
    outcome,    \* history: how each operation ended
    toDev, toHost, debugCh,        \* messages on their way
    dev,        \* the device: idle, run, prompt, stream
    devOp,      \* the operation it is carrying out
    shown,      \* the prompt it is showing
    acked, decided,                \* what a button prompt has received
    asks,       \* prompts and data requests it may still issue
    lastN,      \* the number of its last answer
    alive,
    executed,   \* history: operations it has carried out
    misapplied, \* history: a decision or acknowledgement met another prompt
    unread,     \* history: answers the client has given up reading
    faults

hostVars == <<pc, cur, msg, calls, depth, outcome>>
wireVars == <<toDev, toHost, debugCh>>
devVars == <<dev, devOp, shown, acked, decided, asks, lastN, alive, executed, misapplied>>
vars == <<hostVars, wireVars, devVars, unread, faults>>

-----------------------------------------------------------------------------
(* The client *)

\* Mutant: a streaming operation without @session.
OuterMissing(o) == 0

\* The @session frame of the operation itself.
Outer(o) == IF o \in Stream THEN 1 ELSE 0

\* Mutant: an exception ends the innermost session only.
EndSessionsOnce(k) == depth' = IF depth > 1 THEN depth - 1 ELSE 0

\* session_end() run by k finally clauses.
EndSessions(k) == depth' = IF depth > k THEN depth - k ELSE 0

\* The operation is over: every frame has been left.
Leave(result) ==
    /\ outcome' = [outcome EXCEPT ![cur] = result]
    /\ pc' = "idle" /\ cur' = NoOp /\ msg' = NoMsg /\ calls' = 0

Raised == [kind |-> "raised", of |-> NoOp]
Returned(o) == [kind |-> "returned", of |-> o]
NotRun == [kind |-> "new", of |-> NoOp]

\* Mutant: init_device asks like any other operation.
BeginNoInitialize(o) ==
    /\ pc = "idle"
    /\ outcome[o] = NotRun
    /\ cur' = o
    /\ msg' = Message("Request", o, 0)
    /\ calls' = 1
    /\ depth' = depth + Outer(o) + 1
    /\ pc' = "send"
    /\ UNCHANGED <<outcome, wireVars, devVars, unread, faults>>

\* An operation starts: its own session if it has one, and the first call().
Begin(o) ==
    /\ pc = "idle"
    /\ outcome[o] = NotRun
    /\ cur' = o
    /\ msg' = Message(IF o \in Inits THEN "Initialize" ELSE "Request", o, 0)
    /\ calls' = 1
    /\ depth' = depth + Outer(o) + 1
    /\ pc' = "send"
    /\ UNCHANGED <<outcome, wireVars, devVars, unread, faults>>

\* Mutant: the message is written twice.
SendTwice ==
    /\ pc = "send"
    /\ toDev' = toDev \o <<msg, msg>>
    /\ depth' = depth + 1
    /\ pc' = "wait"
    /\ UNCHANGED <<cur, msg, calls, outcome, toHost, debugCh, devVars, unread, faults>>

\* call_raw(): session_begin() and transport.write().
Send ==
    /\ pc = "send"
    /\ toDev' = Append(toDev, msg)
    /\ depth' = depth + 1
    /\ pc' = "wait"
    /\ UNCHANGED <<cur, msg, calls, outcome, toHost, debugCh, devVars, unread, faults>>

\* call_raw(): read_blocking() returns, session_end().
Read ==
    /\ pc = "wait"
    /\ toHost # <<>>
    /\ msg' = Head(toHost)
    /\ toHost' = Tail(toHost)
    /\ EndSessions(1)
    /\ pc' = "got"
    /\ UNCHANGED <<cur, calls, outcome, toDev, debugCh, devVars, unread, faults>>

\* Mutant: a Failure is returned like any other answer.
CallbackFailureReturns ==
    /\ pc = "got" /\ msg.kind = "Failure"
    /\ Leave(Returned(cur))
    /\ EndSessions(calls + Outer(cur))
    /\ UNCHANGED <<wireVars, devVars, unread, faults>>

\* callback_Failure raises; every call() on the stack and the operation end.
CallbackFailure ==
    /\ pc = "got" /\ msg.kind = "Failure"
    /\ Leave(Raised)
    /\ EndSessions(calls + Outer(cur))
    /\ UNCHANGED <<wireVars, devVars, unread, faults>>

\* A callback returned a message: call() calls itself with it.
CallAgain(kind) ==
    /\ msg' = Message(kind, cur, msg.n)
    /\ calls' = calls + 1
    /\ depth' = depth + 1
    /\ pc' = "send"
    /\ UNCHANGED <<cur, outcome>>

\* Mutant: the button is pressed twice.
PressButtonTwice ==
    /\ pc = "got" /\ msg.kind = "ButtonRequest" /\ DebugLink
    /\ debugCh' = debugCh \o <<msg.n, msg.n>>
    /\ pc' = "press"
    /\ UNCHANGED <<cur, msg, calls, depth, outcome, toDev, toHost, devVars, unread, faults>>

\* DebugLinkMixin.callback_ButtonRequest presses the button before it
\* returns the acknowledgement; TextUIMixin leaves the button to the user.
PressButton ==
    /\ pc = "got" /\ msg.kind = "ButtonRequest" /\ DebugLink
    /\ debugCh' = Append(debugCh, msg.n)
    /\ pc' = "press"
    /\ UNCHANGED <<cur, msg, calls, depth, outcome, toDev, toHost, devVars, unread, faults>>

CallbackButtonRequest ==
    /\ \/ pc = "got" /\ msg.kind = "ButtonRequest" /\ ~DebugLink
       \/ pc = "press"
    /\ CallAgain("ButtonAck")
    /\ UNCHANGED <<wireVars, devVars, unread, faults>>

CallbackPinMatrixRequest ==
    /\ pc = "got" /\ msg.kind = "PinMatrixRequest"
    /\ CallAgain("PinMatrixAck")
    /\ UNCHANGED <<wireVars, devVars, unread, faults>>

CallbackPassphraseRequest ==
    /\ pc = "got" /\ msg.kind = "PassphraseRequest"
    /\ CallAgain("PassphraseAck")
    /\ UNCHANGED <<wireVars, devVars, unread, faults>>

\* The recovery callbacks let the user give up with Ctrl-C or Ctrl-D.
CallbackCharacterRequest ==
    /\ pc = "got" /\ msg.kind = "CharacterRequest"
    /\ \E k \in {"CharacterAck", "Cancel"} : CallAgain(k)
    /\ UNCHANGED <<wireVars, devVars, unread, faults>>

\* A message without a callback is returned through all the frames of call().
ReturnToBody ==
    /\ pc = "got" /\ msg.kind \in {"More", "Result", "Features"}
    /\ EndSessions(calls)
    /\ calls' = 0
    /\ pc' = "body"
    /\ UNCHANGED <<cur, msg, outcome, wireVars, devVars, unread, faults>>

\* A streaming operation answers the device's request with another call().
NextCall ==
    /\ pc = "body" /\ msg.kind = "More" /\ cur \in Stream
    /\ msg' = Message("Ack", cur, msg.n)
    /\ calls' = 1
    /\ depth' = depth + 1
    /\ pc' = "send"
    /\ UNCHANGED <<cur, outcome, wireVars, devVars, unread, faults>>

\* expect(): the class with which the operation ends.
Expected(o, kind) == kind = (IF o \in Inits THEN "Features" ELSE "Result")

\* The answer has the expected class: the operation returns it.
Finish ==
    /\ pc = "body" /\ Expected(cur, msg.kind)
    /\ Leave(Returned(msg.op))
    /\ EndSessions(Outer(cur))
    /\ UNCHANGED <<wireVars, devVars, unread, faults>>

\* expect() finds another class than the operation wants.
Unexpected ==
    /\ pc = "body"
    /\ ~Expected(cur, msg.kind) /\ ~(msg.kind = "More" /\ cur \in Stream)
    /\ Leave(Raised)
    /\ EndSessions(Outer(cur))
    /\ UNCHANGED <<wireVars, devVars, unread, faults>>

-----------------------------------------------------------------------------
(* What goes wrong on the client's side.  None of it tells the device.     *)

\* The read ends in EmulatorNotResponding or KeyboardInterrupt.
AbandonRead ==
    /\ pc = "wait" /\ toHost = <<>>
    /\ faults < MaxFaults
    /\ faults' = faults + 1 /\ unread' = unread + 1
    /\ Leave(Raised)
    /\ EndSessions(1 + calls + Outer(cur))
    /\ UNCHANGED <<wireVars, devVars>>

\* A callback or _check_request raises (an unexpected response in a test
\* script, a screen that does not settle, a passphrase that does not match).
CallbackRaises ==
    /\ pc = "got" /\ msg.kind # "Failure"
    /\ faults < MaxFaults
    /\ faults' = faults + 1
    /\ Leave(Raised)
    /\ EndSessions(calls + Outer(cur))
    /\ UNCHANGED <<wireVars, devVars, unread>>

\* BaseClient.cancel() writes Cancel and leaves the answer unread.
BareCancel ==
    /\ pc = "idle"
    /\ faults < MaxFaults
    /\ faults' = faults + 1 /\ unread' = unread + 1
    /\ toDev' = Append(toDev, Message("Cancel", NoOp, 0))
    /\ UNCHANGED <<hostVars, toHost, debugCh, devVars>>

\* Mutant: the transport goes on reading from a device that has crashed.
TimeoutRetried ==
    /\ pc = "wait" /\ toHost = <<>> /\ ~alive
    /\ UNCHANGED vars

\* The UDP transport gives up on a device that has crashed.
TimeoutDead ==
    /\ pc = "wait" /\ toHost = <<>> /\ ~alive
    /\ Leave(Raised)
    /\ EndSessions(1 + calls + Outer(cur))
    /\ UNCHANGED <<wireVars, devVars, unread, faults>>

\* Neither does it accept another write (a refused datagram, kkemu_write # 0).
WriteRefused ==
    /\ pc = "send" /\ ~alive
    /\ Leave(Raised)
    /\ EndSessions(calls + Outer(cur))
    /\ UNCHANGED <<wireVars, devVars, unread, faults>>

-----------------------------------------------------------------------------
(* The device and its user *)

Reply(k) ==
    /\ lastN' = lastN + 1
    /\ toHost' = Append(toHost, Message(k, devOp, lastN + 1))

\* The answer that ends a flow.
GoHome == dev' = "idle" /\ shown' = NoMsg /\ acked' = FALSE /\ decided' = 0

StillHandlesMain == alive /\ dev # "run" /\ toDev # <<>>

\* A request at the home screen starts its flow; Initialize does so anywhere.
DevStart ==
    /\ StillHandlesMain
    /\ \/ Head(toDev).kind = "Request" /\ dev = "idle"
       \/ Head(toDev).kind = "Initialize"
    /\ toDev' = Tail(toDev)
    /\ dev' = "run" /\ devOp' = Head(toDev).op
    /\ asks' = IF Head(toDev).kind = "Initialize" THEN 0 ELSE MaxAsks
    /\ shown' = NoMsg /\ acked' = FALSE /\ decided' = 0
    /\ UNCHANGED <<hostVars, toHost, debugCh, lastN, alive, executed, misapplied, unread, faults>>

\* The acknowledgement that fits what the device is waiting for.
Fits(k) ==
    \/ dev = "stream" /\ k = "Ack"
    \/ dev = "prompt" /\ shown.kind = "ButtonRequest" /\ k = "ButtonAck" /\ ~acked
    \/ dev = "prompt" /\ shown.kind = "PinMatrixRequest" /\ k = "PinMatrixAck"
    \/ dev = "prompt" /\ shown.kind = "PassphraseRequest" /\ k = "PassphraseAck"
    \/ dev = "prompt" /\ shown.kind = "CharacterRequest" /\ k = "CharacterAck"

DevAcknowledged ==
    /\ StillHandlesMain
    /\ Fits(Head(toDev).kind)
    /\ toDev' = Tail(toDev)
    /\ misapplied' = (misapplied \/ Head(toDev).n # lastN)
    /\ IF Head(toDev).kind = "ButtonAck"
          THEN acked' = TRUE /\ UNCHANGED <<dev, shown, decided>>
          ELSE dev' = "run" /\ shown' = NoMsg /\ UNCHANGED <<acked, decided>>
    /\ UNCHANGED <<hostVars, toHost, debugCh, devOp, asks, lastN, alive, executed, unread, faults>>

\* Cancel, or a message that does not fit: the flow is aborted.
DevRefuses ==
    /\ StillHandlesMain
    /\ Head(toDev).kind # "Initialize"
    /\ ~Fits(Head(toDev).kind)
    /\ ~(Head(toDev).kind = "Request" /\ dev = "idle")
    /\ toDev' = Tail(toDev)
    /\ Reply("Failure")
    /\ GoHome
    /\ UNCHANGED <<hostVars, debugCh, devOp, asks, alive, executed, misapplied, unread, faults>>

\* DebugLinkDecision: taken by a button prompt, ignored everywhere else.
DevDecision ==
    /\ alive /\ dev # "run" /\ debugCh # <<>>
    /\ debugCh' = Tail(debugCh)
    /\ IF dev = "prompt" /\ shown.kind = "ButtonRequest"
          THEN /\ decided' = Head(debugCh)
               /\ misapplied' = (misapplied \/ Head(debugCh) # shown.n)
          ELSE UNCHANGED <<decided, misapplied>>
    /\ UNCHANGED <<hostVars, toDev, toHost, dev, devOp, shown, acked, asks, lastN, alive, executed, unread, faults>>

\* The user presses the device's button once the prompt is acknowledged.
UserPresses ==
    /\ alive /\ ~DebugLink
    /\ dev = "prompt" /\ acked /\ decided = 0
    /\ decided' = shown.n
    /\ UNCHANGED <<hostVars, wireVars, dev, devOp, shown, acked, asks, lastN, alive, executed, misapplied, unread, faults>>

DevConfirmed ==
    /\ alive /\ dev = "prompt" /\ acked /\ decided # 0
    /\ dev' = "run" /\ shown' = NoMsg /\ acked' = FALSE /\ decided' = 0
    /\ UNCHANGED <<hostVars, wireVars, devOp, asks, lastN, alive, executed, misapplied, unread, faults>>

\* The device needs the user or more data.
DevAsks ==
    /\ alive /\ dev = "run" /\ asks > 0
    /\ asks' = asks - 1
    /\ \/ \E k \in Prompts :
             /\ Reply(k)
             /\ dev' = "prompt" /\ shown' = Message(k, devOp, lastN + 1)
       \/ /\ devOp \in Stream
          /\ Reply("More")
          /\ dev' = "stream" /\ UNCHANGED shown
    /\ UNCHANGED <<hostVars, toDev, debugCh, devOp, acked, decided, alive, executed, misapplied, unread, faults>>

DevCompletes ==
    /\ alive /\ dev = "run"
    /\ Reply(IF devOp \in Inits THEN "Features" ELSE "Result")
    /\ GoHome
    /\ executed' = executed \cup {devOp}
    /\ UNCHANGED <<hostVars, toDev, debugCh, devOp, asks, alive, misapplied, unread, faults>>

\* A wrong PIN, a refusal by the user, an invalid request.
DevFails ==
    /\ alive /\ dev = "run" /\ devOp \notin Inits
    /\ Reply("Failure")
    /\ GoHome
    /\ UNCHANGED <<hostVars, toDev, debugCh, devOp, asks, alive, executed, misapplied, unread, faults>>

DevCrash ==
    /\ alive
    /\ faults < MaxFaults
    /\ faults' = faults + 1
    /\ alive' = FALSE
    /\ UNCHANGED <<hostVars, wireVars, dev, devOp, shown, acked, decided, asks, lastN, executed, misapplied, unread>>

-----------------------------------------------------------------------------
Init ==
    /\ pc = "idle" /\ cur = NoOp /\ msg = NoMsg /\ calls = 0 /\ depth = 0
    /\ outcome = [o \in Ops |-> NotRun]
    /\ toDev = <<>> /\ toHost = <<>> /\ debugCh = <<>>
    /\ dev = "idle" /\ devOp = NoOp /\ shown = NoMsg /\ acked = FALSE /\ decided = 0
    /\ asks = 0 /\ lastN = 0 /\ alive = TRUE /\ executed = {} /\ misapplied = FALSE
    /\ unread = 0 /\ faults = 0

ClientStep ==
    \/ Send \/ Read
    \/ CallbackFailure \/ PressButton \/ CallbackButtonRequest
    \/ CallbackPinMatrixRequest \/ CallbackPassphraseRequest \/ CallbackCharacterRequest
    \/ ReturnToBody \/ NextCall \/ Finish \/ Unexpected
    \/ TimeoutDead \/ WriteRefused

DeviceStep ==
    \/ DevStart \/ DevAcknowledged \/ DevRefuses \/ DevConfirmed
    \/ DevAsks \/ DevCompletes \/ DevFails

Fault == AbandonRead \/ CallbackRaises \/ BareCancel \/ DevCrash

Next ==
    \/ \E o \in Ops : Begin(o)
    \/ ClientStep
    \/ DeviceStep
    \/ DevDecision
    \/ UserPresses
    \/ Fault

\* The client's thread runs; a live device handles what it receives and its
\* user answers the prompts.  Nobody has to start an operation or to fail.
Fairness == WF_vars(ClientStep) /\ WF_vars(DeviceStep) /\ WF_vars(DevDecision) /\ WF_vars(UserPresses)

Spec == Init /\ [][Next]_vars /\ Fairness
-----------------------------------------------------------------------------
(* Properties *)

MessageSet(kinds) == [kind : kinds, op : Ops \cup {NoOp}, n : Nat]

HostTypeOK ==
    /\ pc \in {"idle", "send", "wait", "got", "press", "body"}
    /\ cur \in Ops \cup {NoOp}
    /\ msg \in MessageSet(Commands \cup Answers \cup {"none"})
    /\ calls \in Nat /\ depth \in Nat
    /\ outcome \in [Ops -> [kind : {"new", "raised", "returned"}, of : Ops \cup {NoOp}]]

WireTypeOK ==
    /\ toDev \in Seq(MessageSet(Commands)) /\ toHost \in Seq(MessageSet(Answers))
    /\ debugCh \in Seq(Nat)

DeviceTypeOK ==
    /\ dev \in {"idle", "run", "prompt", "stream"}
    /\ devOp \in Ops \cup {NoOp}
    /\ shown \in MessageSet(Prompts \cup {"none"})
    /\ acked \in BOOLEAN /\ alive \in BOOLEAN /\ misapplied \in BOOLEAN
    /\ decided \in Nat /\ lastN \in Nat
    /\ asks \in 0..MaxAsks
    /\ executed \subseteq Ops

\* Type invariant of the client, the transports and the device.
TypeOK ==
    /\ HostTypeOK /\ WireTypeOK /\ DeviceTypeOK
    /\ faults \in 0..MaxFaults /\ unread \in 0..faults

\* However an operation ends (a result, an exception in a callback three
\* call()s deep, a timeout) its sessions end with it: transport.session_depth
\* is the number of frames that are still alive, and 0 between operations.
SessionPerFrame == depth = calls + Outer(cur) + (IF pc = "wait" THEN 1 ELSE 0)

\* Transport.session_begin: a session is held from the first message of a
\* multistep conversation to its last, so that the lock never opens while the
\* device is in the middle of it (unless answers have been left unread).
SessionSpansConversation ==
    unread = 0 /\ alive /\ pc # "idle" /\ dev # "idle" => depth >= 1

\* Strict alternation: the client never has more than one message unanswered,
\* one more for each answer that it has given up reading.
Outstanding ==
    Len(toDev) + Len(toHost)
    + (IF dev = "run" \/ (dev = "prompt" /\ acked) THEN 1 ELSE 0)
OneAnswerPerMessage ==
    alive => Outstanding <= (IF pc = "wait" THEN 1 ELSE 0) + unread

\* An operation that returns, returns the answer to its own request, after
\* exceptions and crashes too: only an answer left unread can be taken for
\* the answer to a later request.
AnswersMatch ==
    unread = 0 => \A o \in Ops : outcome[o].kind = "returned" => outcome[o].of = o

\* Every button press and acknowledgement meets the prompt that it was meant
\* for, although presses travel on a channel of their own.
ApprovalMeetsItsPrompt == unread = 0 => ~misapplied

\* An operation that was broken off in the middle of a flow cannot harm a
\* following init_device(): the next answer is the Features of that call.
InitDeviceRecovers ==
    unread = 0 /\ pc = "got" /\ cur \in Inits => msg.kind = "Features" /\ msg.op = cur

\* A result that reached the caller was really produced by the device.
ReturnedWasExecuted ==
    \A o \in Ops : outcome[o].kind = "returned" => outcome[o].of \in executed

\* No operation waits for ever: with a user who answers the prompts it ends,
\* and on a device that has crashed it ends too (transport_udp.py: "A dead
\* emulator must surface as an ERROR, not as an infinite wait").
OperationEnds == pc # "idle" ~> pc = "idle"

\* The operations as their callers see them (no fault).
StatusOf(o) == IF outcome[o] # NotRun THEN outcome[o].kind ELSE IF cur = o THEN "open" ELSE "new"
Remote == INSTANCE RemoteOperations WITH status <- [o \in Ops |-> StatusOf(o)]
RemoteSpec == Remote!Spec

\* What call() and the session decorator keep up through every exception:
\* one session per frame, and never more than one message on its way.
SessionDiscipline == TypeOK /\ SessionPerFrame /\ OneAnswerPerMessage

\* An outcome is the device's own answer to the operation that returns it.
OutcomesAreReal == AnswersMatch /\ ReturnedWasExecuted
=============================================================================
