------------------------- MODULE Conversation_proofs -------------------------
(***************************************************************************)
(* Proofs about the call loop for any number of operations, prompts and    *)
(* faults: its types, the sessions it holds, the strict alternation of     *)
(* messages and answers, what approvals, Initialize and results meet when  *)
(* no answer was left unread, and the refinement of RemoteOperations.      *)
(***************************************************************************)
EXTENDS Conversation, TLAPS

\* Every message to the device but a bare Cancel belongs to an operation.
CommandSet == {m \in MessageSet(Commands) : m.kind # "Cancel" => m.op \in Ops}
AnswerSet == MessageSet(Answers)

\* Where the client is in its frames of call(), and what it holds there.
HostInv ==
    /\ HostTypeOK
    /\ pc = "idle" <=> cur = NoOp
    /\ pc \in {"idle", "body"} => calls = 0
    /\ pc \in {"send", "wait", "got", "press"} => calls >= 1
    /\ pc \in {"send", "wait"} => msg \in CommandSet
    /\ pc \in {"got", "press", "body"} => msg \in AnswerSet

WireInv ==
    /\ toDev \in Seq(CommandSet) /\ toHost \in Seq(AnswerSet)
    /\ debugCh \in Seq(Nat)

DevInv ==
    /\ DeviceTypeOK
    /\ dev # "idle" => devOp \in Ops

FaultInv == faults \in 0..MaxFaults /\ unread \in 0..faults

TypeInv == HostInv /\ WireInv /\ DevInv /\ FaultInv

-----------------------------------------------------------------------------
(* Messages and channels *)

LEMMA MessageType ==
    ASSUME NEW K, NEW k \in K, NEW o \in Ops \cup {NoOp}, NEW i \in Nat
    PROVE  Message(k, o, i) \in MessageSet(K)
BY DEF Message, MessageSet

LEMMA MessageFields ==
    ASSUME NEW K, NEW m \in MessageSet(K)
    PROVE  m.kind \in K /\ m.op \in Ops \cup {NoOp} /\ m.n \in Nat
BY DEF MessageSet

\* A command of an operation.
LEMMA CommandType ==
    ASSUME NEW k \in Commands, NEW o \in Ops, NEW i \in Nat
    PROVE  Message(k, o, i) \in CommandSet
BY MessageType DEF CommandSet, Message

\* The smaller sets of messages are in the larger one.
LEMMA MessageSets ==
    /\ AnswerSet \subseteq MessageSet(Commands \cup Answers \cup {"none"})
    /\ CommandSet \subseteq MessageSet(Commands \cup Answers \cup {"none"})
    /\ NoMsg \in MessageSet(Commands \cup Answers \cup {"none"})
    /\ NoMsg \in MessageSet(Prompts \cup {"none"})
BY DEF MessageSet, CommandSet, AnswerSet, NoMsg, Message

\* Taking the first message of a channel.
LEMMA HeadTaken ==
    ASSUME NEW S, NEW q \in Seq(S), q # <<>>
    PROVE  Head(q) \in S /\ Tail(q) \in Seq(S) /\ Len(Tail(q)) = Len(q) - 1 /\ Len(q) >= 1
OBVIOUS

\* Adding a message to a channel.
LEMMA LastAdded ==
    ASSUME NEW S, NEW q \in Seq(S), NEW m \in S
    PROVE  Append(q, m) \in Seq(S) /\ Len(Append(q, m)) = Len(q) + 1
OBVIOUS

\* Replies of the device are answers.
LEMMA ReplyType ==
    ASSUME WireInv, DevInv, NEW k \in Answers, Reply(k)
    PROVE  toHost' \in Seq(AnswerSet) /\ Len(toHost') = Len(toHost) + 1 /\ lastN' \in Nat
<1>1. lastN + 1 \in Nat /\ devOp \in Ops \cup {NoOp}
  BY DEF DevInv, DeviceTypeOK
<1>2. Message(k, devOp, lastN + 1) \in AnswerSet
  BY <1>1, MessageType DEF AnswerSet
<1> QED
  BY <1>1, <1>2, LastAdded DEF Reply, WireInv

\* Frames of operations.
LEMMA OuterType == \A o : Outer(o) \in {0, 1}
BY DEF Outer

-----------------------------------------------------------------------------
(* The client's variables *)

\* An operation that ends leaves all its frames.
LEMMA LeaveHost ==
    ASSUME HostInv, NEW r \in [kind : {"new", "raised", "returned"}, of : Ops \cup {NoOp}],
           NEW n \in Nat, Leave(r), EndSessions(n)
    PROVE  HostInv'
<1>1. depth' \in Nat
  BY DEF EndSessions, HostInv, HostTypeOK
<1>2. outcome' \in [Ops -> [kind : {"new", "raised", "returned"}, of : Ops \cup {NoOp}]]
  BY DEF Leave, HostInv, HostTypeOK
<1> QED
  BY <1>1, <1>2, MessageSets DEF Leave, HostInv, HostTypeOK

\* A callback that answers starts one more frame of call().
LEMMA CallAgainHost ==
    ASSUME HostInv, NEW k \in Commands, CallAgain(k), pc \in {"got", "press"}
    PROVE  HostInv'
<1>1. cur \in Ops /\ msg.n \in Nat
  BY MessageFields DEF HostInv, HostTypeOK
<1>2. msg' \in CommandSet
  BY <1>1, CommandType DEF CallAgain
<1>3. msg' \in MessageSet(Commands \cup Answers \cup {"none"})
  BY <1>2, MessageSets
<1>4. calls' \in Nat /\ calls' >= 1 /\ depth' \in Nat
  BY DEF CallAgain, HostInv, HostTypeOK
<1> QED
  BY <1>1, <1>2, <1>3, <1>4 DEF CallAgain, HostInv, HostTypeOK

LEMMA ClientHost ==
    ASSUME HostInv, WireInv, ClientStep \/ \E o \in Ops : Begin(o)
    PROVE  HostInv'
<1>1. ASSUME NEW o \in Ops, Begin(o) PROVE HostInv'
  <2>1. msg' \in CommandSet
    BY <1>1, CommandType DEF Begin, Commands
  <2>2. cur' \in Ops /\ cur' # NoOp
    BY <1>1, ConversationAssumption DEF Begin
  <2>3. depth' \in Nat
    BY <1>1, OuterType DEF Begin, HostInv, HostTypeOK
  <2>4. msg' \in MessageSet(Commands \cup Answers \cup {"none"})
    BY <2>1, MessageSets
  <2> QED
    BY <1>1, <2>1, <2>2, <2>3, <2>4 DEF Begin, HostInv, HostTypeOK
<1>2. CASE Send
  BY <1>2 DEF Send, HostInv, HostTypeOK
<1>3. CASE Read
  <2>1. msg' \in AnswerSet
    BY <1>3, HeadTaken DEF Read, WireInv
  <2>2. depth' \in Nat
    BY <1>3 DEF Read, EndSessions, HostInv, HostTypeOK
  <2> QED
    BY <1>3, <2>1, <2>2, MessageSets DEF Read, HostInv, HostTypeOK
<1>4. CASE PressButton
  BY <1>4 DEF PressButton, HostInv, HostTypeOK
<1>5. CASE CallbackButtonRequest
  BY <1>5, CallAgainHost DEF CallbackButtonRequest, Commands
<1>6. CASE CallbackPinMatrixRequest
  BY <1>6, CallAgainHost DEF CallbackPinMatrixRequest, Commands
<1>7. CASE CallbackPassphraseRequest
  BY <1>7, CallAgainHost DEF CallbackPassphraseRequest, Commands
<1>8. CASE CallbackCharacterRequest
  BY <1>8, CallAgainHost DEF CallbackCharacterRequest, Commands
<1>9. CASE ReturnToBody
  <2>1. depth' \in Nat
    BY <1>9 DEF ReturnToBody, EndSessions, HostInv, HostTypeOK
  <2> QED
    BY <1>9, <2>1 DEF ReturnToBody, HostInv, HostTypeOK
<1>10. CASE NextCall
  <2>1. cur \in Ops /\ msg.n \in Nat
    BY <1>10, MessageFields DEF NextCall, HostInv, HostTypeOK
  <2>2. msg' \in CommandSet
    BY <1>10, <2>1, CommandType DEF NextCall, Commands
  <2> QED
    BY <1>10, <2>1, <2>2, MessageSets DEF NextCall, HostInv, HostTypeOK
<1>11. CASE CallbackFailure \/ Unexpected \/ TimeoutDead \/ WriteRefused
  <2>1. Outer(cur) \in Nat /\ calls + Outer(cur) \in Nat /\ 1 + calls + Outer(cur) \in Nat
    BY OuterType DEF HostInv, HostTypeOK
  <2>2. Raised \in [kind : {"new", "raised", "returned"}, of : Ops \cup {NoOp}]
    BY DEF Raised
  <2> QED
    BY <1>11, <2>1, <2>2, LeaveHost DEF CallbackFailure, Unexpected, TimeoutDead, WriteRefused
<1>12. CASE Finish
  <2>1. Outer(cur) \in Nat /\ msg.op \in Ops \cup {NoOp}
    BY MessageFields, OuterType DEF HostInv, HostTypeOK
  <2>2. Returned(msg.op) \in [kind : {"new", "raised", "returned"}, of : Ops \cup {NoOp}]
    BY <2>1 DEF Returned
  <2> QED
    BY <1>12, <2>1, <2>2, LeaveHost DEF Finish
<1> QED
  BY <1>1, <1>2, <1>3, <1>4, <1>5, <1>6, <1>7, <1>8, <1>9, <1>10, <1>11, <1>12 DEF ClientStep

LEMMA FaultHost ==
    ASSUME HostInv, Fault
    PROVE  HostInv'
<1>1. CASE AbandonRead \/ CallbackRaises
  <2>1. calls + Outer(cur) \in Nat /\ 1 + calls + Outer(cur) \in Nat
    BY OuterType DEF HostInv, HostTypeOK
  <2>2. Raised \in [kind : {"new", "raised", "returned"}, of : Ops \cup {NoOp}]
    BY DEF Raised
  <2> QED
    BY <1>1, <2>1, <2>2, LeaveHost DEF AbandonRead, CallbackRaises
<1>2. CASE BareCancel \/ DevCrash
  BY <1>2 DEF BareCancel, DevCrash, hostVars, HostInv, HostTypeOK
<1> QED
  BY <1>1, <1>2 DEF Fault

-----------------------------------------------------------------------------
(* The channels *)

\* Only Send, PressButton and BareCancel of the client's steps write.
LEMMA ClientWire ==
    ASSUME HostInv, WireInv, ClientStep \/ Fault \/ \E o \in Ops : Begin(o)
    PROVE  WireInv'
<1>1. CASE Send
  <2>1. msg \in CommandSet
    BY <1>1 DEF Send, HostInv
  <2>2. toDev' \in Seq(CommandSet)
    BY <1>1, <2>1, LastAdded DEF Send, WireInv
  <2> QED
    BY <1>1, <2>2 DEF Send, WireInv
<1>2. CASE Read
  <2>1. toHost' \in Seq(AnswerSet)
    BY <1>2, HeadTaken DEF Read, WireInv
  <2> QED
    BY <1>2, <2>1 DEF Read, WireInv
<1>3. CASE PressButton
  <2>1. msg.n \in Nat
    BY MessageFields DEF HostInv, HostTypeOK
  <2>2. debugCh' \in Seq(Nat)
    BY <1>3, <2>1, LastAdded DEF PressButton, WireInv
  <2> QED
    BY <1>3, <2>2 DEF PressButton, WireInv
<1>4. CASE BareCancel
  <2>1. Message("Cancel", NoOp, 0) \in CommandSet
    BY MessageType DEF CommandSet, Commands, Message
  <2>2. toDev' \in Seq(CommandSet)
    BY <1>4, <2>1, LastAdded DEF BareCancel, WireInv
  <2> QED
    BY <1>4, <2>2 DEF BareCancel, WireInv
<1>5. CASE ~(Send \/ Read \/ PressButton \/ BareCancel)
  <2>1. UNCHANGED wireVars
    BY <1>5 DEF ClientStep, Fault, Begin, CallbackFailure, CallbackButtonRequest,
         CallbackPinMatrixRequest, CallbackPassphraseRequest, CallbackCharacterRequest,
         ReturnToBody, NextCall, Finish, Unexpected, TimeoutDead, WriteRefused,
         AbandonRead, CallbackRaises, DevCrash
  <2> QED
    BY <2>1 DEF wireVars, WireInv
<1> QED
  BY <1>1, <1>2, <1>3, <1>4, <1>5

LEMMA DeviceWire ==
    ASSUME WireInv, DevInv, DeviceStep \/ DevDecision \/ UserPresses
    PROVE  WireInv'
<1>1. CASE DevStart \/ DevAcknowledged
  <2>1. toDev # <<>> /\ toDev' = Tail(toDev)
    BY <1>1 DEF DevStart, DevAcknowledged, StillHandlesMain
  <2>2. toDev' \in Seq(CommandSet)
    BY <2>1, HeadTaken DEF WireInv
  <2> QED
    BY <1>1, <2>2 DEF DevStart, DevAcknowledged, WireInv
<1>2. CASE DevRefuses
  <2>1. toDev # <<>> /\ toDev' = Tail(toDev)
    BY <1>2 DEF DevRefuses, StillHandlesMain
  <2>2. toDev' \in Seq(CommandSet)
    BY <2>1, HeadTaken DEF WireInv
  <2>3. toHost' \in Seq(AnswerSet)
    BY <1>2, ReplyType DEF DevRefuses, Answers
  <2> QED
    BY <1>2, <2>2, <2>3 DEF DevRefuses, WireInv
<1>3. CASE DevAsks \/ DevCompletes \/ DevFails
  <2>1. toHost' \in Seq(AnswerSet)
    BY <1>3, ReplyType DEF DevAsks, DevCompletes, DevFails, Answers, Prompts
  <2> QED
    BY <1>3, <2>1 DEF DevAsks, DevCompletes, DevFails, WireInv
<1>4. CASE DevDecision
  <2>1. debugCh' \in Seq(Nat)
    BY <1>4, HeadTaken DEF DevDecision, WireInv
  <2> QED
    BY <1>4, <2>1 DEF DevDecision, WireInv
<1>5. CASE DevConfirmed \/ UserPresses
  BY <1>5 DEF DevConfirmed, UserPresses, wireVars, WireInv
<1> QED
  BY <1>1, <1>2, <1>3, <1>4, <1>5 DEF DeviceStep

-----------------------------------------------------------------------------
(* The device's variables *)

LEMMA DeviceDev ==
    ASSUME WireInv, DevInv, DeviceStep \/ DevDecision \/ UserPresses
    PROVE  DevInv'
<1> USE DEF DevInv, DeviceTypeOK
<1>1. CASE DevStart
  <2>1. Head(toDev) \in CommandSet
    BY <1>1, HeadTaken DEF DevStart, StillHandlesMain, WireInv
  <2>2. devOp' \in Ops
    BY <1>1, <2>1 DEF DevStart, CommandSet
  <2>3. asks' \in 0..MaxAsks
    BY <1>1, ConversationAssumption DEF DevStart
  <2> QED
    BY <1>1, <2>2, <2>3, MessageSets DEF DevStart
<1>2. CASE DevAcknowledged
  <2>1. dev # "idle"
    BY <1>2 DEF DevAcknowledged, Fits
  <2>2. shown' \in MessageSet(Prompts \cup {"none"})
    BY <1>2, MessageSets DEF DevAcknowledged
  <2>3. misapplied' \in BOOLEAN /\ acked' \in BOOLEAN
    BY <1>2 DEF DevAcknowledged
  <2> QED
    BY <1>2, <2>1, <2>2, <2>3 DEF DevAcknowledged
<1>3. CASE DevRefuses \/ DevFails
  <2>1. lastN' \in Nat
    BY <1>3, ReplyType DEF DevRefuses, DevFails, Answers
  <2>2. GoHome /\ UNCHANGED <<devOp, asks, alive, executed, misapplied>>
    BY <1>3 DEF DevRefuses, DevFails
  <2> QED
    BY <2>1, <2>2, MessageSets DEF GoHome
<1>4. CASE DevConfirmed
  BY <1>4, MessageSets DEF DevConfirmed
<1>5. CASE DevAsks
  <2>1. asks' \in 0..MaxAsks
    BY <1>5, ConversationAssumption DEF DevAsks
  <2>2. lastN' \in Nat /\ lastN + 1 \in Nat /\ devOp \in Ops
    BY <1>5, ReplyType DEF DevAsks, Answers, Prompts
  <2>3. \A k \in Prompts : Message(k, devOp, lastN + 1) \in MessageSet(Prompts \cup {"none"})
    BY <2>2, MessageType
  <2>4. shown' \in MessageSet(Prompts \cup {"none"}) /\ dev' \in {"prompt", "stream"}
    BY <1>5, <2>3 DEF DevAsks
  <2> QED
    BY <1>5, <2>1, <2>2, <2>4 DEF DevAsks
<1>6. CASE DevCompletes
  <2>1. lastN' \in Nat
    BY <1>6, ReplyType DEF DevCompletes, Answers
  <2>2. GoHome /\ UNCHANGED <<devOp, asks, alive, misapplied>> /\ executed' \subseteq Ops
    BY <1>6 DEF DevCompletes
  <2> QED
    BY <2>1, <2>2, MessageSets DEF GoHome
<1>7. CASE DevDecision
  <2>1. Head(debugCh) \in Nat
    BY <1>7, HeadTaken DEF DevDecision, WireInv
  <2> QED
    BY <1>7, <2>1 DEF DevDecision
<1>8. CASE UserPresses
  BY <1>8, MessageFields DEF UserPresses
<1> QED
  BY <1>1, <1>2, <1>3, <1>4, <1>5, <1>6, <1>7, <1>8 DEF DeviceStep

-----------------------------------------------------------------------------
(* Types *)

LEMMA InitTypeInv == Init => TypeInv
<1> SUFFICES ASSUME Init PROVE TypeInv
  OBVIOUS
<1>1. outcome \in [Ops -> [kind : {"new", "raised", "returned"}, of : Ops \cup {NoOp}]]
  BY DEF Init, NotRun
<1>2. HostInv
  BY <1>1, MessageSets DEF Init, HostInv, HostTypeOK
<1>3. WireInv /\ FaultInv
  BY ConversationAssumption DEF Init, WireInv, FaultInv
<1>4. DevInv
  <2>1. asks \in 0..MaxAsks
    BY ConversationAssumption DEF Init
  <2>2. shown \in MessageSet(Prompts \cup {"none"})
    BY MessageSets DEF Init
  <2> QED
    BY <2>1, <2>2 DEF Init, DevInv, DeviceTypeOK
<1> QED
  BY <1>2, <1>3, <1>4 DEF TypeInv

LEMMA NextTypeInv == TypeInv /\ [Next]_vars => TypeInv'
<1> SUFFICES ASSUME TypeInv, [Next]_vars PROVE TypeInv'
  OBVIOUS
<1> USE DEF TypeInv
<1>1. CASE ClientStep \/ \E o \in Ops : Begin(o)
  <2>1. UNCHANGED <<devVars, unread, faults>>
    BY <1>1 DEF ClientStep, Begin, Send, Read, PressButton, CallbackFailure, CallbackButtonRequest,
         CallbackPinMatrixRequest, CallbackPassphraseRequest, CallbackCharacterRequest,
         ReturnToBody, NextCall, Finish, Unexpected, TimeoutDead, WriteRefused
  <2> QED
    BY <1>1, <2>1, ClientHost, ClientWire DEF devVars, DevInv, DeviceTypeOK, FaultInv
<1>2. CASE DeviceStep \/ DevDecision \/ UserPresses
  <2>1. UNCHANGED <<hostVars, unread, faults>>
    BY <1>2 DEF DeviceStep, DevStart, DevAcknowledged, DevRefuses, DevConfirmed, DevAsks,
         DevCompletes, DevFails, DevDecision, UserPresses
  <2> QED
    BY <1>2, <2>1, DeviceWire, DeviceDev DEF hostVars, HostInv, HostTypeOK, FaultInv
<1>3. CASE Fault
  <2>1. DevInv'
    BY <1>3 DEF Fault, AbandonRead, CallbackRaises, BareCancel, DevCrash, devVars, DevInv, DeviceTypeOK
  <2>2. FaultInv'
    BY <1>3, ConversationAssumption DEF Fault, AbandonRead, CallbackRaises, BareCancel, DevCrash, FaultInv
  <2> QED
    BY <1>3, <2>1, <2>2, FaultHost, ClientWire
<1>4. CASE UNCHANGED vars
  BY <1>4 DEF vars, hostVars, wireVars, devVars, HostInv, HostTypeOK, WireInv, DevInv,
       DeviceTypeOK, FaultInv
<1> QED
  BY <1>1, <1>2, <1>3, <1>4 DEF Next

\* The messages of the refined channel types are messages.
LEMMA ChannelTypes == WireInv => WireTypeOK
<1>1. CommandSet \subseteq MessageSet(Commands) /\ AnswerSet = MessageSet(Answers)
  BY DEF CommandSet, AnswerSet
<1>2. \A S, T : S \subseteq T => Seq(S) \subseteq Seq(T)
  OBVIOUS
<1> QED
  BY <1>1, <1>2 DEF WireInv, WireTypeOK

\* The client, the channels and the device always have their types.
THEOREM TypeCorrect == Spec => []TypeOK
<1>1. TypeInv => TypeOK
  BY ChannelTypes DEF TypeInv, HostInv, DevInv, FaultInv, TypeOK
<1> QED
  BY <1>1, InitTypeInv, NextTypeInv, PTL DEF Spec

-----------------------------------------------------------------------------
(* Sessions *)

SessionInv == TypeInv /\ SessionPerFrame

\* An operation that ends closes as many sessions as it has open.
LEMMA LeaveSession ==
    ASSUME TypeInv, NEW r, NEW n \in Nat, Leave(r), EndSessions(n), depth = n
    PROVE  SessionPerFrame'
<1>1. Outer(NoOp) = 0
  BY ConversationAssumption DEF Outer, Ops
<1>2. depth' = 0 /\ calls' = 0 /\ cur' = NoOp /\ pc' = "idle"
  BY DEF Leave, EndSessions
<1>3. Outer(cur)' = Outer(cur')
  BY DEF Outer
<1> QED
  BY <1>1, <1>2, <1>3 DEF SessionPerFrame

\* The number of open sessions follows the frames in every step.
LEMMA NextSessionInv == SessionInv /\ [Next]_vars => SessionInv'
<1> SUFFICES ASSUME SessionInv, [Next]_vars PROVE SessionPerFrame'
  BY NextTypeInv DEF SessionInv
<1>1. calls \in Nat /\ depth \in Nat /\ Outer(cur) \in Nat
  BY OuterType DEF SessionInv, TypeInv, HostInv, HostTypeOK
<1>2. ASSUME NEW o \in Ops, Begin(o) PROVE SessionPerFrame'
  <2>1. depth = 0
    BY <1>2, ConversationAssumption
       DEF Begin, SessionInv, TypeInv, HostInv, SessionPerFrame, Outer, Ops
  <2>2. depth' = Outer(o) + 1 /\ calls' = 1 /\ cur' = o /\ pc' = "send" /\ Outer(o) \in Nat
    BY <1>2, <2>1, OuterType DEF Begin
  <2> QED
    BY <2>2 DEF SessionPerFrame, Outer
<1>3. CASE Send
  BY <1>1, <1>3 DEF Send, SessionInv, SessionPerFrame, Outer
<1>4. CASE Read \/ ReturnToBody \/ NextCall
  BY <1>1, <1>4 DEF Read, ReturnToBody, NextCall, EndSessions, SessionInv, TypeInv, HostInv,
       SessionPerFrame, Outer
<1>5. CASE PressButton
  BY <1>5 DEF PressButton, SessionInv, SessionPerFrame, Outer
<1>6. ASSUME NEW k, CallAgain(k), pc \in {"got", "press"} PROVE SessionPerFrame'
  BY <1>1, <1>6 DEF CallAgain, SessionInv, SessionPerFrame, Outer
<1>7. CASE CallbackButtonRequest \/ CallbackPinMatrixRequest \/ CallbackPassphraseRequest
           \/ CallbackCharacterRequest
  BY <1>6, <1>7 DEF CallbackButtonRequest, CallbackPinMatrixRequest, CallbackPassphraseRequest,
       CallbackCharacterRequest
<1>8. CASE CallbackFailure \/ CallbackRaises \/ WriteRefused
  <2>1. depth = calls + Outer(cur)
    BY <1>1, <1>8 DEF CallbackFailure, CallbackRaises, WriteRefused, SessionInv, SessionPerFrame
  <2> QED
    BY <1>1, <1>8, <2>1, LeaveSession DEF CallbackFailure, CallbackRaises, WriteRefused, SessionInv
<1>9. CASE AbandonRead \/ TimeoutDead
  <2>1. depth = 1 + calls + Outer(cur)
    BY <1>1, <1>9 DEF AbandonRead, TimeoutDead, SessionInv, SessionPerFrame
  <2> QED
    BY <1>1, <1>9, <2>1, LeaveSession DEF AbandonRead, TimeoutDead, SessionInv
<1>10. CASE Finish \/ Unexpected
  <2>1. depth = Outer(cur)
    BY <1>1, <1>10 DEF Finish, Unexpected, SessionInv, TypeInv, HostInv, SessionPerFrame
  <2> QED
    BY <1>1, <1>10, <2>1, LeaveSession DEF Finish, Unexpected, SessionInv
<1>11. CASE BareCancel \/ DevCrash \/ DeviceStep \/ DevDecision \/ UserPresses \/ UNCHANGED vars
  <2>1. UNCHANGED hostVars
    BY <1>11 DEF BareCancel, DevCrash, DeviceStep, DevStart, DevAcknowledged, DevRefuses,
         DevConfirmed, DevAsks, DevCompletes, DevFails, DevDecision, UserPresses, vars
  <2> QED
    BY <2>1 DEF hostVars, SessionInv, SessionPerFrame, Outer
<1> QED
  BY <1>2, <1>3, <1>4, <1>5, <1>7, <1>8, <1>9, <1>10, <1>11 DEF Next, ClientStep, Fault

LEMMA InitSessionInv == Init => SessionInv
<1>1. Outer(NoOp) = 0
  BY ConversationAssumption DEF Outer, Ops
<1> QED
  BY <1>1, InitTypeInv DEF Init, SessionInv, SessionPerFrame

\* Transport.session_depth is the number of live frames, however they end.
THEOREM SessionsMatchFrames == Spec => []SessionPerFrame
<1>1. SessionInv => SessionPerFrame
  BY DEF SessionInv
<1> QED
  BY <1>1, InitSessionInv, NextSessionInv, PTL DEF Spec

-----------------------------------------------------------------------------
(* Strict alternation *)

\* Only a button prompt waits for a press after it has been acknowledged.
AckedInv == acked => dev = "prompt" /\ shown.kind = "ButtonRequest"

AlternationInv == TypeInv /\ AckedInv /\ OneAnswerPerMessage

\* The lengths of the channels, and what the counts below are made of.
LEMMA ChannelLengths ==
    ASSUME TypeInv
    PROVE  /\ Len(toDev) \in Nat /\ Len(toHost) \in Nat /\ unread \in Nat
           /\ toDev # <<>> => Len(Tail(toDev)) = Len(toDev) - 1
           /\ toHost # <<>> => Len(Tail(toHost)) = Len(toHost) - 1
           /\ \A m : Len(Append(toDev, m)) = Len(toDev) + 1
           /\ \A m : Len(Append(toHost, m)) = Len(toHost) + 1
<1>1. toDev \in Seq(CommandSet) /\ toHost \in Seq(AnswerSet)
  BY DEF TypeInv, WireInv
<1>2. /\ toDev # <<>> => Len(Tail(toDev)) = Len(toDev) - 1
      /\ toHost # <<>> => Len(Tail(toHost)) = Len(toHost) - 1
  BY <1>1, HeadTaken
<1> QED
  BY <1>1, <1>2 DEF TypeInv, FaultInv

LEMMA NextAlternationInv == AlternationInv /\ [Next]_vars => AlternationInv'
<1> SUFFICES ASSUME AlternationInv, [Next]_vars PROVE AckedInv' /\ OneAnswerPerMessage'
  BY NextTypeInv DEF AlternationInv
<1> USE ChannelLengths DEF AlternationInv, AckedInv, OneAnswerPerMessage, Outstanding
<1>1. CASE Send
  BY <1>1 DEF Send, devVars
<1>2. CASE Read
  BY <1>2 DEF Read, devVars
<1>3. CASE AbandonRead
  BY <1>3 DEF AbandonRead, Leave, wireVars, devVars
<1>4. CASE BareCancel
  BY <1>4 DEF BareCancel, hostVars, devVars
<1>5. CASE TimeoutDead
  BY <1>5 DEF TimeoutDead, Leave, wireVars, devVars
<1>6. CASE DevCrash
  BY <1>6 DEF DevCrash
<1>7. CASE (\E o \in Ops : Begin(o)) \/ CallbackFailure \/ PressButton \/ CallbackButtonRequest
           \/ CallbackPinMatrixRequest \/ CallbackPassphraseRequest \/ CallbackCharacterRequest
           \/ ReturnToBody \/ NextCall \/ Finish \/ Unexpected \/ WriteRefused \/ CallbackRaises
  <2>1. pc # "wait" /\ pc' # "wait" /\ UNCHANGED <<toDev, toHost, devVars, unread>>
    BY <1>7 DEF Begin, CallbackFailure, PressButton, CallbackButtonRequest,
         CallbackPinMatrixRequest, CallbackPassphraseRequest, CallbackCharacterRequest,
         ReturnToBody, NextCall, Finish, Unexpected, WriteRefused, CallbackRaises,
         Leave, CallAgain, wireVars
  <2> QED
    BY <2>1 DEF devVars
<1>8. CASE DevStart
  BY <1>8 DEF DevStart, StillHandlesMain, hostVars
<1>9. CASE DevAcknowledged
  BY <1>9 DEF DevAcknowledged, StillHandlesMain, Fits, hostVars
<1>10. CASE DevRefuses
  BY <1>10 DEF DevRefuses, StillHandlesMain, Reply, GoHome, hostVars
<1>11. CASE DevConfirmed
  BY <1>11 DEF DevConfirmed, hostVars, wireVars
<1>12. CASE DevAsks
  BY <1>12 DEF DevAsks, Reply, hostVars
<1>13. CASE DevCompletes
  BY <1>13 DEF DevCompletes, Reply, GoHome, hostVars
<1>14. CASE DevFails
  BY <1>14 DEF DevFails, Reply, GoHome, hostVars
<1>15. CASE DevDecision \/ UserPresses
  BY <1>15 DEF DevDecision, UserPresses, hostVars, wireVars
<1>16. CASE UNCHANGED vars
  BY <1>16 DEF vars, hostVars, wireVars, devVars
<1> QED
  BY <1>1, <1>2, <1>3, <1>4, <1>5, <1>6, <1>7, <1>8, <1>9, <1>10, <1>11, <1>12, <1>13, <1>14,
     <1>15, <1>16 DEF Next, ClientStep, DeviceStep, Fault

LEMMA InitAlternationInv == Init => AlternationInv
BY InitTypeInv DEF Init, AlternationInv, AckedInv, OneAnswerPerMessage, Outstanding

\* Never more than one message of the client is unanswered, beyond those
\* whose answers it has given up reading.
THEOREM Alternation == Spec => []OneAnswerPerMessage
<1>1. AlternationInv => OneAnswerPerMessage
  BY DEF AlternationInv
<1> QED
  BY <1>1, InitAlternationInv, NextAlternationInv, PTL DEF Spec

\* call(), call_raw() and the session decorator, through every exception: one
\* session per live frame, and at most one message unanswered.
THEOREM Disciplined == Spec => []SessionDiscipline
<1>1. TypeOK /\ SessionPerFrame /\ OneAnswerPerMessage => SessionDiscipline
  BY DEF SessionDiscipline
<1> QED
  BY <1>1, TypeCorrect, SessionsMatchFrames, Alternation, PTL

-----------------------------------------------------------------------------
(* Client and device in step *)

\* The device is where its last answer a says.
Where(a) ==
    /\ devOp = cur /\ a.n = lastN
    /\ a.kind \in Prompts => dev = "prompt" /\ shown = a /\ ~acked
    /\ a.kind = "More" => dev = "stream"
    /\ a.kind \in {"Result", "Features"} => dev = "idle"

\* An answer that the operation will read or has just read is about itself.
AnswerFor(a) ==
    /\ cur \in Inits => a.kind = "Features"
    /\ a.kind # "Failure" =>
          /\ a.op = cur
          /\ a.kind = "More" => cur \in Stream
          /\ a.kind = "Features" => cur \in Inits
          /\ alive => Where(a)

\* A message that the operation is about to send, or that the device has not
\* taken yet, starts the operation's flow or goes on with it.
CommandFor(m) ==
    /\ m.op = cur
    /\ m.kind = "Initialize" <=> cur \in Inits
    /\ alive /\ m.kind \notin {"Request", "Initialize"} => devOp = cur /\ m.n = lastN
    /\ alive /\ m.kind = "ButtonAck" =>
          dev = "prompt" /\ shown.kind = "ButtonRequest" /\ shown.n = lastN /\ ~acked

\* The device works for the operation that waits for it.
WorksFor == pc = "wait" /\ devOp = cur /\ (cur \in Inits => dev = "run" /\ asks = 0)

InStep ==
    /\ toHost # <<>> => pc = "wait" /\ Len(toHost) = 1 /\ AnswerFor(Head(toHost))
    /\ pc \in {"got", "press", "body"} => AnswerFor(msg)
    /\ pc = "press" => msg.kind = "ButtonRequest"
    /\ pc = "body" => msg.kind \in {"More", "Result", "Features"}
    /\ pc = "send" => CommandFor(msg)
    /\ alive /\ toDev # <<>> => pc = "wait" /\ toDev = <<msg>> /\ CommandFor(msg)
    /\ alive /\ (dev = "run" \/ acked) => WorksFor

\* A button press on its way is for the prompt that is being shown.
PressInStep ==
    /\ alive /\ (toHost # <<>> \/ pc = "got") => decided = 0
    /\ alive /\ debugCh # <<>> =>
          /\ DebugLink /\ debugCh = <<shown.n>> /\ decided = 0
          /\ dev = "prompt" /\ shown.kind = "ButtonRequest"
          /\ toHost = <<>>
          /\ pc = "press" \/ (pc \in {"send", "wait"} /\ msg.kind = "ButtonAck")

\* Only a button prompt takes a decision.
DecidedInv == decided # 0 => dev = "prompt" /\ shown.kind = "ButtonRequest"

\* What has been carried out was asked for, and its result is on its way.
Told ==
    /\ \A o \in executed : outcome[o] # NotRun \/ o = cur
    /\ cur \in Ops => outcome[cur] = NotRun
    /\ alive /\ cur \in executed =>
          \/ toHost # <<>> /\ Head(toHost).kind \in {"Result", "Features"}
          \/ pc \in {"got", "body"} /\ msg.kind \in {"Result", "Features"}

\* What has been returned is the answer to the operation that returned it.
Matched == \A o \in Ops : outcome[o].kind = "returned" => outcome[o].of = o

\* What holds as long as no answer has been left unread.
Sync == InStep /\ PressInStep /\ ~misapplied /\ Told /\ Matched

StepInv == AlternationInv /\ DecidedInv /\ (unread = 0 => Sync)

LEMMA NextDecidedInv == AlternationInv /\ DecidedInv /\ [Next]_vars => DecidedInv'
<1> SUFFICES ASSUME AlternationInv, DecidedInv, [Next]_vars PROVE DecidedInv'
  OBVIOUS
<1> USE DEF DecidedInv
<1>1. CASE ClientStep \/ Fault \/ (\E o \in Ops : Begin(o)) \/ UNCHANGED vars
  <2>1. UNCHANGED <<dev, shown, decided>>
    BY <1>1 DEF ClientStep, Begin, Send, Read, PressButton, CallbackFailure, CallbackButtonRequest,
         CallbackPinMatrixRequest, CallbackPassphraseRequest, CallbackCharacterRequest,
         ReturnToBody, NextCall, Finish, Unexpected, TimeoutDead, WriteRefused,
         Fault, AbandonRead, CallbackRaises, BareCancel, DevCrash, devVars, vars
  <2> QED
    BY <2>1
<1>2. CASE DevStart \/ DevConfirmed \/ DevRefuses \/ DevCompletes \/ DevFails
  BY <1>2 DEF DevStart, DevConfirmed, DevRefuses, DevCompletes, DevFails, GoHome
<1>3. CASE DevAcknowledged
  BY <1>3 DEF DevAcknowledged, Fits
<1>4. CASE DevAsks
  BY <1>4 DEF DevAsks
<1>5. CASE DevDecision
  BY <1>5 DEF DevDecision
<1>6. CASE UserPresses
  BY <1>6 DEF UserPresses, AlternationInv, AckedInv
<1> QED
  BY <1>1, <1>2, <1>3, <1>4, <1>5, <1>6 DEF Next, DeviceStep

\* Of the messages, the answers and the work of the device there is one at most.
LEMMA OneToken ==
    ASSUME AlternationInv, unread = 0, alive
    PROVE  /\ toDev # <<>> => pc = "wait" /\ Len(toDev) = 1 /\ toHost = <<>> /\ dev # "run" /\ ~acked
           /\ toHost # <<>> => pc = "wait" /\ Len(toHost) = 1 /\ toDev = <<>> /\ dev # "run" /\ ~acked
           /\ dev = "run" \/ acked => pc = "wait" /\ toDev = <<>> /\ toHost = <<>>
<1> DEFINE sent == Len(toDev)
           answered == Len(toHost)
           working == IF dev = "run" \/ acked THEN 1 ELSE 0
           waiting == IF pc = "wait" THEN 1 ELSE 0
<1>1. toDev \in Seq(CommandSet) /\ toHost \in Seq(AnswerSet)
  BY DEF AlternationInv, TypeInv, WireInv
<1>2. /\ sent \in Nat /\ answered \in Nat
      /\ toDev # <<>> <=> sent >= 1
      /\ toHost # <<>> <=> answered >= 1
  BY <1>1
<1>3. /\ working \in {0, 1} /\ waiting \in {0, 1}
      /\ working = 1 <=> dev = "run" \/ acked
      /\ waiting = 1 <=> pc = "wait"
  OBVIOUS
<1>4. sent + answered + working <= waiting
  BY DEF AlternationInv, AckedInv, OneAnswerPerMessage, Outstanding
<1> HIDE DEF sent, answered, working, waiting
<1>5. /\ sent >= 1 => waiting = 1 /\ sent = 1 /\ answered = 0 /\ working = 0
      /\ answered >= 1 => waiting = 1 /\ answered = 1 /\ sent = 0 /\ working = 0
      /\ working = 1 => waiting = 1 /\ sent = 0 /\ answered = 0
  BY <1>2, <1>3, <1>4
<1>6. (sent = 0 => toDev = <<>>) /\ (answered = 0 => toHost = <<>>)
  BY <1>2
<1> QED
  BY <1>3, <1>2, <1>5, <1>6 DEF sent, answered

\* A channel with one message.
LEMMA OneMessage ==
    \A m : /\ Append(<<>>, m) = <<m>> /\ <<m>> # <<>>
          /\ Len(<<m>>) = 1 /\ Head(<<m>>) = m /\ Tail(<<m>>) = <<>>
OBVIOUS

\* What the steps below need of the types.
LEMMA SyncTypes ==
    ASSUME TypeInv
    PROVE  /\ executed \subseteq Ops /\ cur \in Ops \cup {NoOp} /\ NoOp \notin Ops
           /\ pc = "idle" <=> cur = NoOp
           /\ outcome = [o \in Ops |-> outcome[o]]
           /\ lastN \in Nat /\ asks \in Nat
           /\ toHost \in Seq(AnswerSet) /\ toDev \in Seq(CommandSet)
BY ConversationAssumption DEF TypeInv, HostInv, HostTypeOK, WireInv, DevInv, DeviceTypeOK

LEMMA SyncBegin ==
    ASSUME StepInv, unread = 0, NEW o \in Ops, Begin(o)
    PROVE  Sync'
<1>0. TypeInv
  BY DEF StepInv, AlternationInv
<1> USE <1>0, SyncTypes, OneToken DEF StepInv, Sync, Begin, Message, wireVars, devVars
<1>1. InStep'
  BY DEF InStep, CommandFor
<1>2. PressInStep'
  BY DEF PressInStep
<1>3. ~misapplied'
  OBVIOUS
<1>4. Told'
  BY DEF Told, InStep
<1>5. Matched'
  BY DEF Matched
<1> QED
  BY <1>1, <1>2, <1>3, <1>4, <1>5

LEMMA SyncSend ==
    ASSUME StepInv, unread = 0, Send
    PROVE  Sync'
<1>0. TypeInv
  BY DEF StepInv, AlternationInv
<1> USE <1>0, SyncTypes, OneToken DEF StepInv, Sync, Send, devVars
<1>1. InStep'
  <2>1. alive => toDev = <<>>
    BY DEF InStep
  <2>2. alive => toDev' = <<msg>>
    BY <2>1, OneMessage
  <2> QED
    BY <2>2 DEF InStep, CommandFor
<1>2. PressInStep'
  BY DEF PressInStep
<1>3. ~misapplied'
  OBVIOUS
<1>4. Told'
  BY DEF Told
<1>5. Matched'
  BY DEF Matched
<1> QED
  BY <1>1, <1>2, <1>3, <1>4, <1>5

LEMMA SyncRead ==
    ASSUME StepInv, unread = 0, Read
    PROVE  Sync'
<1>0. TypeInv
  BY DEF StepInv, AlternationInv
<1> USE <1>0, SyncTypes, OneToken DEF StepInv, Sync, Read, devVars, EndSessions
<1>1. InStep'
  BY DEF InStep, AnswerFor, Where
<1>2. PressInStep'
  BY DEF PressInStep
<1>3. ~misapplied'
  OBVIOUS
<1>4. Told'
  BY DEF Told
<1>5. Matched'
  BY DEF Matched
<1> QED
  BY <1>1, <1>2, <1>3, <1>4, <1>5

\* An exception ends the operation after its answer, or on a dead device.
LEMMA SyncRaised ==
    ASSUME StepInv, unread = 0, Leave(Raised), UNCHANGED <<wireVars, devVars>>, cur \in Ops,
           pc \in {"got", "body"} \/ (~alive /\ toHost = <<>>)
    PROVE  Sync'
<1>0. TypeInv
  BY DEF StepInv, AlternationInv
<1> USE <1>0, SyncTypes, OneToken DEF StepInv, Sync, Leave, Raised, NotRun, wireVars, devVars
<1>1. InStep'
  BY DEF InStep
<1>2. PressInStep'
  BY DEF PressInStep
<1>3. ~misapplied'
  OBVIOUS
<1>4. Told'
  BY DEF Told
<1>5. Matched'
  BY DEF Matched
<1> QED
  BY <1>1, <1>2, <1>3, <1>4, <1>5

\* A prompt other than a button's is answered with another call().
LEMMA SyncCallAgain ==
    ASSUME StepInv, unread = 0, UNCHANGED <<wireVars, devVars>>,
           pc = "got", msg.kind \in Prompts,
           NEW k \in {"PinMatrixAck", "PassphraseAck", "CharacterAck", "Cancel"}, CallAgain(k)
    PROVE  Sync'
<1>0. TypeInv
  BY DEF StepInv, AlternationInv
<1> USE <1>0, SyncTypes, OneToken DEF StepInv, Sync, CallAgain, Message, Prompts, wireVars, devVars
<1>1. InStep'
  BY DEF InStep, AnswerFor, Where, CommandFor
<1>2. PressInStep'
  BY DEF PressInStep
<1>3. ~misapplied'
  OBVIOUS
<1>4. Told'
  BY DEF Told, Prompts
<1>5. Matched'
  BY DEF Matched
<1> QED
  BY <1>1, <1>2, <1>3, <1>4, <1>5

LEMMA SyncPressButton ==
    ASSUME StepInv, unread = 0, PressButton
    PROVE  Sync'
<1>0. TypeInv
  BY DEF StepInv, AlternationInv
<1> USE <1>0, SyncTypes, OneToken DEF StepInv, Sync, PressButton, devVars
<1>1. InStep'
  BY DEF InStep, AnswerFor, Where
<1>2. PressInStep'
  <2>1. alive => debugCh = <<>> /\ shown = msg /\ dev = "prompt" /\ decided = 0 /\ toHost = <<>>
    BY DEF PressInStep, InStep, AnswerFor, Where, Prompts
  <2>2. alive => debugCh' = <<shown.n>>
    BY <2>1, OneMessage
  <2> QED
    BY <2>1, <2>2 DEF PressInStep
<1>3. ~misapplied'
  OBVIOUS
<1>4. Told'
  BY DEF Told
<1>5. Matched'
  BY DEF Matched
<1> QED
  BY <1>1, <1>2, <1>3, <1>4, <1>5

LEMMA SyncCallbackButtonRequest ==
    ASSUME StepInv, unread = 0, CallbackButtonRequest
    PROVE  Sync'
<1>0. TypeInv
  BY DEF StepInv, AlternationInv
<1> USE <1>0, SyncTypes, OneToken DEF StepInv, Sync, CallbackButtonRequest, CallAgain, Message, wireVars, devVars
<1>1. InStep'
  <2>1. AnswerFor(msg) /\ msg.kind = "ButtonRequest" /\ pc # "wait"
    BY DEF InStep
  <2>2. CommandFor(msg)'
    BY <2>1 DEF AnswerFor, Where, CommandFor, Prompts
  <2>3. toHost = <<>> /\ (alive => toDev = <<>>) /\ ~(alive /\ (dev = "run" \/ acked))
    BY <2>1 DEF InStep, WorksFor
  <2> QED
    BY <2>2, <2>3 DEF InStep
<1>2. PressInStep'
  BY DEF PressInStep
<1>3. ~misapplied'
  OBVIOUS
<1>4. Told'
  BY DEF Told
<1>5. Matched'
  BY DEF Matched
<1> QED
  BY <1>1, <1>2, <1>3, <1>4, <1>5

LEMMA SyncReturnToBody ==
    ASSUME StepInv, unread = 0, ReturnToBody
    PROVE  Sync'
<1>0. TypeInv
  BY DEF StepInv, AlternationInv
<1> USE <1>0, SyncTypes, OneToken DEF StepInv, Sync, ReturnToBody, wireVars, devVars
<1>1. InStep'
  BY DEF InStep, AnswerFor, Where
<1>2. PressInStep'
  BY DEF PressInStep
<1>3. ~misapplied'
  OBVIOUS
<1>4. Told'
  BY DEF Told
<1>5. Matched'
  BY DEF Matched
<1> QED
  BY <1>1, <1>2, <1>3, <1>4, <1>5

LEMMA SyncNextCall ==
    ASSUME StepInv, unread = 0, NextCall
    PROVE  Sync'
<1>0. TypeInv
  BY DEF StepInv, AlternationInv
<1> USE <1>0, SyncTypes, OneToken DEF StepInv, Sync, NextCall, Message, wireVars, devVars
<1>1. InStep'
  BY DEF InStep, AnswerFor, Where, CommandFor
<1>2. PressInStep'
  BY DEF PressInStep
<1>3. ~misapplied'
  OBVIOUS
<1>4. Told'
  BY DEF Told
<1>5. Matched'
  BY DEF Matched
<1> QED
  BY <1>1, <1>2, <1>3, <1>4, <1>5

LEMMA SyncFinish ==
    ASSUME StepInv, unread = 0, Finish
    PROVE  Sync'
<1>0. TypeInv
  BY DEF StepInv, AlternationInv
<1> USE <1>0, SyncTypes, OneToken DEF StepInv, Sync, Finish, Leave, Returned, NotRun, wireVars, devVars, Expected
<1>1. InStep'
  BY DEF InStep
<1>2. PressInStep'
  BY DEF PressInStep
<1>3. ~misapplied'
  OBVIOUS
<1>4. Told'
  BY DEF Told
<1>5. Matched'
  BY DEF Matched, InStep, AnswerFor
<1> QED
  BY <1>1, <1>2, <1>3, <1>4, <1>5

LEMMA SyncDevStart ==
    ASSUME StepInv, unread = 0, DevStart
    PROVE  Sync'
<1>0. TypeInv
  BY DEF StepInv, AlternationInv
<1> USE <1>0, SyncTypes, OneToken DEF StepInv, Sync, DevStart, StillHandlesMain, hostVars
<1>1. InStep'
  BY DEF InStep, CommandFor, WorksFor
<1>2. PressInStep'
  BY DEF InStep, PressInStep
<1>3. ~misapplied'
  OBVIOUS
<1>4. Told'
  BY DEF Told
<1>5. Matched'
  BY DEF Matched
<1> QED
  BY <1>1, <1>2, <1>3, <1>4, <1>5

LEMMA SyncDevAcknowledged ==
    ASSUME StepInv, unread = 0, DevAcknowledged
    PROVE  Sync'
<1>0. TypeInv
  BY DEF StepInv, AlternationInv
<1> USE <1>0, SyncTypes, OneToken DEF StepInv, Sync, DevAcknowledged, StillHandlesMain, Fits, hostVars
<1>1. InStep'
  BY DEF InStep, CommandFor, WorksFor
<1>2. PressInStep'
  BY DEF PressInStep
<1>3. ~misapplied'
  <2>1. Head(toDev) = msg /\ CommandFor(msg) /\ msg.kind \notin {"Request", "Initialize"}
    BY OneMessage DEF InStep
  <2>2. Head(toDev).n = lastN
    BY <2>1 DEF CommandFor
  <2> QED
    BY <2>2
<1>4. Told'
  BY DEF Told
<1>5. Matched'
  BY DEF Matched
<1> QED
  BY <1>1, <1>2, <1>3, <1>4, <1>5

LEMMA SyncDevRefuses ==
    ASSUME StepInv, unread = 0, DevRefuses
    PROVE  Sync'
<1>0. TypeInv
  BY DEF StepInv, AlternationInv
<1> USE <1>0, SyncTypes, OneToken DEF StepInv, Sync, DevRefuses, StillHandlesMain, Fits, Reply, Message, GoHome, hostVars
<1>1. InStep'
  BY DEF InStep, AnswerFor, CommandFor
<1>2. PressInStep'
  BY DEF InStep, PressInStep
<1>3. ~misapplied'
  OBVIOUS
<1>4. Told'
  BY DEF Told
<1>5. Matched'
  BY DEF Matched
<1> QED
  BY <1>1, <1>2, <1>3, <1>4, <1>5

LEMMA SyncDevConfirmed ==
    ASSUME StepInv, unread = 0, DevConfirmed
    PROVE  Sync'
<1>0. TypeInv
  BY DEF StepInv, AlternationInv
<1> USE <1>0, SyncTypes, OneToken DEF StepInv, Sync, DevConfirmed, hostVars, wireVars
<1>1. InStep'
  BY DEF InStep, WorksFor
<1>2. PressInStep'
  BY DEF PressInStep
<1>3. ~misapplied'
  OBVIOUS
<1>4. Told'
  BY DEF Told
<1>5. Matched'
  BY DEF Matched
<1> QED
  BY <1>1, <1>2, <1>3, <1>4, <1>5

LEMMA SyncDevAsks ==
    ASSUME StepInv, unread = 0, DevAsks
    PROVE  Sync'
<1>0. TypeInv
  BY DEF StepInv, AlternationInv
<1> USE <1>0, SyncTypes, OneToken DEF StepInv, Sync, DevAsks, Reply, Message, hostVars
<1>1. InStep'
  <2>1. toHost = <<>> /\ toDev = <<>> /\ WorksFor /\ ~acked
    BY DEF InStep, AckedInv, AlternationInv
  <2>2. PICK k \in Prompts \cup {"More"} :
          /\ Reply(k)
          /\ k = "More" => dev' = "stream" /\ devOp \in Stream
          /\ k \in Prompts => dev' = "prompt" /\ shown' = Message(k, devOp, lastN + 1)
    BY DEF Prompts
  <2>3. toHost' = <<Message(k, devOp, lastN + 1)>>
    BY <2>1, <2>2, OneMessage
  <2>4. AnswerFor(Head(toHost))'
    BY <2>1, <2>2, <2>3, OneMessage, ConversationAssumption DEF AnswerFor, Where, WorksFor, Prompts
  <2> QED
    BY <2>1, <2>2, <2>3, <2>4, OneMessage DEF InStep, WorksFor
<1>2. PressInStep'
  BY DEF PressInStep, DecidedInv
<1>3. ~misapplied'
  OBVIOUS
<1>4. Told'
  BY DEF Told
<1>5. Matched'
  BY DEF Matched
<1> QED
  BY <1>1, <1>2, <1>3, <1>4, <1>5

LEMMA SyncDevCompletes ==
    ASSUME StepInv, unread = 0, DevCompletes
    PROVE  Sync'
<1>0. TypeInv
  BY DEF StepInv, AlternationInv
<1> USE <1>0, SyncTypes, OneToken DEF StepInv, Sync, DevCompletes, Reply, Message, GoHome, hostVars
<1>1. InStep'
  <2>1. toHost = <<>> /\ toDev = <<>> /\ WorksFor
    BY DEF InStep
  <2>2. toHost' = <<Message(IF devOp \in Inits THEN "Features" ELSE "Result", devOp, lastN + 1)>>
    BY <2>1, OneMessage
  <2>3. AnswerFor(Head(toHost))'
    BY <2>1, <2>2, OneMessage DEF AnswerFor, Where, WorksFor, Prompts
  <2> QED
    BY <2>1, <2>2, <2>3, OneMessage DEF InStep
<1>2. PressInStep'
  BY DEF PressInStep
<1>3. ~misapplied'
  OBVIOUS
<1>4. Told'
  BY DEF Told, InStep, WorksFor
<1>5. Matched'
  BY DEF Matched
<1> QED
  BY <1>1, <1>2, <1>3, <1>4, <1>5

LEMMA SyncDevFails ==
    ASSUME StepInv, unread = 0, DevFails
    PROVE  Sync'
<1>0. TypeInv
  BY DEF StepInv, AlternationInv
<1> USE <1>0, SyncTypes, OneToken DEF StepInv, Sync, DevFails, Reply, Message, GoHome, hostVars
<1>1. InStep'
  BY DEF InStep, AnswerFor, WorksFor
<1>2. PressInStep'
  BY DEF PressInStep
<1>3. ~misapplied'
  OBVIOUS
<1>4. Told'
  BY DEF Told
<1>5. Matched'
  BY DEF Matched
<1> QED
  BY <1>1, <1>2, <1>3, <1>4, <1>5

LEMMA SyncDevDecision ==
    ASSUME StepInv, unread = 0, DevDecision
    PROVE  Sync'
<1>0. TypeInv
  BY DEF StepInv, AlternationInv
<1> USE <1>0, SyncTypes, OneToken DEF StepInv, Sync, DevDecision, hostVars
<1>1. InStep'
  BY DEF InStep, AnswerFor, Where, CommandFor, WorksFor
<1>2. PressInStep'
  <2>1. Tail(debugCh) = <<>>
    BY OneMessage DEF PressInStep
  <2>2. toHost = <<>> /\ pc # "got"
    BY DEF PressInStep
  <2> QED
    BY <2>1, <2>2 DEF PressInStep
<1>3. ~misapplied'
  <2>1. Head(debugCh) = shown.n
    BY OneMessage DEF PressInStep
  <2> QED
    BY <2>1
<1>4. Told'
  BY DEF Told
<1>5. Matched'
  BY DEF Matched
<1> QED
  BY <1>1, <1>2, <1>3, <1>4, <1>5

LEMMA SyncUserPresses ==
    ASSUME StepInv, unread = 0, UserPresses
    PROVE  Sync'
<1>0. TypeInv
  BY DEF StepInv, AlternationInv
<1> USE <1>0, SyncTypes, OneToken DEF StepInv, Sync, UserPresses, hostVars, wireVars
<1>1. InStep'
  BY DEF InStep, WorksFor
<1>2. PressInStep'
  BY DEF PressInStep
<1>3. ~misapplied'
  OBVIOUS
<1>4. Told'
  BY DEF Told
<1>5. Matched'
  BY DEF Matched
<1> QED
  BY <1>1, <1>2, <1>3, <1>4, <1>5

LEMMA SyncDevCrash ==
    ASSUME StepInv, unread = 0, DevCrash
    PROVE  Sync'
<1>0. TypeInv
  BY DEF StepInv, AlternationInv
<1> USE <1>0, SyncTypes, OneToken DEF StepInv, Sync, DevCrash, hostVars, wireVars
<1>1. InStep'
  BY DEF InStep, AnswerFor, CommandFor
<1>2. PressInStep'
  BY DEF PressInStep
<1>3. ~misapplied'
  OBVIOUS
<1>4. Told'
  BY DEF Told
<1>5. Matched'
  BY DEF Matched
<1> QED
  BY <1>1, <1>2, <1>3, <1>4, <1>5

LEMMA NextStepInv == StepInv /\ [Next]_vars => StepInv'
<1> SUFFICES ASSUME StepInv, [Next]_vars PROVE unread' = 0 => Sync'
  BY NextAlternationInv, NextDecidedInv DEF StepInv
<1> SUFFICES ASSUME unread' = 0 PROVE Sync'
  OBVIOUS
<1>0. unread \in Nat /\ (cur \in Ops <=> pc # "idle")
  BY SyncTypes, ChannelLengths DEF StepInv, AlternationInv
<1>1. CASE AbandonRead \/ BareCancel
  BY <1>0, <1>1 DEF AbandonRead, BareCancel
<1>2. CASE ~(AbandonRead \/ BareCancel)
  <2>0. unread = 0
    BY <1>2 DEF Next, ClientStep, DeviceStep, Fault, Begin, Send, Read, PressButton,
         CallbackFailure, CallbackButtonRequest, CallbackPinMatrixRequest,
         CallbackPassphraseRequest, CallbackCharacterRequest, ReturnToBody, NextCall, Finish,
         Unexpected, TimeoutDead, WriteRefused, CallbackRaises, DevCrash, DevStart,
         DevAcknowledged, DevRefuses, DevConfirmed, DevAsks, DevCompletes, DevFails,
         DevDecision, UserPresses, vars
  <2>1. ASSUME NEW o \in Ops, Begin(o) PROVE Sync'
    BY <2>0, <2>1, SyncBegin
  <2>2. CASE CallbackFailure \/ Unexpected \/ TimeoutDead \/ WriteRefused \/ CallbackRaises
    <3>1. UNCHANGED <<wireVars, devVars>> /\ Leave(Raised) /\ pc # "idle"
      BY <2>2 DEF CallbackFailure, Unexpected, TimeoutDead, WriteRefused, CallbackRaises
    <3>2. pc \in {"got", "body"} \/ (~alive /\ toHost = <<>>)
      BY <2>2 DEF CallbackFailure, Unexpected, TimeoutDead, WriteRefused, CallbackRaises,
           StepInv, Sync, InStep
    <3> QED
      BY <1>0, <2>0, <3>1, <3>2, SyncRaised
  <2>3. CASE CallbackPinMatrixRequest \/ CallbackPassphraseRequest \/ CallbackCharacterRequest
    BY <2>0, <2>3, SyncCallAgain DEF CallbackPinMatrixRequest, CallbackPassphraseRequest,
         CallbackCharacterRequest, Prompts
  <2>4. CASE UNCHANGED vars
    BY <2>0, <2>4 DEF vars, hostVars, wireVars, devVars, StepInv, Sync, InStep, AnswerFor, Where,
         CommandFor, WorksFor, PressInStep, Told, Matched
  <2> QED
    BY <1>2, <2>0, <2>1, <2>2, <2>3, <2>4, SyncSend, SyncRead, SyncPressButton,
       SyncCallbackButtonRequest, SyncReturnToBody, SyncNextCall, SyncFinish, SyncDevStart,
       SyncDevAcknowledged, SyncDevRefuses, SyncDevConfirmed, SyncDevAsks, SyncDevCompletes,
       SyncDevFails, SyncDevDecision, SyncUserPresses, SyncDevCrash
       DEF Next, ClientStep, DeviceStep, Fault
<1> QED
  BY <1>1, <1>2

LEMMA InitStepInv == Init => StepInv
<1> SUFFICES ASSUME Init PROVE StepInv
  OBVIOUS
<1>1. InStep /\ PressInStep
  BY DEF Init, InStep, PressInStep
<1>2. Told /\ Matched
  BY ConversationAssumption DEF Init, Told, Matched, NotRun
<1> QED
  BY <1>1, <1>2, InitAlternationInv DEF Init, StepInv, DecidedInv, Sync

\* As long as no answer has been left unread, every button press and every
\* acknowledgement meets the prompt that it was meant for.
THEOREM ApprovalsMeetTheirPrompts == Spec => []ApprovalMeetsItsPrompt
<1>1. StepInv => ApprovalMeetsItsPrompt
  BY DEF StepInv, Sync, ApprovalMeetsItsPrompt
<1> QED
  BY <1>1, InitStepInv, NextStepInv, PTL DEF Spec

\* init_device() puts an end to whatever conversation was broken off before
\* it: what it reads is the Features that answer its own Initialize.
THEOREM InitializeRecovers == Spec => []InitDeviceRecovers
<1>1. StepInv => InitDeviceRecovers
  BY DEF StepInv, Sync, InStep, AnswerFor, InitDeviceRecovers
<1> QED
  BY <1>1, InitStepInv, NextStepInv, PTL DEF Spec

\* A session is held from the first message of an operation's flow on the
\* device to the last.
THEOREM SessionsSpanConversations == Spec => []SessionSpansConversation
<1>1. StepInv /\ SessionInv => SessionSpansConversation
  <2> SUFFICES ASSUME StepInv, SessionInv, unread = 0, alive, pc # "idle", dev # "idle"
               PROVE  depth >= 1
    BY DEF SessionSpansConversation
  <2>1. /\ calls \in Nat
        /\ pc \in {"send", "wait", "got", "press"} => calls >= 1
        /\ pc \in {"idle", "send", "wait", "got", "press", "body"}
    BY DEF SessionInv, TypeInv, HostInv, HostTypeOK
  <2>2. pc = "body" => Outer(cur) = 1
    BY DEF StepInv, Sync, InStep, AnswerFor, Where, Outer
  <2>3. depth = calls + Outer(cur) \/ depth = calls + Outer(cur) + 1
    BY <2>1, OuterType DEF SessionInv, SessionPerFrame
  <2>4. calls >= 1 \/ Outer(cur) = 1
    BY <2>1, <2>2
  <2> QED
    BY <2>1, <2>3, <2>4, OuterType
<1> QED
  BY <1>1, InitStepInv, NextStepInv, InitSessionInv, NextSessionInv, PTL DEF Spec

-----------------------------------------------------------------------------
(* Results are the device's own *)

\* A result is only ever that of an operation the device has carried out.
Real(a) == a.kind \in {"Result", "Features"} => a.op \in executed

RealInv ==
    /\ \A i \in 1..Len(toHost) : Real(toHost[i])
    /\ pc \in {"got", "press", "body"} => Real(msg)
    /\ ReturnedWasExecuted

\* Replies other than results are real by their kind.
LEMMA RealReply ==
    ASSUME TypeInv, RealInv, NEW k, Reply(k), executed \subseteq executed',
           k \in {"Result", "Features"} => devOp \in executed'
    PROVE  \A i \in 1..Len(toHost') : Real(toHost[i])'
<1>1. toHost \in Seq(AnswerSet)
  BY DEF TypeInv, WireInv
<1>2. ASSUME NEW i \in 1..Len(toHost') PROVE Real(toHost[i])'
  <2>1. CASE i = Len(toHost) + 1
    <3>1. toHost'[i] = Message(k, devOp, lastN + 1)
      BY <1>1, <2>1 DEF Reply
    <3> QED
      BY <3>1 DEF Real, Message
  <2>2. CASE i # Len(toHost) + 1
    <3>1. i \in 1..Len(toHost) /\ toHost'[i] = toHost[i]
      BY <1>1, <2>2 DEF Reply
    <3> QED
      BY <3>1 DEF RealInv, Real
  <2> QED
    BY <2>1, <2>2
<1> QED
  BY <1>2

LEMMA NextRealInv == TypeInv /\ RealInv /\ [Next]_vars => RealInv'
<1> SUFFICES ASSUME TypeInv, RealInv, [Next]_vars PROVE RealInv'
  OBVIOUS
<1> USE SyncTypes
<1>1. CASE Read
  <2>1. msg' = toHost[1] /\ 1 \in 1..Len(toHost)
    BY <1>1 DEF Read
  <2>2. \A i \in 1..Len(toHost') : i + 1 \in 1..Len(toHost) /\ toHost'[i] = toHost[i + 1]
    BY <1>1 DEF Read
  <2> QED
    BY <1>1, <2>1, <2>2 DEF Read, devVars, RealInv, Real, ReturnedWasExecuted
<1>2. CASE Finish
  <2>1. Real(msg) /\ msg.kind \in {"Result", "Features"} /\ cur \in Ops
    BY <1>2 DEF Finish, Expected, RealInv
  <2>2. ReturnedWasExecuted'
    BY <1>2, <2>1 DEF Finish, Leave, Returned, devVars, RealInv, Real, ReturnedWasExecuted
  <2> QED
    BY <1>2, <2>2 DEF Finish, Leave, wireVars, devVars, RealInv, Real
<1>3. CASE CallbackFailure \/ Unexpected \/ TimeoutDead \/ WriteRefused \/ AbandonRead \/ CallbackRaises
  <2>1. Leave(Raised) /\ UNCHANGED <<wireVars, devVars>> /\ pc # "idle"
    BY <1>3 DEF CallbackFailure, Unexpected, TimeoutDead, WriteRefused, AbandonRead, CallbackRaises
  <2> QED
    BY <2>1 DEF Leave, Raised, wireVars, devVars, RealInv, Real, ReturnedWasExecuted
<1>4. CASE DevRefuses \/ DevAsks \/ DevFails
  <2>1. PICK k \in Prompts \cup {"More", "Failure"} : Reply(k)
    BY <1>4 DEF DevRefuses, DevAsks, DevFails
  <2>2. UNCHANGED <<hostVars, executed>>
    BY <1>4 DEF DevRefuses, DevAsks, DevFails
  <2>3. \A i \in 1..Len(toHost') : Real(toHost[i])'
    BY <2>1, <2>2, RealReply DEF Prompts
  <2> QED
    BY <2>2, <2>3 DEF hostVars, RealInv, Real, ReturnedWasExecuted
<1>5. CASE DevCompletes
  <2>1. \A i \in 1..Len(toHost') : Real(toHost[i])'
    BY <1>5, RealReply DEF DevCompletes
  <2> QED
    BY <1>5, <2>1 DEF DevCompletes, hostVars, RealInv, Real, ReturnedWasExecuted
<1>6. CASE (\E o \in Ops : Begin(o)) \/ Send \/ CallbackButtonRequest \/ CallbackPinMatrixRequest
           \/ CallbackPassphraseRequest \/ CallbackCharacterRequest \/ NextCall
  <2>1. pc' \in {"send", "wait"} /\ UNCHANGED <<outcome, toHost, devVars>>
    BY <1>6 DEF Begin, Send, CallbackButtonRequest, CallbackPinMatrixRequest,
         CallbackPassphraseRequest, CallbackCharacterRequest, CallAgain, NextCall, wireVars
  <2> QED
    BY <2>1 DEF devVars, RealInv, Real, ReturnedWasExecuted
<1>7. CASE PressButton \/ ReturnToBody \/ BareCancel \/ DevStart \/ DevAcknowledged \/ DevDecision
           \/ UserPresses \/ DevConfirmed \/ DevCrash \/ UNCHANGED vars
  <2>1. UNCHANGED <<msg, outcome, toHost, executed>>
    BY <1>7 DEF PressButton, ReturnToBody, BareCancel, DevStart, DevAcknowledged, DevDecision,
         UserPresses, DevConfirmed, DevCrash, vars, hostVars, wireVars, devVars
  <2>2. pc' \in {"got", "press", "body"} => pc \in {"got", "press", "body"}
    BY <1>7 DEF PressButton, ReturnToBody, BareCancel, DevStart, DevAcknowledged, DevDecision,
         UserPresses, DevConfirmed, DevCrash, vars, hostVars
  <2> QED
    BY <2>1, <2>2 DEF RealInv, Real, ReturnedWasExecuted
<1> QED
  BY <1>1, <1>2, <1>3, <1>4, <1>5, <1>6, <1>7 DEF Next, ClientStep, DeviceStep, Fault

\* An operation that returns, returns the answer to its own request, which the
\* device has carried out, whatever exceptions and crashes came before: only
\* an answer left unread can be taken for another's.
THEOREM OutcomesReal == Spec => []OutcomesAreReal
<1>1. Init => RealInv
  BY DEF Init, NotRun, RealInv, ReturnedWasExecuted
<1>2. StepInv => TypeInv /\ AnswersMatch
  BY DEF StepInv, AlternationInv, Sync, Matched, AnswersMatch
<1>3. RealInv => ReturnedWasExecuted
  BY DEF RealInv
<1>4. AnswersMatch /\ ReturnedWasExecuted => OutcomesAreReal
  BY DEF OutcomesAreReal
<1> QED
  BY <1>1, <1>2, <1>3, <1>4, InitStepInv, NextStepInv, NextRealInv, PTL DEF Spec

-----------------------------------------------------------------------------
(* The operations as their callers see them *)

\* Without faults the device is alive, every answer is read, and client and
\* device are in step.
FaultlessInv == StepInv /\ RealInv /\ (faults = 0 => alive)

LEMMA NextFaultlessInv == FaultlessInv /\ [Next]_vars => FaultlessInv'
<1> SUFFICES ASSUME FaultlessInv, [Next]_vars PROVE faults' = 0 => alive'
  BY NextStepInv, NextRealInv DEF FaultlessInv, StepInv, AlternationInv
<1>1. faults \in Nat
  BY ConversationAssumption DEF FaultlessInv, StepInv, AlternationInv, TypeInv, FaultInv
<1>2. CASE Fault
  BY <1>1, <1>2 DEF Fault, AbandonRead, CallbackRaises, BareCancel, DevCrash
<1>3. CASE ~Fault
  <2>1. UNCHANGED <<faults, alive>>
    BY <1>3 DEF Next, ClientStep, DeviceStep, Begin, Send, Read, PressButton, CallbackFailure,
         CallbackButtonRequest, CallbackPinMatrixRequest, CallbackPassphraseRequest,
         CallbackCharacterRequest, ReturnToBody, NextCall, Finish, Unexpected, TimeoutDead,
         WriteRefused, DevStart, DevAcknowledged, DevRefuses, DevConfirmed, DevAsks,
         DevCompletes, DevFails, DevDecision, UserPresses, devVars, vars
  <2> QED
    BY <2>1 DEF FaultlessInv
<1> QED
  BY <1>2, <1>3

LEMMA InitFaultlessInv == Init => FaultlessInv
BY InitStepInv DEF Init, FaultlessInv, NotRun, RealInv, ReturnedWasExecuted

\* What the steps below need of it.
LEMMA Faultless ==
    ASSUME FaultlessInv, MaxFaults = 0
    PROVE  /\ faults = 0 /\ unread = 0 /\ alive /\ TypeInv /\ Sync
           /\ cur \in Ops <=> pc # "idle"
           /\ cur \in Ops => StatusOf(cur) = "open"
           /\ \A o \in Ops : o # cur => StatusOf(o) # "open"
<1>1. TypeInv /\ alive /\ faults = 0 /\ unread = 0
  BY DEF FaultlessInv, StepInv, AlternationInv, TypeInv, FaultInv
<1>2. \A o \in Ops : outcome[o].kind \in {"new", "raised", "returned"}
  BY <1>1 DEF TypeInv, HostInv, HostTypeOK
<1> QED
  BY <1>1, <1>2, SyncTypes DEF FaultlessInv, StepInv, Sync, Told, StatusOf

\* An operation that ends changes its own status and no other's.
LEMMA LeaveStatus ==
    ASSUME FaultlessInv, MaxFaults = 0, cur \in Ops,
           NEW r, r.kind # "new", Leave(r)
    PROVE  [o \in Ops |-> StatusOf(o)]' = [[o \in Ops |-> StatusOf(o)] EXCEPT ![cur] = r.kind]
<1>1. r # NotRun /\ cur' = NoOp /\ NoOp \notin Ops
  BY Faultless, SyncTypes DEF NotRun, Leave
<1>2. outcome'[cur] = r /\ \A o \in Ops : o # cur => outcome'[o] = outcome[o]
  BY Faultless, SyncTypes DEF Leave
<1>3. \A o \in Ops : StatusOf(o)' = IF o = cur THEN r.kind ELSE StatusOf(o)
  BY <1>1, <1>2 DEF StatusOf
<1> QED
  BY <1>3

LEMMA RemoteInit == Init => Remote!Init
BY ConversationAssumption DEF Init, Remote!Init, StatusOf, NotRun

\* Every step of the client or the device is one of RemoteOperations, or is
\* not seen by the callers.
LEMMA RemoteStep ==
    ASSUME FaultlessInv, MaxFaults = 0, [Next]_vars
    PROVE  [Remote!Next]_(Remote!vars)
<1> USE Faultless, SyncTypes
<1> DEFINE status == [o \in Ops |-> StatusOf(o)]
<1>1. ASSUME NEW o \in Ops, Begin(o) PROVE Remote!Open(o)
  <2>1. status[o] = "new" /\ \A p \in Ops : status[p] # "open"
    BY <1>1 DEF Begin, StatusOf, NotRun
  <2>2. \A p \in Ops : StatusOf(p)' = IF p = o THEN "open" ELSE StatusOf(p)
    BY <1>1 DEF Begin, StatusOf
  <2>3. executed' = executed
    BY <1>1 DEF Begin, devVars
  <2> QED
    BY <2>1, <2>2, <2>3 DEF Remote!Open
<1>2. CASE DevCompletes
  <2>1. devOp = cur /\ cur \in Ops /\ cur \notin executed
    BY <1>2, OneToken DEF DevCompletes, FaultlessInv, StepInv, Sync, InStep, WorksFor, Told
  <2>2. executed' = executed \cup {cur} /\ status' = status
    BY <1>2, <2>1 DEF DevCompletes, hostVars, StatusOf
  <2> QED
    BY <2>1, <2>2 DEF Remote!Execute, Remote!Next
<1>3. CASE Finish
  <2>1. msg.op = cur /\ cur \in Ops /\ cur \in executed
    BY <1>3 DEF Finish, Expected, FaultlessInv, StepInv, Sync, InStep, AnswerFor, RealInv, Real
  <2>2. executed' = executed /\ status' = [status EXCEPT ![cur] = "returned"]
    BY <1>3, <2>1, LeaveStatus DEF Finish, Returned, devVars
  <2> QED
    BY <2>1, <2>2 DEF Remote!Return, Remote!Next
<1>4. CASE CallbackFailure
  <2>1. cur \in Ops /\ cur \notin executed
    BY <1>4 DEF CallbackFailure, FaultlessInv, StepInv, Sync, InStep, Told
  <2>2. executed' = executed /\ status' = [status EXCEPT ![cur] = "raised"]
    BY <1>4, <2>1, LeaveStatus DEF CallbackFailure, Raised, devVars
  <2> QED
    BY <2>1, <2>2 DEF Remote!Raise, Remote!Next
<1>5. ~(Unexpected \/ TimeoutDead \/ WriteRefused \/ Fault)
  <2>1. ~Unexpected
    BY DEF Unexpected, Expected, Sync, InStep, AnswerFor
  <2> QED
    BY <2>1 DEF TimeoutDead, WriteRefused, Fault, AbandonRead, CallbackRaises, BareCancel, DevCrash
<1>6. CASE \/ Send \/ Read \/ PressButton \/ CallbackButtonRequest \/ CallbackPinMatrixRequest
           \/ CallbackPassphraseRequest \/ CallbackCharacterRequest \/ ReturnToBody \/ NextCall
           \/ DevStart \/ DevAcknowledged \/ DevRefuses \/ DevConfirmed \/ DevAsks \/ DevFails
           \/ DevDecision \/ UserPresses \/ UNCHANGED vars
  <2>1. UNCHANGED <<cur, outcome, executed>>
    BY <1>6 DEF Send, Read, PressButton, CallbackButtonRequest, CallbackPinMatrixRequest,
         CallbackPassphraseRequest, CallbackCharacterRequest, CallAgain, ReturnToBody, NextCall,
         DevStart, DevAcknowledged, DevRefuses, DevConfirmed, DevAsks, DevFails, DevDecision,
         UserPresses, vars, hostVars, devVars
  <2> QED
    BY <2>1 DEF Remote!vars, StatusOf
<1> QED
  BY <1>1, <1>2, <1>3, <1>4, <1>5, <1>6 DEF Next, ClientStep, DeviceStep, Remote!Next

\* Without faults the call loop, its callbacks and its sessions implement what
\* a caller relies on: an operation is opened, the device carries it out and
\* then its result is returned, or it is refused and raises, one at a time
\* (the safety part of RemoteSpec; that a result is always returned is left
\* to TLC).
RemoteSafety == Remote!Init /\ [][Remote!Next]_(Remote!vars)

THEOREM ImplementsRemoteOperations == MaxFaults = 0 => (Spec => RemoteSafety)
<1> SUFFICES ASSUME MaxFaults = 0 PROVE Spec => RemoteSafety
  OBVIOUS
<1>1. FaultlessInv /\ [Next]_vars => [Remote!Next]_(Remote!vars)
  BY RemoteStep
<1> QED
  BY <1>1, RemoteInit, InitFaultlessInv, NextFaultlessInv, PTL DEF Spec, RemoteSafety

=============================================================================
