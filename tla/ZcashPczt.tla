----------------------------- MODULE ZcashPczt -----------------------------
(***************************************************************************)
(* ProtocolMixin.zcash_sign_pczt(): a shielded Zcash transaction is        *)
(* streamed to the device, first its transparent outputs, then its         *)
(* transparent inputs, then its actions (Orchard and Ironwood, numbered    *)
(* through).  The device asks for each piece by its number.  At the end it *)
(* sends the transparent signatures and, in a second message that nobody   *)
(* asked for, one signature per action that really spends.                 *)
(*                                                                         *)
(* Nothing is assumed of the device but that its messages are of the kinds *)
(* in Messages, where "Other" stands for every class that the function     *)
(* does not handle and for a Failure, on which call() raises.              *)
(***************************************************************************)
EXTENDS Integers, Sequences, FiniteSets

CONSTANTS
    Arguments,      \* what zcash_sign_pczt may be called with, see ArgumentSet
    Indices,        \* bound: numbers of pieces that the device may ask for
    SignatureLists  \* bound: lists of signatures that the device may send

\* is_spend of an action: a Boolean, or missing ("unset").
Marks == {"spend", "dummy", "unset"}
\* sighash: some transparent input comes with a sighash of its own.
ArgumentSet ==
    [outputs : Nat, inputs : Nat, sighash : BOOLEAN, orchard : Seq(Marks), ironwood : Seq(Marks)]

\* An element of a list of signatures tells whether the signature is well
\* formed: not empty if transparent, of 64 bytes if shielded.
ASSUME ZcashAssumption ==
    /\ Arguments \subseteq ArgumentSet
    /\ Indices \subseteq Nat
    /\ SignatureLists \subseteq Seq(BOOLEAN)

None == -1
\* next_output_index and next_input_index are optional, and so is next_index.
Acks ==
    [kind : {"TransparentAck"}, output : Indices \cup {None}, input : Indices \cup {None}]
ActionAcks == [kind : {"ActionAck"}, action : Indices \cup {None}]
SignatureMessages == [kind : {"TransparentSigned", "SignedPCZT"}, signatures : SignatureLists]
Others == [kind : {"Other"}]
Messages == Acks \cup ActionAcks \cup SignatureMessages \cup Others

VARIABLES
    arg,
    pc,           \* start, called, got, done, raised
    stage,        \* the loop the function is in: outputs, inputs, actions, final, second
    resp,         \* the device's last message
    sentOutputs, sentInputs, sentActions,
    transparent,  \* transparent_sigs
    trail         \* history: the pieces sent, in order

vars == <<arg, pc, stage, resp, sentOutputs, sentInputs, sentActions, transparent, trail>>

Other == [kind |-> "Other"]

\* Orchard actions first, then any Ironwood ones.
Stream == arg.orchard \o arg.ironwood
ActionCount == Len(Stream)

Spends == {i \in 1..ActionCount : Stream[i] = "spend"}

-----------------------------------------------------------------------------
(* Before the device is contacted *)

Legal ==
    /\ arg.orchard # <<>> \/ arg.inputs > 0
    /\ \A i \in 1..ActionCount : Stream[i] # "unset"
    /\ arg.inputs > 0 => ~arg.sighash

RejectArguments ==
    /\ pc = "start" /\ ~Legal
    /\ pc' = "raised"
    /\ UNCHANGED <<arg, stage, resp, sentOutputs, sentInputs, sentActions, transparent, trail>>

\* self.call(ZcashSignPCZT) with the numbers of outputs, inputs and actions.
CallSignPczt ==
    /\ pc = "start" /\ Legal
    /\ pc' = "called"
    /\ UNCHANGED <<arg, stage, resp, sentOutputs, sentInputs, sentActions, transparent, trail>>

-----------------------------------------------------------------------------
(* The three loops *)

Piece(k, i) == [kind |-> k, at |-> i]

Loop(s) == pc = "got" /\ stage = s

SendPiece(k, i) ==
    /\ trail' = Append(trail, Piece(k, i))
    /\ pc' = "called"
    /\ UNCHANGED <<arg, stage, resp, transparent>>

Raise ==
    /\ pc' = "raised"
    /\ UNCHANGED <<arg, stage, resp, sentOutputs, sentInputs, sentActions, transparent, trail>>

Enter(s) ==
    /\ stage' = s
    /\ UNCHANGED <<arg, pc, resp, sentOutputs, sentInputs, sentActions, transparent, trail>>

\* The conditions of the first two loops.
MoreOutputs == sentOutputs < arg.outputs /\ resp.kind = "TransparentAck"
MoreInputs == sentInputs < arg.inputs /\ resp.kind = "TransparentAck"

\* The device asks for the next output, and for no other.
SendOutput ==
    /\ Loop("outputs") /\ MoreOutputs
    /\ resp.output = sentOutputs
    /\ SendPiece("output", resp.output)
    /\ sentOutputs' = sentOutputs + 1
    /\ UNCHANGED <<sentInputs, sentActions>>

RejectOutput == Loop("outputs") /\ MoreOutputs /\ resp.output # sentOutputs /\ Raise

LeaveOutputs == Loop("outputs") /\ ~MoreOutputs /\ Enter("inputs")

SendInput ==
    /\ Loop("inputs") /\ MoreInputs
    /\ resp.input = sentInputs
    /\ SendPiece("input", resp.input)
    /\ sentInputs' = sentInputs + 1
    /\ UNCHANGED <<sentOutputs, sentActions>>

RejectInput == Loop("inputs") /\ MoreInputs /\ resp.input # sentInputs /\ Raise

\* "Device did not request every transparent output", "... input".
AllPlaintextSent == sentOutputs = arg.outputs /\ sentInputs = arg.inputs

LeaveInputs ==
    /\ Loop("inputs") /\ ~MoreInputs
    /\ IF AllPlaintextSent THEN Enter("actions") ELSE Raise

\* Mutants: no test for "requested twice"; the count of the Orchard actions only.
NextActionAgain == resp.action \in 0..(ActionCount - 1)
NextActionOrchard == resp.action \in 0..(Len(arg.orchard) - 1) \ sentActions

\* An action that exists and has not been requested before.
NextAction == resp.action \in 0..(ActionCount - 1) \ sentActions

SendAction ==
    /\ Loop("actions") /\ resp.kind = "ActionAck"
    /\ NextAction
    /\ SendPiece("action", resp.action)
    /\ sentActions' = sentActions \cup {resp.action}
    /\ UNCHANGED <<sentOutputs, sentInputs>>

RejectAction == Loop("actions") /\ resp.kind = "ActionAck" /\ ~NextAction /\ Raise

LeaveActions ==
    /\ Loop("actions") /\ resp.kind # "ActionAck"
    /\ IF sentActions = 0..(ActionCount - 1) THEN Enter("final") ELSE Raise

-----------------------------------------------------------------------------
(* The signatures *)

\* Mutant: transparent signatures may come again and again.
TakeTransparentAgain ==
    /\ Loop("final") \/ Loop("second")
    /\ resp.kind = "TransparentSigned"
    /\ transparent' = resp.signatures
    /\ stage' = "second"
    /\ pc' = "called"
    /\ UNCHANGED <<arg, resp, sentOutputs, sentInputs, sentActions, trail>>

\* The message that follows is read without having been asked for.
TakeTransparent ==
    /\ Loop("final") /\ resp.kind = "TransparentSigned"
    /\ transparent' = resp.signatures
    /\ stage' = "second"
    /\ pc' = "called"
    /\ UNCHANGED <<arg, resp, sentOutputs, sentInputs, sentActions, trail>>

\* Mutant: the transparent signatures are not counted.
AcceptableUncounted ==
    /\ resp.kind = "SignedPCZT"
    /\ \A i \in DOMAIN transparent : transparent[i]
    /\ Len(resp.signatures) = Cardinality(Spends)
    /\ \A i \in DOMAIN resp.signatures : resp.signatures[i]

\* One transparent signature per input and one signature per spend, all of them good.
Acceptable ==
    /\ resp.kind = "SignedPCZT"
    /\ Len(transparent) = arg.inputs
    /\ \A i \in DOMAIN transparent : transparent[i]
    /\ Len(resp.signatures) = Cardinality(Spends)
    /\ \A i \in DOMAIN resp.signatures : resp.signatures[i]

Return ==
    /\ Loop("second") \/ (Loop("final") /\ resp.kind # "TransparentSigned")
    /\ pc' = IF Acceptable THEN "done" ELSE "raised"
    /\ UNCHANGED <<arg, stage, resp, sentOutputs, sentInputs, sentActions, transparent, trail>>

-----------------------------------------------------------------------------
(* The device *)

Respond(r) ==
    /\ pc = "called"
    /\ resp' = r
    /\ pc' = "got"
    /\ UNCHANGED <<arg, stage, sentOutputs, sentInputs, sentActions, transparent, trail>>

Init ==
    /\ arg \in Arguments
    /\ pc = "start" /\ stage = "outputs" /\ resp = Other
    /\ sentOutputs = 0 /\ sentInputs = 0 /\ sentActions = {}
    /\ transparent = <<>> /\ trail = <<>>

Host ==
    \/ RejectArguments \/ CallSignPczt
    \/ SendOutput \/ RejectOutput \/ LeaveOutputs
    \/ SendInput \/ RejectInput \/ LeaveInputs
    \/ SendAction \/ RejectAction \/ LeaveActions
    \/ TakeTransparent \/ Return

Device == \E r \in Messages : Respond(r)

Next == Host \/ Device

\* The host runs, and the device answers (if only with nonsense).
Spec == Init /\ [][Next]_vars /\ WF_vars(Next)

-----------------------------------------------------------------------------
(* Properties *)

PieceSet == [kind : {"output", "input", "action"}, at : Nat]

\* Type invariant of zcash_sign_pczt's local state.
TypeOK ==
    /\ arg \in Arguments
    /\ pc \in {"start", "called", "got", "done", "raised"}
    /\ stage \in {"outputs", "inputs", "actions", "final", "second"}
    /\ resp \in Messages \cup {Other}
    /\ sentOutputs \in 0..arg.outputs /\ sentInputs \in 0..arg.inputs
    /\ sentActions \subseteq 0..(ActionCount - 1)
    /\ transparent \in Seq(BOOLEAN)
    /\ trail \in Seq(PieceSet)

\* Whatever the device asks for, it gets the transaction in one order: all the
\* outputs, then all the inputs, each list from its beginning, then actions,
\* none of them twice.
StreamedInOrder ==
    /\ \A k \in 1..Len(trail) :
          trail[k] = CASE k <= arg.outputs -> Piece("output", k - 1)
                       [] k > arg.outputs /\ k <= arg.outputs + arg.inputs ->
                             Piece("input", k - arg.outputs - 1)
                       [] OTHER -> Piece("action", trail[k].at)
    /\ \A j, k \in 1..Len(trail) : trail[j] = trail[k] => j = k

\* A result is handed out only if the device has seen the whole transaction
\* and has signed every input and every spend of it.
CompleteOrRaise ==
    pc = "done" =>
        /\ Len(trail) = arg.outputs + arg.inputs + ActionCount
        /\ transparent \in [1..arg.inputs -> {TRUE}]
        /\ resp.kind = "SignedPCZT"
        /\ resp.signatures \in [1..Cardinality(Spends) -> {TRUE}]

\* Transparent signatures are taken only when all actions have been sent:
\* a device that sends them early gets no more of the transaction.
SignaturesLast ==
    transparent # <<>> => Len(trail) = arg.outputs + arg.inputs + ActionCount

\* No device can hold the host in the conversation: with each answer it asks
\* for a piece it has not had, or the conversation is near its end.
ConversationEnds == <>(pc \in {"done", "raised"})

\* What is sent, and when signatures are taken, whatever the device asks for.
StreamRight == TypeOK /\ StreamedInOrder /\ SignaturesLast
=============================================================================
