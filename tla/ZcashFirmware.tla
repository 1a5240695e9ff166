--------------------------- MODULE ZcashFirmware ---------------------------
(***************************************************************************)
(* zcash_sign_pczt() against the device its tests describe                 *)
(* (tests/test_msg_zcash_sign_pczt.py): outputs, inputs and actions are    *)
(* asked for one after the other, the actions in whichever order the       *)
(* device likes, then come the signatures.  The honest device keeps count  *)
(* of what it has received by the pieces alone.                            *)
(***************************************************************************)
EXTENDS ZcashPczt, FiniteSetsExt

\* The pieces of a kind, of which there are n, that have not arrived yet.
Missing(k, n) == 0..(n - 1) \ {trail[i].at : i \in {j \in DOMAIN trail : trail[j].kind = k}}

AskOutput(i) == [kind |-> "TransparentAck", output |-> i, input |-> None]
AskInput(i) == [kind |-> "TransparentAck", output |-> None, input |-> i]
AskAction(i) == [kind |-> "ActionAck", action |-> i]
Signed(k, n) == [kind |-> k, signatures |-> [i \in 1..n |-> TRUE]]

\* What the device may send next.
Answers ==
    LET outs == Missing("output", arg.outputs)
        ins == Missing("input", arg.inputs)
        acts == Missing("action", ActionCount)
    IN  IF outs # {} THEN {AskOutput(Min(outs))}
        ELSE IF ins # {} THEN {AskInput(Min(ins))}
        ELSE IF acts # {} THEN {AskAction(i) : i \in acts}
        ELSE IF arg.inputs > 0 /\ stage # "second" THEN {Signed("TransparentSigned", arg.inputs)}
        ELSE {Signed("SignedPCZT", Cardinality(Spends))}

FirmwareAnswer == pc = "called" /\ \E r \in Answers : Respond(r)

-----------------------------------------------------------------------------
(* Properties *)

\* With an honest device every legal transaction is signed: no check of the
\* host is in the way, in whichever order the device takes the actions.
SigningSucceeds == Legal ~> pc = "done"
=============================================================================
