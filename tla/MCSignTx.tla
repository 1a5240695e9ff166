------------------------------ MODULE MCSignTx ------------------------------
(* Instances of sign_tx: up to three inputs that spend two transactions,   *)
(* some of them signed the old way, two inputs that spend the same one.    *)
EXTENDS SignTxFirmware

CONSTANTS h1, h2

BothHashes == {h1, h2}
Previously == [h \in BothHashes |-> IF h = h1 THEN [ins |-> 1, outs |-> 2, extra |-> 0]
                                              ELSE [ins |-> 2, outs |-> 1, extra |-> 3]]

Spends(h, w) == [prev |-> h, witness |-> w]
Args(ins, n, b, a) == [inputs |-> ins, outputs |-> n, bip143 |-> b, api |-> a]

\* Two inputs, of which the second needs its previous transaction.
Mixed == <<Spends(h1, TRUE), Spends(h2, FALSE)>>
AnyDeviceArguments == {Args(Mixed, 1, FALSE, TRUE), Args(Mixed, 1, FALSE, FALSE), Args(Mixed, 1, TRUE, FALSE)}

\* Every combination of up to three inputs.
InputLists == UNION {[1..n -> {Spends(h, w) : h \in BothHashes, w \in BOOLEAN}] : n \in 1..3}
FirmwareArguments == {Args(ins, 2, b, a) : ins \in InputLists, b \in BOOLEAN, a \in BOOLEAN}

AllArguments == AnyDeviceArguments \cup FirmwareArguments
SmallIndices == 0..2
FewRequests == 3      \* bound: requests of a device that is not honest

-----------------------------------------------------------------------------
(* Both devices in one run: which of them it is shows at the beginning only. *)

VARIABLE honest

EitherVars == <<vars, honest>>

EitherInit ==
    /\ Init
    /\ honest \in BOOLEAN
    /\ arg \in IF honest THEN FirmwareArguments ELSE AnyDeviceArguments

EitherNext ==
    /\ \/ Host
       \/ honest /\ FirmwareRequest
       \/ ~honest /\ Len(log) < FewRequests /\ DeviceRequest
       \/ ~honest /\ DeviceOther
    /\ UNCHANGED honest

EitherSpec == EitherInit /\ [][EitherNext]_EitherVars /\ WF_EitherVars(EitherNext)

\* What an honest device computes is what sign_tx returns, all of it.
HonestResult == honest => ResultIsTheDevices

\* With an honest device sign_tx returns, if the transactions can be fetched.
HonestSucceeds == honest => SigningSucceeds
=============================================================================
