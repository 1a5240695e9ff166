---------------------------- MODULE MCZcashPczt ----------------------------
(* Instances of zcash_sign_pczt: up to two outputs and inputs and three     *)
(* actions against any device, up to three and four against the honest one. *)
EXTENDS ZcashFirmware

Args(o, i, s, a, w) == [outputs |-> o, inputs |-> i, sighash |-> s, orchard |-> a, ironwood |-> w]

UpTo(n, marks) == UNION {[1..k -> marks] : k \in 0..n}

AnyDeviceArguments ==
    {Args(o, i, FALSE, a, w) : o \in {0, 2}, i \in {0, 2},
                               a \in UpTo(2, {"spend", "dummy"}), w \in UpTo(1, {"spend"})}
    \cup {Args(1, 1, TRUE, <<"spend">>, <<>>), Args(1, 1, FALSE, <<"spend">>, <<"unset">>),
          Args(1, 1, FALSE, <<"spend", "dummy", "spend">>, <<>>)}

FirmwareArguments ==
    {Args(o, i, FALSE, a, w) : o \in {0, 1, 3}, i \in {0, 1, 3},
                               a \in UpTo(3, {"spend", "dummy"}), w \in UpTo(1, {"spend", "dummy"})}

AllArguments == AnyDeviceArguments \cup FirmwareArguments
SmallIndices == 0..3
SomeSignatures == UpTo(4, BOOLEAN)

\* Bound: a device that is not honest sends smaller numbers and shorter lists.
FewMessages ==
    [kind : {"TransparentAck"}, output : {None, 0, 1, 2}, input : {None, 0, 1, 2}]
    \cup [kind : {"ActionAck"}, action : {None, 0, 1, 2}]
    \cup [kind : {"TransparentSigned", "SignedPCZT"}, signatures : UpTo(2, BOOLEAN)]
    \cup Others

-----------------------------------------------------------------------------
(* Both devices in one run: which of them it is shows at the beginning only. *)

VARIABLE honest

EitherVars == <<vars, honest>>

EitherInit ==
    /\ Init
    /\ honest \in BOOLEAN
    /\ arg \in IF honest THEN FirmwareArguments ELSE AnyDeviceArguments

EitherNext ==
    /\ Host \/ (honest /\ FirmwareAnswer) \/ (~honest /\ \E r \in FewMessages : Respond(r))
    /\ UNCHANGED honest

EitherSpec == EitherInit /\ [][EitherNext]_EitherVars /\ WF_EitherVars(EitherNext)

\* With an honest device every legal transaction is signed.
HonestSucceeds == honest => SigningSucceeds
=============================================================================
