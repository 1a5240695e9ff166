-------------------------- MODULE MCEthereumSignTx --------------------------
(* Instances of ethereum_sign_tx: three envelopes of three, two and one     *)
(* bytes, chunks of two bytes.  The definitions include one that is offered *)
(* for two lookups and two that are offered for the same lookup.            *)
EXTENDS EthereumFirmware

ThreeIds == {1, 2, 3}
Sizes == <<3, 2, 1>>
TwoScopes == {"calldata", "eip712"}
TwoCalls == {"swap", "approve"}

Definition(i, s, c) == [id |-> i, scope |-> s, call |-> c]
Swap == Definition(1, "calldata", "swap")
Moved == Definition(1, "calldata", "approve")
Ambiguous == Definition(2, "calldata", "swap")
Approve == Definition(2, "calldata", "approve")
Typed == Definition(3, "eip712", "approve")

Transaction(d, def, c, e) == [data |-> d, definition |-> def, catalog |-> c, embedded |-> e]

AnyDeviceTransactions ==
    {Transaction(d, Missing, c, {}) : d \in {None, 0, 1, 5}, c \in BOOLEAN}
    \cup {Transaction(4, def, c, {}) : def \in {Swap, Moved, Ambiguous, Typed}, c \in BOOLEAN}

Request(i, s, c, d, o, l) ==
    [id |-> i, scope |-> s, call |-> c, depth |-> d, offset |-> o, length |-> l]

SomeRequests ==
    {Request(None, s, c, d, 0, 2) : s \in TwoScopes, c \in TwoCalls, d \in {None, 0, 1}}
    \cup {Request(i, s, "swap", 1, 0, 2) : i \in ThreeIds, s \in TwoScopes}
    \cup {Request(None, "calldata", "swap", 1, o, 2) : o \in {2, 3}}
    \cup {Request(None, "calldata", "swap", 1, 0, l) : l \in {0, 1, 3}}
    \cup {Request(None, "calldata", "swap", 5, 0, 2)}

SomeLengths == {0, 1, 2, 9}

\* Calldata beyond the initial chunk, or a definition, with embedded calls
\* that the catalog holds and does not hold.
FirmwareTransactions ==
    {Transaction(d, Missing, FALSE, {}) : d \in {None, 0, 1, 2, 3, 7}}
    \cup {Transaction(d, def, c, e) : d \in {None, 2}, def \in {Swap, Approve, Typed}, c \in BOOLEAN,
                                      e \in {{}, {<<"calldata", "approve">>}, {<<"calldata", "swap">>}}}
\* ... except for calls that embed themselves.
HonestTransactions ==
    {t \in FirmwareTransactions : t.definition = Missing \/ Lookup(t.definition) \notin t.embedded}

AllTransactions == AnyDeviceTransactions \cup HonestTransactions
FewCalls == 2         \* bound: calls, by a client whose device is not honest
FewSent == 3          \* bound: messages of ethereum_sign_tx to such a device
LargeClearSigning == {Transaction(5, Swap, FALSE, {})} \cup HonestTransactions

NoRequests == {}
NoLengths == {}

-----------------------------------------------------------------------------
(* Both devices in one run: which of them it is shows at the beginning only. *)

VARIABLE honest

EitherVars == <<vars, honest>>

HonestRequests ==
    {Request(i, s, c, d, o, MaxChunk) : i \in {None} \cup ThreeIds, s \in TwoScopes,
                                        c \in TwoCalls, d \in {None, 1}, o \in 0..2}
AllRequests == SomeRequests \cup HonestRequests

\* Bounds of a device that is not honest, and of the calls made with it.
FewMessages ==
    [kind : {"TxRequest"}, signature : BOOLEAN, length : {None, 0, 1, 2, 9}]
    \cup [kind : {"DefinitionRequest"}, request : SomeRequests]
    \cup [kind : {"DefinitionAck"}, id : Ids, next : 0..(MaxChunk * FewSent), complete : BOOLEAN]
    \cup {Other}

AnyDevice == Len(trail) <= FewSent /\ \E r \in FewMessages : Respond(r)

\* The calls that are made with the one device and with the other.
Usual ==
    IF honest THEN tx' \in HonestTransactions
    ELSE tx' \in AnyDeviceTransactions /\ calls' <= FewCalls

EitherInit ==
    /\ Init /\ honest \in BOOLEAN
    /\ tx = CHOOSE t \in AnyDeviceTransactions \cap HonestTransactions : TRUE

EitherNext ==
    /\ \/ Host /\ Usual
       \/ honest /\ FirmwareAnswer
       \/ ~honest /\ AnyDevice
    /\ UNCHANGED honest

EitherSpec == EitherInit /\ [][EitherNext]_EitherVars /\ WF_EitherVars(EitherNext)

\* Clear signing of calldata beyond the initial chunk, alone.
PassesNext == (Host \/ FirmwareAnswer) /\ UNCHANGED honest
PassesSpec == Init /\ honest = TRUE /\ [][PassesNext]_EitherVars /\ WF_EitherVars(PassesNext)

\* With an honest device a signature covers all of the calldata.
HonestWhole == honest => SignedWhole

\* With an honest device the transaction gets signed.
HonestSucceeds == honest => SigningSucceeds
=============================================================================
