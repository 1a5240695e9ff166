-------------------------- MODULE EthereumFirmware --------------------------
(***************************************************************************)
(* ethereum_sign_tx() against the device that the tests describe           *)
(* (tests/test_msg_ethereum_erc7730_runtime.py).  Without a definition it  *)
(* asks for the calldata once.  With one it walks through the calldata     *)
(* several times, from the end of the initial chunk, and in between looks  *)
(* for the definition of an embedded call and then restores the outer one  *)
(* by its id.  The device goes by the messages it has received alone.      *)
(***************************************************************************)
EXTENDS EthereumSignTx, SequencesExt

CONSTANT Passes \* how often calldata is read if there is a definition

ASSUME PassesAssumption == Passes \in Nat \ {0}

Total(lengths) ==
    LET upto[k \in 0..Len(lengths)] == IF k = 0 THEN 0 ELSE upto[k - 1] + lengths[k]
    IN  upto[Len(lengths)]

\* The bytes in those messages received that Test picks.
Received(Test(_)) ==
    Total([k \in DOMAIN trail |-> IF Test(trail[k]) THEN trail[k].chunk.length ELSE 0])

Data(p) == p.kind = "data"
Outer(p) == p.kind = "definition" /\ p.chunk.id = tx.definition.id
Inner(p) == p.kind = "definition" /\ p.chunk.id # tx.definition.id

DataReceived == SelectSeq(trail, Data)
InnerReceived == SelectSeq(trail, Inner)
OuterReceived == Received(Outer)

\* What a pass reads besides the initial chunk, and all passes together.
PerPass == IF tx.data = None THEN 0 ELSE tx.data - Initial(tx)
Wanted == IF tx.definition = Missing THEN PerPass ELSE Passes * PerPass

AskData ==
    {[kind |-> "TxRequest", signature |-> FALSE,
      length |-> Smaller(InitialChunk, PerPass - (Received(Data) % PerPass))]
        : n \in IF Received(Data) < Wanted THEN {1} ELSE {}}

Ask(i, k, d, o) ==
    [kind |-> "DefinitionRequest",
     request |-> [id |-> i, scope |-> k[1], call |-> k[2], depth |-> d, offset |-> o, length |-> MaxChunk]]

InnerComplete ==
    InnerReceived # <<>> /\ Received(Inner) = InnerReceived[1].chunk.total

AskInner ==
    {Ask(None, k, 1, Received(Inner)) :
        k \in IF tx.definition # Missing /\ ~InnerComplete THEN tx.embedded ELSE {}}

AskOuter ==
    {Ask(tx.definition.id, <<tx.definition.scope, k[2]>>, None, OuterReceived) :
        k \in IF /\ tx.definition # Missing
                 /\ InnerComplete /\ InnerReceived[1].chunk # NoDefinition
                 /\ OuterReceived < Size[tx.definition.id]
              THEN tx.embedded ELSE {}}

Acknowledge(c) ==
    [kind |-> "DefinitionAck", id |-> c.id, next |-> c.offset + c.length,
     complete |-> c.offset + c.length = c.total]

SignatureMessage == [kind |-> "TxRequest", signature |-> TRUE, length |-> None]

\* An empty chunk where there should be data does not match the definition.
Mismatch == DataReceived # <<>> /\ Last(DataReceived).chunk.length = 0

Answers ==
    IF stage = "preload" THEN {Acknowledge(Last(trail).chunk)}
    ELSE IF Mismatch THEN {Other}
    ELSE LET asked == AskData \cup AskInner \cup AskOuter
         IN  IF asked = {} THEN {SignatureMessage} ELSE asked

FirmwareAnswer == pc = "waiting" /\ \E r \in Answers : Respond(r)

-----------------------------------------------------------------------------
(* Properties *)

\* Once the device is contacted, the transaction gets signed: with calldata
\* of any length, or with a definition.
SigningSucceeds == (pc = "waiting") ~> (pc = "done")

\* A signature that an honest device gives covers all of the calldata.
SignedWhole == pc = "done" => left \in {None, 0}

\* The same of large calldata with a definition, of which the tests say
\* "Pass 1 validates and fixes the digest; passes 2-4 capture the outer
\* fields": the host is asked for calldata again.
ClearSigningSucceeds == (pc = "waiting" /\ tx.definition # Missing) ~> (pc = "done")
=============================================================================
