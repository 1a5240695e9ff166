----------------------------- MODULE MessageStream -----------------------------
(* The signing operations that hand a document to the device message by     *)
(* message: cosmos_sign_tx, osmosis_sign_tx, thorchain_sign_tx and           *)
(* mayachain_sign_tx of client.py, and sign_tx of binance.py.  They share one *)
(* loop and differ in which messages they take, and in which firmware they   *)
(* trust to sign the denomination that they send.                            *)
EXTENDS Integers, Sequences

CONSTANTS
    MaxLength    \* bound: the longest document

ASSUME BoundAssumption == MaxLength \in Nat

Chains == {"cosmos", "osmosis", "thorchain", "mayachain", "binance"}

\* A message of a document: its type, how many amounts or coins it has, and
\* whether they are in the chain's own denomination.  Further inputs and outputs
\* of a Binance transfer, which are treated like further coins, count as such.
Messages == [type : {"send", "deposit", "other"}, coins : 0..2, native : BOOLEAN]
Answers == {"MsgRequest", "SignedTx", "other"}

\* Firmware versions: the code compares with 7.14.2 and 7.15.0, and 6.6.0 is the
\* first that the tests ask to sign another denomination than BNB.
Versions == 0..3
V6_6_0 == 1
V7_14_2 == 2
V7_15_0 == 3

VARIABLES
    chain, document,   \* the operation and its argument
    version,           \* of the device, cached in client.features
    pc,                \* start | waiting | got | done | raised
    resp,              \* the device's last answer
    trail              \* the acknowledgements sent so far

vars == <<chain, document, version, pc, resp, trail>>

-----------------------------------------------------------------------------
(* The host *)

\* Binance takes msgs[0] and forgets the rest; the others take all.
Count == IF chain = "binance" THEN 1 ELSE Len(document)

TypesOf(c) == IF c \in {"thorchain", "mayachain"} THEN {"send", "deposit"} ELSE {"send"}

\* Mutant: the older of the two versions is enough for every chain.
AnyDenomTooEarly ==
    chain \in {"mayachain", "binance"} \/ (chain \in {"osmosis", "thorchain"} /\ version >= V7_14_2)

\* The operation lets other denominations pass in a send.
AnyDenom ==
    \/ chain \in {"mayachain", "binance"}
    \/ chain = "osmosis" /\ version >= V7_14_2
    \/ chain = "thorchain" /\ version >= V7_15_0

\* Mutant: the Osmosis branch asks for the denomination of Cosmos.
SendableUatom(m) ==
    /\ m.type \in TypesOf(chain)
    /\ m.coins = 1 \/ (chain = "binance" /\ m.coins > 1)
    /\ IF chain = "osmosis" THEN ~m.native ELSE m.native \/ (m.type = "send" /\ AnyDenom)

\* Binance sends the first coin of several; the others want exactly one.
Sendable(m) ==
    /\ m.type \in TypesOf(chain)
    /\ m.coins = 1 \/ (chain = "binance" /\ m.coins > 1)
    /\ m.native \/ (m.type = "send" /\ AnyDenom)

\* Cosmos has no field for the denomination, Thorchain leaves it out for
\* firmware that does not know it.
NamesDenom(m) ==
    /\ chain # "cosmos"
    /\ chain = "thorchain" /\ m.type = "send" => version >= V7_15_0

Denom(m) == IF m.native THEN "native" ELSE "other"
\* Whatever the message has, one coin is sent: amount[0], coins[0].
Ack(m) == [type |-> m.type, coins |-> 1, denom |-> IF NamesDenom(m) THEN Denom(m) ELSE "absent"]

\* msgs[0] of an empty Binance document raises before the device is contacted.
CallSignTx ==
    /\ pc = "start"
    /\ pc' = IF document = <<>> /\ chain = "binance" THEN "raised" ELSE "waiting"
    /\ UNCHANGED <<chain, document, version, resp, trail>>

MessagesLeft == pc = "got" /\ Len(trail) < Count

SendMessage ==
    /\ MessagesLeft /\ resp = "MsgRequest"
    /\ LET m == document[Len(trail) + 1]
       IN  Sendable(m) /\ trail' = Append(trail, Ack(m))
    /\ pc' = "waiting"
    /\ UNCHANGED <<chain, document, version, resp>>

\* CallException in the middle of the conversation: no request, or a message
\* that is not supported, found only now.
RejectMessage ==
    /\ MessagesLeft
    /\ resp # "MsgRequest" \/ ~Sendable(document[Len(trail) + 1])
    /\ pc' = "raised"
    /\ UNCHANGED <<chain, document, version, resp, trail>>

Finish ==
    /\ pc = "got" /\ Len(trail) = Count
    /\ pc' = IF resp = "SignedTx" THEN "done" ELSE "raised"
    /\ UNCHANGED <<chain, document, version, resp, trail>>

Host == CallSignTx \/ SendMessage \/ RejectMessage \/ Finish

-----------------------------------------------------------------------------
(* The device *)

Respond(r) ==
    /\ pc = "waiting"
    /\ resp' = r /\ pc' = "got"
    /\ UNCHANGED <<chain, document, version, trail>>

\* The honest device has the operation (firmware 7.16.0 has none for Binance) and
\* asks for as many messages as msg_count announces.
HonestAnswer == IF Len(trail) < Count THEN "MsgRequest" ELSE "SignedTx"

\* Firmware that writes its own denomination, whatever it is sent: CosmosMsgSend
\* has no field for one, Osmosis (client.py:1164) and Thorchain (client.py:1328)
\* firmware had it hardcoded.
SignsItsOwn ==
    \/ chain = "cosmos"
    \/ chain = "osmosis" /\ version < V7_14_2
    \/ chain = "thorchain" /\ version < V7_15_0

\* Firmware that is known to sign the denomination it is sent, from the same
\* comments and, for Binance, from test_transfer_bep2.
SignsWhatIsSent ==
    \/ chain = "osmosis" /\ version >= V7_14_2
    \/ chain = "thorchain" /\ version >= V7_15_0
    \/ chain = "binance" /\ version >= V6_6_0

\* Of Mayachain and older Binance firmware only the signature of the own
\* denomination is tested: sent another one it may sign either.
Unsourced == ~SignsItsOwn /\ ~SignsWhatIsSent

\* What the firmware may make of an acknowledgement.
SignedDenoms(denom) ==
    IF denom = "other" /\ ~SignsItsOwn
    THEN IF SignsWhatIsSent THEN {"other"} ELSE {"native", "other"}
    ELSE {"native"}
Signed(ack) == [type : {ack.type}, coins : {ack.coins}, denom : SignedDenoms(ack.denom)]

Init ==
    /\ chain \in Chains /\ version \in Versions
    /\ document \in UNION {[1..n -> Messages] : n \in 0..MaxLength}
    /\ pc = "start" /\ resp = "other" /\ trail = <<>>

Next == Host \/ \E r \in Answers : Respond(r)
Spec == Init /\ [][Next]_vars

HonestNext == Host \/ Respond(HonestAnswer)

-----------------------------------------------------------------------------
(* Properties *)

TypeOK ==
    /\ chain \in Chains /\ version \in Versions /\ document \in Seq(Messages)
    /\ pc \in {"start", "waiting", "got", "done", "raised"}
    /\ resp \in Answers
    /\ trail \in Seq([type : {"send", "deposit"}, coins : {1}, denom : {"native", "other", "absent"}])

\* A message as the caller wrote it, with all of its coins.
Asked(m) == [type |-> m.type, coins |-> m.coins, denom |-> Denom(m)]

\* Only Binance signs less than the document, and says nothing of it.
Truncated == chain = "binance" /\ (Len(document) > 1 \/ \E k \in DOMAIN document : document[k].coins > 1)

\* Whatever the device answers and whichever version it has: a result is handed
\* out only for a document that the firmware signs as the caller wrote it, all
\* messages in order, each with all its coins and in its denomination.  There are
\* two exceptions.  A Binance document with more than one message or coin is cut
\* (NothingDropped); and where the repository does not say what firmware makes of
\* another denomination (Unsourced), the property says that it was sent.
SignedAsAsked ==
    pc = "done" /\ ~Truncated =>
        /\ resp = "SignedTx"
        /\ Len(trail) = Len(document)
        /\ \A k \in 1..Len(document) :
              /\ Asked(document[k]) \in Signed(trail[k])
              /\ ~Unsourced \/ document[k].native => Signed(trail[k]) = {Asked(document[k])}

\* Every message and every coin of a document is signed or the document refused:
\* the code raises on what is "not supported" (binance.py:75, client.py:1249).
\* sign_tx of binance.py signs msgs[0] with its first coin and raises nothing.
NothingDropped ==
    pc = "done" =>
        /\ Len(trail) = Len(document)
        /\ \A k \in 1..Len(trail) : trail[k].coins = document[k].coins

\* The code refuses no document that this firmware can be told to sign as it is
\* written: with an honest device it is signed, and any other one ends in an
\* exception, however far the device has got by then.  Of a Binance document
\* that is cut this only says that the operation ends: its result is no success.
Supported(m) ==
    /\ m.type \in TypesOf(chain) /\ (m.type = "deposit" => m.native)
    /\ \E d \in {"native", "other"} :
          Asked(m) \in Signed([type |-> m.type, coins |-> 1, denom |-> d])
SigningSucceeds ==
    document # <<>> =>
        <>(IF Truncated THEN pc \in {"done", "raised"}
           ELSE pc = IF \A k \in DOMAIN document : Supported(document[k]) THEN "done" ELSE "raised")
=============================================================================
