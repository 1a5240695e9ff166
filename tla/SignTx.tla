------------------------------- MODULE SignTx -------------------------------
(***************************************************************************)
(* ProtocolMixin.sign_tx(): the host half of Bitcoin signing.  The host    *)
(* first collects the transactions its inputs spend, sends SignTx, and     *)
(* from then on the device asks for one piece of a transaction at a time;  *)
(* on the way its requests carry signatures and parts of the serialised    *)
(* transaction.  Nothing is assumed of the device: any request may follow  *)
(* any other, with any index, any hash and any signature.                  *)
(*                                                                         *)
(* Prompts inside a call() (buttons, PIN) are Conversation's subject; here *)
(* a call() takes the host's message and gives back the device's answer.   *)
(***************************************************************************)
EXTENDS Integers, Sequences

CONSTANTS
    Arguments,     \* what sign_tx may be called with, see ArgumentSet
    Hashes,        \* hashes of transactions that exist
    Prev,          \* Prev[h] = [ins, outs, extra]: the size of transaction h
    Own,           \* an empty tx_hash: the transaction being signed
    Indices,       \* bound: the indices a request may carry
    MaxRequests    \* bound: requests of the device

\* inputs: what each input spends, and whether its signature covers the amount
\* (SPENDWITNESS, SPENDP2SHWITNESS).  bip143: BitcoinCash, BitcoinGold or
\* BitcoinSV, where every signature does.  api: self.tx_api is set.
ArgumentSet ==
    [inputs : Seq([prev : Hashes, witness : BOOLEAN]), outputs : Nat,
     bip143 : BOOLEAN, api : BOOLEAN]

ASSUME SignTxAssumption ==
    /\ Arguments \subseteq ArgumentSet
    /\ Prev \in [Hashes -> [ins : Nat, outs : Nat, extra : Nat]]
    /\ Own \notin Hashes
    /\ Indices \subseteq Nat
    /\ MaxRequests \in Nat

None == -1
RequestTypes == {"TXINPUT", "TXOUTPUT", "TXMETA", "TXEXTRADATA", "TXFINISHED"}

VARIABLES
    arg,         \* the arguments of this call
    pc,          \* prepare, called, got, done, raised
    pos,         \* inputs looked at by _prepare_sign_tx
    txes,        \* hashes of the previous transactions the host can serve
    res,         \* the device's last request
    signatures,  \* per input: number of the request that brought it, or None
    serialized,  \* numbers of the requests whose parts were appended
    ack,         \* the host's last message
    log          \* history: signature index and part of each request

vars == <<arg, pc, pos, txes, res, signatures, serialized, ack, log>>

InputCount == Len(arg.inputs)
Slots == 0..(InputCount - 1)

-----------------------------------------------------------------------------
(* The transactions the host serves *)

\* What a transaction consists of, as TXMETA reports it.
Size(h) == IF h = Own THEN [ins |-> InputCount, outs |-> arg.outputs, extra |-> 0]
                      ELSE Prev[h]

\* A piece of a transaction, in a TxAck.  Outputs of a previous transaction
\* are bin_outputs: field presence tells the device which of the two it gets.
Piece(h, k, i) == [of |-> h, kind |-> k, at |-> i]
\* Mutant: every output is an output of the transaction being signed.
OutputKindAlike(h) == "outputs"

OutputKind(h) == IF h = Own THEN "outputs" ELSE "bin_outputs"
NoAck == Piece(Own, "none", 0)
SignTxMsg == Piece(Own, "SignTx", 0)

\* inp.prev_hash is new and its transaction has to be fetched.
MustFetch(i) == ~arg.inputs[i].witness /\ arg.inputs[i].prev \notin txes

\* _prepare_sign_tx stops looking at once for the coins that sign amounts.
Prepared == arg.bip143 \/ pos = InputCount

PrepareNext ==
    /\ pc = "prepare" /\ ~Prepared
    /\ MustFetch(pos + 1) => arg.api
    /\ txes' = IF MustFetch(pos + 1) THEN txes \cup {arg.inputs[pos + 1].prev} ELSE txes
    /\ pos' = pos + 1
    /\ UNCHANGED <<arg, pc, res, signatures, serialized, ack, log>>

\* No tx_api, or its get_tx() fails.  The device has not been contacted yet.
PrepareFails ==
    /\ pc = "prepare" /\ ~Prepared
    /\ MustFetch(pos + 1)
    /\ pc' = "raised"
    /\ UNCHANGED <<arg, pos, txes, res, signatures, serialized, ack, log>>

\* self.call(SignTx) with the counts of inputs and outputs.
CallSignTx ==
    /\ pc = "prepare" /\ Prepared
    /\ ack' = SignTxMsg
    /\ pc' = "called"
    /\ UNCHANGED <<arg, pos, txes, res, signatures, serialized, log>>

-----------------------------------------------------------------------------
(* The loop over the device's requests *)

HasSignature == res.sig # None

\* Mutant: no test for "already filled".
AcceptedAgain == HasSignature => res.sig \in Slots

\* signatures[signature_index] exists and is not "already filled".
Accepted == HasSignature => res.sig \in {i \in Slots : signatures[i] = None}

\* Mutant: a part is looked for only in requests that bring no signature.
AddPartOrSignature ==
    serialized' = IF res.part /\ ~HasSignature THEN Append(serialized, Len(log)) ELSE serialized

\* The serialised part and the signature that came with the request.
AddPart == serialized' = IF res.part THEN Append(serialized, Len(log)) ELSE serialized
Collect ==
    /\ AddPart
    /\ signatures' = IF HasSignature THEN [signatures EXCEPT ![res.sig] = Len(log)] ELSE signatures

Raise == pc' = "raised"

RejectSignature ==
    /\ pc = "got" /\ ~Accepted
    /\ AddPart
    /\ Raise
    /\ UNCHANGED <<arg, pos, txes, res, signatures, ack, log>>

Finish ==
    /\ pc = "got" /\ Accepted /\ res.type = "TXFINISHED"
    /\ Collect
    /\ pc' = IF \E i \in Slots : signatures'[i] = None THEN "raised" ELSE "done"
    /\ UNCHANGED <<arg, pos, txes, res, ack, log>>

\* Mutant: an unknown hash is taken for the transaction being signed.
KnownAny == TRUE

\* The request is about a transaction and an index the host has.
Known == res.hash \in txes \cup {Own}
InRange ==
    CASE res.type = "TXINPUT"  -> res.index < Size(res.hash).ins
      [] res.type = "TXOUTPUT" -> res.index < Size(res.hash).outs
      [] OTHER -> TRUE

\* KeyError or IndexError in the middle of the conversation.
RejectRequest ==
    /\ pc = "got" /\ Accepted /\ res.type # "TXFINISHED"
    /\ ~(Known /\ InRange)
    /\ Collect
    /\ Raise
    /\ UNCHANGED <<arg, pos, txes, res, ack, log>>

Answer(type, piece) ==
    /\ pc = "got" /\ Accepted /\ res.type = type
    /\ Known /\ InRange
    /\ Collect
    /\ ack' = piece
    /\ pc' = "called"
    /\ UNCHANGED <<arg, pos, txes, res, log>>

AckMeta == Answer("TXMETA", Piece(res.hash, "meta", 0))
AckInput == Answer("TXINPUT", Piece(res.hash, "inputs", res.index))
AckOutput == Answer("TXOUTPUT", Piece(res.hash, OutputKind(res.hash), res.index))
AckExtraData == Answer("TXEXTRADATA", Piece(res.hash, "extra_data", res.index))

-----------------------------------------------------------------------------
(* The device *)

Requests ==
    [type : RequestTypes, hash : Hashes \cup {Own}, index : Indices,
     part : BOOLEAN, sig : Indices \cup {None}]

NoRequest == [type |-> "TXFINISHED", hash |-> Own, index |-> 0, part |-> FALSE, sig |-> None]

Respond(r) ==
    /\ pc = "called"
    /\ Len(log) < MaxRequests
    /\ res' = r
    /\ log' = Append(log, [sig |-> r.sig, part |-> r.part])
    /\ pc' = "got"
    /\ UNCHANGED <<arg, pos, txes, signatures, serialized, ack>>

DeviceRequest == \E r \in Requests : Respond(r)

\* A Failure (call() raises) or a message that is not a TxRequest.
DeviceOther ==
    /\ pc = "called"
    /\ Raise
    /\ UNCHANGED <<arg, pos, txes, res, signatures, serialized, ack, log>>

-----------------------------------------------------------------------------
Init ==
    /\ arg \in Arguments
    /\ pc = "prepare" /\ pos = 0 /\ txes = {}
    /\ res = NoRequest
    /\ signatures = [i \in Slots |-> None]
    /\ serialized = <<>>
    /\ ack = NoAck
    /\ log = <<>>

Host ==
    \/ PrepareNext \/ PrepareFails \/ CallSignTx
    \/ RejectSignature \/ Finish \/ RejectRequest
    \/ AckMeta \/ AckInput \/ AckOutput \/ AckExtraData

Device == DeviceRequest \/ DeviceOther

Next == Host \/ Device

Spec == Init /\ [][Next]_vars

-----------------------------------------------------------------------------
(* Properties *)

PieceKinds == {"none", "SignTx", "meta", "inputs", "outputs", "bin_outputs", "extra_data"}

\* Type invariant of sign_tx's local state.
TypeOK ==
    /\ arg \in Arguments
    /\ pc \in {"prepare", "called", "got", "done", "raised"}
    /\ pos \in 0..InputCount
    /\ txes \subseteq Hashes
    /\ log \in Seq([sig : Indices \cup {None}, part : BOOLEAN])
    /\ Len(log) <= MaxRequests
    /\ res \in Requests \cup {NoRequest}
    /\ signatures \in [Slots -> {None} \cup 1..MaxRequests]
    /\ serialized \in Seq(1..MaxRequests)
    /\ ack \in [of : Hashes \cup {Own}, kind : PieceKinds, at : Nat]

\* What sign_tx returns is complete, whatever the device did: every input has
\* a signature, and that signature is the one the device sent for this input.
SignedFor(i) ==
    /\ signatures[i] \in 1..Len(log)
    /\ log[signatures[i]].sig = i
CompleteOrRaise == pc = "done" => \A i \in Slots : SignedFor(i)

\* A device that sends two signatures for one input never gets a result.
NoSecondSignature ==
    pc = "done" =>
        \A j, k \in 1..Len(log) : log[j].sig # None /\ log[j].sig = log[k].sig => j = k

\* The serialised transaction is made of every part the device sent, each of
\* them once and in the order in which they came.
SerializedInOrder ==
    /\ \A j, k \in DOMAIN serialized : j < k => serialized[j] < serialized[k]
    /\ pc = "done" =>
         {k \in 1..Len(log) : log[k].part} = {serialized[j] : j \in DOMAIN serialized}

\* The device gets no piece but of the transaction being signed or of one
\* fetched for an input that needs it, and the piece exists: a request that
\* names anything else ends the conversation.
ServesOnlyItsTransactions ==
    pc = "called" /\ ack.kind # "SignTx" =>
        /\ \/ ack.of = Own
           \/ /\ ~arg.bip143
              /\ \E i \in 1..InputCount : arg.inputs[i] = [prev |-> ack.of, witness |-> FALSE]
        /\ ack.kind = "inputs" => ack.at < Size(ack.of).ins
        /\ ack.kind \in {"outputs", "bin_outputs"} => ack.at < Size(ack.of).outs

\* Nothing that can be fetched is left for later: once the device has been
\* contacted, the host holds every transaction whose amounts it must prove.
PreparedBeforeContact ==
    ack # NoAck /\ ~arg.bip143 =>
        \A i \in 1..InputCount : arg.inputs[i].witness \/ arg.inputs[i].prev \in txes

\* What a returned transaction is, whatever the device has sent.
ResultRight == CompleteOrRaise /\ NoSecondSignature /\ SerializedInOrder

\* What the device can get out of sign_tx(), whatever it asks for.
ServedRight == TypeOK /\ ServesOnlyItsTransactions /\ PreparedBeforeContact
=============================================================================
