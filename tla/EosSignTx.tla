------------------------------- MODULE EosSignTx -------------------------------
(* eos_sign_tx and eos_sign_tx_raw of client.py, with parse_action and        *)
(* parse_unknown of eos.py.  The first sends an action, or the next chunk of  *)
(* one, for as long as the device asks; the second sends all it was given     *)
(* whatever the device answers, and looks at the last answer only.            *)
EXTENDS Integers, Sequences, SequencesExt

CONSTANTS
    ChunkSize,       \* of an unknown action's data: 256 in the code
    MaxActions,      \* bound: the actions of a transaction
    MaxSize          \* bound: the bytes of an unknown action

\* An action of the JSON transaction: one with a parser of its own, whose data
\* may make that parser raise, or an unknown one with so many bytes of data.
Actions == [kind : {"known", "malformed"}, size : {0}] \cup [kind : {"unknown"}, size : 0..MaxSize]

\* An EosTxActionAck: a whole action, a chunk of an unknown one, or (in the raw
\* operation) an object of a class that is no EOS action.
Part(kind, size, len) == [kind |-> kind, size |-> size, len |-> len]

VARIABLES
    raw,             \* which of the two operations
    document,        \* json: Actions; raw: parts made by the caller
    announced,       \* num_actions of the first message
    pc,              \* start | waiting | got | done | raised
    next,            \* the actions popped so far
    chunks,          \* the parts of the current action not yet sent
    resp,            \* the last answer: Request | Signed | Failure
    trail,           \* the parts sent so far
    complete, have   \* the device: whole actions, bytes of the current one

arguments == <<raw, document, announced>>
device == <<complete, have>>
vars == <<arguments, pc, next, chunks, resp, trail, device>>

-----------------------------------------------------------------------------
(* The host *)

\* Mutant: what is left after the last full chunk is dropped.
FullChunksOnly(size) == [i \in 1..(size \div ChunkSize) |-> Part("unknown", size, ChunkSize)]

\* parse_unknown: no data, no chunk.
ChunksOf(size) ==
    [i \in 1..((size + ChunkSize - 1) \div ChunkSize) |->
        Part("unknown", size, IF i * ChunkSize <= size THEN ChunkSize ELSE size % ChunkSize)]

PartsOf(a) == IF a.kind = "unknown" THEN ChunksOf(a.size) ELSE <<Part("known", 0, 0)>>

CallSignTx ==
    /\ pc = "start"
    /\ pc' = "waiting"
    /\ UNCHANGED <<arguments, next, chunks, resp, trail, device>>

Raise ==
    /\ pc' = "raised"
    /\ UNCHANGED <<arguments, next, chunks, resp, trail, device>>

SendPart(p) ==
    /\ trail' = Append(trail, p)
    /\ pc' = "waiting"
    /\ UNCHANGED <<arguments, resp, device>>

Asked == ~raw /\ pc = "got" /\ resp = "Request"

\* tx.actions.pop(0) and parse_action; an action without parts is gone.
TakeAction ==
    /\ Asked /\ chunks = <<>> /\ next < Len(document)
    /\ document[next + 1].kind # "malformed"
    /\ chunks' = PartsOf(document[next + 1])
    /\ next' = next + 1
    /\ UNCHANGED <<arguments, pc, resp, trail, device>>

SendChunk ==
    /\ Asked /\ chunks # <<>>
    /\ chunks' = Tail(chunks)
    /\ SendPart(Head(chunks))
    /\ UNCHANGED next

\* A parser raises, or the device asks for more than there is (IndexError).
NoMoreActions ==
    /\ Asked /\ chunks = <<>>
    /\ next < Len(document) => document[next + 1].kind = "malformed"
    /\ Raise

\* eos_sign_tx_raw: any answer that is not a Failure lets the loop go on.
SendRaw ==
    /\ raw /\ pc = "got" /\ resp # "Failure" /\ next < Len(document)
    /\ document[next + 1].kind # "malformed"
    /\ next' = next + 1
    /\ SendPart(document[next + 1])
    /\ UNCHANGED chunks

RejectRaw ==
    /\ raw /\ pc = "got" /\ next < Len(document)
    /\ resp = "Failure" \/ document[next + 1].kind = "malformed"
    /\ Raise

\* Mutant: the raw operation, too, takes a signature as soon as it comes.
FinishEarly ==
    /\ pc = "got" /\ resp # "Request"
    /\ pc' = IF resp = "Signed" THEN "done" ELSE "raised"
    /\ UNCHANGED <<arguments, next, chunks, resp, trail, device>>

Finish ==
    /\ pc = "got"
    /\ IF raw THEN next = Len(document) ELSE resp # "Request"
    /\ pc' = IF resp = "Signed" THEN "done" ELSE "raised"
    /\ UNCHANGED <<arguments, next, chunks, resp, trail, device>>

Host ==
    \/ CallSignTx \/ TakeAction \/ SendChunk \/ NoMoreActions
    \/ SendRaw \/ RejectRaw \/ Finish

-----------------------------------------------------------------------------
(* The device: it counts whole actions, and an unknown one is whole when all *)
(* its bytes have come.                                                      *)

Answer(r, c, h) ==
    /\ resp' = r /\ complete' = c /\ have' = h
    /\ pc' = "got"
    /\ UNCHANGED <<arguments, next, chunks, trail>>

OnWhole == Answer(IF complete + 1 = announced THEN "Signed" ELSE "Request", complete + 1, 0)

Device ==
    /\ pc = "waiting"
    /\ IF trail = <<>> THEN Answer("Request", 0, 0)
       ELSE LET p == Last(trail)
            IN  IF complete = announced \/ (have > 0 /\ (p.kind = "known" \/ p.size # trail[Len(trail) - 1].size))
                   \/ have + p.len > p.size
                THEN Answer("Failure", announced, 0)
                ELSE IF have + p.len = p.size THEN OnWhole
                ELSE Answer("Request", complete, have + p.len)

UpTo(n, S) == UNION {[1..k -> S] : k \in 1..n}
Malformed == Part("malformed", 0, 0)

Init ==
    /\ \/ /\ raw = FALSE /\ document \in UpTo(MaxActions, Actions)
          /\ announced = Len(document)
       \/ /\ raw = TRUE /\ document \in UpTo(MaxActions, {Part("known", 0, 0), Malformed}
                                  \cup UNION {ToSet(ChunksOf(s)) : s \in 1..MaxSize})
          /\ announced \in 1..MaxActions
    /\ pc = "start" /\ next = 0 /\ chunks = <<>> /\ resp = "Request" /\ trail = <<>>
    /\ complete = 0 /\ have = 0

Next == Host \/ Device
Spec == Init /\ [][Next]_vars /\ WF_vars(Next)

-----------------------------------------------------------------------------
(* Properties *)

TypeOK ==
    /\ raw \in BOOLEAN /\ announced \in 1..MaxActions
    /\ pc \in {"start", "waiting", "got", "done", "raised"}
    /\ next \in 0..Len(document)
    /\ resp \in {"Request", "Signed", "Failure"}
    /\ complete \in 0..announced /\ have \in 0..MaxSize

\* What the device should get.
Whole == IF raw THEN document ELSE FlattenSeq([k \in DOMAIN document |-> PartsOf(document[k])])

\* Neither operation hands out a signature over less, or other, than the whole
\* transaction: not when the raw one sends on after the device has signed, and
\* not when an unknown action without data is left out.
SignedWhole ==
    pc = "done" =>
        /\ trail = Whole
        /\ complete = announced /\ have = 0
        /\ ~raw => \A k \in DOMAIN document : PartsOf(document[k]) # <<>>

\* A transaction that can be sent is signed, and any other one ends in an
\* exception: with a malformed action, with an unknown action without data
\* (the device waits for an action that never comes), with parts of the caller
\* that do not make up the actions announced.
BytesOf(s) == FoldSeq(LAMBDA p, n : n + p.len, 0, s)
MakesUp(s) ==    \* the parts are whole actions, as many as announced
    \E cuts \in SUBSET (0..Len(s)) :
        /\ {0, Len(s)} \subseteq cuts
        /\ \A i \in cuts \ {Len(s)} :
              LET j == CHOOSE x \in cuts : x > i /\ \A y \in cuts : y > i => x <= y
                  piece == SubSeq(s, i + 1, j)
              IN  \/ piece = <<Part("known", 0, 0)>>
                  \/ /\ \A k \in 1..Len(piece) : piece[k].kind = "unknown" /\ piece[k].size = piece[1].size
                     /\ BytesOf(piece) = piece[1].size
        /\ announced = Cardinality(cuts) - 1
Sendable ==
    IF raw THEN MakesUp(document)
    ELSE \A k \in DOMAIN document :
            document[k].kind = "known" \/ (document[k].kind = "unknown" /\ document[k].size > 0)
SigningSucceeds == <>(pc = IF Sendable THEN "done" ELSE "raised")
=============================================================================
