--------------------------- MODULE EthereumSignTx ---------------------------
(***************************************************************************)
(* ProtocolMixin.ethereum_sign_tx(): a definition is preloaded, the first  *)
(* part of the calldata goes out with the request to sign, and then the    *)
(* device asks for the rest of the calldata, for definitions, or answers   *)
(* with a signature.  A caller may pass one catalog to several calls.      *)
(*                                                                         *)
(* The device sends what it likes.  Calldata is a number of bytes; bytes   *)
(* are told apart by their places.                                         *)
(***************************************************************************)
EXTENDS Erc7730Catalog

CONSTANTS
    Transactions, \* what ethereum_sign_tx may be called with, see TransactionSet
    InitialChunk, \* calldata that goes out with EthereumSignTx (1024)
    Requests,     \* bound: requests for definitions that the device may send
    Lengths,      \* bound: data_length that the device may ask for
    MaxCalls,     \* bound: calls of ethereum_sign_tx
    MaxSent       \* bound: messages of the host that the device answers

\* definition and data may be missing; catalog tells whether the caller passes
\* its catalog.  embedded are the calls that the calldata contains: the host
\* does not look at them.
TransactionSet ==
    [data : Nat \cup {None}, definition : Definitions \cup {Missing},
     catalog : BOOLEAN, embedded : SUBSET Lookups]

ASSUME EthereumAssumption ==
    /\ Transactions \subseteq TransactionSet
    /\ InitialChunk \in Nat \ {0}
    /\ Requests \subseteq RequestSet
    /\ Lengths \subseteq Nat
    /\ MaxCalls \in Nat /\ MaxSent \in Nat

VARIABLES
    tx,
    pc,       \* idle, waiting, got, done, raised
    stage,    \* preload, sign
    resp,     \* the device's last message
    left,     \* calldata not sent yet; None when data is None
    offset,   \* of the preload
    catalog,  \* the caller's
    own,      \* the catalog made for a definition that comes without one
    using,    \* erc7730_catalog: none, own, shared
    trail,    \* history: what was sent in this call
    calls     \* bounded by MaxCalls

vars == <<tx, pc, stage, resp, left, offset, catalog, own, using, trail, calls>>

\* signature_v and data_length are optional fields of the same message.
TxRequests == [kind : {"TxRequest"}, signature : BOOLEAN, length : Lengths \cup {None}]
DefinitionRequests == [kind : {"DefinitionRequest"}, request : Requests]
Acks == [kind : {"DefinitionAck"}, id : Ids, next : 0..(MaxChunk * MaxSent), complete : BOOLEAN]
Other == [kind |-> "Other"]
Messages == TxRequests \cup DefinitionRequests \cup Acks \cup {Other}

Catalog == IF using = "shared" THEN catalog ELSE own

Sent(k, c) == [kind |-> k, chunk |-> c]

-----------------------------------------------------------------------------
(* Before the device is contacted, and the first message *)

\* A chunk of the definition that is preloaded, from o.
PreloadChunk(d, o) == Chunk(d.id, o, Smaller(MaxChunk, Size[d.id] - o), Size[d.id])

\* Missing and empty data are not announced, and nothing is cut off of them.
Initial(t) == IF t.data = None THEN 0 ELSE Smaller(InitialChunk, t.data)
FirstChunk(t) == Chunk(None, 0, Initial(t), t.data)
Remaining(t) == IF t.data = None THEN None ELSE t.data - Initial(t)

Ready == pc \in {"idle", "done", "raised"} /\ calls < MaxCalls

Begin(t, c) ==
    /\ Ready
    /\ tx' = t /\ calls' = calls + 1
    /\ left' = Remaining(t)
    /\ offset' = 0 /\ resp' = Other
    /\ pc' = "waiting" /\ trail' = <<c>>

BeginPlain(t) ==
    /\ t.definition = Missing
    /\ Begin(t, Sent("sign", FirstChunk(t)))
    /\ stage' = "sign"
    /\ using' = IF t.catalog THEN "shared" ELSE "none"
    /\ own' = EmptyCatalog
    /\ UNCHANGED catalog

\* The definition is added to the caller's catalog for good, whatever comes.
BeginPreload(t) ==
    /\ t.definition # Missing
    /\ t.catalog => CanAdd(catalog, t.definition)
    /\ Begin(t, Sent("preload", PreloadChunk(t.definition, 0)))
    /\ stage' = "preload"
    /\ using' = IF t.catalog THEN "shared" ELSE "own"
    /\ catalog' = IF t.catalog THEN Add(catalog, t.definition) ELSE catalog
    /\ own' = IF t.catalog THEN EmptyCatalog ELSE Add(EmptyCatalog, t.definition)

BeginConflict(t) ==
    /\ Ready
    /\ t.definition # Missing /\ t.catalog
    /\ ~CanAdd(catalog, t.definition)
    /\ tx' = t /\ calls' = calls + 1
    /\ pc' = "raised"
    /\ trail' = <<>> /\ left' = t.data /\ resp' = Other
    /\ UNCHANGED <<stage, offset, catalog, own, using>>

-----------------------------------------------------------------------------
(* The conversation *)

Send(k, c) ==
    /\ pc' = "waiting"
    /\ trail' = Append(trail, Sent(k, c))
    /\ UNCHANGED <<tx, resp, catalog, own, using, calls>>

End(p) ==
    /\ pc' = p
    /\ UNCHANGED <<tx, stage, resp, left, offset, catalog, own, using, trail, calls>>

\* preload(): the next offset after the chunk that was sent.
Expected == offset + PreloadChunk(tx.definition, offset).length
Acknowledged ==
    /\ resp.kind = "DefinitionAck"
    /\ resp.id = tx.definition.id
    /\ resp.next = Expected
    /\ resp.complete = (Expected = Size[tx.definition.id])

\* Mutant: the device's word is taken for how far it has got.
PreloadNextTrusting ==
    /\ pc = "got" /\ stage = "preload"
    /\ resp.kind = "DefinitionAck"
    /\ offset' = resp.next
    /\ IF ~resp.complete
       THEN stage' = stage /\ Send("preload", PreloadChunk(tx.definition, resp.next))
       ELSE stage' = "sign" /\ Send("sign", FirstChunk(tx))
    /\ UNCHANGED left

PreloadNext ==
    /\ pc = "got" /\ stage = "preload" /\ Acknowledged
    /\ offset' = Expected
    /\ IF Expected < Size[tx.definition.id]
       THEN stage' = stage /\ Send("preload", PreloadChunk(tx.definition, Expected))
       ELSE stage' = "sign" /\ Send("sign", FirstChunk(tx))
    /\ UNCHANGED left

PreloadRaise == pc = "got" /\ stage = "preload" /\ ~Acknowledged /\ End("raised")

Signing == pc = "got" /\ stage = "sign"
Signature == resp.kind = "TxRequest" /\ resp.signature

Return == Signing /\ Signature /\ End("done")

Served == IF using = "none" THEN Refused ELSE Serve(Catalog, resp.request)

ServeDefinition ==
    /\ Signing /\ resp.kind = "DefinitionRequest"
    /\ Served # Refused
    /\ Send("definition", Served)
    /\ UNCHANGED <<stage, left, offset>>

RefuseDefinition ==
    /\ Signing /\ resp.kind = "DefinitionRequest"
    /\ Served = Refused
    /\ End("raised")

MoreData == resp.kind = "TxRequest" /\ ~resp.signature /\ resp.length # None

\* Mutants: the chunk is cut off of the end; data is not cut off.
SendDataFromEnd ==
    /\ Signing /\ MoreData /\ left # None
    /\ LET n == Smaller(resp.length, left)
       IN  /\ Send("data", Chunk(None, left - n, n, tx.data))
           /\ left' = left - n
    /\ UNCHANGED <<stage, offset>>
SendDataAgain ==
    /\ Signing /\ MoreData /\ left # None
    /\ Send("data", Chunk(None, tx.data - left, Smaller(resp.length, left), tx.data))
    /\ UNCHANGED <<stage, left, offset>>

\* A request for more than is left gets what is left, be it nothing.
SendData ==
    /\ Signing /\ MoreData /\ left # None
    /\ LET n == Smaller(resp.length, left)
       IN  /\ Send("data", Chunk(None, tx.data - left, n, tx.data))
           /\ left' = left - n
    /\ UNCHANGED <<stage, offset>>

\* TypeError when there is no data at all, RuntimeError for other messages.
Unexpected ==
    /\ Signing /\ ~Signature
    /\ resp.kind # "DefinitionRequest"
    /\ MoreData => left = None
    /\ End("raised")

Respond(r) ==
    /\ pc = "waiting"
    /\ resp' = r
    /\ pc' = "got"
    /\ UNCHANGED <<tx, stage, left, offset, catalog, own, using, trail, calls>>

Device == Len(trail) <= MaxSent /\ \E r \in Messages : Respond(r)

Init ==
    /\ tx \in Transactions
    /\ pc = "idle" /\ stage = "sign" /\ resp = Other
    /\ left = None /\ offset = 0
    /\ catalog = EmptyCatalog /\ own = EmptyCatalog /\ using = "none"
    /\ trail = <<>> /\ calls = 0

Host ==
    \/ \E t \in Transactions : BeginPlain(t) \/ BeginPreload(t) \/ BeginConflict(t)
    \/ PreloadNext \/ PreloadRaise
    \/ Return \/ ServeDefinition \/ RefuseDefinition \/ SendData \/ Unexpected

Next == Host \/ Device

Spec == Init /\ [][Next]_vars

-----------------------------------------------------------------------------
(* Properties *)

Chunks == [id : Ids \cup {None}, offset : Nat, length : Nat, total : Nat \cup {None}]

\* Type invariant.
TypeOK ==
    /\ tx \in TransactionSet
    /\ pc \in {"idle", "waiting", "got", "done", "raised"}
    /\ stage \in {"preload", "sign"} /\ using \in {"none", "own", "shared"}
    /\ resp \in Messages
    /\ left \in Nat \cup {None} /\ offset \in Nat
    /\ catalog \in Catalogs /\ own \in Catalogs
    /\ trail \in Seq([kind : {"preload", "sign", "definition", "data"}, chunk : Chunks])
    /\ calls \in 0..MaxCalls

\* The dictionaries of a catalog agree, over all the calls that add to it.
CatalogConsistent == Consistent(catalog) /\ Consistent(own)

\* A definition that the device found by a lookup is the one it gets by its
\* id when it restores it after an inner call, chunk by chunk.
ReplaySame ==
    \A q \in Requests :
        q.id = None /\ Find(catalog, q) # Missing =>
            Serve(catalog, [q EXCEPT !.id = Find(catalog, q).id]) = Serve(catalog, q)

\* Later additions never change what a request is answered with.
AnswersStable ==
    [][\A q \in Requests :
          Find(catalog, q) # Missing => Serve(catalog', q) = Serve(catalog, q)]_vars

Ending(p) == p.chunk.offset + p.chunk.length

\* The device is asked to sign only after it has had, and has acknowledged,
\* the whole definition, each byte once and in order.
PreloadedFirst ==
    \A k \in 1..Len(trail) :
        trail[k].kind = "sign" /\ tx.definition # Missing =>
            /\ k > 1
            /\ trail[1].chunk.offset = 0
            /\ \A j \in 1..(k - 1) :
                  /\ trail[j].kind = "preload" /\ trail[j].chunk.id = tx.definition.id
                  /\ Ending(trail[j]) = IF j = k - 1 THEN Size[tx.definition.id]
                                                     ELSE trail[j + 1].chunk.offset

Calldata == {k \in 1..Len(trail) : trail[k].kind \in {"sign", "data"}}

\* All calldata taken off so far has gone out in order: no byte twice, none
\* left out, whatever lengths the device asked for.
CalldataInOrder ==
    Calldata # {} /\ tx.data # None =>
        /\ left \in 0..tx.data
        /\ \A j, k \in Calldata : j < k => Ending(trail[j]) <= trail[k].chunk.offset
        /\ \A k \in Calldata : Ending(trail[k]) <= tx.data - left
        /\ \A b \in 0..(tx.data - left - 1) :
              \E k \in Calldata : trail[k].chunk.offset <= b /\ b < Ending(trail[k])

\* Every chunk of a definition is a piece of a registered envelope, of a size
\* that the device takes, and is never empty; only an embedded call without
\* definition is answered with nothing.
ServedChunks ==
    \A k \in 1..Len(trail) :
        trail[k].kind \in {"preload", "definition"} /\ trail[k].chunk # NoDefinition =>
            /\ Catalog.byId[trail[k].chunk.id] # Missing
            /\ trail[k].chunk.total = Size[trail[k].chunk.id]
            /\ trail[k].chunk.length \in 1..MaxChunk
            /\ Ending(trail[k]) <= trail[k].chunk.total

\* What a catalog answers, by every way of asking and over all calls.
CatalogRight == TypeOK /\ CatalogConsistent /\ ReplaySame /\ ServedChunks
=============================================================================
