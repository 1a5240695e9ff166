--------------------------- MODULE Ethereum_proofs ---------------------------
(***************************************************************************)
(* Proofs about ERC-7730 catalogs and ethereum_sign_tx(), for any          *)
(* definitions, any calldata, any number of calls and every device; that   *)
(* what an honest device signs is all of the calldata; and about typed     *)
(* data, for any types and documents (DocumentAssumption): the host        *)
(* finds what stands at a path, a signature covers the whole document, and *)
(* what is signed is as its types have it.                                 *)
(***************************************************************************)
EXTENDS MCEthereumSignTx, TypedData, SequenceTheorems, WellFoundedInduction, TLAPS

-----------------------------------------------------------------------------
(* Catalogs *)

\* A definition is told from a missing one by its id.
LEMMA DefinitionFacts ==
    /\ Missing \notin Definitions
    /\ \A d \in Definitions : d.id \in Ids /\ Lookup(d) \in Lookups /\ d # Missing
    /\ \A d, e \in Definitions : d.id = e.id /\ Lookup(d) = Lookup(e) => d = e
    /\ None \notin Nat /\ None \notin Ids
<1>1. None \notin Nat /\ None \notin Ids
  BY CatalogAssumption DEF None
<1>2. \A d \in Definitions : d.id \in Ids /\ Lookup(d) \in Lookups
  BY DEF Definitions, Lookup, Lookups
<1>3. Missing.id = None
  BY DEF Missing
<1>4. \A d \in Definitions : d # Missing
  BY <1>1, <1>2, <1>3
<1>5. ASSUME NEW d \in Definitions, NEW e \in Definitions, d.id = e.id, Lookup(d) = Lookup(e)
      PROVE  d = e
  <2>1. d.scope = e.scope /\ d.call = e.call
    BY <1>5 DEF Lookup
  <2> QED
    BY <1>5, <2>1 DEF Definitions
<1> QED
  BY <1>1, <1>2, <1>4, <1>5

LEMMA EmptyConsistent == EmptyCatalog \in Catalogs /\ Consistent(EmptyCatalog)
<1>1. EmptyCatalog \in Catalogs
  BY DEF EmptyCatalog, Catalogs
<1>2. Consistent(EmptyCatalog)
  BY DEF EmptyCatalog, Consistent
<1> QED
  BY <1>1, <1>2

\* The two tests of add() are all that consistency needs.
LEMMA AddConsistent ==
    ASSUME NEW c \in Catalogs, NEW d \in Definitions, Consistent(c), CanAdd(c, d)
    PROVE  /\ Add(c, d) \in Catalogs /\ Consistent(Add(c, d))
           /\ Add(c, d).byId[d.id] = d
           /\ \A i \in Ids : c.byId[i] # Missing => Add(c, d).byId[i] = c.byId[i]
           /\ \A k \in Lookups : c.byLookup[k] # Missing => Add(c, d).byLookup[k] = c.byLookup[k]
<1> DEFINE a == Add(c, d)
<1>1. /\ c.byId \in [Ids -> Definitions \cup {Missing}]
      /\ c.byLookup \in [Lookups -> Definitions \cup {Missing}]
      /\ d.id \in Ids /\ Lookup(d) \in Lookups /\ d # Missing
  BY DefinitionFacts DEF Catalogs
<1>2. /\ a.byId = [c.byId EXCEPT ![d.id] = d]
      /\ a.byLookup = [c.byLookup EXCEPT ![Lookup(d)] = d]
  BY DEF Add
<1>3. a \in Catalogs
  BY <1>1 DEF Add, Catalogs
<1>4. \A i \in Ids : a.byId[i] = IF i = d.id THEN d ELSE c.byId[i]
  BY <1>1, <1>2
<1>5. \A k \in Lookups : a.byLookup[k] = IF k = Lookup(d) THEN d ELSE c.byLookup[k]
  BY <1>1, <1>2
<1>6. c.byId[d.id] # Missing => c.byId[d.id] = d
  <2> SUFFICES ASSUME c.byId[d.id] # Missing PROVE c.byId[d.id] = d
    OBVIOUS
  <2>1. c.byId[d.id] \in Definitions /\ c.byId[d.id].id = d.id
    BY <1>1 DEF Consistent
  <2>2. Lookup(c.byId[d.id]) = Lookup(d)
    BY DEF CanAdd
  <2> QED
    BY <2>1, <2>2, DefinitionFacts
<1>7. c.byLookup[Lookup(d)] # Missing => c.byLookup[Lookup(d)] = d
  <2> SUFFICES ASSUME c.byLookup[Lookup(d)] # Missing PROVE c.byLookup[Lookup(d)] = d
    OBVIOUS
  <2>1. c.byLookup[Lookup(d)] \in Definitions /\ Lookup(c.byLookup[Lookup(d)]) = Lookup(d)
    BY <1>1 DEF Consistent
  <2>2. c.byLookup[Lookup(d)].id = d.id
    BY DEF CanAdd
  <2> QED
    BY <2>1, <2>2, DefinitionFacts
<1>8. \A i \in Ids : c.byId[i] # Missing => a.byId[i] = c.byId[i]
  BY <1>4, <1>6
<1>9. \A k \in Lookups : c.byLookup[k] # Missing => a.byLookup[k] = c.byLookup[k]
  BY <1>5, <1>7
<1>10. ASSUME NEW i \in Ids, a.byId[i] # Missing
       PROVE  a.byId[i].id = i /\ a.byLookup[Lookup(a.byId[i])] = a.byId[i]
  <2>1. CASE i = d.id
    BY <1>1, <1>4, <1>5, <2>1
  <2>2. CASE i # d.id
    <3>1. a.byId[i] = c.byId[i] /\ c.byId[i] \in Definitions
      BY <1>1, <1>4, <1>10, <2>2
    <3>2. c.byId[i].id = i /\ c.byLookup[Lookup(c.byId[i])] = c.byId[i] /\ Lookup(c.byId[i]) \in Lookups
      BY <1>10, <3>1, DefinitionFacts DEF Consistent
    <3> QED
      BY <1>9, <1>10, <3>1, <3>2
  <2> QED
    BY <2>1, <2>2
<1>11. ASSUME NEW k \in Lookups, a.byLookup[k] # Missing
       PROVE  Lookup(a.byLookup[k]) = k /\ a.byId[a.byLookup[k].id] = a.byLookup[k]
  <2>1. CASE k = Lookup(d)
    BY <1>1, <1>4, <1>5, <2>1
  <2>2. CASE k # Lookup(d)
    <3>1. a.byLookup[k] = c.byLookup[k] /\ c.byLookup[k] \in Definitions
      BY <1>1, <1>5, <1>11, <2>2
    <3>2. Lookup(c.byLookup[k]) = k /\ c.byId[c.byLookup[k].id] = c.byLookup[k] /\ c.byLookup[k].id \in Ids
      BY <1>11, <3>1, DefinitionFacts DEF Consistent
    <3> QED
      BY <1>8, <1>11, <3>1, <3>2
  <2> QED
    BY <2>1, <2>2
<1>12. Consistent(a)
  BY <1>10, <1>11 DEF Consistent
<1>13. a.byId[d.id] = d
  BY <1>1, <1>4
<1> QED
  BY <1>3, <1>8, <1>9, <1>12, <1>13

\* A request that finds something goes on finding the same.
LEMMA AddKeepsAnswers ==
    ASSUME NEW c \in Catalogs, NEW d \in Definitions, Consistent(c), CanAdd(c, d),
           NEW q \in RequestSet, Find(c, q) # Missing
    PROVE  Serve(Add(c, d), q) = Serve(c, q)
<1>1. q.id # None => q.id \in Ids
  BY DEF RequestSet
<1>2. <<q.scope, q.call>> \in Lookups
  BY DEF RequestSet, Lookups
<1>3. Find(Add(c, d), q) = Find(c, q)
  BY <1>1, <1>2, AddConsistent DEF Find
<1> QED
  BY <1>3 DEF Serve

\* What a lookup finds is found by its id as well.
LEMMA FoundById ==
    ASSUME NEW c \in Catalogs, Consistent(c), NEW q \in RequestSet,
           q.id = None, Find(c, q) # Missing
    PROVE  Serve(c, [q EXCEPT !.id = Find(c, q).id]) = Serve(c, q)
<1> DEFINE d == Find(c, q)
           r == [q EXCEPT !.id = d.id]
<1>1. d = c.byLookup[<<q.scope, q.call>>] /\ <<q.scope, q.call>> \in Lookups
  BY DEF Find, RequestSet, Lookups
<1>2. d \in Definitions /\ c.byId[d.id] = d
  BY <1>1 DEF Catalogs, Consistent
<1>3. /\ r.id = d.id /\ r.scope = q.scope /\ r.depth = q.depth
      /\ r.offset = q.offset /\ r.length = q.length
  BY DEF RequestSet
<1>4. d.id # None
  BY <1>2, DefinitionFacts
<1>5. Find(c, r) = d
  BY <1>2, <1>3, <1>4 DEF Find
<1> HIDE DEF r
<1>6. Serve(c, r) = Serve(c, q)
  BY <1>3, <1>5 DEF Serve
<1> QED
  BY <1>6 DEF r

\* A chunk that is served belongs to a definition of the catalog.
LEMMA ServeRight ==
    ASSUME NEW c \in Catalogs, Consistent(c), NEW q \in RequestSet, Serve(c, q) # Refused
    PROVE  \/ Serve(c, q) = NoDefinition
           \/ /\ Serve(c, q) \in Chunks
              /\ c.byId[Serve(c, q).id] # Missing
              /\ Serve(c, q).total = Size[Serve(c, q).id]
              /\ Serve(c, q).length \in 1..MaxChunk
              /\ Serve(c, q).offset + Serve(c, q).length <= Serve(c, q).total
<1> DEFINE d == Find(c, q)
           s == Serve(c, q)
<1>1. CASE d = Missing
  BY <1>1 DEF Serve
<1>2. CASE d # Missing
  <2>1. d \in Definitions /\ c.byId[d.id] = d
    <3>1. CASE q.id # None
      <4>1. d = c.byId[q.id] /\ q.id \in Ids
        BY <3>1 DEF Find, RequestSet
      <4> QED
        BY <1>2, <4>1 DEF Catalogs, Consistent
    <3>2. CASE q.id = None
      <4>1. d = c.byLookup[<<q.scope, q.call>>] /\ <<q.scope, q.call>> \in Lookups
        BY <3>2 DEF Find, RequestSet, Lookups
      <4> QED
        BY <1>2, <4>1 DEF Catalogs, Consistent
    <3> QED
      BY <3>1, <3>2
  <2>2. /\ d.id \in Ids /\ Size[d.id] \in Nat \ {0} /\ MaxChunk \in Nat
        /\ q.offset \in Nat /\ q.length \in Nat
    BY <2>1, DefinitionFacts, CatalogAssumption DEF RequestSet
  <2>3. /\ q.length \in 1..MaxChunk /\ q.offset < Size[d.id]
        /\ s = Chunk(d.id, q.offset, Smaller(q.length, Size[d.id] - q.offset), Size[d.id])
    BY <1>2, <2>2 DEF Serve
  <2>4. /\ Smaller(q.length, Size[d.id] - q.offset) \in 1..MaxChunk
        /\ q.offset + Smaller(q.length, Size[d.id] - q.offset) <= Size[d.id]
    BY <2>2, <2>3 DEF Smaller
  <2>5. /\ s.id = d.id /\ s.offset = q.offset /\ s.total = Size[d.id]
        /\ s.length = Smaller(q.length, Size[d.id] - q.offset)
    BY <2>3 DEF Chunk
  <2>6. s \in Chunks
    BY <2>2, <2>3, <2>4 DEF Chunk, Chunks
  <2> QED
    BY <1>2, <2>1, <2>2, <2>3, <2>4, <2>5, <2>6
<1> QED
  BY <1>1, <1>2

-----------------------------------------------------------------------------
(* The call *)

\* While the device is spoken to, calldata has been sent in stage "sign" only,
\* and a definition of the call is in the catalog that is used.
Progress ==
    /\ tx.data = None => left = None
    /\ tx.definition # Missing /\ pc \in {"waiting", "got"} =>
          using # "none" /\ Catalog.byId[tx.definition.id] # Missing
    /\ pc \in {"waiting", "got"} /\ stage = "preload" => left = Remaining(tx)
    /\ pc \in {"waiting", "got"} /\ tx.data # None => left \in 0..tx.data
    /\ pc \in {"waiting", "got"} /\ stage = "sign" => Calldata # {}
    /\ using = "none" => own = EmptyCatalog

\* How far preload() has got.
PreloadSoFar ==
    stage = "preload" /\ pc \in {"waiting", "got"} =>
        /\ tx.definition # Missing
        /\ offset < Size[tx.definition.id]
        /\ Len(trail) > 0
        /\ trail[1].chunk.offset = 0
        /\ trail[Len(trail)] = Sent("preload", PreloadChunk(tx.definition, offset))
        /\ \A k \in 1..Len(trail) :
              /\ trail[k].kind = "preload" /\ trail[k].chunk.id = tx.definition.id
              /\ k < Len(trail) => Ending(trail[k]) = trail[k + 1].chunk.offset

IInv ==
    /\ TypeOK /\ CatalogConsistent /\ Progress /\ PreloadSoFar
    /\ PreloadedFirst /\ CalldataInOrder /\ ServedChunks

-----------------------------------------------------------------------------
LEMMA SmallerFacts ==
    \A m, n \in Nat : Smaller(m, n) \in Nat /\ Smaller(m, n) <= m /\ Smaller(m, n) <= n
BY DEF Smaller

LEMMA InitialFacts ==
    ASSUME NEW t \in TransactionSet
    PROVE  /\ FirstChunk(t) \in Chunks
           /\ FirstChunk(t).offset = 0 /\ FirstChunk(t).length = Initial(t)
           /\ t.data # None => Remaining(t) \in 0..t.data /\ Initial(t) = t.data - Remaining(t)
           /\ t.data = None => Remaining(t) = None
           /\ Remaining(t) \in Nat \cup {None}
<1>1. t.data \in Nat \cup {None} /\ InitialChunk \in Nat
  BY EthereumAssumption DEF TransactionSet
<1>2. CASE t.data = None
  BY <1>2 DEF Initial, Remaining, FirstChunk, Chunk, Chunks
<1>3. CASE t.data # None
  <2>1. t.data \in Nat /\ Initial(t) \in Nat /\ Initial(t) <= t.data
    BY <1>1, <1>3, SmallerFacts DEF Initial
  <2>2. Remaining(t) = t.data - Initial(t)
    BY <1>3 DEF Remaining
  <2>3. FirstChunk(t) \in Chunks /\ FirstChunk(t).offset = 0 /\ FirstChunk(t).length = Initial(t)
    BY <2>1 DEF FirstChunk, Chunk, Chunks
  <2> QED
    BY <1>3, <2>1, <2>2, <2>3
<1> QED
  BY <1>2, <1>3

LEMMA PreloadChunkFacts ==
    ASSUME NEW d \in Definitions, NEW o \in Nat, o < Size[d.id]
    PROVE  /\ PreloadChunk(d, o) \in Chunks
           /\ PreloadChunk(d, o).id = d.id /\ PreloadChunk(d, o).offset = o
           /\ PreloadChunk(d, o).length \in 1..MaxChunk
           /\ o + PreloadChunk(d, o).length <= Size[d.id]
           /\ PreloadChunk(d, o).total = Size[d.id]
<1>1. d.id \in Ids /\ Size[d.id] \in Nat \ {0} /\ MaxChunk \in Nat \ {0}
  BY DefinitionFacts, CatalogAssumption
<1>2. /\ Smaller(MaxChunk, Size[d.id] - o) \in 1..MaxChunk
      /\ o + Smaller(MaxChunk, Size[d.id] - o) <= Size[d.id]
  BY <1>1 DEF Smaller
<1>3. PreloadChunk(d, o) \in Chunks
  BY <1>1, <1>2 DEF PreloadChunk, Chunk, Chunks
<1> QED
  BY <1>2, <1>3 DEF PreloadChunk, Chunk

Pieces == [kind : {"preload", "sign", "definition", "data"}, chunk : Chunks]

\* The history after one more message.
LEMMA Appended ==
    ASSUME TypeOK, NEW k \in {"preload", "sign", "definition", "data"}, NEW c \in Chunks,
           trail' = Append(trail, Sent(k, c))
    PROVE  /\ trail' \in Seq(Pieces) /\ Len(trail) \in Nat /\ Len(trail') = Len(trail) + 1
           /\ trail'[Len(trail) + 1].kind = k /\ trail'[Len(trail) + 1].chunk = c
           /\ trail'[Len(trail) + 1] = Sent(k, c)
           /\ \A j \in 1..Len(trail) : trail'[j] = trail[j] /\ trail[j] \in Pieces
<1>1. trail \in Seq(Pieces) /\ Sent(k, c) \in Pieces
  BY DEF TypeOK, Pieces, Sent
<1> QED
  BY <1>1 DEF Sent

\* The first message of a call.
LEMMA Started ==
    ASSUME NEW k \in {"preload", "sign", "definition", "data"}, NEW c \in Chunks,
           trail' = <<Sent(k, c)>>
    PROVE  /\ trail' \in Seq(Pieces) /\ Len(trail') = 1
           /\ trail'[1].kind = k /\ trail'[1].chunk = c /\ trail'[1] = Sent(k, c)
<1>1. Sent(k, c) \in Pieces
  BY DEF Pieces, Sent
<1> QED
  BY <1>1 DEF Sent

LEMMA InitIInv == Init => IInv
<1> SUFFICES ASSUME Init PROVE IInv
  OBVIOUS
<1>1. tx \in TransactionSet /\ MaxCalls \in Nat
  BY EthereumAssumption DEF Init
<1>2. TypeOK
  BY <1>1, EmptyConsistent DEF Init, TypeOK, Messages, Other
<1>3. CatalogConsistent
  BY EmptyConsistent DEF Init, CatalogConsistent
<1>4. Progress /\ PreloadSoFar
  BY DEF Init, Progress, PreloadSoFar
<1>5. PreloadedFirst /\ CalldataInOrder /\ ServedChunks
  BY DEF Init, PreloadedFirst, CalldataInOrder, Calldata, ServedChunks
<1> QED
  BY <1>2, <1>3, <1>4, <1>5 DEF IInv

-----------------------------------------------------------------------------
\* The beginning of a call with nothing to preload.
LEMMA BeginPlainStep == \A t \in Transactions : IInv /\ BeginPlain(t) => IInv'
<1> SUFFICES ASSUME NEW t \in Transactions, IInv, BeginPlain(t) PROVE IInv'
  OBVIOUS
<1>1. t \in TransactionSet /\ tx' = t /\ t.definition = Missing
  BY EthereumAssumption DEF BeginPlain, Begin
<1>2. trail' = <<Sent("sign", FirstChunk(t))>>
  BY DEF BeginPlain, Begin
<1>3. /\ trail' \in Seq(Pieces) /\ Len(trail') = 1
      /\ trail'[1].kind = "sign" /\ trail'[1].chunk = FirstChunk(t)
  BY <1>1, <1>2, InitialFacts, Started
<1>4. left' = Remaining(t)
  BY DEF BeginPlain, Begin
<1>5. TypeOK'
  <2>1. calls' \in 0..MaxCalls
    BY EthereumAssumption DEF BeginPlain, Begin, Ready, IInv, TypeOK
  <2>2. trail' \in Seq([kind : {"preload", "sign", "definition", "data"}, chunk : Chunks])
    BY <1>3 DEF Pieces
  <2> QED
    BY <1>1, <1>4, <2>1, <2>2, InitialFacts, EmptyConsistent
       DEF BeginPlain, Begin, IInv, TypeOK, Messages
<1>6. CatalogConsistent'
  BY EmptyConsistent DEF BeginPlain, IInv, CatalogConsistent
<1>7. Calldata' = {1}
  BY <1>3 DEF Calldata
<1>8. Progress'
  BY <1>1, <1>4, <1>7, InitialFacts DEF BeginPlain, Begin, Progress
<1>9. PreloadSoFar'
  BY DEF BeginPlain, PreloadSoFar
<1>10. PreloadedFirst' /\ ServedChunks'
  BY <1>1, <1>3 DEF PreloadedFirst, ServedChunks
<1>11. CalldataInOrder'
  <2> SUFFICES ASSUME t.data # None
               PROVE  /\ left' \in 0..t.data
                      /\ Ending(trail'[1]) <= t.data - left'
                      /\ \A b \in 0..(t.data - left' - 1) :
                            trail'[1].chunk.offset <= b /\ b < Ending(trail'[1])
    BY <1>1, <1>7 DEF CalldataInOrder, Ending
  <2>1. trail'[1].chunk.offset = 0 /\ Ending(trail'[1]) = 0 + (t.data - left') /\ left' \in 0..t.data
    BY <1>1, <1>3, <1>4, InitialFacts DEF Ending
  <2>2. t.data \in Nat
    BY <1>1 DEF TransactionSet
  <2> QED
    BY <2>1, <2>2
<1> QED
  BY <1>5, <1>6, <1>8, <1>9, <1>10, <1>11 DEF IInv

\* The beginning of a call with a definition: it is in the catalog first.
LEMMA BeginPreloadStep == \A t \in Transactions : IInv /\ BeginPreload(t) => IInv'
<1> SUFFICES ASSUME NEW t \in Transactions, IInv, BeginPreload(t) PROVE IInv'
  OBVIOUS
<1> DEFINE d == t.definition
<1>1. t \in TransactionSet /\ tx' = t /\ d \in Definitions
  BY EthereumAssumption DEF BeginPreload, Begin, TransactionSet
<1>2. d.id \in Ids /\ 0 < Size[d.id] /\ 0 \in Nat /\ d # Missing
  <2>1. d.id \in Ids /\ d # Missing
    BY <1>1, DefinitionFacts
  <2>2. Size[d.id] \in Nat \ {0}
    BY <2>1, CatalogAssumption
  <2> QED
    BY <2>1, <2>2
<1>3. trail' = <<Sent("preload", PreloadChunk(d, 0))>>
  BY DEF BeginPreload, Begin
<1>4. /\ PreloadChunk(d, 0) \in Chunks
      /\ PreloadChunk(d, 0).id = d.id /\ PreloadChunk(d, 0).offset = 0
      /\ PreloadChunk(d, 0).length \in 1..MaxChunk
      /\ 0 + PreloadChunk(d, 0).length <= Size[d.id]
      /\ PreloadChunk(d, 0).total = Size[d.id]
  BY <1>1, <1>2, PreloadChunkFacts
<1>5. /\ trail' \in Seq(Pieces) /\ Len(trail') = 1
      /\ trail'[1].kind = "preload" /\ trail'[1].chunk = PreloadChunk(d, 0)
      /\ trail'[1] = Sent("preload", PreloadChunk(d, 0))
  BY <1>3, <1>4, Started
<1>6. left' = Remaining(t) /\ offset' = 0 /\ stage' = "preload" /\ pc' = "waiting"
  BY DEF BeginPreload, Begin
<1>7. /\ catalog' \in Catalogs /\ own' \in Catalogs /\ CatalogConsistent'
      /\ using' \in {"own", "shared"} /\ Catalog'.byId[d.id] = d
  <2>1. CASE t.catalog
    <3>1. CanAdd(catalog, d) /\ catalog' = Add(catalog, d) /\ own' = EmptyCatalog /\ using' = "shared"
      BY <2>1 DEF BeginPreload
    <3>2. catalog' \in Catalogs /\ Consistent(catalog') /\ catalog'.byId[d.id] = d
      BY <1>1, <3>1, AddConsistent DEF IInv, TypeOK, CatalogConsistent
    <3> QED
      BY <3>1, <3>2, EmptyConsistent DEF CatalogConsistent, Catalog
  <2>2. CASE ~t.catalog
    <3>1. catalog' = catalog /\ own' = Add(EmptyCatalog, d) /\ using' = "own"
      BY <2>2 DEF BeginPreload
    <3>2. CanAdd(EmptyCatalog, d)
      BY <1>1, DefinitionFacts DEF CanAdd, EmptyCatalog
    <3>3. own' \in Catalogs /\ Consistent(own') /\ own'.byId[d.id] = d
      BY <1>1, <3>1, <3>2, EmptyConsistent, AddConsistent
    <3> QED
      BY <3>1, <3>3 DEF IInv, TypeOK, CatalogConsistent, Catalog
  <2> QED
    BY <2>1, <2>2
<1>8. TypeOK'
  <2>1. calls' \in 0..MaxCalls
    BY EthereumAssumption DEF BeginPreload, Begin, Ready, IInv, TypeOK
  <2>2. trail' \in Seq([kind : {"preload", "sign", "definition", "data"}, chunk : Chunks])
    BY <1>5 DEF Pieces
  <2>3. resp' \in Messages
    BY DEF BeginPreload, Begin, Messages
  <2>4. left' \in Nat \cup {None}
    BY <1>1, <1>6, InitialFacts
  <2> QED
    BY <1>1, <1>6, <1>7, <2>1, <2>2, <2>3, <2>4 DEF TypeOK
<1>9. Calldata' = {}
  BY <1>5 DEF Calldata
<1>10. Progress'
  BY <1>1, <1>2, <1>6, <1>7, InitialFacts DEF Progress
<1>11. PreloadSoFar'
  BY <1>1, <1>2, <1>4, <1>5, <1>6 DEF PreloadSoFar
<1>12. PreloadedFirst' /\ CalldataInOrder'
  BY <1>5, <1>9 DEF PreloadedFirst, CalldataInOrder
<1>13. ServedChunks'
  BY <1>2, <1>4, <1>5, <1>7 DEF ServedChunks, Ending
<1> QED
  BY <1>7, <1>8, <1>10, <1>11, <1>12, <1>13 DEF IInv

LEMMA BeginConflictStep == \A t \in Transactions : IInv /\ BeginConflict(t) => IInv'
<1> SUFFICES ASSUME NEW t \in Transactions, IInv, BeginConflict(t) PROVE IInv'
  OBVIOUS
<1>1. t \in TransactionSet /\ tx' = t /\ t.data \in Nat \cup {None}
  BY EthereumAssumption DEF BeginConflict, TransactionSet
<1>2. trail' = <<>> /\ Len(trail') = 0 /\ pc' = "raised" /\ left' = t.data
  BY DEF BeginConflict
<1>3. TypeOK'
  <2>1. calls' \in 0..MaxCalls
    BY EthereumAssumption DEF BeginConflict, Ready, IInv, TypeOK
  <2> QED
    BY <1>1, <1>2, <2>1 DEF BeginConflict, IInv, TypeOK, Messages
<1>4. CatalogConsistent' /\ Progress'
  BY <1>1, <1>2 DEF BeginConflict, IInv, CatalogConsistent, Progress
<1>5. PreloadSoFar' /\ PreloadedFirst' /\ CalldataInOrder' /\ ServedChunks'
  BY <1>2 DEF PreloadSoFar, PreloadedFirst, CalldataInOrder, Calldata, ServedChunks
<1> QED
  BY <1>3, <1>4, <1>5 DEF IInv

\* Steps that send nothing and do not begin a call.
LEMMA QuietStep ==
    ASSUME IInv,
           UNCHANGED <<tx, stage, left, offset, catalog, own, using, trail, calls>>,
           resp' \in Messages, pc' \in {"idle", "waiting", "got", "done", "raised"},
           pc' \in {"waiting", "got"} => pc \in {"waiting", "got"}
    PROVE  IInv'
<1>1. Calldata' = Calldata /\ Catalog' = Catalog
  BY DEF Calldata, Catalog
<1>2. TypeOK' /\ CatalogConsistent'
  BY DEF IInv, TypeOK, CatalogConsistent
<1>3. Progress'
  BY <1>1 DEF IInv, Progress
<1>4. PreloadSoFar'
  BY DEF IInv, PreloadSoFar, Ending
<1>5. PreloadedFirst'
  BY DEF IInv, PreloadedFirst, Ending
<1>6. CalldataInOrder'
  BY <1>1 DEF IInv, CalldataInOrder, Ending
<1>7. ServedChunks'
  BY <1>1 DEF IInv, ServedChunks, Ending
<1> QED
  BY <1>2, <1>3, <1>4, <1>5, <1>6, <1>7 DEF IInv

LEMMA EndStep == \A p \in {"done", "raised"} : IInv /\ End(p) => IInv'
<1> SUFFICES ASSUME NEW p \in {"done", "raised"}, IInv, End(p) PROVE IInv'
  OBVIOUS
<1>1. resp' \in Messages
  BY DEF End, IInv, TypeOK
<1> QED
  BY <1>1, QuietStep DEF End

\* What sending leaves alone, and the pieces that were sent before.
LEMMA Sending ==
    ASSUME IInv, pc = "got",
           NEW k \in {"preload", "sign", "definition", "data"}, NEW c \in Chunks, Send(k, c),
           NEW n \in Nat \cup {None}, left' = n, offset' \in Nat,
           stage' \in {"preload", "sign"}
    PROVE  /\ TypeOK' /\ CatalogConsistent' /\ Catalog' = Catalog
           /\ Len(trail) \in Nat /\ Len(trail') = Len(trail) + 1
           /\ trail'[Len(trail) + 1].kind = k /\ trail'[Len(trail) + 1].chunk = c
           /\ trail'[Len(trail) + 1] = Sent(k, c)
           /\ \A j \in 1..Len(trail) : trail'[j] = trail[j] /\ trail[j] \in Pieces
<1>1. trail' = Append(trail, Sent(k, c))
  BY DEF Send
<1>2. /\ trail' \in Seq(Pieces) /\ Len(trail) \in Nat /\ Len(trail') = Len(trail) + 1
      /\ trail'[Len(trail) + 1].kind = k /\ trail'[Len(trail) + 1].chunk = c
      /\ trail'[Len(trail) + 1] = Sent(k, c)
      /\ \A j \in 1..Len(trail) : trail'[j] = trail[j] /\ trail[j] \in Pieces
  BY <1>1, Appended DEF IInv
<1>3. trail' \in Seq([kind : {"preload", "sign", "definition", "data"}, chunk : Chunks])
  BY <1>2 DEF Pieces
<1>4. TypeOK'
  BY <1>3 DEF Send, IInv, TypeOK
<1>5. CatalogConsistent' /\ Catalog' = Catalog
  BY DEF Send, IInv, CatalogConsistent, Catalog
<1> QED
  BY <1>2, <1>4, <1>5

LEMMA PreloadNextStep == IInv /\ PreloadNext => IInv'
<1> SUFFICES ASSUME IInv, PreloadNext PROVE IInv'
  OBVIOUS
<1> DEFINE d == tx.definition
           n == Len(trail)
<1>1. pc = "got" /\ stage = "preload" /\ offset' = Expected /\ left' = left
  BY DEF PreloadNext
<1>2. /\ d \in Definitions /\ tx \in TransactionSet /\ offset \in Nat /\ offset < Size[d.id]
      /\ left \in Nat \cup {None} /\ d # Missing
  BY <1>1 DEF IInv, TypeOK, PreloadSoFar, TransactionSet
<1>3. /\ PreloadChunk(d, offset) \in Chunks
      /\ PreloadChunk(d, offset).id = d.id /\ PreloadChunk(d, offset).offset = offset
      /\ PreloadChunk(d, offset).length \in 1..MaxChunk
      /\ offset + PreloadChunk(d, offset).length <= Size[d.id]
  BY <1>2, PreloadChunkFacts
<1>4. MaxChunk \in Nat /\ d.id \in Ids /\ Size[d.id] \in Nat
  <2>1. d.id \in Ids
    BY <1>2, DefinitionFacts
  <2> QED
    BY <2>1, CatalogAssumption
<1>5. Expected \in Nat /\ Expected <= Size[d.id] /\ Expected = offset + PreloadChunk(d, offset).length
  BY <1>2, <1>3, <1>4 DEF Expected
<1>6. /\ n > 0 /\ trail[1].chunk.offset = 0
      /\ trail[n] = Sent("preload", PreloadChunk(d, offset))
      /\ \A k \in 1..n : /\ trail[k].kind = "preload" /\ trail[k].chunk.id = d.id
                         /\ k < n => Ending(trail[k]) = trail[k + 1].chunk.offset
  BY <1>1 DEF IInv, PreloadSoFar
<1>7. Ending(trail[n]) = Expected
  BY <1>3, <1>5, <1>6 DEF Sent, Ending
<1>8. tx' = tx /\ using' = using
  BY DEF PreloadNext, Send
<1>9. using # "none" /\ Catalog.byId[d.id] # Missing
  BY <1>1, <1>2 DEF IInv, Progress
<1>10. CASE Expected < Size[d.id]
  <2>1. Send("preload", PreloadChunk(d, Expected)) /\ stage' = "preload" /\ pc' = "waiting"
    BY <1>1, <1>10 DEF PreloadNext, Send
  <2>2. /\ PreloadChunk(d, Expected) \in Chunks
        /\ PreloadChunk(d, Expected).id = d.id /\ PreloadChunk(d, Expected).offset = Expected
        /\ PreloadChunk(d, Expected).length \in 1..MaxChunk
        /\ Expected + PreloadChunk(d, Expected).length <= Size[d.id]
        /\ PreloadChunk(d, Expected).total = Size[d.id]
    BY <1>2, <1>5, <1>10, PreloadChunkFacts
  <2>3. /\ TypeOK' /\ CatalogConsistent' /\ Catalog' = Catalog
        /\ n \in Nat /\ Len(trail') = n + 1
        /\ trail'[n + 1].kind = "preload" /\ trail'[n + 1].chunk = PreloadChunk(d, Expected)
        /\ trail'[n + 1] = Sent("preload", PreloadChunk(d, Expected))
        /\ \A j \in 1..n : trail'[j] = trail[j] /\ trail[j] \in Pieces
    BY <1>1, <1>2, <1>5, <2>1, <2>2, Sending
  <2>4. Calldata' = {}
    BY <1>6, <2>3 DEF Calldata
  <2>5. Progress'
    BY <1>1, <1>8, <1>9, <2>1, <2>3 DEF IInv, Progress, Send
  <2>6. PreloadSoFar'
    <3>1. \A k \in 1..Len(trail)' :
             /\ trail'[k].kind = "preload" /\ trail'[k].chunk.id = d.id
             /\ k < Len(trail)' => Ending(trail'[k]) = trail'[k + 1].chunk.offset
      <4> TAKE k \in 1..Len(trail)'
      <4>1. CASE k < n
        BY <1>6, <2>3, <4>1 DEF Ending
      <4>2. CASE k = n
        <5>1. k \in 1..n /\ trail'[k] = trail[k] /\ trail'[k + 1].chunk.offset = Expected
          BY <1>6, <2>2, <2>3, <4>2
        <5> QED
          BY <1>6, <1>7, <2>2, <2>3, <4>2, <5>1 DEF Ending
      <4>3. CASE k = n + 1
        BY <2>2, <2>3, <4>3
      <4>4. k < n \/ k = n \/ k = n + 1
        BY <2>3
      <4> QED
        BY <4>1, <4>2, <4>3, <4>4
    <3>2. trail'[1].chunk.offset = 0
      BY <1>6, <2>3
    <3>3. Len(trail') > 0 /\ trail'[Len(trail')] = Sent("preload", PreloadChunk(d, Expected))
      BY <2>3
    <3>4. tx'.definition = d /\ d # Missing /\ offset' = Expected /\ Expected < Size[d.id]
      BY <1>1, <1>2, <1>8, <1>10
    <3> QED
      BY <3>1, <3>2, <3>3, <3>4 DEF PreloadSoFar
  <2>7. PreloadedFirst' /\ CalldataInOrder'
    BY <1>6, <2>3, <2>4 DEF PreloadedFirst, CalldataInOrder
  <2>8. ServedChunks'
    <3> SUFFICES ASSUME NEW k \in 1..Len(trail)',
                        trail'[k].kind \in {"preload", "definition"}, trail'[k].chunk # NoDefinition
                 PROVE  /\ Catalog.byId[trail'[k].chunk.id] # Missing
                        /\ trail'[k].chunk.total = Size[trail'[k].chunk.id]
                        /\ trail'[k].chunk.length \in 1..MaxChunk
                        /\ Ending(trail'[k]) <= trail'[k].chunk.total
      BY <2>3 DEF ServedChunks, Ending
    <3>1. CASE k \in 1..n
      BY <2>3, <3>1 DEF IInv, ServedChunks, Ending
    <3>2. CASE k = n + 1
      BY <1>9, <2>2, <2>3, <3>2 DEF Ending
    <3> QED
      BY <2>3, <3>1, <3>2
  <2> QED
    BY <2>3, <2>5, <2>6, <2>7, <2>8 DEF IInv
<1>11. CASE ~(Expected < Size[d.id])
  <2>1. Send("sign", FirstChunk(tx)) /\ stage' = "sign" /\ pc' = "waiting"
    BY <1>1, <1>11 DEF PreloadNext, Send
  <2>2. Expected = Size[d.id]
    BY <1>4, <1>5, <1>11
  <2>3. FirstChunk(tx) \in Chunks /\ FirstChunk(tx).offset = 0 /\ FirstChunk(tx).length = Initial(tx)
    BY <1>2, InitialFacts
  <2>4. /\ TypeOK' /\ CatalogConsistent' /\ Catalog' = Catalog
        /\ n \in Nat /\ Len(trail') = n + 1
        /\ trail'[n + 1].kind = "sign" /\ trail'[n + 1].chunk = FirstChunk(tx)
        /\ \A j \in 1..n : trail'[j] = trail[j] /\ trail[j] \in Pieces
    BY <1>1, <1>2, <1>5, <2>1, <2>3, Sending
  <2>5. Calldata' = {n + 1}
    BY <1>6, <2>4 DEF Calldata
  <2>6. left' = Remaining(tx)
    BY <1>1 DEF IInv, Progress
  <2>7. Progress'
    BY <1>2, <1>8, <1>9, <2>1, <2>4, <2>5, <2>6, InitialFacts DEF IInv, Progress, Send
  <2>8. PreloadSoFar'
    BY <2>1 DEF PreloadSoFar
  <2>9. PreloadedFirst'
    <3>1. \A j \in 1..n :
             /\ trail'[j].kind = "preload" /\ trail'[j].chunk.id = d.id
             /\ Ending(trail'[j]) = IF j = n THEN Size[d.id] ELSE trail'[j + 1].chunk.offset
      BY <1>6, <1>7, <2>2, <2>4 DEF Ending
    <3>2. trail'[1].chunk.offset = 0
      BY <1>6, <2>4
    <3>3. \A k \in 1..Len(trail)' : trail'[k].kind = "sign" => k = n + 1
      BY <2>4, <3>1
    <3> QED
      BY <1>6, <1>8, <2>4, <3>1, <3>2, <3>3 DEF PreloadedFirst, Ending
  <2>10. CalldataInOrder'
    <3> SUFFICES ASSUME tx.data # None
                 PROVE  /\ left' \in 0..tx.data
                        /\ Ending(trail'[n + 1]) <= tx.data - left'
                        /\ \A b \in 0..(tx.data - left' - 1) :
                              trail'[n + 1].chunk.offset <= b /\ b < Ending(trail'[n + 1])
      BY <1>8, <2>4, <2>5 DEF CalldataInOrder, Ending
    <3>1. /\ trail'[n + 1].chunk.offset = 0 /\ Ending(trail'[n + 1]) = 0 + (tx.data - left')
          /\ left' \in 0..tx.data
      BY <1>2, <2>3, <2>4, <2>6, InitialFacts DEF Ending
    <3>2. tx.data \in Nat
      BY <1>2 DEF TransactionSet
    <3> QED
      BY <3>1, <3>2
  <2>11. ServedChunks'
    BY <2>4 DEF IInv, ServedChunks, Ending
  <2> QED
    BY <2>4, <2>7, <2>8, <2>9, <2>10, <2>11 DEF IInv
<1> QED
  BY <1>10, <1>11

\* In stage "sign" all pieces of the definition have gone out already.
LEMMA SignedPiece ==
    ASSUME IInv, pc = "got", stage = "sign",
           NEW k \in {"definition", "data"}, NEW c \in Chunks, Send(k, c),
           UNCHANGED <<stage, offset>>, left' \in Nat \cup {None}
    PROVE  PreloadedFirst' /\ PreloadSoFar'
<1> DEFINE n == Len(trail)
<1>1. left' \in Nat \cup {None} /\ offset' \in Nat /\ stage' \in {"preload", "sign"}
  BY DEF IInv, TypeOK
<1>2. /\ n \in Nat /\ Len(trail') = n + 1 /\ trail'[n + 1].kind = k
      /\ \A j \in 1..n : trail'[j] = trail[j]
  BY <1>1, Sending
<1>3. tx' = tx
  BY DEF Send
<1>4. PreloadedFirst'
  <2> SUFFICES ASSUME NEW m \in 1..Len(trail)', trail'[m].kind = "sign", tx.definition # Missing
               PROVE  /\ m > 1
                      /\ trail'[1].chunk.offset = 0
                      /\ \A j \in 1..(m - 1) :
                            /\ trail'[j].kind = "preload" /\ trail'[j].chunk.id = tx.definition.id
                            /\ Ending(trail'[j]) = IF j = m - 1 THEN Size[tx.definition.id]
                                                                ELSE trail'[j + 1].chunk.offset
    BY <1>2, <1>3 DEF PreloadedFirst, Ending
  <2>1. m \in 1..n
    BY <1>2
  <2>2. /\ m > 1
        /\ trail[1].chunk.offset = 0
        /\ \A j \in 1..(m - 1) :
              /\ trail[j].kind = "preload" /\ trail[j].chunk.id = tx.definition.id
              /\ Ending(trail[j]) = IF j = m - 1 THEN Size[tx.definition.id]
                                                 ELSE trail[j + 1].chunk.offset
    BY <1>2, <2>1 DEF IInv, PreloadedFirst
  <2>3. /\ m > 1
        /\ trail'[1].chunk.offset = 0
    BY <1>2, <2>1, <2>2
  <2>4. ASSUME NEW j \in 1..(m - 1)
        PROVE  /\ trail'[j].kind = "preload" /\ trail'[j].chunk.id = tx.definition.id
               /\ Ending(trail'[j]) = IF j = m - 1 THEN Size[tx.definition.id]
                                                   ELSE trail'[j + 1].chunk.offset
    <3>1. j \in 1..n /\ trail'[j] = trail[j]
      BY <1>2, <2>1, <2>4
    <3>2. j # m - 1 => j + 1 \in 1..n /\ trail'[j + 1] = trail[j + 1]
      BY <1>2, <2>1, <2>4
    <3> QED
      BY <2>2, <2>4, <3>1, <3>2
  <2> QED
    BY <2>3, <2>4
<1>5. PreloadSoFar'
  BY DEF PreloadSoFar
<1> QED
  BY <1>4, <1>5

LEMMA ServeDefinitionStep == IInv /\ ServeDefinition => IInv'
<1> SUFFICES ASSUME IInv, ServeDefinition PROVE IInv'
  OBVIOUS
<1> DEFINE n == Len(trail)
<1>1. /\ pc = "got" /\ stage = "sign" /\ resp.kind = "DefinitionRequest" /\ Served # Refused
      /\ Send("definition", Served) /\ UNCHANGED <<stage, left, offset>>
  BY DEF ServeDefinition, Signing
<1>2. resp.request \in RequestSet
  BY <1>1, EthereumAssumption
     DEF IInv, TypeOK, Messages, TxRequests, DefinitionRequests, Acks, Other
<1>3. Served = Serve(Catalog, resp.request) /\ Catalog \in Catalogs /\ Consistent(Catalog)
  BY <1>1 DEF Served, Catalog, IInv, TypeOK, CatalogConsistent
<1>4. \/ Served = NoDefinition
      \/ /\ Served \in Chunks
         /\ Catalog.byId[Served.id] # Missing
         /\ Served.total = Size[Served.id]
         /\ Served.length \in 1..MaxChunk
         /\ Served.offset + Served.length <= Served.total
  BY <1>1, <1>2, <1>3, ServeRight
<1>5. Served \in Chunks
  BY <1>4 DEF NoDefinition, Chunk, Chunks
<1>6. left' \in Nat \cup {None} /\ offset' \in Nat /\ stage' \in {"preload", "sign"} /\ left' = left
  BY <1>1 DEF IInv, TypeOK
<1>7. /\ TypeOK' /\ CatalogConsistent' /\ Catalog' = Catalog
      /\ n \in Nat /\ Len(trail') = n + 1
      /\ trail'[n + 1].kind = "definition" /\ trail'[n + 1].chunk = Served
      /\ \A j \in 1..n : trail'[j] = trail[j] /\ trail[j] \in Pieces
  BY <1>1, <1>5, <1>6, Sending
<1>8. PreloadedFirst' /\ PreloadSoFar'
  BY <1>1, <1>5, <1>6, SignedPiece
<1>9. Calldata' = Calldata
  BY <1>7 DEF Calldata
<1>10. tx' = tx /\ using' = using /\ own' = own /\ pc' = "waiting"
  BY <1>1 DEF Send
<1>11. Progress'
  BY <1>1, <1>7, <1>9, <1>10 DEF IInv, Progress
<1>12. CalldataInOrder'
  <2>1. \A k \in Calldata : trail'[k] = trail[k]
    BY <1>7 DEF Calldata
  <2> QED
    BY <1>1, <1>9, <1>10, <2>1 DEF IInv, CalldataInOrder, Ending
<1>13. ServedChunks'
  <2> SUFFICES ASSUME NEW k \in 1..Len(trail)',
                      trail'[k].kind \in {"preload", "definition"}, trail'[k].chunk # NoDefinition
               PROVE  /\ Catalog.byId[trail'[k].chunk.id] # Missing
                      /\ trail'[k].chunk.total = Size[trail'[k].chunk.id]
                      /\ trail'[k].chunk.length \in 1..MaxChunk
                      /\ Ending(trail'[k]) <= trail'[k].chunk.total
    BY <1>7 DEF ServedChunks, Ending
  <2>1. CASE k \in 1..n
    BY <1>7, <2>1 DEF IInv, ServedChunks, Ending
  <2>2. CASE k = n + 1
    BY <1>4, <1>7, <2>2 DEF Ending
  <2> QED
    BY <1>7, <2>1, <2>2
<1> QED
  BY <1>7, <1>8, <1>11, <1>12, <1>13 DEF IInv

LEMMA SendDataStep == IInv /\ SendData => IInv'
<1> SUFFICES ASSUME IInv, SendData PROVE IInv'
  OBVIOUS
<1> DEFINE n == Len(trail)
           m == Smaller(resp.length, left)
           c == Chunk(None, tx.data - left, m, tx.data)
<1>1. /\ pc = "got" /\ stage = "sign" /\ MoreData /\ left # None
      /\ Send("data", c) /\ left' = left - m /\ UNCHANGED <<stage, offset>>
  BY DEF SendData, Signing
<1>2. resp.length \in Nat
  <2>1. resp \in Messages /\ resp.kind = "TxRequest" /\ resp.length # None
    BY <1>1 DEF MoreData, IInv, TypeOK
  <2>2. resp \in TxRequests
    BY <2>1 DEF Messages, DefinitionRequests, Acks, Other
  <2>3. resp.length \in Lengths
    BY <2>1, <2>2 DEF TxRequests
  <2> QED
    BY <2>3, EthereumAssumption
<1>3. tx.data \in Nat /\ tx.data # None /\ left \in 0..tx.data /\ Calldata # {}
  BY <1>1 DEF IInv, TypeOK, Progress, TransactionSet
<1>4. m \in Nat /\ m <= left
  <2>1. left \in Nat
    BY <1>3
  <2> QED
    BY <1>2, <2>1, SmallerFacts
<1>5. c \in Chunks /\ c.offset = tx.data - left /\ c.length = m
  BY <1>3, <1>4 DEF Chunk, Chunks
<1> HIDE DEF c, m
<1>6. left' \in Nat \cup {None} /\ offset' \in Nat /\ stage' \in {"preload", "sign"} /\ left' \in 0..tx.data
  BY <1>1, <1>3, <1>4 DEF IInv, TypeOK
<1>7. /\ TypeOK' /\ CatalogConsistent' /\ Catalog' = Catalog
      /\ n \in Nat /\ Len(trail') = n + 1
      /\ trail'[n + 1].kind = "data" /\ trail'[n + 1].chunk = c
      /\ \A j \in 1..n : trail'[j] = trail[j] /\ trail[j] \in Pieces
  BY <1>1, <1>5, <1>6, Sending
<1>8. PreloadedFirst' /\ PreloadSoFar'
  BY <1>1, <1>5, <1>6, SignedPiece
<1>9. Calldata' = Calldata \cup {n + 1} /\ Calldata \subseteq 1..n
  BY <1>7 DEF Calldata
<1>10. tx' = tx /\ using' = using /\ own' = own /\ pc' = "waiting"
  BY <1>1 DEF Send
<1>11. Progress'
  BY <1>1, <1>3, <1>6, <1>7, <1>9, <1>10 DEF IInv, Progress
<1>12. CalldataInOrder'
  <2>1. \A k \in Calldata : trail'[k] = trail[k] /\ Ending(trail'[k]) = Ending(trail[k])
    BY <1>7, <1>9 DEF Ending
  <2>2. trail'[n + 1].chunk.offset = tx.data - left /\ Ending(trail'[n + 1]) = tx.data - left'
    BY <1>1, <1>3, <1>4, <1>5, <1>7 DEF Ending
  <2>3. \A k \in Calldata : Ending(trail[k]) <= tx.data - left
    BY <1>3 DEF IInv, CalldataInOrder
  <2>4. \A k \in Calldata : Ending(trail[k]) \in Int
    BY <1>7, <1>9 DEF Ending, Pieces, Chunks
  <2>5. \A j, k \in Calldata' : j < k => Ending(trail'[j]) <= trail'[k].chunk.offset
    <3> SUFFICES ASSUME NEW j \in Calldata', NEW k \in Calldata', j < k
                 PROVE  Ending(trail'[j]) <= trail'[k].chunk.offset
      OBVIOUS
    <3>1. j \in Calldata
      BY <1>7, <1>9
    <3>2. CASE k \in Calldata
      BY <1>3, <2>1, <3>1, <3>2 DEF IInv, CalldataInOrder
    <3>3. CASE k = n + 1
      BY <2>1, <2>2, <2>3, <3>1, <3>3
    <3> QED
      BY <1>9, <3>2, <3>3
  <2>6. \A k \in Calldata' : Ending(trail'[k]) <= tx.data - left'
    BY <1>1, <1>3, <1>4, <1>9, <2>1, <2>2, <2>3, <2>4
  <2>7. ASSUME NEW b \in 0..(tx.data - left' - 1)
        PROVE  \E k \in Calldata' : trail'[k].chunk.offset <= b /\ b < Ending(trail'[k])
    <3>1. CASE b < tx.data - left
      <4>1. b \in 0..(tx.data - left - 1)
        BY <1>3, <3>1
      <4>2. PICK k \in Calldata : trail[k].chunk.offset <= b /\ b < Ending(trail[k])
        BY <1>3, <4>1 DEF IInv, CalldataInOrder
      <4> QED
        BY <1>9, <2>1, <4>2
    <3>2. CASE b >= tx.data - left
      <4>1. trail'[n + 1].chunk.offset <= b /\ b < Ending(trail'[n + 1])
        BY <1>3, <1>6, <2>2, <3>2
      <4> QED
        BY <1>9, <4>1
    <3> QED
      BY <1>3, <3>1, <3>2
  <2> QED
    BY <1>6, <1>10, <2>5, <2>6, <2>7 DEF CalldataInOrder, Ending
<1>13. ServedChunks'
  BY <1>7 DEF IInv, ServedChunks, Ending
<1> QED
  BY <1>7, <1>8, <1>11, <1>12, <1>13 DEF IInv

-----------------------------------------------------------------------------
LEMMA NextIInv == IInv /\ [Next]_vars => IInv'
<1> SUFFICES ASSUME IInv, [Next]_vars PROVE IInv'
  OBVIOUS
<1>1. ASSUME NEW t \in Transactions, BeginPlain(t) \/ BeginPreload(t) \/ BeginConflict(t)
      PROVE  IInv'
  BY <1>1, BeginPlainStep, BeginPreloadStep, BeginConflictStep
<1>2. CASE PreloadNext
  BY <1>2, PreloadNextStep
<1>3. CASE PreloadRaise
  BY <1>3, EndStep DEF PreloadRaise
<1>4. CASE Return
  BY <1>4, EndStep DEF Return
<1>5. CASE ServeDefinition
  BY <1>5, ServeDefinitionStep
<1>6. CASE RefuseDefinition
  BY <1>6, EndStep DEF RefuseDefinition
<1>7. CASE SendData
  BY <1>7, SendDataStep
<1>8. CASE Unexpected
  BY <1>8, EndStep DEF Unexpected
<1>9. CASE Device
  <2>1. PICK r \in Messages : Respond(r)
    BY <1>9 DEF Device
  <2> QED
    BY <2>1, QuietStep DEF Respond
<1>10. CASE UNCHANGED vars
  <2>1. resp' \in Messages /\ pc' \in {"idle", "waiting", "got", "done", "raised"}
    BY <1>10 DEF vars, IInv, TypeOK
  <2> QED
    BY <1>10, <2>1, QuietStep DEF vars
<1> QED
  BY <1>1, <1>2, <1>3, <1>4, <1>5, <1>6, <1>7, <1>8, <1>9, <1>10 DEF Next, Host

LEMMA Inductive == Spec => []IInv
<1> QED
  BY InitIInv, NextIInv, PTL DEF Spec

\* Types are kept: no offset or length ever leaves its range.
THEOREM TypeCorrect == Spec => []TypeOK
<1>1. IInv => TypeOK
  BY DEF IInv
<1> QED
  BY <1>1, Inductive, PTL

\* A catalog that several calls add to stays consistent, failed calls included.
THEOREM ConsistentCatalogs == Spec => []CatalogConsistent
<1>1. IInv => CatalogConsistent
  BY DEF IInv
<1> QED
  BY <1>1, Inductive, PTL

\* Lookup and id lead to the same definition.
THEOREM Replayed == Spec => []ReplaySame
<1>1. IInv => ReplaySame
  <2> SUFFICES ASSUME IInv, NEW q \in Requests, q.id = None, Find(catalog, q) # Missing
               PROVE  Serve(catalog, [q EXCEPT !.id = Find(catalog, q).id]) = Serve(catalog, q)
    BY DEF ReplaySame
  <2>1. catalog \in Catalogs /\ Consistent(catalog) /\ q \in RequestSet
    BY EthereumAssumption DEF IInv, TypeOK, CatalogConsistent
  <2> QED
    BY <2>1, FoundById
<1> QED
  BY <1>1, Inductive, PTL

\* The answer to a request that was once met never changes.
THEOREM Stable == Spec => AnswersStable
<1>1. IInv /\ [Next]_vars =>
        \A q \in Requests : Find(catalog, q) # Missing => Serve(catalog', q) = Serve(catalog, q)
  <2> SUFFICES ASSUME IInv, [Next]_vars, NEW q \in Requests, Find(catalog, q) # Missing
               PROVE  Serve(catalog', q) = Serve(catalog, q)
    OBVIOUS
  <2>1. catalog \in Catalogs /\ Consistent(catalog) /\ q \in RequestSet
    BY EthereumAssumption DEF IInv, TypeOK, CatalogConsistent
  <2>2. ASSUME NEW t \in Transactions, BeginPreload(t), t.catalog
        PROVE  Serve(catalog', q) = Serve(catalog, q)
    <3>1. t.definition \in Definitions /\ CanAdd(catalog, t.definition)
          /\ catalog' = Add(catalog, t.definition)
      BY <2>2, EthereumAssumption DEF BeginPreload, TransactionSet
    <3> QED
      BY <2>1, <3>1, AddKeepsAnswers
  <2>3. \/ \E t \in Transactions : BeginPreload(t) /\ t.catalog
        \/ catalog' = catalog
    BY DEF Next, Host, Device, vars, BeginPlain, BeginPreload, BeginConflict, PreloadNext, PreloadRaise,
           Return, ServeDefinition, RefuseDefinition, SendData, Unexpected, Respond, Send, End
  <2> QED
    BY <2>2, <2>3
<1> QED
  BY <1>1, Inductive, PTL DEF Spec, AnswersStable

\* No signature is asked for before the definition has arrived as a whole.
THEOREM Preloaded == Spec => []PreloadedFirst
<1>1. IInv => PreloadedFirst
  BY DEF IInv
<1> QED
  BY <1>1, Inductive, PTL

\* Calldata goes out in order, without gap or overlap.
THEOREM CalldataOrder == Spec => []CalldataInOrder
<1>1. IInv => CalldataInOrder
  BY DEF IInv
<1> QED
  BY <1>1, Inductive, PTL

\* Definitions go out in good chunks of what is registered.
THEOREM ChunksServed == Spec => []ServedChunks
<1>1. IInv => ServedChunks
  BY DEF IInv
<1> QED
  BY <1>1, Inductive, PTL

\* A catalog answers alike by every way of asking, with good chunks only.
THEOREM CatalogCorrect == Spec => []CatalogRight
<1>1. TypeOK /\ CatalogConsistent /\ ReplaySame /\ ServedChunks => CatalogRight
  BY DEF CatalogRight
<1> QED
  BY <1>1, TypeCorrect, ConsistentCatalogs, Replayed, ChunksServed, PTL

-----------------------------------------------------------------------------
(* What the honest device has received *)

\* Induction on the natural numbers, for a property given as a set of them.
LEMMA LeastNumber ==
    ASSUME NEW T, T \subseteq Nat, T # {}
    PROVE  \E m \in T : \A y \in T : m <= y
<1> DEFINE Less == OpToRel(<, Nat)
<1>1. IsWellFoundedOn(Less, Nat)
  BY NatLessThanWellFounded, Zenon
<1>2. \A x, y \in Nat : <<y, x>> \in Less <=> y < x
  BY DEF OpToRel
<1> HIDE DEF Less
<1>3. PICK m \in T : \A y \in T : ~ (<<y, m>> \in Less)
  BY <1>1, WFMin, Zenon
<1>4. \A y \in T : ~(y < m)
  BY <1>2, <1>3
<1> QED
  BY <1>3, <1>4

LEMMA SetInduction ==
    ASSUME NEW P, 0 \in P, \A n \in Nat : n \in P => n + 1 \in P
    PROVE  Nat \subseteq P
<1> DEFINE T == {n \in Nat : n \notin P}
<1> SUFFICES ASSUME T # {} PROVE FALSE
  OBVIOUS
<1>1. PICK m \in T : \A y \in T : m <= y
  <2>1. T \subseteq Nat
    OBVIOUS
  <2> HIDE DEF T
  <2> QED
    BY <2>1, LeastNumber
<1>2. m # 0 /\ m - 1 \in Nat /\ m - 1 \notin T
  BY <1>1
<1> QED
  BY <1>1, <1>2

\* The sums that Total goes through.
Sums(w) ==
    LET upto[k \in 0..Len(w)] == IF k = 0 THEN 0 ELSE upto[k - 1] + w[k]
    IN  upto

LEMMA SumsExist ==
    ASSUME NEW w, Len(w) \in Nat
    PROVE  /\ Total(w) = Sums(w)[Len(w)] /\ Sums(w)[0] = 0
           /\ \A k \in 1..Len(w) : Sums(w)[k] = Sums(w)[k - 1] + w[k]
<1> DEFINE Upto(n) == \E f : f = [k \in 0..n |-> IF k = 0 THEN 0 ELSE f[k - 1] + w[k]]
           P == {n \in Nat : Upto(n)}
<1>1. 0 \in P
  <2> DEFINE f == [k \in 0..0 |-> 0]
  <2>1. f = [k \in 0..0 |-> IF k = 0 THEN 0 ELSE f[k - 1] + w[k]]
    OBVIOUS
  <2>2. Upto(0)
    BY <2>1
  <2> HIDE DEF Upto
  <2> QED
    BY <2>2
<1>2. ASSUME NEW n \in Nat, n \in P PROVE n + 1 \in P
  <2>1. PICK f : f = [k \in 0..n |-> IF k = 0 THEN 0 ELSE f[k - 1] + w[k]]
    BY <1>2
  <2> DEFINE g == [k \in 0..n + 1 |-> IF k <= n THEN f[k] ELSE f[k - 1] + w[k]]
  <2>2. ASSUME NEW k \in 0..n + 1 PROVE g[k] = IF k = 0 THEN 0 ELSE g[k - 1] + w[k]
    <3>1. CASE k <= n
      <4>1. k \in 0..n /\ g[k] = f[k]
        BY <3>1
      <4>2. f[k] = IF k = 0 THEN 0 ELSE f[k - 1] + w[k]
        BY <2>1, <4>1
      <4>3. k # 0 => g[k - 1] = f[k - 1]
        BY <3>1
      <4> QED
        BY <4>1, <4>2, <4>3
    <3>2. CASE k = n + 1
      <4>1. k # 0 /\ g[k - 1] = f[k - 1]
        BY <3>2
      <4> QED
        BY <3>2, <4>1
    <3> QED
      BY <3>1, <3>2
  <2>3. Upto(n + 1)
    <3> HIDE DEF g
    <3>1. g = [k \in 0..n + 1 |-> g[k]]
      BY DEF g
    <3>2. g = [k \in 0..n + 1 |-> IF k = 0 THEN 0 ELSE g[k - 1] + w[k]]
      BY <3>1, <2>2
    <3> QED
      BY <3>2
  <2> HIDE DEF Upto
  <2> QED
    BY <2>3
<1>3. Upto(Len(w))
  <2>1. Nat \subseteq P
    <3> HIDE DEF P
    <3> QED
      BY <1>1, <1>2, SetInduction
  <2> QED
    BY <2>1
<1>4. Sums(w) = [k \in 0..Len(w) |-> IF k = 0 THEN 0 ELSE Sums(w)[k - 1] + w[k]]
  BY <1>3, Zenon DEF Sums
<1>5. Total(w) = Sums(w)[Len(w)]
  BY DEF Total, Sums
<1> HIDE DEF Upto, P
<1>6. \A k \in 0..Len(w) : Sums(w)[k] = IF k = 0 THEN 0 ELSE Sums(w)[k - 1] + w[k]
  BY <1>4
<1> QED
  BY <1>5, <1>6

\* One more number is added to the total.
LEMMA TotalAppend ==
    ASSUME NEW w, NEW v, Len(w) \in Nat, Len(v) = Len(w) + 1,
           \A k \in 1..Len(w) : v[k] = w[k]
    PROVE  Total(v) = Total(w) + v[Len(v)]
<1> DEFINE P == {k \in Nat : k <= Len(w) => Sums(v)[k] = Sums(w)[k]}
<1>1. Len(v) \in Nat
  OBVIOUS
<1>2. 0 \in P
  BY <1>1, SumsExist
<1>3. ASSUME NEW k \in Nat, k \in P PROVE k + 1 \in P
  <2>1. CASE k + 1 <= Len(w)
    <3>1. k + 1 \in 1..Len(w) /\ k + 1 \in 1..Len(v) /\ (k + 1) - 1 = k /\ v[k + 1] = w[k + 1]
      BY <2>1
    <3>2. Sums(v)[k] = Sums(w)[k]
      BY <1>3, <2>1
    <3>3. Sums(v)[k + 1] = Sums(v)[k] + v[k + 1] /\ Sums(w)[k + 1] = Sums(w)[k] + w[k + 1]
      BY <3>1, <1>1, SumsExist
    <3> QED
      BY <3>1, <3>2, <3>3
  <2>2. CASE ~(k + 1 <= Len(w))
    BY <2>2
  <2> QED
    BY <2>1, <2>2
<1>4. Nat \subseteq P
  <2> HIDE DEF P
  <2> QED
    BY <1>2, <1>3, SetInduction
<1>5. Sums(v)[Len(w)] = Sums(w)[Len(w)]
  BY <1>4
<1>6. Len(v) \in 1..Len(v) /\ Len(v) - 1 = Len(w)
  BY <1>1
<1> QED
  BY <1>1, <1>5, <1>6, SumsExist

\* The device receives one more message: calldata adds to what it has, other
\* messages do not.
IsHistory(s) == \E S : s \in Seq(S)
Calldatum(p) == IF Data(p) THEN p.chunk.length ELSE 0

LEMMA OneMoreReceived ==
    ASSUME IsHistory(trail), NEW p, trail' = Append(trail, p)
    PROVE  /\ IsHistory(trail)'
           /\ Received(Data)' = Received(Data) + Calldatum(p)
<1> DEFINE w == [k \in DOMAIN trail |-> IF Data(trail[k]) THEN trail[k].chunk.length ELSE 0]
           v == [k \in DOMAIN trail' |-> IF Data(trail'[k]) THEN trail'[k].chunk.length ELSE 0]
<1>1. PICK S : trail \in Seq(S)
  BY DEF IsHistory
<1>2. /\ trail \in Seq(S \cup {p}) /\ Len(trail) \in Nat /\ DOMAIN trail = 1..Len(trail)
      /\ trail' \in Seq(S \cup {p}) /\ Len(trail') = Len(trail) + 1 /\ DOMAIN trail' = 1..Len(trail')
      /\ trail'[Len(trail')] = p
      /\ \A k \in 1..Len(trail) : trail'[k] = trail[k]
  <2>1. trail \in Seq(S \cup {p})
    BY <1>1
  <2> QED
    BY <2>1
<1>3. /\ Len(w) = Len(trail) /\ Len(v) = Len(trail) + 1
      /\ \A k \in 1..Len(trail) : v[k] = w[k]
      /\ v[Len(v)] = Calldatum(p)
  BY <1>2 DEF Calldatum
<1>4. Total(v) = Total(w) + Calldatum(p)
  <2> HIDE DEF w, v
  <2>1. Total(v) = Total(w) + v[Len(v)]
    BY <1>2, <1>3, TotalAppend
  <2> QED
    BY <2>1, <1>3
<1>5. Received(Data) = Total(w) /\ Received(Data)' = Total(v)
  BY DEF Received, Data
<1>6. IsHistory(trail)'
  BY <1>2 DEF IsHistory
<1> HIDE DEF w, v
<1> QED
  BY <1>4, <1>5, <1>6

\* The first message of a call is no calldata.
LEMMA FirstReceived ==
    ASSUME NEW p, trail' = <<p>>, ~Data(p)
    PROVE  IsHistory(trail)' /\ Received(Data)' = 0
<1> DEFINE v == [k \in DOMAIN trail' |-> IF Data(trail'[k]) THEN trail'[k].chunk.length ELSE 0]
<1>1. trail' \in Seq({p}) /\ DOMAIN trail' = 1..1 /\ trail'[1] = p
  OBVIOUS
<1>2. Len(v) = 1 /\ v[1] = 0
  BY <1>1
<1>3. Received(Data)' = Total(v)
  BY DEF Received, Data
<1> HIDE DEF v
<1>4. Total(v) = 0
  <2>1. Sums(v)[1] = Sums(v)[1 - 1] + v[1] /\ Sums(v)[0] = 0 /\ Total(v) = Sums(v)[1]
    BY <1>2, SumsExist
  <2> QED
    BY <1>2, <2>1
<1> QED
  BY <1>1, <1>3, <1>4 DEF IsHistory

\* While an honest device is spoken to, it has received what has been cut off
\* of the calldata, and it signs when there is no more.
HonestInv ==
    /\ pc \in {"waiting", "got"} =>
          /\ tx \in TransactionSet /\ IsHistory(trail)
          /\ IF tx.data = None THEN left = None /\ Received(Data) = 0
             ELSE left \in 0..PerPass /\ Received(Data) = PerPass - left
    /\ pc = "got" /\ stage = "sign" /\ resp.kind = "TxRequest" =>
          IF resp.signature THEN left \in {None, 0} ELSE resp.length \in Nat
    /\ SignedWhole

LEMMA HonestBegins ==
    ASSUME NEW t \in Transactions, NEW k \in {"preload", "sign"}, NEW c, Begin(t, Sent(k, c))
    PROVE  HonestInv'
<1>1. /\ tx' = t /\ t \in TransactionSet /\ left' = Remaining(t) /\ pc' = "waiting"
      /\ trail' = <<Sent(k, c)>>
  BY EthereumAssumption DEF Begin
<1>2. IsHistory(trail)' /\ Received(Data)' = 0
  BY <1>1, FirstReceived DEF Data, Sent
<1>3. IF t.data = None THEN Remaining(t) = None
      ELSE Remaining(t) = t.data - Initial(t) /\ t.data - Initial(t) \in Nat
  BY <1>1, InitialFacts DEF Remaining, TransactionSet
<1>4. PerPass' = IF t.data = None THEN 0 ELSE t.data - Initial(t)
  BY <1>1 DEF PerPass
<1> QED
  BY <1>1, <1>2, <1>3, <1>4 DEF HonestInv, SignedWhole

LEMMA HonestSends ==
    ASSUME HonestInv, pc = "got", NEW k \in {"preload", "sign", "definition"}, NEW c,
           Send(k, c), UNCHANGED left
    PROVE  HonestInv'
<1>1. /\ UNCHANGED <<tx, left>> /\ pc' = "waiting" /\ trail' = Append(trail, Sent(k, c))
  BY DEF Send
<1>2. IsHistory(trail)' /\ Received(Data)' = Received(Data) + 0
  <2>1. IsHistory(trail) /\ Calldatum(Sent(k, c)) = 0
    BY DEF HonestInv, Data, Sent, Calldatum
  <2> QED
    BY <1>1, <2>1, OneMoreReceived
<1>3. PerPass' = PerPass /\ (tx.data # None => PerPass \in Int)
  BY <1>1, InitialFacts DEF PerPass, Remaining, HonestInv, TransactionSet
<1> QED
  BY <1>1, <1>2, <1>3 DEF HonestInv, SignedWhole

LEMMA HonestSendsData == HonestInv /\ SendData => HonestInv'
<1> SUFFICES ASSUME HonestInv, SendData PROVE HonestInv'
  OBVIOUS
<1> DEFINE n == Smaller(resp.length, left)
           p == Sent("data", Chunk(None, tx.data - left, n, tx.data))
<1>1. /\ pc = "got" /\ stage = "sign" /\ resp.kind = "TxRequest" /\ ~resp.signature /\ left # None
      /\ UNCHANGED tx /\ pc' = "waiting" /\ trail' = Append(trail, p) /\ left' = left - n
  BY DEF SendData, Signing, MoreData, Send
<1>2. tx.data # None /\ left \in 0..PerPass /\ Received(Data) = PerPass - left /\ resp.length \in Nat
      /\ IsHistory(trail) /\ tx \in TransactionSet
  BY <1>1 DEF HonestInv
<1>3. PerPass \in Nat
  BY <1>2, InitialFacts DEF PerPass, Remaining
<1>4. n \in 0..left
  BY <1>2, <1>3, SmallerFacts DEF Smaller
<1>5. Calldatum(p) = n
  BY DEF Calldatum, Data, Sent, Chunk
<1> HIDE DEF n, p
<1>6. IsHistory(trail)' /\ Received(Data)' = Received(Data) + n
  BY <1>1, <1>2, <1>5, OneMoreReceived
<1>7. PerPass' = PerPass
  BY <1>1 DEF PerPass
<1>8. left' \in 0..PerPass /\ Received(Data)' = PerPass - left'
  BY <1>1, <1>2, <1>3, <1>4, <1>6
<1> QED
  BY <1>1, <1>2, <1>6, <1>7, <1>8 DEF HonestInv, SignedWhole

LEMMA HonestAnswers == HonestInv /\ FirmwareAnswer => HonestInv'
<1> SUFFICES ASSUME HonestInv, pc = "waiting", NEW r \in Answers, Respond(r) PROVE HonestInv'
  BY DEF FirmwareAnswer
<1>1. pc' = "got" /\ resp' = r /\ UNCHANGED <<tx, stage, left, trail>>
  BY DEF Respond
<1>2. tx \in TransactionSet /\ IsHistory(trail)
      /\ IF tx.data = None THEN left = None /\ Received(Data) = 0
         ELSE left \in 0..PerPass /\ Received(Data) = PerPass - left
  BY DEF HonestInv
<1>3. PerPass \in Nat /\ PerPass <= Wanted /\ Wanted \in Nat
  <2>1. PerPass \in Nat
    BY <1>2, InitialFacts DEF PerPass, Remaining
  <2>2. (Passes - 1) * PerPass \in Nat /\ Passes * PerPass = (Passes - 1) * PerPass + PerPass
    <3> DEFINE n == PerPass
    <3>1. n \in Nat /\ Passes \in Nat \ {0}
      BY <2>1, PassesAssumption
    <3> HIDE DEF n
    <3>2. (Passes - 1) * n \in Nat /\ Passes * n = (Passes - 1) * n + n
      <4>1. Passes - 1 \in Nat
        BY <3>1
      <4> QED
        BY <3>1, <4>1
    <3> QED
      BY <3>2 DEF n
  <2> QED
    BY <2>1, <2>2 DEF Wanted
<1>4. ASSUME stage = "sign", r.kind = "TxRequest"
      PROVE  IF r.signature THEN left \in {None, 0} ELSE r.length \in Nat
  <2>1. \/ r \in AskData
        \/ r = SignatureMessage /\ AskData = {}
    <3>1. r # Other /\ r \notin AskInner /\ r \notin AskOuter
      BY <1>4 DEF Other, AskInner, AskOuter, Ask
    <3> QED
      BY <1>4, <3>1 DEF Answers
  <2>2. CASE r \in AskData
    <3>1. /\ Received(Data) < Wanted /\ r.signature = FALSE
          /\ r.length = Smaller(InitialChunk, PerPass - (Received(Data) % PerPass))
      BY <2>2 DEF AskData
    <3>2. tx.data # None /\ Received(Data) \in Nat /\ PerPass > 0
      <4>1. tx.data # None
        BY <1>2, <3>1, PassesAssumption DEF Wanted, PerPass
      <4>2. PerPass = 0 => Wanted = 0
        BY PassesAssumption DEF Wanted
      <4> QED
        BY <4>1, <4>2, <1>2, <1>3, <3>1
    <3>3. PerPass - (Received(Data) % PerPass) \in Nat
      <4> DEFINE m == Received(Data)
                 q == PerPass
      <4>1. m \in Nat /\ q \in Nat \ {0}
        BY <3>2, <1>3
      <4> HIDE DEF m, q
      <4>2. m % q \in 0..q - 1
        BY <4>1
      <4> QED
        BY <4>1, <4>2 DEF m, q
    <3> QED
      BY <3>1, <3>3, SmallerFacts, EthereumAssumption
  <2>3. CASE r = SignatureMessage /\ AskData = {}
    <3>1. r.signature = TRUE
      BY <2>3 DEF SignatureMessage
    <3>2. ~(Received(Data) < Wanted)
      BY <2>3 DEF AskData
    <3>3. left \in {None, 0}
      BY <3>2, <1>2, <1>3
    <3> QED
      BY <3>1, <3>3
  <2> QED
    BY <2>1, <2>2, <2>3
<1>5. Received(Data)' = Received(Data) /\ PerPass' = PerPass /\ IsHistory(trail)'
  BY <1>1, <1>2 DEF Received, Data, PerPass, IsHistory
<1> QED
  BY <1>1, <1>2, <1>4, <1>5 DEF HonestInv, SignedWhole

LEMMA HonestEnds ==
    ASSUME HonestInv, NEW p \in {"done", "raised"}, End(p),
           p = "done" => Signing /\ Signature
    PROVE  HonestInv'
BY DEF End, HonestInv, SignedWhole, Signing, Signature

LEMMA HonestHost == HonestInv /\ Host => HonestInv'
<1> SUFFICES ASSUME HonestInv, Host PROVE HonestInv'
  OBVIOUS
<1>1. ASSUME NEW t \in Transactions, BeginPlain(t) PROVE HonestInv'
  BY <1>1, HonestBegins DEF BeginPlain
<1>2. ASSUME NEW t \in Transactions, BeginPreload(t) PROVE HonestInv'
  BY <1>2, HonestBegins DEF BeginPreload
<1>3. ASSUME NEW t \in Transactions, BeginConflict(t) PROVE HonestInv'
  BY <1>3 DEF BeginConflict, HonestInv, SignedWhole
<1>4. CASE PreloadNext
  BY <1>4, HonestSends DEF PreloadNext
<1>5. CASE PreloadRaise
  BY <1>5, HonestEnds DEF PreloadRaise
<1>6. CASE Return
  BY <1>6, HonestEnds DEF Return
<1>7. CASE ServeDefinition
  BY <1>7, HonestSends DEF ServeDefinition, Signing
<1>8. CASE RefuseDefinition
  BY <1>8, HonestEnds DEF RefuseDefinition
<1>9. CASE SendData
  BY <1>9, HonestSendsData
<1>10. CASE Unexpected
  BY <1>10, HonestEnds DEF Unexpected
<1> QED
  BY <1>1, <1>2, <1>3, <1>4, <1>5, <1>6, <1>7, <1>8, <1>9, <1>10 DEF Host

LEMMA HonestInit == Init => HonestInv
BY DEF Init, HonestInv, SignedWhole

LEMMA HonestIdle == HonestInv /\ UNCHANGED vars => HonestInv'
<1> SUFFICES ASSUME HonestInv, UNCHANGED vars PROVE HonestInv'
  OBVIOUS
<1>1. UNCHANGED <<tx, pc, stage, resp, left, trail>>
  BY DEF vars
<1>2. Received(Data)' = Received(Data) /\ PerPass' = PerPass
  BY <1>1 DEF Received, Data, PerPass
<1> QED
  BY <1>1, <1>2 DEF HonestInv, SignedWhole, IsHistory

\* A signature that ethereum_sign_tx returns from a device that signs what it
\* has received covers all of the calldata, whatever its length, the initial
\* chunk and the number of passes.
THEOREM HonestDeviceSigns == Init /\ [][Host \/ FirmwareAnswer]_vars => []SignedWhole
<1>1. HonestInv /\ [Host \/ FirmwareAnswer]_vars => HonestInv'
  BY HonestHost, HonestAnswers, HonestIdle
<1>2. HonestInv => SignedWhole
  BY DEF HonestInv
<1> QED
  BY <1>1, <1>2, HonestInit, PTL

\* The same of the specification that is checked, whose device is either the
\* honest one or any.
THEOREM HonestSignaturesWhole == EitherSpec => []HonestWhole
<1> DEFINE Inv == honest => HonestInv
<1>1. EitherInit => Inv
  BY HonestInit DEF EitherInit
<1>2. Inv /\ [EitherNext]_EitherVars => Inv'
  <2> SUFFICES ASSUME Inv, [EitherNext]_EitherVars, honest' PROVE HonestInv'
    OBVIOUS
  <2>1. CASE EitherNext
    BY <2>1, HonestHost, HonestAnswers, Zenon DEF EitherNext
  <2>2. CASE UNCHANGED EitherVars
    <3>1. UNCHANGED vars /\ honest' = honest
      BY <2>2, Zenon DEF EitherVars
    <3> QED
      BY <3>1, HonestIdle, Zenon
  <2> QED
    BY <2>1, <2>2
<1>3. Inv => HonestWhole
  BY DEF HonestInv, HonestWhole
<1> QED
  BY <1>1, <1>2, <1>3, PTL DEF EitherSpec

-----------------------------------------------------------------------------
(* Typed data: the host (Eip712) *)

\* The places on the way to the end of a path.
ContentsUpto(path) ==
    LET upto[n \in 1..Len(path)] ==
            IF n = 1 THEN D!Top(doc, path[1]) ELSE D!Enter(upto[n - 1], path[n])
    IN  upto

LEMMA ContentsByStep ==
    ASSUME NEW p, Len(p) \in Nat \ {0}
    PROVE  /\ D!Contents(doc, p) = ContentsUpto(p)[Len(p)]
           /\ ContentsUpto(p)[1] = D!Top(doc, p[1])
           /\ \A i \in 1..Len(p) - 1 : ContentsUpto(p)[i + 1] = D!Enter(ContentsUpto(p)[i], p[i + 1])
<1> DEFINE Value(f, i) == IF i = 1 THEN D!Top(doc, p[1]) ELSE D!Enter(f[i - 1], p[i])
           Defined(n) == \E f : f = [i \in 1..n |-> Value(f, i)]
           P == {n \in Nat : Defined(n)}
<1>1. 0 \in P
  <2> DEFINE f == [i \in 1..0 |-> 0]
  <2>1. f = [i \in 1..0 |-> Value(f, i)]
    OBVIOUS
  <2> QED
    BY <2>1
<1>2. ASSUME NEW n \in Nat, n \in P PROVE n + 1 \in P
  <2>1. PICK f : f = [i \in 1..n |-> Value(f, i)]
    BY <1>2
  <2> DEFINE g == [i \in 1..n + 1 |-> IF i <= n THEN f[i] ELSE Value(f, i)]
  <2>2. ASSUME NEW i \in 1..n + 1 PROVE g[i] = Value(g, i)
    <3>1. i # 1 => g[i - 1] = f[i - 1]
      OBVIOUS
    <3>2. Value(g, i) = Value(f, i)
      BY <3>1
    <3>3. i <= n => f[i] = Value(f, i)
      <4> HIDE DEF Value
      <4> QED
        BY <2>1
    <3>4. g[i] = IF i <= n THEN f[i] ELSE Value(f, i)
      <4> HIDE DEF Value
      <4> QED
        OBVIOUS
    <3> HIDE DEF g, Value
    <3> QED
      BY <3>2, <3>3, <3>4
  <2>3. g = [i \in 1..n + 1 |-> Value(g, i)]
    <3>1. g = [i \in 1..n + 1 |-> g[i]]
      OBVIOUS
    <3> HIDE DEF g, Value
    <3> QED
      BY <3>1, <2>2
  <2>4. Defined(n + 1)
    <3> HIDE DEF g
    <3> QED
      BY <2>3
  <2> HIDE DEF Defined
  <2> QED
    BY <2>4
<1>3. Defined(Len(p))
  <2>1. Nat \subseteq P
    <3> HIDE DEF P
    <3> QED
      BY <1>1, <1>2, SetInduction
  <2> HIDE DEF Defined
  <2> QED
    BY <2>1
<1>4. ContentsUpto(p) = [i \in 1..Len(p) |-> Value(ContentsUpto(p), i)]
  BY <1>3, Zenon DEF ContentsUpto
<1>5. D!Contents(doc, p) = ContentsUpto(p)[Len(p)]
  BY DEF D!Contents, ContentsUpto
<1>6. \A i \in 1..Len(p) : ContentsUpto(p)[i] = Value(ContentsUpto(p), i)
  <2> HIDE DEF Defined, P, Value
  <2> QED
    BY <1>4
<1> HIDE DEF Defined, P
<1>7. ASSUME NEW i \in 1..Len(p) - 1
      PROVE  ContentsUpto(p)[i + 1] = D!Enter(ContentsUpto(p)[i], p[i + 1])
  <2>1. i + 1 \in 1..Len(p) /\ i + 1 # 1 /\ (i + 1) - 1 = i
    OBVIOUS
  <2> QED
    BY <1>6, <2>1
<1>8. 1 \in 1..Len(p)
  OBVIOUS
<1> QED
  BY <1>5, <1>6, <1>7, <1>8

\* What resolve_member_path holds after each round of its loop.
ResolveUpto(path) ==
    LET upto[n \in 1..Len(path)] ==
            IF n = 1 THEN D!Root(path[1]) ELSE D!Descend(upto[n - 1], path[n])
    IN  upto

LEMMA ResolveByStep ==
    ASSUME NEW p, Len(p) \in Nat \ {0}
    PROVE  /\ D!ResolveMemberPath(p) = ResolveUpto(p)[Len(p)]
           /\ ResolveUpto(p)[1] = D!Root(p[1])
           /\ \A i \in 1..Len(p) - 1 : ResolveUpto(p)[i + 1] = D!Descend(ResolveUpto(p)[i], p[i + 1])
<1> DEFINE Value(f, i) == IF i = 1 THEN D!Root(p[1]) ELSE D!Descend(f[i - 1], p[i])
           Defined(n) == \E f : f = [i \in 1..n |-> Value(f, i)]
           P == {n \in Nat : Defined(n)}
<1>1. 0 \in P
  <2> DEFINE f == [i \in 1..0 |-> 0]
  <2>1. f = [i \in 1..0 |-> Value(f, i)]
    OBVIOUS
  <2> QED
    BY <2>1
<1>2. ASSUME NEW n \in Nat, n \in P PROVE n + 1 \in P
  <2>1. PICK f : f = [i \in 1..n |-> Value(f, i)]
    BY <1>2
  <2> DEFINE g == [i \in 1..n + 1 |-> IF i <= n THEN f[i] ELSE Value(f, i)]
  <2>2. ASSUME NEW i \in 1..n + 1 PROVE g[i] = Value(g, i)
    <3>1. i # 1 => g[i - 1] = f[i - 1]
      OBVIOUS
    <3>2. Value(g, i) = Value(f, i)
      BY <3>1
    <3>3. i <= n => f[i] = Value(f, i)
      <4> HIDE DEF Value
      <4> QED
        BY <2>1
    <3>4. g[i] = IF i <= n THEN f[i] ELSE Value(f, i)
      <4> HIDE DEF Value
      <4> QED
        OBVIOUS
    <3> HIDE DEF g, Value
    <3> QED
      BY <3>2, <3>3, <3>4
  <2>3. g = [i \in 1..n + 1 |-> Value(g, i)]
    <3>1. g = [i \in 1..n + 1 |-> g[i]]
      OBVIOUS
    <3> HIDE DEF g, Value
    <3> QED
      BY <3>1, <2>2
  <2>4. Defined(n + 1)
    <3> HIDE DEF g
    <3> QED
      BY <2>3
  <2> HIDE DEF Defined
  <2> QED
    BY <2>4
<1>3. Defined(Len(p))
  <2>1. Nat \subseteq P
    <3> HIDE DEF P
    <3> QED
      BY <1>1, <1>2, SetInduction
  <2> HIDE DEF Defined
  <2> QED
    BY <2>1
<1>4. ResolveUpto(p) = [i \in 1..Len(p) |-> Value(ResolveUpto(p), i)]
  BY <1>3, Zenon DEF ResolveUpto
<1>5. D!ResolveMemberPath(p) = ResolveUpto(p)[Len(p)]
  BY DEF D!ResolveMemberPath, ResolveUpto
<1>6. \A i \in 1..Len(p) : ResolveUpto(p)[i] = Value(ResolveUpto(p), i)
  <2> HIDE DEF Defined, P, Value
  <2> QED
    BY <1>4
<1> HIDE DEF Defined, P
<1>7. ASSUME NEW i \in 1..Len(p) - 1
      PROVE  ResolveUpto(p)[i + 1] = D!Descend(ResolveUpto(p)[i], p[i + 1])
  <2>1. i + 1 \in 1..Len(p) /\ i + 1 # 1 /\ (i + 1) - 1 = i
    OBVIOUS
  <2> QED
    BY <1>6, <2>1
<1>8. 1 \in 1..Len(p)
  OBVIOUS
<1> QED
  BY <1>5, <1>6, <1>7, <1>8

\* What the host says of a value.
OfValue(p, o, v) ==
    IF v.length > MaxValue \/ (v.length > MaxLeaf /\ p[1] = 0) THEN D!Error
    ELSE IF o # D!None THEN
        IF D!OffsetValid(o, v.length) THEN D!Piece(v, o, D!None) ELSE D!Error
    ELSE IF v.length <= MaxLeaf THEN D!Piece(v, D!None, D!None)
    ELSE IF chunked THEN D!Piece(v, D!None, v.length) ELSE D!Error

\* The walk of the device: what is on its agenda.
Items == [path : Seq(Nat), type : D!Descriptors]
Bytes == [at : {v.at : v \in {w \in Values : w.kind \in D!LeafTypes}}, from : Nat, to : Nat]
Talking == docPc \in {"host", "device"}

WalkTypes ==
    /\ doc \in Documents /\ chunked \in BOOLEAN
    /\ agenda \in Seq(Items) /\ \A i \in 1..Len(agenda) : agenda[i].path # <<>>
    /\ have \in Nat \cup {D!None} /\ total \in Nat \cup {D!None}
    /\ pieces \in Seq(Bytes)
    /\ hashed \in Seq([path : Seq(Nat), pieces : Seq(Bytes)])
    /\ \A i \in 1..Len(hashed) : hashed[i].path # <<>>
    /\ docPc \in {"host", "device", "done", "raised"}
    /\ Talking => agenda # <<>>
    /\ docPc = "done" => agenda = <<>>

\* The agenda has the types that stand in the document.
AgendaRight ==
    \A i \in 1..Len(agenda) :
        LET here == D!Contents(doc, agenda[i].path)
        IN  here.kind # "nothing" => here.type = agenda[i].type

\* Everything is in the order of declaration, what is hashed in front of what
\* is still to be visited.
Ordered ==
    /\ \A i, j \in 1..Len(hashed) : i < j => D!Before(hashed[i].path, hashed[j].path)
    /\ \A i \in 1..Len(hashed), j \in 1..Len(agenda) : D!Before(hashed[i].path, agenda[j].path)
    /\ \A i, j \in 1..Len(agenda) : i < j => D!Before(agenda[i].path, agenda[j].path)

\* No value is forgotten: its path goes on from one that is on the agenda.
GoesOn(p, q) == Len(p) <= Len(q) /\ \A k \in 1..Len(p) : p[k] = q[k]
Remembered(q) ==
    D!Contents(doc, q).kind = "value" =>
        \/ \E i \in 1..Len(hashed) : hashed[i].path = q
        \/ \E i \in 1..Len(agenda) : GoesOn(agenda[i].path, q)
NoneForgotten == \A q \in Seq(Nat) : q # <<>> => Remembered(q)

HashedRight ==
    \A i \in 1..Len(hashed) :
        LET here == D!Contents(doc, hashed[i].path)
        IN  here.kind = "value" /\ D!Covers(hashed[i].pieces, here.value)

\* The pieces read of the value in hand are its first bytes.
Gathered(ps, v) ==
    /\ \A k \in 1..Len(ps) : ps[k].at = v.at
    /\ \A k \in 1..Len(ps) - 1 : ps[k].to = ps[k + 1].from
    /\ IF ps = <<>> THEN have \in {D!None, 0} ELSE ps[1].from = 0 /\ ps[Len(ps)].to = have

InHand ==
    Talking =>
        IF have = D!None THEN pieces = <<>> /\ total = D!None
        ELSE LET here == D!Contents(doc, D!Todo.path)
             IN  /\ here.kind = "value" /\ Gathered(pieces, here.value)
                 /\ chunked /\ total = here.value.length /\ total > MaxLeaf /\ have < total

\* The answer is that to the device's question.
Answered ==
    docPc = "device" =>
        /\ answer # D!Error
        /\ LET here == D!Contents(doc, D!Todo.path)
           IN  IF D!IsStruct(D!Todo) THEN answer = D!StructMembers(D!Todo.type.base)
               ELSE \/ /\ here.kind = "length" /\ have = D!None
                       /\ Len(here.value.items) <= MaxArray
                       /\ answer = [kind |-> "length", length |-> Len(here.value.items)]
                    \/ here.kind = "value" /\ answer = OfValue(D!Todo.path, have, here.value)

WalkInv ==
    /\ WalkTypes /\ Answered /\ AgendaRight /\ Ordered /\ NoneForgotten /\ HashedRight /\ InHand

\* A path's beginnings lead through the same places as the path.
LEMMA ContentsPrefix ==
    ASSUME NEW p \in Seq(Nat), NEW k \in 1..Len(p)
    PROVE  D!Contents(doc, SubSeq(p, 1, k)) = ContentsUpto(p)[k]
<1> DEFINE q == SubSeq(p, 1, k)
           P == {n \in Nat : n + 1 <= k => ContentsUpto(q)[n + 1] = ContentsUpto(p)[n + 1]}
<1>1. Len(q) = k /\ (\A i \in 1..k : q[i] = p[i]) /\ Len(p) \in Nat \ {0} /\ k \in Nat \ {0}
  OBVIOUS
<1> HIDE DEF q
<1>2. 0 \in P
  BY <1>1, ContentsByStep
<1>3. ASSUME NEW n \in Nat, n \in P PROVE n + 1 \in P
  <2> SUFFICES ASSUME n + 2 <= k
               PROVE  ContentsUpto(q)[(n + 1) + 1] = ContentsUpto(p)[(n + 1) + 1]
    OBVIOUS
  <2>1. n + 1 \in 1..Len(q) - 1 /\ n + 1 \in 1..Len(p) - 1 /\ q[(n + 1) + 1] = p[(n + 1) + 1]
    BY <1>1
  <2>2. ContentsUpto(q)[n + 1] = ContentsUpto(p)[n + 1]
    BY <1>3
  <2>3. ContentsUpto(q)[(n + 1) + 1] = D!Enter(ContentsUpto(q)[n + 1], q[(n + 1) + 1])
    BY <1>1, <2>1, ContentsByStep
  <2>4. ContentsUpto(p)[(n + 1) + 1] = D!Enter(ContentsUpto(p)[n + 1], p[(n + 1) + 1])
    BY <1>1, <2>1, ContentsByStep
  <2> QED
    BY <2>1, <2>2, <2>3, <2>4
<1>4. Nat \subseteq P
  <2> HIDE DEF P
  <2> QED
    BY <1>2, <1>3, SetInduction
<1>5. k - 1 \in P
  <2> HIDE DEF P
  <2> QED
    BY <1>1, <1>4
<1>6. ContentsUpto(q)[k] = ContentsUpto(p)[k]
  BY <1>1, <1>5
<1> QED
  BY <1>1, <1>6, ContentsByStep DEF q

\* One more index is one more step.
LEMMA ContentsChild ==
    ASSUME NEW p \in Seq(Nat), p # <<>>, NEW i \in Nat
    PROVE  D!Contents(doc, Append(p, i)) = D!Enter(D!Contents(doc, p), i)
<1> DEFINE q == Append(p, i)
<1>1. /\ q \in Seq(Nat) /\ Len(q) = Len(p) + 1 /\ Len(p) \in Nat \ {0}
      /\ q[Len(p) + 1] = i /\ SubSeq(q, 1, Len(p)) = p
  OBVIOUS
<1> HIDE DEF q
<1>2. D!Contents(doc, q) = D!Enter(ContentsUpto(q)[Len(p)], i)
  <2>1. Len(q) \in Nat \ {0} /\ Len(p) \in 1..Len(q) - 1
    BY <1>1
  <2> QED
    BY <1>1, <2>1, ContentsByStep
<1>3. ContentsUpto(q)[Len(p)] = D!Contents(doc, p)
  <2>1. Len(p) \in 1..Len(q)
    BY <1>1
  <2>2. D!Contents(doc, SubSeq(q, 1, Len(p))) = ContentsUpto(q)[Len(p)]
    BY <1>1, <2>1, ContentsPrefix
  <2> QED
    BY <1>1, <2>2
<1> QED
  BY <1>2, <1>3 DEF q

\* Beyond nothing there is nothing.
LEMMA NothingBeyond ==
    ASSUME NEW p \in Seq(Nat), NEW k \in 1..Len(p), D!Contents(doc, p).kind # "nothing"
    PROVE  D!Contents(doc, SubSeq(p, 1, k)).kind # "nothing"
<1>1. Len(p) \in Nat \ {0} /\ k \in Nat \ {0}
  OBVIOUS
<1> SUFFICES ASSUME ContentsUpto(p)[k].kind = "nothing"
             PROVE  ContentsUpto(p)[Len(p)].kind = "nothing"
  BY <1>1, ContentsPrefix, ContentsByStep
<1> DEFINE P == {n \in Nat : k + n <= Len(p) => ContentsUpto(p)[k + n].kind = "nothing"}
<1>2. 0 \in P
  BY <1>1
<1>3. ASSUME NEW n \in Nat, n \in P PROVE n + 1 \in P
  <2> SUFFICES ASSUME k + (n + 1) <= Len(p)
               PROVE  ContentsUpto(p)[k + (n + 1)].kind = "nothing"
    OBVIOUS
  <2>1. k + n \in 1..Len(p) - 1 /\ k + (n + 1) = (k + n) + 1
    BY <1>1
  <2>2. ContentsUpto(p)[k + n].kind = "nothing"
    BY <1>3, <2>1
  <2>3. D!Enter(ContentsUpto(p)[k + n], p[(k + n) + 1]) = D!Nothing
    BY <2>2 DEF D!Enter
  <2>4. ContentsUpto(p)[(k + n) + 1] = D!Nothing
    BY <1>1, <2>1, <2>3, ContentsByStep
  <2> QED
    BY <2>1, <2>4 DEF D!Nothing
<1>4. Nat \subseteq P
  <2> HIDE DEF P
  <2> QED
    BY <1>2, <1>3, SetInduction
<1>5. Len(p) - k \in P
  <2> HIDE DEF P
  <2> QED
    BY <1>1, <1>4
<1> QED
  BY <1>1, <1>5

-----------------------------------------------------------------------------
\* What the host has found on its way down a path, and what stands there.
Located(s, c) ==
    \/ s.kind = "error" /\ c.kind = "nothing"
    \/ /\ s.kind = "at" /\ s.type \in D!Descriptors /\ s.value \in Values
       /\ s.used \in 0..Len(s.type.levels)
       /\ c = D!Place([base |-> s.type.base,
                       levels |-> SubSeq(s.type.levels, 1, Len(s.type.levels) - s.used)], s.value)

\* The first place, and one in a struct.
LEMMA PlaceLocated ==
    ASSUME NEW t \in D!Descriptors, NEW v \in Values
    PROVE  Located(D!At(t, v, 0), D!Place(t, v))
<1> DEFINE s == D!At(t, v, 0)
<1>1. s.kind = "at" /\ s.type = t /\ s.value = v /\ s.used = 0
  BY DEF D!At
<1>2. t.levels \in Seq(Nat \cup {D!Malformed}) /\ t = [base |-> t.base, levels |-> t.levels]
  BY DEF D!Descriptors
<1>3. SubSeq(t.levels, 1, Len(t.levels) - 0) = t.levels
  BY <1>2
<1>4. t = [base |-> t.base, levels |-> SubSeq(t.levels, 1, Len(t.levels) - 0)]
  BY <1>2, <1>3
<1>5. 0 \in 0..Len(t.levels)
  BY <1>2
<1> HIDE DEF s
<1> QED
  BY <1>1, <1>4, <1>5 DEF Located, s

LEMMA NothingLocated ==
    ASSUME NEW c, c.kind = "nothing"
    PROVE  Located(D!Error, c)
BY DEF Located, D!Error

LEMMA RootLocated ==
    ASSUME D!WellTyped, doc \in Documents, NEW i \in Nat
    PROVE  Located(D!Root(i), D!Top(doc, i))
<1>1. doc.primary \in Identifiers /\ doc.domain \in Values /\ doc.message \in Values
  BY DEF D!WellTyped
<1>2. /\ [base |-> D!Domain, levels |-> <<>>] \in D!Descriptors
      /\ [base |-> doc.primary, levels |-> <<>>] \in D!Descriptors
  <2>1. <<>> \in Seq(Nat \cup {D!Malformed})
    OBVIOUS
  <2>2. D!Domain \in Identifiers
    BY DEF D!WellTyped
  <2>3. \A b \in Identifiers : [base |-> b, levels |-> <<>>] \in D!Descriptors
    BY <2>1 DEF D!Descriptors
  <2> QED
    BY <1>1, <2>2, <2>3
<1>3. D!Nothing.kind = "nothing"
  BY DEF D!Nothing
<1>4. CASE i = 0
  BY <1>1, <1>2, <1>4, PlaceLocated DEF D!Root, D!Top
<1>5. CASE i = 1
  BY <1>1, <1>2, <1>5, PlaceLocated DEF D!Root, D!Top
<1>6. CASE i \notin {0, 1}
  BY <1>3, <1>6, NothingLocated DEF D!Root, D!Top
<1> QED
  BY <1>4, <1>5, <1>6

\* The kinds of places.
LEMMA PlaceFacts ==
    ASSUME NEW t, NEW v
    PROVE  LET p == D!Place(t, v)
           IN  /\ p.type = t /\ p.value = v
               /\ p.kind \in {"length", "value", "struct", "nothing"}
               /\ p.kind = "length" <=>
                    /\ t.levels # <<>> /\ v.kind = "list"
                    /\ D!Last(t.levels) \in {0, Len(v.items)}
               /\ p.kind = "value" <=> t.levels = <<>> /\ t.base \in D!LeafTypes /\ v.kind = t.base
               /\ p.kind = "struct" <=>
                    /\ t.levels = <<>> /\ t.base \in DOMAIN Types \ D!LeafTypes
                    /\ v.kind = "struct"
BY DEF D!Place

\* Inside of an array: the dimension that counts is the last one left.
LEMMA ArrayPlace ==
    ASSUME D!WellTyped, NEW s, NEW c, Located(s, c), s.kind = "at", D!InArray(s)
    PROVE  /\ s.value \in Values /\ c.value = s.value /\ s.type \in D!Descriptors
           /\ c.kind \in {"length", "nothing"} /\ (c.kind = "length" <=> D!RightLength(s))
           /\ c.kind = "length" => s.value.kind = "list" /\ s.value.items \in Seq(Values)
           /\ c.type.base = s.type.base
           /\ s.used + 1 \in 0..Len(s.type.levels)
           /\ D!Front(c.type.levels) = SubSeq(s.type.levels, 1, Len(s.type.levels) - (s.used + 1))
<1> DEFINE levels == s.type.levels
           n == Len(s.type.levels) - s.used
           type == [base |-> s.type.base, levels |-> SubSeq(levels, 1, n)]
           v == s.value
<1>1. /\ s.kind # "error" /\ s.type \in D!Descriptors /\ v \in Values
      /\ s.used \in 0..Len(levels) /\ c = D!Place(type, v)
  BY DEF Located
<1>2. levels \in Seq(Nat \cup {D!Malformed}) /\ Len(levels) \in Nat /\ s.used < Len(levels)
  <2>1. levels \in Seq(Nat \cup {D!Malformed})
    BY <1>1 DEF D!Descriptors
  <2>2. Len(levels) \in Nat
    BY <2>1
  <2> QED
    BY <2>1, <2>2 DEF D!InArray
<1>3. n \in 1..Len(levels) /\ n - 1 = Len(levels) - (s.used + 1) /\ s.used + 1 \in 0..Len(levels)
  <2>1. \A l \in Nat : \A u \in 0..l :
           u < l => l - u \in 1..l /\ (l - u) - 1 = l - (u + 1) /\ u + 1 \in 0..l
    OBVIOUS
  <2>2. Len(levels) \in Nat /\ s.used \in 0..Len(levels) /\ s.used < Len(levels)
    BY <1>1, <1>2
  <2> QED
    BY <2>1, <2>2
<1>4. /\ type.levels = SubSeq(levels, 1, n) /\ type.base = s.type.base
      /\ type.levels # <<>> /\ D!Last(type.levels) = levels[n]
      /\ D!Front(type.levels) = SubSeq(levels, 1, n - 1)
  <2>1. Len(SubSeq(levels, 1, n)) = n /\ SubSeq(levels, 1, n)[n] = levels[n]
    BY <1>2, <1>3
  <2>2. SubSeq(SubSeq(levels, 1, n), 1, n - 1) = SubSeq(levels, 1, n - 1)
    BY <1>2, <1>3
  <2>3. SubSeq(levels, 1, n) # <<>>
    BY <1>3, <2>1
  <2> QED
    BY <2>1, <2>2, <2>3 DEF D!Last, D!Front
<1> HIDE DEF type, n, levels
<1>5. /\ c.type = type /\ c.value = v
      /\ c.kind \in {"length", "value", "struct", "nothing"}
      /\ c.kind = "length" <=> v.kind = "list" /\ levels[n] \in {0, Len(v.items)}
      /\ c.kind # "value" /\ c.kind # "struct"
  <2> DEFINE p == D!Place(type, v)
  <2>1. /\ p.type = type /\ p.value = v
        /\ p.kind \in {"length", "value", "struct", "nothing"}
        /\ p.kind = "length" <=>
             /\ type.levels # <<>> /\ v.kind = "list"
             /\ D!Last(type.levels) \in {0, Len(v.items)}
        /\ p.kind = "value" => type.levels = <<>>
        /\ p.kind = "struct" => type.levels = <<>>
    BY PlaceFacts
  <2> HIDE DEF p
  <2> QED
    BY <1>1, <1>4, <2>1 DEF p
<1>6. D!RightLength(s) <=> c.kind = "length"
  BY <1>5 DEF D!RightLength, D!Dimension, n, v, levels
<1>7. c.kind = "length" => v.kind = "list" /\ v.items \in Seq(Values)
  BY <1>1, <1>5 DEF D!WellTyped, D!TypedValue, D!LeafTypes
<1> QED
  BY <1>1, <1>3, <1>4, <1>5, <1>6, <1>7 DEF v, levels

\* Outside of arrays: a value, a struct or nothing.
LEMMA PlainPlace ==
    ASSUME NEW s, NEW c, Located(s, c), s.kind = "at", ~D!InArray(s)
    PROVE  /\ s.value \in Values /\ c.value = s.value
           /\ c.type.base = s.type.base /\ c.type.levels = <<>>
           /\ c.kind \in {"value", "struct", "nothing"}
           /\ c.kind = "value" <=> s.type.base \in D!LeafTypes /\ s.value.kind = s.type.base
           /\ c.kind = "struct" <=> s.type.base \in DOMAIN Types \ D!LeafTypes /\ s.value.kind = "struct"
<1> DEFINE base == s.type.base
           v == s.value
<1>1. /\ s.kind # "error" /\ s.type \in D!Descriptors /\ v \in Values
      /\ s.used \in 0..Len(s.type.levels)
      /\ c = D!Place([base |-> base, levels |-> SubSeq(s.type.levels, 1, Len(s.type.levels) - s.used)], v)
  BY DEF Located
<1>2. SubSeq(s.type.levels, 1, Len(s.type.levels) - s.used) = <<>>
  <2>1. s.type.levels \in Seq(Nat \cup {D!Malformed})
    BY <1>1 DEF D!Descriptors
  <2>2. Len(s.type.levels) - s.used = 0
    BY <1>1, <2>1 DEF D!InArray
  <2> QED
    BY <2>1, <2>2
<1>3. /\ c.type.base = base /\ c.type.levels = <<>> /\ c.value = v
      /\ c.kind \in {"value", "struct", "nothing"}
      /\ c.kind = "value" <=> base \in D!LeafTypes /\ v.kind = base
      /\ c.kind = "struct" <=> base \in DOMAIN Types \ D!LeafTypes /\ v.kind = "struct"
  <2> DEFINE t == [base |-> base, levels |-> <<>>]
             p == D!Place(t, v)
  <2>1. t.base = base /\ t.levels = <<>>
    OBVIOUS
  <2>2. c = p
    BY <1>1, <1>2
  <2> HIDE DEF t
  <2>3. /\ p.type = t /\ p.value = v
        /\ p.kind \in {"length", "value", "struct", "nothing"}
        /\ p.kind = "length" => t.levels # <<>>
        /\ p.kind = "value" <=> t.levels = <<>> /\ t.base \in D!LeafTypes /\ v.kind = t.base
        /\ p.kind = "struct" <=>
             /\ t.levels = <<>> /\ t.base \in DOMAIN Types \ D!LeafTypes
             /\ v.kind = "struct"
    BY PlaceFacts
  <2> HIDE DEF p, base, v
  <2> QED
    BY <2>1, <2>2, <2>3
<1> QED
  BY <1>1, <1>3 DEF base, v

\* One more index, the same place.
LEMMA ElementLocated ==
    ASSUME D!WellTyped, NEW s, NEW c, Located(s, c), NEW i \in Nat,
           s.kind = "at", D!InArray(s)
    PROVE  Located(D!Descend(s, i), D!Enter(c, i))
<1> DEFINE levels == SubSeq(s.type.levels, 1, Len(s.type.levels) - (s.used + 1))
           v == s.value
<1>1. /\ s.kind # "error" /\ s.type \in D!Descriptors /\ c.value = v
      /\ c.kind \in {"length", "nothing"} /\ (c.kind = "length" <=> D!RightLength(s))
      /\ c.kind = "length" => v.items \in Seq(Values)
      /\ c.type.base = s.type.base /\ D!Front(c.type.levels) = levels
      /\ s.used + 1 \in 0..Len(s.type.levels)
  BY ArrayPlace
<1> HIDE DEF levels
<1>2. CASE D!RightLength(s) /\ i < Len(v.items)
  <2>1. v.items[i + 1] \in Values
    BY <1>1, <1>2
  <2>2. D!Descend(s, i) = D!At(s.type, v.items[i + 1], s.used + 1)
    BY <1>1, <1>2 DEF D!Descend, v
  <2>3. D!Enter(c, i) = D!Place([base |-> s.type.base, levels |-> levels], v.items[i + 1])
    BY <1>1, <1>2 DEF D!Enter, D!Element
  <2>4. /\ D!Descend(s, i).kind = "at" /\ D!Descend(s, i).type = s.type
        /\ D!Descend(s, i).value = v.items[i + 1] /\ D!Descend(s, i).used = s.used + 1
    BY <2>2 DEF D!At
  <2> QED
    BY <1>1, <2>1, <2>3, <2>4 DEF Located, levels
<1>3. CASE ~(D!RightLength(s) /\ i < Len(v.items))
  <2>1. D!Descend(s, i) = D!Error
    BY <1>1, <1>3 DEF D!Descend, v
  <2>2. D!Enter(c, i) = D!Nothing
    BY <1>1, <1>3 DEF D!Enter
  <2>3. D!Nothing.kind = "nothing"
    BY DEF D!Nothing
  <2> QED
    BY <2>1, <2>2, <2>3, NothingLocated
<1> QED
  BY <1>2, <1>3

LEMMA MemberLocated ==
    ASSUME D!WellTyped, NEW s, NEW c, Located(s, c), NEW i \in Nat,
           s.kind = "at", ~D!InArray(s)
    PROVE  Located(D!Descend(s, i), D!Enter(c, i))
<1> DEFINE base == s.type.base
           v == s.value
           m == Types[base][i + 1]
<1>1. s.kind # "error" /\ v \in Values
  BY PlainPlace
<1>2. /\ c.type.base = base /\ c.value = v
      /\ c.kind \in {"value", "struct", "nothing"}
      /\ c.kind = "struct" <=> base \in DOMAIN Types \ D!LeafTypes /\ v.kind = "struct"
  BY PlainPlace
<1> HIDE DEF base, v
<1>3. D!Nothing.kind = "nothing"
  BY DEF D!Nothing
<1>4. CASE c.kind = "struct" /\ i < Len(Types[base])
  <2>1. m \in [name : Identifiers, type : D!Descriptors]
    <3>1. Types[base] \in Seq([name : Identifiers, type : D!Descriptors])
      BY <1>2, <1>4 DEF D!WellTyped
    <3>2. i + 1 \in 1..Len(Types[base])
      BY <1>4, <3>1
    <3>3. \A S : \A q \in Seq(S) : \A j \in 1..Len(q) : q[j] \in S
      OBVIOUS
    <3> QED
      BY <3>1, <3>2, <3>3, Zenon
  <2>2. D!Descend(s, i) = IF D!Parses(m.type) /\ m.name \in DOMAIN v.fields
                          THEN D!At(m.type, v.fields[m.name], 0) ELSE D!Error
    BY <1>1, <1>2, <1>4 DEF D!Descend, base, v
  <2>3. D!Enter(c, i) = IF D!Parses(m.type) /\ m.name \in DOMAIN v.fields
                        THEN D!Place(m.type, v.fields[m.name]) ELSE D!Nothing
    BY <1>2, <1>4 DEF D!Enter, D!Member
  <2>4. m.name \in DOMAIN v.fields => v.fields[m.name] \in Values
    BY <1>1, <1>2, <1>4 DEF D!WellTyped, D!TypedValue, D!LeafTypes
  <2> HIDE DEF m
  <2>5. CASE D!Parses(m.type) /\ m.name \in DOMAIN v.fields
    BY <2>1, <2>2, <2>3, <2>4, <2>5, PlaceLocated
  <2>6. CASE ~(D!Parses(m.type) /\ m.name \in DOMAIN v.fields)
    BY <1>3, <2>2, <2>3, <2>6, NothingLocated
  <2> QED
    BY <2>5, <2>6
<1>5. CASE ~(c.kind = "struct" /\ i < Len(Types[base]))
  <2>1. D!Descend(s, i) = D!Error
    BY <1>1, <1>2, <1>5 DEF D!Descend, base, v
  <2>2. D!Enter(c, i) = D!Nothing
    BY <1>2, <1>5 DEF D!Enter
  <2> QED
    BY <1>3, <2>1, <2>2, NothingLocated
<1> QED
  BY <1>4, <1>5

LEMMA StepLocated ==
    ASSUME D!WellTyped, NEW s, NEW c, Located(s, c), NEW i \in Nat
    PROVE  Located(D!Descend(s, i), D!Enter(c, i))
<1>1. CASE s.kind = "error" /\ c.kind = "nothing"
  <2>1. D!Descend(s, i) = D!Error /\ D!Enter(c, i) = D!Nothing
    BY <1>1 DEF D!Descend, D!Enter
  <2>2. D!Nothing.kind = "nothing"
    BY DEF D!Nothing
  <2> QED
    BY <2>1, <2>2, NothingLocated
<1>2. CASE s.kind = "at"
  BY <1>2, ElementLocated, MemberLocated
<1> QED
  BY <1>1, <1>2 DEF Located

\* The host comes to what stands there, or raises where nothing does.
LEMMA HostFinds ==
    ASSUME D!WellTyped, doc \in Documents, NEW p \in Seq(Nat), p # <<>>
    PROVE  Located(D!ResolveMemberPath(p), D!Contents(doc, p))
<1> DEFINE P == {n \in Nat : n + 1 <= Len(p) => Located(ResolveUpto(p)[n + 1], ContentsUpto(p)[n + 1])}
<1>1. Len(p) \in Nat \ {0} /\ \A n \in 1..Len(p) : p[n] \in Nat
  OBVIOUS
<1>2. 0 \in P
  <2>1. p[1] \in Nat
    BY <1>1
  <2>2. ResolveUpto(p)[1] = D!Root(p[1])
    BY <1>1, ResolveByStep
  <2>3. ContentsUpto(p)[1] = D!Top(doc, p[1])
    BY <1>1, ContentsByStep
  <2>4. Located(ResolveUpto(p)[1], ContentsUpto(p)[1])
    BY <2>1, <2>2, <2>3, RootLocated
  <2> QED
    BY <2>4
<1>3. ASSUME NEW n \in Nat, n \in P PROVE n + 1 \in P
  <2> SUFFICES ASSUME (n + 1) + 1 <= Len(p)
               PROVE  Located(ResolveUpto(p)[(n + 1) + 1], ContentsUpto(p)[(n + 1) + 1])
    OBVIOUS
  <2>1. n + 1 \in 1..Len(p) - 1 /\ (n + 1) + 1 \in 1..Len(p)
    BY <1>1
  <2>2. Located(ResolveUpto(p)[n + 1], ContentsUpto(p)[n + 1]) /\ p[(n + 1) + 1] \in Nat
    BY <1>1, <1>3, <2>1
  <2>3. ResolveUpto(p)[(n + 1) + 1] = D!Descend(ResolveUpto(p)[n + 1], p[(n + 1) + 1])
    BY <1>1, <2>1, ResolveByStep
  <2>4. ContentsUpto(p)[(n + 1) + 1] = D!Enter(ContentsUpto(p)[n + 1], p[(n + 1) + 1])
    BY <1>1, <2>1, ContentsByStep
  <2> QED
    BY <2>2, <2>3, <2>4, StepLocated
<1>4. Nat \subseteq P
  <2> HIDE DEF P
  <2> QED
    BY <1>2, <1>3, SetInduction
<1>5. Len(p) - 1 \in P
  <2> HIDE DEF P
  <2> QED
    BY <1>1, <1>4
<1>6. Located(ResolveUpto(p)[Len(p)], ContentsUpto(p)[Len(p)])
  BY <1>1, <1>5
<1>7. D!ResolveMemberPath(p) = ResolveUpto(p)[Len(p)]
  BY <1>1, ResolveByStep
<1>8. D!Contents(doc, p) = ContentsUpto(p)[Len(p)]
  BY <1>1, ContentsByStep
<1> QED
  BY <1>6, <1>7, <1>8

-----------------------------------------------------------------------------
LEMMA HostAnswers ==
    ASSUME D!WellTyped, doc \in Documents, NEW p \in Seq(Nat), p # <<>>, NEW o
    PROVE  /\ D!Contents(doc, p).kind \in {"length", "value", "struct", "nothing"}
           /\ D!Contents(doc, p).kind \in {"struct", "nothing"} => D!ValueAck(p, o) = D!Error
           /\ D!Contents(doc, p).kind = "length" =>
                /\ D!Contents(doc, p).value.items \in Seq(Values)
                /\ D!ValueAck(p, o) =
                     IF o = D!None /\ Len(D!Contents(doc, p).value.items) <= MaxArray
                     THEN [kind |-> "length", length |-> Len(D!Contents(doc, p).value.items)] ELSE D!Error
           /\ D!Contents(doc, p).kind = "value" =>
                /\ D!Contents(doc, p).value \in Values /\ D!Contents(doc, p).value.length \in Nat
                /\ D!Contents(doc, p).value.kind \in D!LeafTypes
                /\ D!ValueAck(p, o) = OfValue(p, o, D!Contents(doc, p).value)
<1> DEFINE c == D!Contents(doc, p)
           s == D!ResolveMemberPath(p)
           a == D!ValueAck(p, o)
<1>1. Located(s, c)
  BY HostFinds
<1>2. a = IF s.kind = "error" THEN D!Error
          ELSE IF D!InArray(s) THEN
              IF D!RightLength(s) /\ o = D!None /\ Len(s.value.items) <= MaxArray
              THEN [kind |-> "length", length |-> Len(s.value.items)] ELSE D!Error
          ELSE IF s.type.base \notin D!LeafTypes \/ s.value.kind # s.type.base
          THEN D!Error
          ELSE OfValue(p, o, s.value)
  BY DEF D!ValueAck, OfValue, D!Offered
<1> HIDE DEF c, s, a
<1>3. CASE s.kind = "error"
  <2>1. c.kind = "nothing"
    BY <1>1, <1>3 DEF Located
  <2> QED
    BY <1>2, <1>3, <2>1 DEF c, a
<1>4. CASE s.kind = "at" /\ D!InArray(s)
  <2>1. /\ c.value = s.value /\ c.kind \in {"length", "nothing"}
        /\ c.kind = "length" <=> D!RightLength(s)
        /\ c.kind = "length" => s.value.items \in Seq(Values)
    BY <1>1, <1>4, ArrayPlace
  <2>2. a = IF c.kind = "length" /\ o = D!None /\ Len(c.value.items) <= MaxArray
            THEN [kind |-> "length", length |-> Len(c.value.items)] ELSE D!Error
    BY <1>2, <1>4, <2>1
  <2> QED
    BY <2>1, <2>2 DEF c, a
<1>5. CASE s.kind = "at" /\ ~D!InArray(s)
  <2>1. /\ s.value \in Values /\ c.value = s.value /\ c.kind \in {"value", "struct", "nothing"}
        /\ c.kind = "value" <=> s.type.base \in D!LeafTypes /\ s.value.kind = s.type.base
    BY <1>1, <1>5, PlainPlace
  <2>2. a = IF c.kind = "value" THEN OfValue(p, o, c.value) ELSE D!Error
    BY <1>2, <1>5, <2>1
  <2>3. c.kind = "value" => c.value.kind \in D!LeafTypes /\ c.value.length \in Nat
    BY <2>1 DEF D!WellTyped, D!TypedValue, D!LeafTypes
  <2> QED
    BY <2>1, <2>2, <2>3 DEF c, a
<1> QED
  BY <1>1, <1>3, <1>4, <1>5 DEF Located

\* A piece of a value, as it is answered.
LEMMA PieceFacts ==
    ASSUME D!WellTyped, NEW p, NEW v, v.length \in Nat, NEW o \in Nat \cup {D!None},
           OfValue(p, o, v) # D!Error
    PROVE  /\ OfValue(p, o, v).kind = "value" /\ OfValue(p, o, v).at = v.at
           /\ OfValue(p, o, v).from = (IF o = D!None THEN 0 ELSE o)
           /\ OfValue(p, o, v).from \in Nat /\ OfValue(p, o, v).to \in Nat
           /\ OfValue(p, o, v).offset = o
           /\ OfValue(p, o, v).to = D!Least(v.length, OfValue(p, o, v).from + MaxLeaf)
           /\ IF o # D!None THEN v.length > MaxLeaf /\ o < v.length
              ELSE IF v.length > MaxLeaf THEN chunked /\ OfValue(p, o, v).total = v.length
              ELSE OfValue(p, o, v).total = D!None
<1>1. MaxLeaf \in Nat \ {0} /\ D!None \notin Nat
  BY DEF D!WellTyped, D!None
<1> DEFINE e == OfValue(p, o, v)
           from == IF o = D!None THEN 0 ELSE o
<1>2. from \in Nat
  OBVIOUS
<1>3. \E t : /\ e = D!Piece(v, o, t)
             /\ IF o # D!None THEN v.length > MaxLeaf /\ o < v.length
                ELSE IF v.length > MaxLeaf THEN chunked /\ t = v.length
                ELSE t = D!None
  BY <1>1 DEF OfValue, D!OffsetValid
<1>4. PICK t : /\ e = D!Piece(v, o, t)
               /\ IF o # D!None THEN v.length > MaxLeaf /\ o < v.length
                  ELSE IF v.length > MaxLeaf THEN chunked /\ t = v.length
                  ELSE t = D!None
  BY <1>3
<1>5. /\ e.kind = "value" /\ e.at = v.at /\ e.from = from /\ e.offset = o /\ e.total = t
      /\ e.to = D!Least(v.length, from + MaxLeaf)
  BY <1>4 DEF D!Piece
<1>6. D!Least(v.length, from + MaxLeaf) \in Nat
  BY <1>1, <1>2 DEF D!Least
<1> HIDE DEF e
<1> QED
  BY <1>2, <1>4, <1>5, <1>6 DEF e

LEMMA AnswersAll ==
    ASSUME D!WellTyped, doc \in Documents
    PROVE  D!AnswersTheQuestion
<1> USE DEF D!None
<1> SUFFICES ASSUME NEW p \in Paths
             PROVE  LET here == D!Contents(doc, p)
                        a == D!ValueAck(p, D!None)
                    IN  /\ a # D!Error => a.kind = here.kind
                        /\ here.kind = "length" =>
                             IF a = D!Error THEN Len(here.value.items) > MaxArray
                             ELSE a.length = Len(here.value.items)
                        /\ here.kind = "value" =>
                             /\ IF a = D!Error THEN here.value.length > MaxLeaf
                                ELSE /\ a.at = here.value.at /\ a.from = 0
                                     /\ \/ a.to = here.value.length
                                        \/ chunked /\ a.total = here.value.length /\ a.to = MaxLeaf
                             /\ \A o \in 0..(MaxValue + 1) :
                                   LET b == D!ValueAck(p, o)
                                   IN  b # D!Error =>
                                         /\ b.at = here.value.at /\ b.from = o /\ b.offset = o
                                         /\ b.to \in (o + 1)..D!Least(o + MaxLeaf, here.value.length)
  BY DEF D!AnswersTheQuestion
<1> DEFINE here == D!Contents(doc, p)
           v == here.value
           a == D!ValueAck(p, D!None)
<1>1. p \in Seq(Nat) /\ p # <<>> /\ MaxLeaf \in Nat \ {0} /\ MaxValue \in Nat /\ MaxLeaf <= MaxValue
      /\ MaxArray \in Nat
  BY DEF D!WellTyped
<1>2. /\ here.kind \in {"length", "value", "struct", "nothing"}
      /\ here.kind \in {"struct", "nothing"} => a = D!Error
      /\ here.kind = "length" =>
           /\ v.items \in Seq(Values)
           /\ a = IF Len(v.items) <= MaxArray THEN [kind |-> "length", length |-> Len(v.items)] ELSE D!Error
      /\ here.kind = "value" => v.length \in Nat /\ \A o : D!ValueAck(p, o) = OfValue(p, o, v)
  BY <1>1, HostAnswers
<1>3. CASE here.kind \in {"struct", "nothing"}
  BY <1>2, <1>3
<1>4. CASE here.kind = "length"
  <2>1. Len(v.items) \in Nat
    BY <1>2, <1>4
  <2>2. CASE Len(v.items) <= MaxArray
    <3>1. a = [kind |-> "length", length |-> Len(v.items)]
      BY <1>2, <1>4, <2>2
    <3>2. a.kind = "length" /\ a.length = Len(v.items)
      BY <3>1
    <3>3. a # D!Error
      BY <3>2 DEF D!Error
    <3> QED
      BY <1>4, <3>2, <3>3
  <2>3. CASE ~(Len(v.items) <= MaxArray)
    <3>1. a = D!Error
      BY <1>2, <1>4, <2>3
    <3> QED
      BY <1>1, <1>4, <2>1, <2>3, <3>1
  <2> QED
    BY <2>2, <2>3
<1>5. CASE here.kind = "value"
  <2>1. v.length \in Nat /\ a = OfValue(p, D!None, v) /\ \A o : D!ValueAck(p, o) = OfValue(p, o, v)
    BY <1>2, <1>5
  <2>2. a # D!Error =>
          /\ a.kind = "value" /\ a.at = v.at /\ a.from = 0 /\ a.to = D!Least(v.length, MaxLeaf)
          /\ v.length > MaxLeaf => chunked /\ a.total = v.length
    <3> SUFFICES ASSUME a # D!Error
                 PROVE  /\ a.kind = "value" /\ a.at = v.at /\ a.from = 0 /\ a.to = D!Least(v.length, MaxLeaf)
                        /\ v.length > MaxLeaf => chunked /\ a.total = v.length
      OBVIOUS
    <3> HIDE DEF here
    <3>1. OfValue(p, D!None, v) # D!Error /\ D!None \in Nat \cup {D!None}
      BY <2>1
    <3>2. /\ a.kind = "value" /\ a.at = v.at /\ a.from = 0
          /\ a.to = D!Least(v.length, a.from + MaxLeaf)
          /\ v.length > MaxLeaf => chunked /\ a.total = v.length
      BY <2>1, <3>1, PieceFacts
    <3>3. 0 + MaxLeaf = MaxLeaf
      BY <1>1
    <3> QED
      BY <3>2, <3>3
  <2>3. a = D!Error => v.length > MaxLeaf
    <3> SUFFICES ASSUME v.length <= MaxLeaf
                 PROVE  a # D!Error
      BY <1>1, <2>1
    <3>1. a = D!Piece(v, D!None, D!None)
      BY <1>1, <2>1 DEF OfValue
    <3> HIDE DEF here, a
    <3> QED
      BY <3>1 DEF D!Piece, D!Error
  <2>4. ASSUME NEW o \in 0..(MaxValue + 1), D!ValueAck(p, o) # D!Error
        PROVE  LET b == D!ValueAck(p, o)
               IN  /\ b.at = v.at /\ b.from = o /\ b.offset = o
                   /\ b.to \in (o + 1)..D!Least(o + MaxLeaf, v.length)
    <3> DEFINE b == D!ValueAck(p, o)
    <3> HIDE DEF here
    <3>1. b = OfValue(p, o, v) /\ OfValue(p, o, v) # D!Error /\ o \in Nat /\ o # D!None
      BY <2>1, <2>4
    <3>2. /\ b.at = v.at /\ b.from = o /\ b.offset = o /\ b.to = D!Least(v.length, b.from + MaxLeaf)
          /\ v.length > MaxLeaf /\ o < v.length
      BY <2>1, <3>1, PieceFacts
    <3>3. D!Least(v.length, o + MaxLeaf) \in (o + 1)..D!Least(o + MaxLeaf, v.length)
      BY <1>1, <2>1, <3>1, <3>2 DEF D!Least
    <3> QED
      BY <3>2, <3>3
  <2>5. a # D!Error => \/ a.to = v.length
                       \/ chunked /\ a.total = v.length /\ a.to = MaxLeaf
    BY <1>1, <2>1, <2>2 DEF D!Least
  <2> HIDE DEF a
  <2> QED
    BY <1>5, <2>2, <2>3, <2>4, <2>5 DEF a
<1> QED
  BY <1>2, <1>3, <1>4, <1>5

\* Whatever the device asks about the document, the host answers with what the
\* document has at that path, or raises: struct_members and value_ack.
THEOREM HostAnswersTheQuestion == DocumentSpec => []AnswersTheQuestion
<1>1. D!Init => doc \in Documents
  BY DEF D!Init
<1>2. doc \in Documents /\ [D!Next]_D!vars => (doc \in Documents)'
  BY DEF D!Next, D!Answer, D!Device, D!TakeMembers, D!TakeLength, D!TakeValue, D!TakeChunk,
         D!ReadAgain, D!Visit, D!ReadOn, D!vars
<1>3. doc \in Documents => AnswersTheQuestion
  BY AnswersAll, DocumentAssumption DEF AnswersTheQuestion
<1> QED
  BY <1>1, <1>2, <1>3, PTL DEF DocumentSpec, D!Spec

-----------------------------------------------------------------------------
\* The order of declaration.
LEMMA SiblingsOrdered ==
    ASSUME NEW p \in Seq(Nat), NEW i \in Nat, NEW j \in Nat, i < j
    PROVE  D!Before(Append(p, i), Append(p, j))
<1> DEFINE n == Len(p) + 1
           a == Append(p, i)
           b == Append(p, j)
<1>1. /\ n \in 1..Len(a) /\ n <= Len(b) /\ a[n] = i /\ b[n] = j
      /\ \A k \in 1..n - 1 : a[k] = b[k]
  OBVIOUS
<1> HIDE DEF n, a, b
<1>2. D!Before(a, b)
  BY <1>1 DEF D!Before
<1> QED
  BY <1>2 DEF a, b

LEMMA ChildOrdered ==
    ASSUME NEW p \in Seq(Nat), NEW q \in Seq(Nat), D!Before(p, q), NEW i \in Nat
    PROVE  D!Before(Append(p, i), q) /\ D!Before(p, Append(q, i))
<1>1. PICK n \in 1..Len(p) :
        /\ n <= Len(q) /\ p[n] < q[n]
        /\ \A k \in 1..n - 1 : p[k] = q[k]
  BY DEF D!Before
<1> DEFINE a == Append(p, i)
           b == Append(q, i)
<1>2. /\ n \in 1..Len(a) /\ a[n] = p[n] /\ \A k \in 1..n - 1 : a[k] = p[k]
      /\ n <= Len(b) /\ b[n] = q[n] /\ \A k \in 1..n - 1 : b[k] = q[k]
  BY <1>1
<1> HIDE DEF a, b
<1>3. D!Before(a, q) /\ D!Before(p, b)
  BY <1>1, <1>2 DEF D!Before
<1> QED
  BY <1>3 DEF a, b

\* What stands at a path is of its kind by its type.
LEMMA KindOfPlace ==
    ASSUME D!WellTyped, doc \in Documents, NEW p \in Seq(Nat), p # <<>>
    PROVE  LET c == D!Contents(doc, p)
           IN  /\ c.kind \in {"length", "value", "struct", "nothing"}
               /\ c.kind = "length" => c.type.levels # <<>>
               /\ c.kind = "value" => c.type.levels = <<>> /\ c.type.base \in D!LeafTypes
               /\ c.kind = "struct" => c.type.levels = <<>> /\ c.type.base \in DOMAIN Types \ D!LeafTypes
<1> DEFINE c == D!Contents(doc, p)
           s == D!ResolveMemberPath(p)
           t == [base |-> s.type.base, levels |-> SubSeq(s.type.levels, 1, Len(s.type.levels) - s.used)]
<1>1. c.kind = "nothing" \/ c = D!Place(t, s.value)
  BY HostFinds DEF Located
<1> HIDE DEF c, t, s
<1>2. CASE c = D!Place(t, s.value)
  BY <1>2, PlaceFacts DEF c
<1> QED
  BY <1>1, <1>2 DEF c

\* A path that goes on from another one either ends there or takes one of the
\* places below it.
LEMMA GoesFurther ==
    ASSUME NEW p \in Seq(Nat), p # <<>>, NEW q \in Seq(Nat), GoesOn(p, q),
           D!Contents(doc, q).kind # "nothing"
    PROVE  /\ D!Contents(doc, p).kind # "nothing"
           /\ \/ q = p
              \/ \E i \in Nat : /\ GoesOn(Append(p, i), q)
                                /\ D!Enter(D!Contents(doc, p), i).kind # "nothing"
<1>1. Len(p) \in 1..Len(q) /\ \A k \in 1..Len(p) : p[k] = q[k]
  BY DEF GoesOn
<1>2. SubSeq(q, 1, Len(p)) = p
  BY <1>1
<1>3. D!Contents(doc, p).kind # "nothing"
  BY <1>1, <1>2, NothingBeyond
<1>4. CASE Len(q) = Len(p)
  BY <1>1, <1>3, <1>4
<1>5. CASE Len(q) # Len(p)
  <2> DEFINE i == q[Len(p) + 1]
             r == Append(p, i)
  <2>1. Len(p) + 1 \in 1..Len(q) /\ i \in Nat
    BY <1>1, <1>5
  <2>2. Len(r) = Len(p) + 1 /\ \A k \in 1..Len(r) : r[k] = q[k]
    BY <1>1, <2>1
  <2>3. r = SubSeq(q, 1, Len(p) + 1)
    <3>1. r \in Seq(Nat) /\ SubSeq(q, 1, Len(p) + 1) \in Seq(Nat)
      BY <2>1
    <3>2. Len(SubSeq(q, 1, Len(p) + 1)) = Len(p) + 1
      BY <2>1
    <3>3. \A k \in 1..Len(p) + 1 : SubSeq(q, 1, Len(p) + 1)[k] = q[k]
      BY <2>1
    <3> HIDE DEF r
    <3> QED
      BY <2>2, <3>1, <3>2, <3>3, SeqEqual
  <2>4. D!Contents(doc, SubSeq(q, 1, Len(p) + 1)).kind # "nothing"
    BY <2>1, NothingBeyond
  <2>5. D!Contents(doc, r) = D!Enter(D!Contents(doc, p), i)
    <3> HIDE DEF i
    <3> QED
      BY <2>1, ContentsChild
  <2>6. GoesOn(r, q)
    <3> HIDE DEF r
    <3> QED
      BY <2>1, <2>2 DEF GoesOn
  <2> HIDE DEF i
  <2> QED
    BY <1>3, <2>1, <2>3, <2>4, <2>5, <2>6
<1> QED
  BY <1>4, <1>5

LEMMA PathBelow ==
    ASSUME NEW p \in Seq(Nat), NEW i \in Nat
    PROVE  Append(p, i) \in Seq(Nat) /\ Append(p, i) # <<>>
BY AppendProperties

\* The agenda after a visit: the places below in front of the others.
LEMMA AgendaAfterVisit ==
    ASSUME NEW S, NEW items \in Seq(S), NEW old \in Seq(S), old # <<>>,
           NEW new, new = items \o Tail(old)
    PROVE  /\ new \in Seq(S) /\ Len(new) = Len(items) + Len(old) - 1
           /\ \A k \in 1..Len(items) : k \in 1..Len(new) /\ new[k] = items[k]
           /\ \A k \in 2..Len(old) :
                Len(items) + k - 1 \in 1..Len(new) /\ new[Len(items) + k - 1] = old[k]
           /\ \A k \in 1..Len(new) :
                \/ k \in 1..Len(items)
                \/ k - Len(items) + 1 \in 2..Len(old) /\ new[k] = old[k - Len(items) + 1]
<1> DEFINE rest == Tail(old)
<1>1. Len(old) \in Nat \ {0} /\ Len(items) \in Nat
  OBVIOUS
<1>2. rest \in Seq(S) /\ Len(rest) = Len(old) - 1 /\ \A k \in 1..Len(rest) : rest[k] = old[k + 1]
  OBVIOUS
<1> HIDE DEF rest
<1>3. new = items \o rest
  BY DEF rest
<1>4. /\ new \in Seq(S) /\ Len(new) = Len(items) + Len(rest)
      /\ \A k \in 1..Len(new) : new[k] = IF k <= Len(items) THEN items[k] ELSE rest[k - Len(items)]
  BY <1>2, <1>3, ConcatProperties
<1>5. ASSUME NEW k \in 1..Len(items) PROVE k \in 1..Len(new) /\ new[k] = items[k]
  BY <1>1, <1>2, <1>4
<1>6. ASSUME NEW k \in 2..Len(old)
      PROVE  Len(items) + k - 1 \in 1..Len(new) /\ new[Len(items) + k - 1] = old[k]
  <2>1. k - 1 \in 1..Len(rest) /\ rest[k - 1] = old[k]
    BY <1>1, <1>2
  <2>2. Len(items) + k - 1 \in 1..Len(new)
    BY <1>1, <1>2, <1>4
  <2>3. (Len(items) + k - 1) - Len(items) = k - 1 /\ ~(Len(items) + k - 1 <= Len(items))
    BY <1>1
  <2> QED
    BY <1>4, <2>1, <2>2, <2>3
<1>7. ASSUME NEW k \in 1..Len(new), k \notin 1..Len(items)
      PROVE  k - Len(items) + 1 \in 2..Len(old) /\ new[k] = old[k - Len(items) + 1]
  <2>1. ~(k <= Len(items)) /\ k - Len(items) \in 1..Len(rest)
    BY <1>1, <1>2, <1>4, <1>7
  <2>2. new[k] = rest[k - Len(items)]
    BY <1>4, <2>1
  <2>3. rest[k - Len(items)] = old[k - Len(items) + 1]
    BY <1>2, <2>1
  <2>4. k - Len(items) + 1 \in 2..Len(old)
    BY <1>1, <1>2, <2>1
  <2> QED
    BY <2>2, <2>3, <2>4
<1> QED
  BY <1>1, <1>2, <1>4, <1>5, <1>6, <1>7

\* What is next on the agenda.
LEMMA TodoFacts ==
    ASSUME WalkTypes, Talking
    PROVE  /\ Len(agenda) \in Nat \ {0} /\ 1 \in 1..Len(agenda) /\ D!Todo = agenda[1]
           /\ D!Todo.path \in Seq(Nat) /\ D!Todo.path # <<>> /\ D!Todo.type \in D!Descriptors
<1>1. agenda \in Seq(Items) /\ agenda # <<>>
  BY DEF WalkTypes
<1>2. Len(agenda) \in Nat \ {0} /\ 1 \in 1..Len(agenda) /\ D!Todo = agenda[1] /\ agenda[1] \in Items
  <2> HIDE DEF Items
  <2> QED
    BY <1>1 DEF D!Todo
<1>3. agenda[1].path # <<>>
  BY <1>2 DEF WalkTypes
<1> QED
  BY <1>2, <1>3 DEF Items

\* A visit keeps the agenda right and in order and forgets nothing, when the
\* places below are those that the document has there.
LEMMA VisitKeeps ==
    ASSUME D!WellTyped, WalkInv, docPc = "device",
           NEW items \in Seq(Items), D!Visit(items), hashed' = hashed,
           \A k \in 1..Len(items) :
               /\ items[k].path = Append(D!Todo.path, k - 1)
               /\ D!Contents(doc, items[k].path).kind # "nothing" =>
                      D!Contents(doc, items[k].path).type = items[k].type,
           \A q \in Seq(Nat) :
               GoesOn(D!Todo.path, q) /\ D!Contents(doc, q).kind = "value" =>
                   \E k \in 1..Len(items) : GoesOn(items[k].path, q)
    PROVE  WalkInv'
<1> DEFINE here == D!Todo.path
           n == Len(items)
<1>1. /\ WalkTypes /\ AgendaRight /\ Ordered /\ NoneForgotten /\ HashedRight
  BY DEF WalkInv
<1>2. /\ Len(agenda) \in Nat \ {0} /\ 1 \in 1..Len(agenda) /\ D!Todo = agenda[1]
      /\ here \in Seq(Nat) /\ here # <<>> /\ agenda \in Seq(Items) /\ agenda # <<>>
  <2>1. agenda \in Seq(Items) /\ agenda # <<>>
    BY <1>1 DEF WalkTypes, Talking
  <2> QED
    BY <1>1, <2>1, TodoFacts DEF Talking
<1>3. /\ agenda' = items \o Tail(agenda)
      /\ docPc' = IF agenda' = <<>> THEN "done" ELSE "host"
      /\ have' = D!None /\ total' = D!None /\ pieces' = <<>>
      /\ doc' = doc /\ chunked' = chunked /\ hashed' = hashed
  BY DEF D!Visit
<1>4. /\ agenda' \in Seq(Items) /\ n \in Nat
      /\ \A k \in 1..n : k \in 1..Len(agenda') /\ agenda'[k] = items[k]
      /\ \A k \in 2..Len(agenda) : n + k - 1 \in 1..Len(agenda') /\ agenda'[n + k - 1] = agenda[k]
      /\ \A k \in 1..Len(agenda') :
           \/ k \in 1..n
           \/ k - n + 1 \in 2..Len(agenda) /\ agenda'[k] = agenda[k - n + 1]
  <2> HIDE DEF Items
  <2> QED
    BY <1>2, <1>3, AgendaAfterVisit
<1> HIDE DEF here, n
<1>5. /\ \A k \in 1..n : items[k].path = Append(here, k - 1)
      /\ \A k \in 1..Len(agenda) : agenda[k].path \in Seq(Nat) /\ agenda[k].path # <<>>
      /\ \A k \in 1..Len(hashed) : hashed[k].path \in Seq(Nat)
  <2>1. \A k \in 1..Len(agenda) : agenda[k] \in Items
    <3> HIDE DEF Items
    <3> QED
      BY <1>2
  <2>2. \A k \in 1..Len(hashed) : hashed[k] \in [path : Seq(Nat), pieces : Seq(Bytes)]
    <3> DEFINE R == [path : Seq(Nat), pieces : Seq(Bytes)]
    <3>1. hashed \in Seq(R)
      BY <1>1 DEF WalkTypes
    <3> HIDE DEF R
    <3>2. \A k \in 1..Len(hashed) : hashed[k] \in R
      BY <3>1
    <3> QED
      BY <3>2 DEF R
  <2> QED
    BY <1>1, <2>1, <2>2 DEF Items, WalkTypes, here, n
<1>a. \A k \in 1..n : k - 1 \in Nat /\ agenda'[k].path = Append(here, k - 1)
  <2> SUFFICES ASSUME NEW k \in 1..n PROVE k - 1 \in Nat /\ agenda'[k].path = Append(here, k - 1)
    OBVIOUS
  <2>1. k - 1 \in Nat
    BY <1>4
  <2>2. agenda'[k] = items[k]
    BY <1>4
  <2>3. items[k].path = Append(here, k - 1)
    BY <1>5
  <2> QED
    BY <2>1, <2>2, <2>3
<1>6. WalkTypes'
  <2>1. ASSUME NEW k \in 1..Len(agenda') PROVE agenda'[k].path # <<>>
    <3>1. CASE k \in 1..n
      <4>1. agenda'[k].path = Append(here, k - 1) /\ k - 1 \in Nat
        BY <1>a, <3>1
      <4>2. \A i \in Nat : Append(here, i) # <<>>
        <5>1. here \in Seq(Nat)
          BY <1>2
        <5> QED
          BY <5>1, PathBelow, Zenon
      <4> QED
        BY <4>1, <4>2
    <3>2. CASE k - n + 1 \in 2..Len(agenda) /\ agenda'[k] = agenda[k - n + 1]
      BY <1>2, <1>5, <3>2
    <3> QED
      BY <1>4, <3>1, <3>2
  <2>2. pieces' \in Seq(Bytes)
    BY <1>3
  <2> HIDE DEF Items, Bytes
  <2> QED
    BY <1>1, <1>3, <1>4, <2>1, <2>2 DEF WalkTypes, Talking
<1>7. AgendaRight'
  <2> SUFFICES ASSUME NEW k \in 1..Len(agenda')
               PROVE  D!Contents(doc, agenda'[k].path).kind # "nothing" =>
                          D!Contents(doc, agenda'[k].path).type = agenda'[k].type
    BY <1>3 DEF AgendaRight
  <2>1. CASE k \in 1..n
    BY <1>4, <2>1 DEF n
  <2>2. CASE k - n + 1 \in 2..Len(agenda) /\ agenda'[k] = agenda[k - n + 1]
    <3>1. k - n + 1 \in 1..Len(agenda)
      BY <1>2, <2>2
    <3> QED
      BY <1>1, <2>2, <3>1 DEF AgendaRight
  <2> QED
    BY <1>4, <2>1, <2>2
<1>8. Ordered'
  <2>1. ASSUME NEW i \in 1..Len(hashed), NEW j \in 1..Len(agenda')
        PROVE  D!Before(hashed[i].path, agenda'[j].path)
    <3>1. CASE j \in 1..n
      <4>1. agenda'[j].path = Append(here, j - 1) /\ j - 1 \in Nat
        BY <1>a, <3>1
      <4>2. D!Before(hashed[i].path, here)
        BY <1>1, <1>2 DEF Ordered, here
      <4> QED
        BY <1>2, <1>5, <4>1, <4>2, ChildOrdered
    <3>2. CASE j - n + 1 \in 2..Len(agenda) /\ agenda'[j] = agenda[j - n + 1]
      <4>1. j - n + 1 \in 1..Len(agenda)
        BY <1>2, <3>2
      <4> QED
        BY <1>1, <3>2, <4>1 DEF Ordered
    <3> QED
      BY <1>4, <3>1, <3>2
  <2>2. ASSUME NEW i \in 1..Len(agenda'), NEW j \in 1..Len(agenda'), i < j
        PROVE  D!Before(agenda'[i].path, agenda'[j].path)
    <3>1. CASE i \in 1..n /\ j \in 1..n
      <4>1. agenda'[i].path = Append(here, i - 1) /\ agenda'[j].path = Append(here, j - 1)
            /\ i - 1 \in Nat /\ j - 1 \in Nat /\ i - 1 < j - 1
        BY <1>4, <1>a, <2>2, <3>1
      <4> QED
        BY <1>2, <4>1, SiblingsOrdered
    <3>2. CASE i \in 1..n /\ j - n + 1 \in 2..Len(agenda) /\ agenda'[j] = agenda[j - n + 1]
      <4>1. agenda'[i].path = Append(here, i - 1) /\ i - 1 \in Nat
        BY <1>a, <3>2
      <4>2. j - n + 1 \in 1..Len(agenda) /\ 1 < j - n + 1
        BY <1>2, <3>2
      <4>3. D!Before(here, agenda'[j].path)
        BY <1>1, <1>2, <3>2, <4>2 DEF Ordered, here
      <4>4. agenda'[j].path \in Seq(Nat)
        BY <1>5, <3>2, <4>2
      <4> QED
        BY <1>2, <4>1, <4>3, <4>4, ChildOrdered
    <3>3. CASE /\ i - n + 1 \in 2..Len(agenda) /\ agenda'[i] = agenda[i - n + 1]
               /\ j - n + 1 \in 2..Len(agenda) /\ agenda'[j] = agenda[j - n + 1]
      <4>1. i - n + 1 \in 1..Len(agenda) /\ j - n + 1 \in 1..Len(agenda) /\ i - n + 1 < j - n + 1
        BY <1>2, <1>4, <2>2, <3>3
      <4> QED
        BY <1>1, <3>3, <4>1 DEF Ordered
    <3>4. j \in 1..n => i \in 1..n
      BY <1>4, <2>2
    <3> QED
      BY <1>4, <3>1, <3>2, <3>3, <3>4
  <2> QED
    BY <1>1, <1>3, <2>1, <2>2 DEF Ordered
<1>9. NoneForgotten'
  <2> SUFFICES ASSUME NEW q \in Seq(Nat), q # <<>>, D!Contents(doc, q).kind = "value",
                      ~ \E i \in 1..Len(hashed) : hashed[i].path = q
               PROVE  \E i \in 1..Len(agenda') : GoesOn(agenda'[i].path, q)
    BY <1>3 DEF NoneForgotten, Remembered
  <2>1. PICK i \in 1..Len(agenda) : GoesOn(agenda[i].path, q)
    BY <1>1 DEF NoneForgotten, Remembered
  <2>2. CASE i = 1
    <3>1. PICK k \in 1..n : GoesOn(items[k].path, q)
      BY <1>2, <2>1, <2>2 DEF n
    <3> QED
      BY <1>4, <3>1
  <2>3. CASE i # 1
    <3>1. i \in 2..Len(agenda)
      BY <1>2, <2>3
    <3> QED
      BY <1>4, <2>1, <3>1
  <2> QED
    BY <2>2, <2>3
<1>10. HashedRight'
  BY <1>1, <1>3 DEF HashedRight
<1>11. InHand' /\ Answered'
  BY <1>3 DEF InHand, Answered
<1> QED
  BY <1>6, <1>7, <1>8, <1>9, <1>10, <1>11 DEF WalkInv

-----------------------------------------------------------------------------
\* What the device's question is about, and what the host said.
LEMMA AtHand ==
    ASSUME D!WellTyped, WalkInv, Talking
    PROVE  LET p == D!Todo.path
               here == D!Contents(doc, p)
           IN  /\ p \in Seq(Nat) /\ p # <<>> /\ D!Todo.type \in D!Descriptors
               /\ here.kind \in {"length", "value", "struct", "nothing"}
               /\ here.kind # "nothing" => here.type = D!Todo.type
               /\ here.kind = "length" =>
                    D!Todo.type.levels # <<>> /\ here.value.items \in Seq(Values)
               /\ here.kind = "value" =>
                    /\ D!Todo.type.levels = <<>> /\ D!Todo.type.base \in D!LeafTypes
                    /\ here.value \in Values /\ here.value.length \in Nat
                    /\ here.value.kind \in D!LeafTypes
               /\ here.kind = "struct" =>
                    D!Todo.type.levels = <<>> /\ D!Todo.type.base \in DOMAIN Types \ D!LeafTypes
<1> DEFINE p == D!Todo.path
           here == D!Contents(doc, p)
<1>1. WalkTypes /\ AgendaRight /\ doc \in Documents
  BY DEF WalkInv, WalkTypes
<1>2. /\ p \in Seq(Nat) /\ p # <<>> /\ D!Todo.type \in D!Descriptors
      /\ 1 \in 1..Len(agenda) /\ D!Todo = agenda[1]
  BY <1>1, TodoFacts
<1>3. here.kind # "nothing" => here.type = D!Todo.type
  BY <1>1, <1>2 DEF AgendaRight
<1>4. /\ here.kind \in {"length", "value", "struct", "nothing"}
      /\ here.kind = "length" => here.type.levels # <<>>
      /\ here.kind = "value" => here.type.levels = <<>> /\ here.type.base \in D!LeafTypes
      /\ here.kind = "struct" => here.type.levels = <<>> /\ here.type.base \in DOMAIN Types \ D!LeafTypes
  BY <1>1, <1>2, KindOfPlace
<1>5. /\ here.kind = "length" => here.value.items \in Seq(Values)
      /\ here.kind = "value" => /\ here.value \in Values /\ here.value.length \in Nat
                                /\ here.value.kind \in D!LeafTypes
  BY <1>1, <1>2, HostAnswers
<1> HIDE DEF p, here
<1> QED
  BY <1>2, <1>3, <1>4, <1>5 DEF p, here

\* Whatever stands somewhere stands below the domain or below the message.
LEMMA TwoRoots ==
    ASSUME NEW q \in Seq(Nat), q # <<>>, D!Contents(doc, q).kind # "nothing"
    PROVE  q[1] \in {0, 1}
<1> DEFINE r == SubSeq(q, 1, 1)
<1>1. 1 \in 1..Len(q) /\ Len(r) = 1 /\ r[1] = q[1]
  OBVIOUS
<1>2. D!Contents(doc, r).kind # "nothing"
  BY <1>1, NothingBeyond
<1>3. Len(r) \in Nat \ {0}
  BY <1>1
<1> HIDE DEF r
<1>4. D!Contents(doc, r) = ContentsUpto(r)[Len(r)] /\ ContentsUpto(r)[1] = D!Top(doc, r[1])
  BY <1>3, ContentsByStep
<1>5. D!Contents(doc, r) = D!Top(doc, q[1])
  BY <1>1, <1>4
<1> QED
  BY <1>2, <1>5 DEF D!Top, D!Nothing

LEMMA WalkStarts ==
    ASSUME D!WellTyped, D!Init
    PROVE  WalkInv
<1>1. /\ doc \in Documents /\ chunked \in BOOLEAN /\ agenda = D!Start
      /\ have = D!None /\ total = D!None /\ pieces = <<>>
      /\ hashed = <<>> /\ docPc = "host"
  BY DEF D!Init
<1> DEFINE domain == [base |-> D!Domain, levels |-> <<>>]
           message == [base |-> doc.primary, levels |-> <<>>]
<1>2. /\ agenda = <<D!Item(<<0>>, domain), D!Item(<<1>>, message)>>
      /\ Len(agenda) = 2
      /\ agenda[1].path = <<0>> /\ agenda[1].type = domain
      /\ agenda[2].path = <<1>> /\ agenda[2].type = message
  BY <1>1 DEF D!Start, D!Item
<1>3. domain \in D!Descriptors /\ message \in D!Descriptors
  <2>1. <<>> \in Seq(Nat \cup {D!Malformed})
    OBVIOUS
  <2>2. D!Domain \in Identifiers /\ doc.primary \in Identifiers
    BY <1>1 DEF D!WellTyped
  <2>3. \A b \in Identifiers : [base |-> b, levels |-> <<>>] \in D!Descriptors
    BY <2>1 DEF D!Descriptors
  <2> QED
    BY <2>2, <2>3
<1> HIDE DEF domain, message
<1>4. agenda \in Seq(Items)
  <2>1. <<0>> \in Seq(Nat) /\ <<1>> \in Seq(Nat)
    OBVIOUS
  <2>2. D!Item(<<0>>, domain) \in Items /\ D!Item(<<1>>, message) \in Items
    BY <1>3, <2>1 DEF D!Item, Items
  <2> HIDE DEF Items
  <2> QED
    BY <1>2, <2>2
<1>5. WalkTypes
  <2>1. pieces \in Seq(Bytes) /\ hashed \in Seq([path : Seq(Nat), pieces : Seq(Bytes)])
    <3>1. \A S : <<>> \in Seq(S)
      OBVIOUS
    <3> QED
      BY <1>1, <3>1
  <2>2. Len(hashed) = 0 /\ agenda # <<>>
    BY <1>1, <1>2
  <2>3. \A i \in 1..Len(agenda) : agenda[i].path # <<>>
    BY <1>2
  <2> HIDE DEF Items, Bytes
  <2> QED
    BY <1>1, <1>4, <2>1, <2>2, <2>3 DEF WalkTypes
<1>6. /\ D!Contents(doc, <<0>>) = D!Top(doc, 0)
      /\ D!Contents(doc, <<1>>) = D!Top(doc, 1)
  <2>1. Len(<<0>>) = 1 /\ Len(<<1>>) = 1 /\ <<0>>[1] = 0 /\ <<1>>[1] = 1
    OBVIOUS
  <2>2. D!Contents(doc, <<0>>) = D!Top(doc, 0)
    BY <2>1, ContentsByStep
  <2>3. D!Contents(doc, <<1>>) = D!Top(doc, 1)
    BY <2>1, ContentsByStep
  <2> QED
    BY <2>2, <2>3
<1>7. AgendaRight
  <2>1. D!Top(doc, 0).type = domain /\ D!Top(doc, 1).type = message
    BY PlaceFacts DEF D!Top, domain, message
  <2>2. \A i \in 1..Len(agenda) : i = 1 \/ i = 2
    BY <1>2
  <2> QED
    BY <1>2, <1>6, <2>1, <2>2 DEF AgendaRight
<1>8. Ordered
  <2>1. D!Before(<<0>>, <<1>>)
    BY DEF D!Before
  <2>2. \A i, j \in 1..Len(agenda) : i < j => i = 1 /\ j = 2
    BY <1>2
  <2>3. Len(hashed) = 0
    BY <1>1
  <2> QED
    BY <1>2, <2>1, <2>2, <2>3 DEF Ordered
<1>9. NoneForgotten
  <2> SUFFICES ASSUME NEW q \in Seq(Nat), q # <<>>, D!Contents(doc, q).kind = "value"
               PROVE  \E i \in 1..Len(agenda) : GoesOn(agenda[i].path, q)
    BY DEF NoneForgotten, Remembered
  <2>1. 1 \in 1..Len(q)
    OBVIOUS
  <2>4. q[1] \in {0, 1}
    BY TwoRoots
  <2>5. GoesOn(<<q[1]>>, q)
    BY <2>1 DEF GoesOn
  <2>6. CASE q[1] = 0
    <3>1. GoesOn(agenda[1].path, q) /\ 1 \in 1..Len(agenda)
      BY <1>2, <2>5, <2>6
    <3> QED
      BY <3>1
  <2>7. CASE q[1] = 1
    <3>1. GoesOn(agenda[2].path, q) /\ 2 \in 1..Len(agenda)
      BY <1>2, <2>5, <2>7
    <3> QED
      BY <3>1
  <2> QED
    BY <2>4, <2>6, <2>7
<1>10. HashedRight
  BY <1>1 DEF HashedRight
<1>11. InHand /\ Answered
  BY <1>1 DEF InHand, Answered
<1> QED
  BY <1>5, <1>7, <1>8, <1>9, <1>10, <1>11 DEF WalkInv

LEMMA AnswerKeeps ==
    ASSUME D!WellTyped, WalkInv, D!Answer
    PROVE  WalkInv'
<1>1. /\ docPc = "host" /\ Talking /\ docPc' \in {"raised", "device"}
      /\ docPc' = "device" => answer' # D!Error
      /\ answer' = IF D!IsStruct(D!Todo) THEN D!StructMembers(D!Todo.type.base)
                   ELSE D!ValueAck(D!Todo.path, have)
      /\ doc' = doc /\ chunked' = chunked /\ agenda' = agenda /\ have' = have /\ total' = total
      /\ pieces' = pieces /\ hashed' = hashed
  BY DEF D!Answer, D!Todo, D!reading, Talking
<1>2. /\ WalkTypes' /\ AgendaRight' /\ Ordered' /\ NoneForgotten' /\ HashedRight'
  BY <1>1 DEF WalkInv, WalkTypes, AgendaRight, Ordered, NoneForgotten, Remembered, HashedRight, Talking
<1>3. InHand'
  BY <1>1 DEF WalkInv, InHand, Talking, Gathered, D!Todo
<1>4. Answered'
  <2> SUFFICES ASSUME docPc' = "device"
               PROVE  /\ answer' # D!Error
                      /\ IF D!IsStruct(D!Todo) THEN answer' = D!StructMembers(D!Todo.type.base)
                         ELSE \/ /\ D!Contents(doc, D!Todo.path).kind = "length" /\ have = D!None
                                 /\ Len(D!Contents(doc, D!Todo.path).value.items) <= MaxArray
                                 /\ answer' = [kind |-> "length",
                                               length |-> Len(D!Contents(doc, D!Todo.path).value.items)]
                              \/ /\ D!Contents(doc, D!Todo.path).kind = "value"
                                 /\ answer' = OfValue(D!Todo.path, have, D!Contents(doc, D!Todo.path).value)
    BY <1>1 DEF Answered, D!Todo, OfValue, D!IsStruct, D!StructMembers
  <2>1. D!Todo.path \in Seq(Nat) /\ D!Todo.path # <<>> /\ doc \in Documents
    BY <1>1, AtHand DEF WalkInv, WalkTypes
  <2> QED
    BY <1>1, <2>1, HostAnswers
<1> QED
  BY <1>2, <1>3, <1>4 DEF WalkInv

\* A place that the host has answered for fits, and the host has said how many
\* there are below it.
LEMMA AnsweredFits ==
    ASSUME D!WellTyped, WalkInv, docPc = "device"
    PROVE  LET here == D!Contents(doc, D!Todo.path)
           IN  /\ here.kind # "nothing" => D!Fits(D!Todo.path)
               /\ answer.kind = "members" => /\ here.kind \in {"struct", "nothing"}
                                             /\ D!Todo.type.base \in DOMAIN Types
                                             /\ answer.members = Types[D!Todo.type.base]
                                             /\ here.kind = "struct" => here.type = D!Todo.type
               /\ answer.kind = "length" => here.kind = "length" /\ answer.length = Len(here.value.items)
               /\ answer.kind = "value" => here.kind = "value"
<1> DEFINE p == D!Todo.path
           here == D!Contents(doc, p)
           base == D!Todo.type.base
<1>1. Talking /\ answer # D!Error
  BY DEF WalkInv, Answered, Talking
<1>2. /\ here.kind \in {"length", "value", "struct", "nothing"}
      /\ here.kind # "nothing" => here.type = D!Todo.type
      /\ here.kind = "length" => D!Todo.type.levels # <<>>
      /\ here.kind = "value" =>
           /\ D!Todo.type.levels = <<>> /\ base \in D!LeafTypes /\ here.value.length \in Nat
      /\ here.kind = "struct" => D!Todo.type.levels = <<>> /\ base \notin D!LeafTypes
  BY <1>1, AtHand
<1>3. IF D!IsStruct(D!Todo) THEN answer = D!StructMembers(base)
      ELSE \/ /\ here.kind = "length" /\ have = D!None
              /\ Len(here.value.items) <= MaxArray
              /\ answer = [kind |-> "length", length |-> Len(here.value.items)]
           \/ here.kind = "value" /\ answer = OfValue(p, have, here.value)
  BY DEF WalkInv, Answered
<1>4. CASE D!IsStruct(D!Todo)
  <2>1. here.kind \in {"struct", "nothing"}
    BY <1>2, <1>4 DEF D!IsStruct
  <2>2. base \in DOMAIN Types /\ answer.members = Types[base] /\ answer.kind = "members"
    BY <1>1, <1>3, <1>4 DEF D!StructMembers
  <2>3. here.kind = "struct" => D!Fits(p)
    BY <1>1, <1>2, <1>3, <1>4 DEF D!Fits
  <2> HIDE DEF here, p, base
  <2> QED
    BY <1>2, <2>1, <2>2, <2>3 DEF here, p, base
<1>5. CASE ~D!IsStruct(D!Todo) /\ here.kind = "length"
  <2>1. Len(here.value.items) <= MaxArray /\ answer = [kind |-> "length", length |-> Len(here.value.items)]
    BY <1>3, <1>5
  <2>2. D!Fits(p)
    BY <1>5, <2>1 DEF D!Fits
  <2> HIDE DEF here, p
  <2>3. answer.kind = "length" /\ answer.length = Len(here.value.items)
    BY <2>1
  <2> QED
    BY <1>5, <2>2, <2>3 DEF here, p
<1>6. CASE ~D!IsStruct(D!Todo) /\ here.kind = "value"
  <2> DEFINE v == here.value
  <2>1. answer = OfValue(p, have, v) /\ v.length \in Nat /\ have \in Nat \cup {D!None}
    BY <1>2, <1>3, <1>6 DEF WalkInv, WalkTypes
  <2>2. have # D!None => chunked
    BY <1>1 DEF WalkInv, InHand
  <2> HIDE DEF v, here, p
  <2>3. MaxValue \in Nat /\ MaxLeaf \in Nat
    BY DEF D!WellTyped
  <2>4. v.length <= MaxValue /\ (v.length > MaxLeaf => chunked /\ p[1] # 0)
    BY <1>1, <2>1, <2>2, <2>3 DEF OfValue
  <2>5. answer.kind = "value"
    BY <1>1, <2>1, PieceFacts
  <2>6. D!Fits(p)
    BY <1>6, <2>4 DEF D!Fits, here, v
  <2> QED
    BY <1>6, <2>5, <2>6 DEF here, p
<1> QED
  BY <1>3, <1>4, <1>5, <1>6

-----------------------------------------------------------------------------
\* The members of a struct are visited in its place, and so are the elements of
\* an array.
LEMMA MembersVisited ==
    ASSUME D!WellTyped, WalkInv, D!TakeMembers
    PROVE  \E items \in Seq(Items) :
               /\ D!Visit(items) /\ hashed' = hashed
               /\ D!Todo.type.base \in DOMAIN Types /\ Len(items) = Len(Types[D!Todo.type.base])
               /\ \A k \in 1..Len(items) :
                    /\ items[k].path = Append(D!Todo.path, k - 1) /\ k - 1 \in Nat
                    /\ items[k].type = Types[D!Todo.type.base][k].type
<1> DEFINE p == D!Todo.path
           base == D!Todo.type.base
           members == Types[base]
           items == [i \in DOMAIN members |-> D!Item(Append(p, i - 1), members[i].type)]
<1>1. docPc = "device" /\ Talking /\ answer.kind = "members"
  BY DEF D!TakeMembers, Talking
<1>3. base \in DOMAIN Types /\ answer.members = members
  BY <1>1, AnsweredFits
<1>4. /\ members \in Seq([name : Identifiers, type : D!Descriptors])
      /\ \A i \in 1..Len(members) : members[i].type \in D!Descriptors
  <2> DEFINE F == [name : Identifiers, type : D!Descriptors]
  <2>1. members \in Seq(F)
    BY <1>3 DEF D!WellTyped
  <2> HIDE DEF F
  <2>2. \A i \in 1..Len(members) : members[i] \in F
    BY <2>1
  <2> QED
    BY <2>1, <2>2 DEF F
<1>5. D!Visit(items) /\ hashed' = hashed
  BY <1>3 DEF D!TakeMembers
<1>6. p \in Seq(Nat)
  BY <1>1, AtHand
<1> HIDE DEF p, base
<1>7. /\ items \in Seq(Items) /\ Len(items) = Len(members)
      /\ \A k \in 1..Len(items) : /\ items[k].path = Append(p, k - 1) /\ k - 1 \in Nat
                                  /\ items[k].type = members[k].type
  <2>1. DOMAIN members = 1..Len(members) /\ Len(members) \in Nat
    BY <1>4
  <2>2. ASSUME NEW k \in 1..Len(members)
        PROVE  /\ D!Item(Append(p, k - 1), members[k].type) \in Items
               /\ D!Item(Append(p, k - 1), members[k].type).path = Append(p, k - 1) /\ k - 1 \in Nat
               /\ D!Item(Append(p, k - 1), members[k].type).type = members[k].type
    <3>1. k - 1 \in Nat
      BY <2>1
    <3>2. Append(p, k - 1) \in Seq(Nat)
      BY <1>6, <3>1, PathBelow
    <3>3. members[k].type \in D!Descriptors
      BY <1>4
    <3> QED
      BY <3>1, <3>2, <3>3 DEF D!Item, Items
  <2> HIDE DEF Items, members
  <2>3. items = [k \in 1..Len(members) |-> D!Item(Append(p, k - 1), members[k].type)]
    BY <2>1
  <2>4. items \in Seq(Items) /\ Len(items) = Len(members)
    BY <2>1, <2>2, <2>3
  <2>5. \A k \in 1..Len(members) : items[k] = D!Item(Append(p, k - 1), members[k].type)
    BY <2>3
  <2> QED
    BY <2>2, <2>4, <2>5
<1> HIDE DEF items, members
<1> QED
  BY <1>3, <1>5, <1>7 DEF p, base, members

LEMMA MembersKeep ==
    ASSUME D!WellTyped, WalkInv, D!TakeMembers
    PROVE  WalkInv'
<1> DEFINE p == D!Todo.path
           here == D!Contents(doc, p)
           base == D!Todo.type.base
           members == Types[base]
<1>1. docPc = "device" /\ Talking /\ answer.kind = "members"
  BY DEF D!TakeMembers, Talking
<1>6. /\ p \in Seq(Nat) /\ p # <<>>
      /\ here.kind \in {"struct", "nothing"}
      /\ here.kind = "struct" => here.type = D!Todo.type
  BY <1>1, AtHand, AnsweredFits
<1>7. PICK items \in Seq(Items) :
        /\ D!Visit(items) /\ hashed' = hashed
        /\ base \in DOMAIN Types /\ Len(items) = Len(members)
        /\ \A k \in 1..Len(items) : /\ items[k].path = Append(p, k - 1) /\ k - 1 \in Nat
                                    /\ items[k].type = members[k].type
  BY MembersVisited
<1> HIDE DEF here, p, base
<1>8. ASSUME NEW k \in 1..Len(items), D!Contents(doc, items[k].path).kind # "nothing"
      PROVE  D!Contents(doc, items[k].path).type = items[k].type
  <2>1. D!Contents(doc, items[k].path) = D!Enter(here, k - 1)
    <3>1. items[k].path = Append(p, k - 1) /\ k - 1 \in Nat
      BY <1>7
    <3> QED
      BY <1>6, <3>1, ContentsChild DEF here
  <2>2. D!Nothing.kind = "nothing"
    BY DEF D!Nothing
  <2>3. here.kind = "struct" /\ here.type.base = base
    <3> QED
      BY <1>6, <1>8, <2>1, <2>2 DEF D!Enter, base
  <2>4. D!Enter(here, k - 1) = D!Nothing \/ D!Enter(here, k - 1) = D!Member(here, k)
    <3>1. k - 1 + 1 = k
      BY <1>7
    <3> QED
      BY <2>3, <3>1 DEF D!Enter
  <2>5. D!Member(here, k) = D!Nothing \/ D!Member(here, k).type = members[k].type
    BY <2>3, PlaceFacts DEF D!Member
  <2> QED
    BY <1>7, <1>8, <2>1, <2>2, <2>4, <2>5
<1>9. ASSUME NEW q \in Seq(Nat), GoesOn(p, q), D!Contents(doc, q).kind = "value"
      PROVE  \E k \in 1..Len(items) : GoesOn(items[k].path, q)
  <2>1. D!Nothing.kind = "nothing"
    BY DEF D!Nothing
  <2>2. here.kind # "nothing" /\ (q = p \/ \E i \in Nat : GoesOn(Append(p, i), q)
                                                          /\ D!Enter(here, i).kind # "nothing")
    BY <1>6, <1>9, GoesFurther DEF here
  <2>3. here.kind = "struct" /\ here.type.base = base /\ q # p
    BY <1>6, <1>9, <2>2 DEF here, base
  <2>4. PICK i \in Nat : GoesOn(Append(p, i), q) /\ D!Enter(here, i).kind # "nothing"
    BY <2>2, <2>3
  <2>5. i < Len(members)
    BY <2>1, <2>3, <2>4 DEF D!Enter
  <2> HIDE DEF members
  <2>6. i + 1 \in 1..Len(items) /\ (i + 1) - 1 = i
    <3>1. Len(items) \in Nat
      OBVIOUS
    <3> QED
      BY <1>7, <2>5, <3>1
  <2> QED
    BY <1>7, <2>4, <2>6
<1> QED
  BY <1>1, <1>7, <1>8, <1>9, VisitKeeps DEF p

LEMMA LengthVisited ==
    ASSUME D!WellTyped, WalkInv, D!TakeLength
    PROVE  LET here == D!Contents(doc, D!Todo.path)
               type == [base |-> here.type.base, levels |-> D!Front(here.type.levels)]
           IN  \E items \in Seq(Items) :
                 /\ D!Visit(items) /\ hashed' = hashed /\ Len(items) = Len(here.value.items)
                 /\ \A k \in 1..Len(items) :
                      /\ items[k].path = Append(D!Todo.path, k - 1) /\ k - 1 \in Nat
                      /\ items[k].type = type
<1> DEFINE p == D!Todo.path
           here == D!Contents(doc, p)
           n == Len(here.value.items)
           type == [D!Todo.type EXCEPT !.levels = D!Front(@)]
           items == [i \in 1..n |-> D!Item(Append(p, i - 1), type)]
<1>1. docPc = "device" /\ Talking /\ answer.kind = "length"
  BY DEF D!TakeLength, Talking
<1>2. here.kind = "length" /\ answer.length = n
  BY <1>1, AnsweredFits
<1>3. D!Visit(items) /\ hashed' = hashed
  BY <1>2 DEF D!TakeLength
<1>4. /\ p \in Seq(Nat) /\ here.type = D!Todo.type /\ here.value.items \in Seq(Values)
      /\ D!Todo.type \in D!Descriptors /\ D!Todo.type.levels # <<>>
  BY <1>1, <1>2, AtHand
<1>5. /\ type \in D!Descriptors
      /\ type = [base |-> here.type.base, levels |-> D!Front(here.type.levels)]
  <2>1. /\ D!Todo.type.base \in Identifiers /\ D!Todo.type.levels \in Seq(Nat \cup {D!Malformed})
        /\ D!Todo.type = [base |-> D!Todo.type.base, levels |-> D!Todo.type.levels]
    BY <1>4 DEF D!Descriptors
  <2>2. type = [base |-> D!Todo.type.base, levels |-> D!Front(D!Todo.type.levels)]
    BY <2>1
  <2>3. D!Front(D!Todo.type.levels) \in Seq(Nat \cup {D!Malformed})
    <3>1. \A S : \A s \in Seq(S) : s # <<>> => SubSeq(s, 1, Len(s) - 1) \in Seq(S)
      OBVIOUS
    <3> QED
      BY <1>4, <2>1, <3>1 DEF D!Front
  <2> HIDE DEF type
  <2> QED
    BY <1>4, <2>1, <2>2, <2>3 DEF D!Descriptors
<1> HIDE DEF type
<1>6. n \in Nat
  BY <1>4
<1> HIDE DEF here, p, n
<1>7. /\ items \in Seq(Items) /\ Len(items) = n
      /\ \A k \in 1..n : /\ items[k].path = Append(p, k - 1) /\ k - 1 \in Nat
                         /\ items[k].type = type
  <2>1. ASSUME NEW k \in 1..n
        PROVE  /\ D!Item(Append(p, k - 1), type) \in Items
               /\ D!Item(Append(p, k - 1), type).path = Append(p, k - 1) /\ k - 1 \in Nat
               /\ D!Item(Append(p, k - 1), type).type = type
    <3>1. k - 1 \in Nat
      BY <1>6
    <3>2. Append(p, k - 1) \in Seq(Nat)
      BY <1>4, <3>1, PathBelow
    <3> QED
      BY <1>5, <3>1, <3>2 DEF D!Item, Items
  <2> HIDE DEF Items
  <2>2. items \in Seq(Items) /\ Len(items) = n
    BY <1>6, <2>1
  <2>3. \A k \in 1..n : items[k] = D!Item(Append(p, k - 1), type)
    OBVIOUS
  <2> QED
    BY <2>1, <2>2, <2>3
<1> HIDE DEF items
<1> QED
  BY <1>3, <1>5, <1>7 DEF here, p, n

LEMMA LengthKeeps ==
    ASSUME D!WellTyped, WalkInv, D!TakeLength
    PROVE  WalkInv'
<1> DEFINE p == D!Todo.path
           here == D!Contents(doc, p)
           n == Len(here.value.items)
           type == [base |-> here.type.base, levels |-> D!Front(here.type.levels)]
<1>1. docPc = "device" /\ Talking /\ answer.kind = "length"
  BY DEF D!TakeLength, Talking
<1>2. here.kind = "length"
  BY <1>1, AnsweredFits
<1>4. p \in Seq(Nat) /\ p # <<>> /\ here.value.items \in Seq(Values)
  BY <1>1, <1>2, AtHand
<1>5. n \in Nat
  BY <1>4
<1>6. PICK items \in Seq(Items) :
        /\ D!Visit(items) /\ hashed' = hashed /\ Len(items) = n
        /\ \A k \in 1..Len(items) : /\ items[k].path = Append(p, k - 1) /\ k - 1 \in Nat
                                    /\ items[k].type = type
  BY LengthVisited
<1>7. Len(items) = n /\ \A k \in 1..n : /\ items[k].path = Append(p, k - 1) /\ k - 1 \in Nat
                                        /\ items[k].type = type
  BY <1>6
<1> HIDE DEF here, p, n
<1>8. ASSUME NEW k \in 1..Len(items), D!Contents(doc, items[k].path).kind # "nothing"
      PROVE  D!Contents(doc, items[k].path).type = items[k].type
  <2>1. items[k].path = Append(p, k - 1) /\ k - 1 \in Nat /\ items[k].type = type
    BY <1>7
  <2>2. D!Contents(doc, items[k].path) = D!Enter(here, k - 1)
    BY <1>4, <2>1, ContentsChild DEF here
  <2>3. D!Nothing.kind = "nothing"
    BY DEF D!Nothing
  <2>4. D!Enter(here, k - 1) = D!Nothing
        \/ D!Enter(here, k - 1) = D!Element(here, (k - 1) + 1)
    BY <1>2 DEF D!Enter
  <2>5. D!Element(here, (k - 1) + 1).type = type
    BY PlaceFacts DEF D!Element
  <2> QED
    BY <1>8, <2>1, <2>2, <2>3, <2>4, <2>5
<1>9. ASSUME NEW q \in Seq(Nat), GoesOn(p, q), D!Contents(doc, q).kind = "value"
      PROVE  \E k \in 1..Len(items) : GoesOn(items[k].path, q)
  <2>1. D!Nothing.kind = "nothing"
    BY DEF D!Nothing
  <2>2. q = p \/ \E i \in Nat : GoesOn(Append(p, i), q) /\ D!Enter(here, i).kind # "nothing"
    BY <1>4, <1>9, GoesFurther DEF here
  <2>3. q # p
    BY <1>2, <1>9 DEF here
  <2>4. PICK i \in Nat : GoesOn(Append(p, i), q) /\ D!Enter(here, i).kind # "nothing"
    BY <2>2, <2>3
  <2>5. i < n
    BY <1>2, <2>1, <2>4 DEF D!Enter, n
  <2>6. i + 1 \in 1..Len(items) /\ (i + 1) - 1 = i
    BY <1>5, <1>7, <2>5
  <2> QED
    BY <1>7, <2>4, <2>6
<1> QED
  BY <1>1, <1>6, <1>7, <1>8, <1>9, VisitKeeps DEF p

\* The piece that the host has answered with is the next one of the value.
LEMMA PieceAtHand ==
    ASSUME D!WellTyped, WalkInv, docPc = "device", answer.kind = "value"
    PROVE  LET v == D!Contents(doc, D!Todo.path).value
           IN  /\ D!Contents(doc, D!Todo.path).kind = "value"
               /\ v \in Values /\ v.kind \in D!LeafTypes /\ v.length \in Nat
               /\ answer.at = v.at /\ answer.from \in Nat /\ answer.to \in Nat
               /\ answer.from = (IF have = D!None THEN 0 ELSE have)
               /\ answer.to = D!Least(v.length, answer.from + MaxLeaf)
               /\ have # D!None => /\ chunked /\ v.length > MaxLeaf /\ have < v.length
                                   /\ total = v.length
               /\ have = D!None => /\ v.length > MaxLeaf => chunked /\ answer.total = v.length
                                   /\ v.length <= MaxLeaf => answer.total = D!None
               /\ have \in Nat \cup {D!None} /\ Gathered(pieces, v)
<1> DEFINE p == D!Todo.path
           here == D!Contents(doc, p)
           v == here.value
<1>1. Talking /\ have \in Nat \cup {D!None} /\ answer # D!Error
  BY DEF WalkInv, WalkTypes, Answered, Talking
<1>2. here.kind = "value" /\ answer = OfValue(p, have, v)
  <2>1. D!StructMembers(D!Todo.type.base).kind \in {"members", "error"}
    BY DEF D!StructMembers, D!Error
  <2>2. [kind |-> "length", length |-> Len(v.items)].kind = "length"
    OBVIOUS
  <2>3. \/ answer = D!StructMembers(D!Todo.type.base)
        \/ answer = [kind |-> "length", length |-> Len(v.items)]
        \/ here.kind = "value" /\ answer = OfValue(p, have, v)
    BY DEF WalkInv, Answered
  <2> HIDE DEF v, here, p
  <2> QED
    BY <2>1, <2>2, <2>3
<1>3. v \in Values /\ v.kind \in D!LeafTypes /\ v.length \in Nat
  BY <1>1, <1>2, AtHand
<1>4. IF have = D!None THEN pieces = <<>>
      ELSE Gathered(pieces, v) /\ chunked /\ total = v.length
  BY <1>1 DEF WalkInv, InHand
<1>5. have = D!None => Gathered(pieces, v)
  BY <1>4 DEF Gathered
<1> HIDE DEF v, here, p
<1>6. /\ answer.at = v.at /\ answer.from \in Nat /\ answer.to \in Nat
      /\ answer.from = (IF have = D!None THEN 0 ELSE have)
      /\ answer.to = D!Least(v.length, answer.from + MaxLeaf)
      /\ IF have # D!None THEN v.length > MaxLeaf /\ have < v.length
         ELSE IF v.length > MaxLeaf THEN chunked /\ answer.total = v.length
         ELSE answer.total = D!None
  BY <1>1, <1>2, <1>3, PieceFacts
<1>7. MaxLeaf \in Nat
  BY DEF D!WellTyped
<1> QED
  BY <1>1, <1>2, <1>3, <1>4, <1>5, <1>6, <1>7 DEF v, here, p

\* One more piece.
LEMMA OneMorePiece ==
    ASSUME D!WellTyped, WalkInv, docPc = "device", answer.kind = "value"
    PROVE  LET v == D!Contents(doc, D!Todo.path).value
               ps == D!Read
           IN  /\ ps \in Seq(Bytes) /\ ps # <<>>
               /\ \A k \in 1..Len(ps) : ps[k].at = v.at
               /\ \A k \in 1..Len(ps) - 1 : ps[k].to = ps[k + 1].from
               /\ ps[1].from = 0 /\ ps[Len(ps)].to = answer.to
<1> DEFINE v == D!Contents(doc, D!Todo.path).value
           new == [at |-> answer.at, from |-> answer.from, to |-> answer.to]
           ps == D!Read
<1>1. /\ v \in Values /\ v.kind \in D!LeafTypes
      /\ answer.at = v.at /\ answer.from \in Nat /\ answer.to \in Nat
      /\ answer.from = (IF have = D!None THEN 0 ELSE have)
      /\ Gathered(pieces, v)
  BY PieceAtHand
<1>2. pieces \in Seq(Bytes) /\ (have = D!None => pieces = <<>>)
  BY DEF WalkInv, WalkTypes, InHand, Talking
<1>3. new \in Bytes /\ new.at = v.at /\ new.from = answer.from /\ new.to = answer.to
  <2> HIDE DEF v
  <2> QED
    BY <1>1 DEF Bytes
<1>4. ps = Append(pieces, new)
  BY DEF D!Read
<1> HIDE DEF v, new, ps
<1>5. /\ ps \in Seq(Bytes) /\ ps # <<>> /\ Len(ps) = Len(pieces) + 1 /\ Len(pieces) \in Nat
      /\ \A k \in 1..Len(pieces) : ps[k] = pieces[k]
      /\ ps[Len(pieces) + 1] = new
  <2> HIDE DEF Bytes
  <2>1. Len(pieces) \in Nat
    BY <1>2
  <2> QED
    BY <1>2, <1>3, <1>4, <2>1, AppendProperties
<1>6. /\ \A k \in 1..Len(pieces) : pieces[k].at = v.at
      /\ \A k \in 1..Len(pieces) - 1 : pieces[k].to = pieces[k + 1].from
      /\ IF pieces = <<>> THEN have \in {D!None, 0}
         ELSE pieces[1].from = 0 /\ pieces[Len(pieces)].to = have
  BY <1>1 DEF Gathered
<1>7. ASSUME NEW k \in 1..Len(ps) PROVE ps[k].at = v.at
  <2>1. k \in 1..Len(pieces) \/ k = Len(pieces) + 1
    BY <1>5
  <2> QED
    BY <1>3, <1>5, <1>6, <2>1
<1>8. pieces = <<>> => answer.from = 0 /\ Len(pieces) = 0
  BY <1>1, <1>6
<1>9. pieces # <<>> =>
        Len(pieces) \in 1..Len(pieces) /\ 1 \in 1..Len(pieces) /\ pieces[Len(pieces)].to = answer.from
  <2> SUFFICES ASSUME pieces # <<>>
               PROVE  Len(pieces) \in 1..Len(pieces) /\ 1 \in 1..Len(pieces)
                      /\ pieces[Len(pieces)].to = answer.from
    OBVIOUS
  <2>1. Len(pieces) \in Nat \ {0}
    BY <1>2, EmptySeq
  <2>2. have # D!None
    BY <1>2
  <2> QED
    BY <1>1, <1>6, <2>1, <2>2
<1>10. ASSUME NEW k \in 1..Len(ps) - 1 PROVE ps[k].to = ps[k + 1].from
  <2>1. k \in 1..Len(pieces)
    BY <1>5
  <2>2. CASE k = Len(pieces)
    <3>1. pieces # <<>>
      BY <1>8, <2>1
    <3>2. ps[k] = pieces[Len(pieces)] /\ ps[k + 1] = new
      BY <1>5, <2>1, <2>2
    <3> QED
      BY <1>3, <1>9, <3>1, <3>2
  <2>3. CASE k # Len(pieces)
    <3>1. k \in 1..Len(pieces) - 1 /\ k + 1 \in 1..Len(pieces)
      BY <1>5, <2>1, <2>3
    <3>2. ps[k] = pieces[k] /\ ps[k + 1] = pieces[k + 1]
      BY <1>5, <2>1, <3>1
    <3> QED
      BY <1>6, <3>1, <3>2
  <2> QED
    BY <2>2, <2>3
<1>11. ps[1].from = 0
  <2>1. CASE pieces = <<>>
    <3>1. ps[1] = new
      BY <1>5, <1>8, <2>1
    <3> QED
      BY <1>3, <1>8, <2>1, <3>1
  <2>2. CASE pieces # <<>>
    BY <1>5, <1>6, <1>9, <2>2
  <2> QED
    BY <2>1, <2>2
<1>12. ps[Len(ps)].to = answer.to
  BY <1>3, <1>5
<1> QED
  BY <1>5, <1>7, <1>10, <1>11, <1>12 DEF v, ps

LEMMA ValueKeeps ==
    ASSUME D!WellTyped, WalkInv, D!TakeValue
    PROVE  WalkInv'
<1> DEFINE p == D!Todo.path
           here == D!Contents(doc, p)
           v == here.value
           new == [path |-> p, pieces |-> D!Read]
           n == Len(hashed)
           R == [path : Seq(Nat), pieces : Seq(Bytes)]
<1>1. /\ docPc = "device" /\ Talking /\ answer.kind = "value" /\ D!Whole
      /\ agenda' = <<>> \o Tail(agenda)
      /\ docPc' = IF agenda' = <<>> THEN "done" ELSE "host"
      /\ have' = D!None /\ total' = D!None /\ pieces' = <<>>
      /\ doc' = doc /\ chunked' = chunked
      /\ hashed' = Append(hashed, new)
  BY DEF D!TakeValue, D!Visit, Talking
<1>2. /\ WalkTypes /\ AgendaRight /\ Ordered /\ NoneForgotten /\ HashedRight
  BY DEF WalkInv
<1>3. /\ Len(agenda) \in Nat \ {0} /\ 1 \in 1..Len(agenda) /\ D!Todo = agenda[1]
      /\ p \in Seq(Nat) /\ p # <<>> /\ agenda \in Seq(Items) /\ agenda # <<>>
  <2>1. agenda \in Seq(Items) /\ agenda # <<>>
    BY <1>1, <1>2 DEF WalkTypes
  <2> QED
    BY <1>1, <1>2, <2>1, TodoFacts
<1>4. /\ agenda' \in Seq(Items)
      /\ \A k \in 2..Len(agenda) : k - 1 \in 1..Len(agenda') /\ agenda'[k - 1] = agenda[k]
      /\ \A k \in 1..Len(agenda') : k + 1 \in 2..Len(agenda) /\ agenda'[k] = agenda[k + 1]
  <2> DEFINE none == <<>>
  <2>1. none \in Seq(Items) /\ Len(none) = 0
    BY EmptySeq
  <2>2. agenda' = none \o Tail(agenda)
    BY <1>1
  <2> HIDE DEF none, Items
  <2>3. /\ agenda' \in Seq(Items)
        /\ \A k \in 2..Len(agenda) :
             Len(none) + k - 1 \in 1..Len(agenda') /\ agenda'[Len(none) + k - 1] = agenda[k]
        /\ \A k \in 1..Len(agenda') :
             \/ k \in 1..Len(none)
             \/ k - Len(none) + 1 \in 2..Len(agenda) /\ agenda'[k] = agenda[k - Len(none) + 1]
    BY <1>3, <2>1, <2>2, AgendaAfterVisit
  <2>4. ASSUME NEW k \in 2..Len(agenda) PROVE k - 1 \in 1..Len(agenda') /\ agenda'[k - 1] = agenda[k]
    <3>1. Len(none) + k - 1 = k - 1
      BY <2>1
    <3> QED
      BY <2>3, <3>1
  <2>5. ASSUME NEW k \in 1..Len(agenda')
        PROVE  k + 1 \in 2..Len(agenda) /\ agenda'[k] = agenda[k + 1]
    <3>1. k - Len(none) + 1 = k + 1 /\ k \notin 1..Len(none)
      BY <2>1
    <3> QED
      BY <2>3, <3>1
  <2> QED
    BY <2>3, <2>4, <2>5
<1>5. here.kind = "value" /\ v.length \in Nat /\ answer.to = v.length
  <2>1. /\ here.kind = "value" /\ v.length \in Nat /\ answer.from \in Nat /\ answer.to \in Nat
        /\ answer.from = (IF have = D!None THEN 0 ELSE have)
        /\ answer.to = D!Least(v.length, answer.from + MaxLeaf)
        /\ have # D!None => chunked /\ total = v.length
        /\ have = D!None => /\ v.length > MaxLeaf => chunked /\ answer.total = v.length
    BY <1>1, PieceAtHand
  <2>2. MaxLeaf \in Nat /\ D!None \notin Nat
    BY DEF D!WellTyped, D!None
  <2>3. CASE have # D!None
    BY <1>1, <2>1, <2>2, <2>3 DEF D!Whole, D!Length
  <2>4. CASE have = D!None /\ v.length > MaxLeaf
    BY <1>1, <2>1, <2>2, <2>4 DEF D!Whole, D!Length
  <2>5. CASE have = D!None /\ ~(v.length > MaxLeaf)
    <3>1. answer.to = D!Least(v.length, 0 + MaxLeaf)
      BY <2>1, <2>5
    <3> QED
      BY <2>1, <2>2, <2>5, <3>1 DEF D!Least
  <2> QED
    BY <2>1, <2>3, <2>4, <2>5
<1>6. D!Read \in Seq(Bytes) /\ D!Covers(D!Read, v)
  BY <1>1, <1>5, OneMorePiece DEF D!Covers
<1>7. new \in R /\ new.path = p /\ new.pieces = D!Read
  BY <1>3, <1>6
<1> HIDE DEF p, here, v, new, n
<1>8. /\ hashed \in Seq(R) /\ n \in Nat /\ n = Len(hashed)
      /\ hashed' \in Seq(R) /\ Len(hashed') = n + 1 /\ hashed'[n + 1] = new
      /\ \A k \in 1..n : hashed'[k] = hashed[k] /\ hashed[k].path # <<>>
  <2>1. hashed \in Seq(R) /\ \A k \in 1..Len(hashed) : hashed[k].path # <<>>
    BY <1>2 DEF WalkTypes
  <2> HIDE DEF R
  <2> QED
    BY <1>1, <1>7, <2>1, AppendProperties DEF n
<1> HIDE DEF R
<1>9. \A k \in 1..Len(hashed') : k \in 1..n \/ (k = n + 1 /\ hashed'[k] = new)
  <2>1. Len(hashed') = n + 1 /\ hashed'[n + 1] = new /\ n \in Nat
    BY <1>8
  <2>2. \A k \in 1..n + 1 : k \in 1..n \/ k = n + 1
    BY <2>1
  <2> SUFFICES ASSUME NEW k \in 1..Len(hashed') PROVE k \in 1..n \/ (k = n + 1 /\ hashed'[k] = new)
    OBVIOUS
  <2>3. k \in 1..n + 1
    BY <2>1
  <2>4. k \in 1..n \/ k = n + 1
    BY <2>2, <2>3
  <2> QED
    BY <2>1, <2>4
<1>10. WalkTypes'
  <2>1. ASSUME NEW k \in 1..Len(agenda') PROVE agenda'[k].path # <<>>
    <3>1. k + 1 \in 1..Len(agenda) /\ agenda'[k] = agenda[k + 1]
      BY <1>4
    <3> QED
      BY <1>2, <3>1 DEF WalkTypes
  <2>2. ASSUME NEW k \in 1..Len(hashed') PROVE hashed'[k].path # <<>>
    BY <1>3, <1>7, <1>8, <1>9
  <2>3. pieces' \in Seq(Bytes)
    BY <1>1
  <2> HIDE DEF Items, Bytes
  <2> QED
    BY <1>1, <1>2, <1>4, <1>8, <2>1, <2>2, <2>3 DEF WalkTypes, Talking, R
<1>11. AgendaRight'
  <2> SUFFICES ASSUME NEW k \in 1..Len(agenda')
               PROVE  D!Contents(doc, agenda'[k].path).kind # "nothing" =>
                          D!Contents(doc, agenda'[k].path).type = agenda'[k].type
    BY <1>1 DEF AgendaRight
  <2>1. k + 1 \in 1..Len(agenda) /\ agenda'[k] = agenda[k + 1]
    BY <1>4
  <2> QED
    BY <1>2, <2>1 DEF AgendaRight
<1>12. Ordered'
  <2>1. ASSUME NEW i \in 1..Len(hashed'), NEW j \in 1..Len(hashed'), i < j
        PROVE  D!Before(hashed'[i].path, hashed'[j].path)
    <3>1. i \in 1..n
      BY <1>8, <2>1
    <3>2. CASE j \in 1..n
      BY <1>2, <1>8, <2>1, <3>1, <3>2 DEF Ordered
    <3>3. CASE hashed'[j] = new
      BY <1>2, <1>3, <1>7, <1>8, <3>1, <3>3 DEF Ordered, p
    <3> QED
      BY <1>9, <3>2, <3>3
  <2>2. ASSUME NEW i \in 1..Len(hashed'), NEW j \in 1..Len(agenda')
        PROVE  D!Before(hashed'[i].path, agenda'[j].path)
    <3>1. j + 1 \in 1..Len(agenda) /\ agenda'[j] = agenda[j + 1] /\ 1 < j + 1
      BY <1>4
    <3>2. CASE i \in 1..n
      BY <1>2, <1>8, <3>1, <3>2 DEF Ordered
    <3>3. CASE hashed'[i] = new
      BY <1>2, <1>3, <1>7, <3>1, <3>3 DEF Ordered, p
    <3> QED
      BY <1>9, <3>2, <3>3
  <2>3. ASSUME NEW i \in 1..Len(agenda'), NEW j \in 1..Len(agenda'), i < j
        PROVE  D!Before(agenda'[i].path, agenda'[j].path)
    <3>1. /\ i + 1 \in 1..Len(agenda) /\ agenda'[i] = agenda[i + 1]
          /\ j + 1 \in 1..Len(agenda) /\ agenda'[j] = agenda[j + 1] /\ i + 1 < j + 1
      BY <1>4, <2>3
    <3> QED
      BY <1>2, <3>1 DEF Ordered
  <2> QED
    BY <2>1, <2>2, <2>3 DEF Ordered
<1>13. NoneForgotten'
  <2> SUFFICES ASSUME NEW q \in Seq(Nat), q # <<>>, D!Contents(doc, q).kind = "value",
                      ~ \E i \in 1..Len(hashed') : hashed'[i].path = q
               PROVE  \E i \in 1..Len(agenda') : GoesOn(agenda'[i].path, q)
    BY <1>1 DEF NoneForgotten, Remembered
  <2>1. ~ \E i \in 1..Len(hashed) : hashed[i].path = q
    BY <1>8
  <2>2. PICK i \in 1..Len(agenda) : GoesOn(agenda[i].path, q)
    BY <1>2, <2>1 DEF NoneForgotten, Remembered
  <2>3. q # p
    <3>1. n + 1 \in 1..Len(hashed') /\ hashed'[n + 1].path = p
      BY <1>7, <1>8
    <3> QED
      BY <3>1
  <2>4. i # 1
    <3> SUFFICES ASSUME GoesOn(p, q) PROVE FALSE
      BY <1>3, <2>2 DEF p
    <3>1. PICK k \in Nat : D!Enter(here, k).kind # "nothing"
      BY <1>3, <2>3, GoesFurther DEF here
    <3>2. D!Enter(here, k) = D!Nothing
      BY <1>5 DEF D!Enter
    <3> QED
      BY <3>1, <3>2 DEF D!Nothing
  <2>5. i \in 2..Len(agenda)
    BY <1>3, <2>4
  <2> QED
    BY <1>4, <2>2, <2>5
<1>14. HashedRight'
  <2> SUFFICES ASSUME NEW i \in 1..Len(hashed')
               PROVE  /\ D!Contents(doc, hashed'[i].path).kind = "value"
                      /\ D!Covers(hashed'[i].pieces, D!Contents(doc, hashed'[i].path).value)
    BY <1>1 DEF HashedRight
  <2>1. CASE i \in 1..n
    BY <1>2, <1>8, <2>1 DEF HashedRight
  <2>2. CASE hashed'[i] = new
    BY <1>5, <1>6, <1>7, <2>2 DEF here, v
  <2> QED
    BY <1>9, <2>1, <2>2
<1>15. InHand' /\ Answered'
  BY <1>1 DEF InHand, Answered
<1> QED
  BY <1>10, <1>11, <1>12, <1>13, <1>14, <1>15 DEF WalkInv

\* Reading on leaves everything as it is except for the value in hand.
LEMMA ReadOnKeeps ==
    ASSUME D!WellTyped, WalkInv, docPc = "device", NEW from \in Nat, NEW twice, NEW kept \in Seq(Bytes),
           D!ReadOn(from, twice, kept),
           LET here == D!Contents(doc, D!Todo.path)
           IN  /\ here.kind = "value" /\ chunked /\ D!Length = here.value.length
               /\ D!Length \in Nat /\ D!Length > MaxLeaf /\ from < D!Length
               /\ \A k \in 1..Len(kept) : kept[k].at = here.value.at
               /\ \A k \in 1..Len(kept) - 1 : kept[k].to = kept[k + 1].from
               /\ IF kept = <<>> THEN from = 0 ELSE kept[1].from = 0 /\ kept[Len(kept)].to = from
    PROVE  WalkInv'
<1>1. /\ have' = from /\ total' = D!Length /\ pieces' = kept /\ docPc' = "host"
      /\ doc' = doc /\ chunked' = chunked /\ agenda' = agenda /\ hashed' = hashed
  BY DEF D!ReadOn
<1>2. WalkTypes'
  <2>1. WalkTypes /\ agenda # <<>>
    BY DEF WalkInv, WalkTypes, Talking
  <2> HIDE DEF Items, Bytes
  <2> QED
    BY <1>1, <2>1 DEF WalkTypes, Talking
<1>3. /\ AgendaRight' /\ Ordered' /\ NoneForgotten' /\ HashedRight'
  BY <1>1 DEF WalkInv, AgendaRight, Ordered, NoneForgotten, Remembered, HashedRight
<1>4. InHand'
  <2> DEFINE here == D!Contents(doc, D!Todo.path)
  <2>1. from # D!None
    BY DEF D!None
  <2>2. here' = here
    BY <1>1 DEF D!Todo
  <2>3. /\ \A k \in 1..Len(pieces') : pieces'[k].at = here.value.at
        /\ \A k \in 1..Len(pieces') - 1 : pieces'[k].to = pieces'[k + 1].from
        /\ IF pieces' = <<>> THEN have' \in {D!None, 0}
           ELSE pieces'[1].from = 0 /\ pieces'[Len(pieces')].to = have'
    BY <1>1
  <2>4. Gathered(pieces, here.value)'
    BY <2>2, <2>3 DEF Gathered
  <2>5. /\ here.kind = "value" /\ chunked' /\ total' = here.value.length
        /\ total' > MaxLeaf /\ have' < total' /\ have' # D!None
    BY <1>1, <2>1
  <2> QED
    BY <2>2, <2>4, <2>5 DEF InHand
<1>5. Answered'
  BY <1>1 DEF Answered
<1> QED
  BY <1>2, <1>3, <1>4, <1>5 DEF WalkInv

LEMMA ChunkKeeps ==
    ASSUME D!WellTyped, WalkInv, D!TakeChunk
    PROVE  WalkInv'
<1> DEFINE here == D!Contents(doc, D!Todo.path)
           v == here.value
           ps == D!Read
<1>1. /\ docPc = "device" /\ answer.kind = "value" /\ ~D!Whole
      /\ D!ReadOn(answer.to, again, ps)
  BY DEF D!TakeChunk
<1>2. /\ here.kind = "value" /\ v.length \in Nat /\ answer.from \in Nat /\ answer.to \in Nat
      /\ answer.from = (IF have = D!None THEN 0 ELSE have)
      /\ answer.to = D!Least(v.length, answer.from + MaxLeaf)
      /\ have # D!None => chunked /\ v.length > MaxLeaf /\ have < v.length /\ total = v.length
      /\ have = D!None => /\ v.length > MaxLeaf => chunked /\ answer.total = v.length
                          /\ v.length <= MaxLeaf => answer.total = D!None
  BY <1>1, PieceAtHand
<1>3. /\ ps \in Seq(Bytes) /\ ps # <<>>
      /\ \A k \in 1..Len(ps) : ps[k].at = v.at
      /\ \A k \in 1..Len(ps) - 1 : ps[k].to = ps[k + 1].from
      /\ ps[1].from = 0 /\ ps[Len(ps)].to = answer.to
  BY <1>1, OneMorePiece
<1>4. MaxLeaf \in Nat \ {0}
  BY DEF D!WellTyped
<1>5. chunked /\ D!Length # D!None /\ answer.to # D!Length
  BY <1>1 DEF D!Whole
<1> HIDE DEF here, v, ps
<1>6. D!Length = v.length /\ v.length > MaxLeaf
  BY <1>2, <1>4, <1>5 DEF D!Length
<1>7. answer.to < v.length
  BY <1>2, <1>4, <1>5, <1>6 DEF D!Least
<1>8. /\ here.kind = "value" /\ chunked /\ D!Length = here.value.length
      /\ D!Length \in Nat /\ D!Length > MaxLeaf /\ answer.to < D!Length
      /\ \A k \in 1..Len(ps) : ps[k].at = here.value.at
      /\ IF ps = <<>> THEN answer.to = 0 ELSE ps[1].from = 0 /\ ps[Len(ps)].to = answer.to
  BY <1>2, <1>3, <1>5, <1>6, <1>7 DEF v
<1> QED
  BY <1>1, <1>2, <1>3, <1>8, ReadOnKeeps DEF here

LEMMA AgainKeeps ==
    ASSUME D!WellTyped, WalkInv, D!ReadAgain
    PROVE  WalkInv'
<1> DEFINE here == D!Contents(doc, D!Todo.path)
           v == here.value
           none == <<>>
<1>1. /\ docPc = "device" /\ answer.kind = "value" /\ have # D!None
      /\ D!ReadOn(0, TRUE, none)
  BY DEF D!ReadAgain
<1>2. /\ here.kind = "value" /\ v.length \in Nat
      /\ have # D!None => chunked /\ v.length > MaxLeaf /\ have < v.length /\ total = v.length
  BY <1>1, PieceAtHand
<1>3. MaxLeaf \in Nat \ {0}
  BY DEF D!WellTyped
<1>4. none \in Seq(Bytes) /\ none = <<>> /\ Len(none) = 0
  BY EmptySeq
<1> HIDE DEF here, v, none
<1>5. /\ here.kind = "value" /\ chunked /\ D!Length = here.value.length
      /\ D!Length \in Nat /\ D!Length > MaxLeaf /\ 0 < D!Length
  BY <1>1, <1>2, <1>3 DEF D!Length, v
<1>6. /\ \A k \in 1..Len(none) : none[k].at = here.value.at
      /\ \A k \in 1..Len(none) - 1 : none[k].to = none[k + 1].from
      /\ IF none = <<>> THEN 0 = 0 ELSE none[1].from = 0 /\ none[Len(none)].to = 0
  BY <1>4
<1> QED
  BY <1>1, <1>4, <1>5, <1>6, ReadOnKeeps DEF here

LEMMA WalkKeeps ==
    ASSUME D!WellTyped, WalkInv, [D!Next]_D!vars
    PROVE  WalkInv'
<1>1. CASE D!Answer
  BY <1>1, AnswerKeeps
<1>2. CASE D!TakeMembers
  BY <1>2, MembersKeep
<1>3. CASE D!TakeLength
  BY <1>3, LengthKeeps
<1>4. CASE D!TakeValue
  BY <1>4, ValueKeeps
<1>5. CASE D!TakeChunk
  BY <1>5, ChunkKeeps
<1>6. CASE D!ReadAgain
  BY <1>6, AgainKeeps
<1>7. CASE UNCHANGED D!vars
  <2>1. /\ doc' = doc /\ chunked' = chunked /\ agenda' = agenda /\ have' = have /\ total' = total
        /\ pieces' = pieces /\ hashed' = hashed /\ answer' = answer /\ docPc' = docPc
    BY <1>7 DEF D!vars, D!reading
  <2>2. WalkTypes' /\ AgendaRight' /\ Ordered' /\ NoneForgotten' /\ HashedRight'
    BY <2>1 DEF WalkInv, WalkTypes, AgendaRight, Ordered, NoneForgotten, Remembered, HashedRight, Talking
  <2>3. InHand'
    BY <2>1 DEF WalkInv, InHand, Talking, Gathered, D!Todo
  <2>4. Answered'
    BY <2>1 DEF WalkInv, Answered, D!Todo, OfValue, D!IsStruct, D!StructMembers
  <2> QED
    BY <2>2, <2>3, <2>4 DEF WalkInv
<1> QED
  BY <1>1, <1>2, <1>3, <1>4, <1>5, <1>6, <1>7 DEF D!Next, D!Device

\* A signature covers all of the document, each value once, in the order of
\* declaration and with all of its bytes, and nothing else: the whole walk.
THEOREM SignatureCoversTheDocument == DocumentSpec => []DocumentSignedWhole
<1>1. D!Init => WalkInv
  BY WalkStarts, DocumentAssumption
<1>2. WalkInv /\ [D!Next]_D!vars => WalkInv'
  BY WalkKeeps, DocumentAssumption
<1>3. WalkInv => DocumentSignedWhole
  <2> SUFFICES ASSUME WalkInv, docPc = "done"
               PROVE  /\ \A p \in Paths : D!Contents(doc, p).kind = "value" =>
                             \E i \in 1..Len(hashed) : hashed[i].path = p
                      /\ \A i \in 1..Len(hashed) :
                             LET here == D!Contents(doc, hashed[i].path)
                             IN  here.kind = "value" /\ D!Covers(hashed[i].pieces, here.value)
                      /\ \A i, j \in 1..Len(hashed) :
                             i < j => D!Before(hashed[i].path, hashed[j].path)
    BY DEF DocumentSignedWhole, D!SignedWhole
  <2>1. Len(agenda) = 0
    BY DEF WalkInv, WalkTypes
  <2>2. ASSUME NEW p \in Paths, D!Contents(doc, p).kind = "value"
        PROVE  \E i \in 1..Len(hashed) : hashed[i].path = p
    <3>1. p \in Seq(Nat) /\ p # <<>>
      BY DocumentAssumption DEF D!WellTyped
    <3> QED
      BY <2>1, <2>2, <3>1 DEF WalkInv, NoneForgotten, Remembered
  <2>3. HashedRight /\ Ordered
    BY DEF WalkInv
  <2> QED
    BY <2>2, <2>3 DEF HashedRight, Ordered
<1> QED
  BY <1>1, <1>2, <1>3, PTL DEF DocumentSpec, D!Spec

-----------------------------------------------------------------------------
\* A place that cannot be signed as it stands is still to be visited, or the
\* walk is below it already and finds nothing there.
Flawed(q) == D!Called(doc, q) /\ ~D!Fits(q)
InSight(q) ==
    \E i \in 1..Len(agenda) :
        \/ GoesOn(agenda[i].path, q)
        \/ GoesOn(q, agenda[i].path) /\ D!Contents(doc, q).kind = "nothing"
FlawsInSight == \A q \in Seq(Nat) : q # <<>> /\ Flawed(q) => InSight(q)

\* What is on the agenda is called for by the types, or is below nothing.
Grounded(p) ==
    \/ D!Called(doc, p)
    \/ \E n \in 1..Len(p) :
          /\ D!Called(doc, SubSeq(p, 1, n))
          /\ D!Contents(doc, SubSeq(p, 1, n)).kind = "nothing"
AgendaGrounded == \A i \in 1..Len(agenda) : Grounded(agenda[i].path)

FlawAt(p) == \E n \in 1..Len(p) : Flawed(SubSeq(p, 1, n))
RaisedAtFlaw == docPc = "raised" => agenda # <<>> /\ FlawAt(D!Todo.path)

FlawInv == FlawsInSight /\ AgendaGrounded /\ RaisedAtFlaw

LEMMA GoesOnTrans ==
    ASSUME NEW p \in Seq(Nat), NEW q \in Seq(Nat), NEW r \in Seq(Nat), GoesOn(p, q), GoesOn(q, r)
    PROVE  GoesOn(p, r)
<1>1. Len(p) \in Nat /\ Len(q) \in Nat /\ Len(r) \in Nat
  OBVIOUS
<1>2. Len(p) <= Len(r)
  BY <1>1 DEF GoesOn
<1>3. ASSUME NEW k \in 1..Len(p) PROVE p[k] = r[k]
  <2>1. k \in 1..Len(q)
    BY <1>1 DEF GoesOn
  <2> QED
    BY <2>1 DEF GoesOn
<1> QED
  BY <1>2, <1>3 DEF GoesOn

LEMMA GoesOnToChild ==
    ASSUME NEW p \in Seq(Nat), NEW i \in Nat
    PROVE  GoesOn(p, Append(p, i))
<1> DEFINE a == Append(p, i)
<1>1. Len(p) \in Nat /\ Len(a) = Len(p) + 1 /\ \A k \in 1..Len(p) : a[k] = p[k]
  OBVIOUS
<1> HIDE DEF a
<1>2. GoesOn(p, a)
  BY <1>1 DEF GoesOn
<1> QED
  BY <1>2 DEF a

\* A path of more than one index is what is in front of its last one, and that.
LEMMA LastIndex ==
    ASSUME NEW q \in Seq(Nat), Len(q) > 1
    PROVE  /\ D!Front(q) \in Seq(Nat) /\ D!Front(q) # <<>> /\ Len(D!Front(q)) = Len(q) - 1
           /\ D!Last(q) \in Nat /\ q = Append(D!Front(q), D!Last(q))
           /\ \A k \in 1..Len(q) - 1 : D!Front(q)[k] = q[k]
<1> DEFINE f == SubSeq(q, 1, Len(q) - 1)
           a == Append(f, q[Len(q)])
<1>1. Len(q) \in Nat
  OBVIOUS
<1>2. f \in Seq(Nat) /\ Len(f) = Len(q) - 1 /\ \A k \in 1..Len(q) - 1 : f[k] = q[k]
  BY <1>1
<1>3. f # <<>> /\ q[Len(q)] \in Nat
  <2>1. Len(f) # 0
    <3>1. Len(f) = Len(q) - 1
      BY <1>2
    <3>2. \A n \in Nat : n > 1 => n - 1 # 0
      OBVIOUS
    <3> HIDE DEF f
    <3> QED
      BY <1>1, <3>1, <3>2, Zenon
  <2>2. Len(<<>>) = 0
    OBVIOUS
  <2>3. Len(q) \in 1..Len(q)
    BY <1>1
  <2> HIDE DEF f
  <2> QED
    BY <2>1, <2>2, <2>3
<1> HIDE DEF f
<1>4. a \in Seq(Nat) /\ Len(a) = Len(q) /\ \A k \in 1..Len(q) : a[k] = q[k]
  <2>1. /\ a \in Seq(Nat) /\ Len(a) = Len(f) + 1
        /\ \A k \in 1..Len(f) : a[k] = f[k]
        /\ a[Len(f) + 1] = q[Len(q)]
    BY <1>2, <1>3, AppendProperties
  <2> HIDE DEF a
  <2>2. Len(a) = Len(q) /\ Len(f) + 1 = Len(q)
    BY <1>1, <1>2, <2>1
  <2>3. ASSUME NEW k \in 1..Len(q) PROVE a[k] = q[k]
    <3>1. CASE k = Len(q)
      BY <2>1, <2>2, <3>1
    <3>2. CASE k # Len(q)
      <4>1. k \in 1..Len(f) /\ k \in 1..Len(q) - 1
        BY <1>1, <1>2, <3>2
      <4> QED
        BY <1>2, <2>1, <4>1
    <3> QED
      BY <3>1, <3>2
  <2> QED
    BY <2>1, <2>2, <2>3
<1>5. q = a
  <2> HIDE DEF a
  <2> QED
    BY <1>4, SeqEqual
<1> QED
  BY <1>2, <1>3, <1>5 DEF D!Front, D!Last, f

\* How many places there are below a place.
Below(here) ==
    IF here.kind = "length" THEN Len(here.value.items)
    ELSE IF here.kind = "struct" THEN Len(Types[here.type.base]) ELSE 0

LEMMA ChildrenCalled ==
    ASSUME NEW p \in Seq(Nat), p # <<>>, NEW i \in Nat, i < Below(D!Contents(doc, p))
    PROVE  D!Called(doc, Append(p, i))
<1> DEFINE a == Append(p, i)
           here == D!Contents(doc, p)
<1>1. Len(p) \in Nat \ {0}
  BY EmptySeq
<1>2. Len(a) = Len(p) + 1 /\ D!Front(a) = p /\ D!Last(a) = i
  <2>1. Len(a) = Len(p) + 1 /\ a[Len(p) + 1] = i /\ SubSeq(a, 1, Len(p)) = p
    OBVIOUS
  <2>2. Len(a) - 1 = Len(p)
    BY <1>1, <2>1
  <2> HIDE DEF a
  <2> QED
    BY <2>1, <2>2 DEF D!Front, D!Last
<1>3. here.kind \in {"length", "struct"}
  BY DEF Below
<1> HIDE DEF a, here
<1>4. D!Called(doc, a)
  BY <1>1, <1>2, <1>3 DEF D!Called, Below, here
<1> QED
  BY <1>4 DEF a

\* Below a path that is called for: the next place, or the place itself.
LEMMA CalledBelow ==
    ASSUME NEW p \in Seq(Nat), p # <<>>, NEW q \in Seq(Nat), GoesOn(p, q), q # p, D!Called(doc, q)
    PROVE  \E i \in Nat : i < Below(D!Contents(doc, p)) /\ GoesOn(Append(p, i), q)
<1> DEFINE here == D!Contents(doc, p)
           f == D!Front(q)
           i == D!Last(q)
           above == D!Contents(doc, f)
<1>1. Len(p) \in Nat \ {0} /\ Len(q) \in Nat /\ Len(p) <= Len(q) /\ \A k \in 1..Len(p) : p[k] = q[k]
  <2>1. Len(p) \in Nat \ {0} /\ Len(q) \in Nat
    BY EmptySeq
  <2> QED
    BY <2>1 DEF GoesOn
<1>2. Len(p) # Len(q)
  BY <1>1, SeqEqual
<1>3. Len(q) > 1
  BY <1>1, <1>2
<1>4. /\ f \in Seq(Nat) /\ f # <<>> /\ Len(f) = Len(q) - 1 /\ i \in Nat /\ q = Append(f, i)
      /\ \A k \in 1..Len(q) - 1 : f[k] = q[k]
  BY <1>3, LastIndex
<1>5. i < Below(above) /\ above.kind # "nothing"
  <2>1. q \notin {<<0>>, <<1>>}
    <3>1. Len(<<0>>) = 1 /\ Len(<<1>>) = 1
      OBVIOUS
    <3>2. Len(q) # 1
      BY <1>1, <1>3
    <3>3. q # <<0>> /\ q # <<1>>
      BY <3>1, <3>2, Zenon
    <3> QED
      BY <3>3
  <2>2. \/ above.kind = "length" /\ i < Len(above.value.items)
        \/ above.kind = "struct" /\ i < Len(Types[above.type.base])
    <3> HIDE DEF i, f
    <3> QED
      BY <2>1 DEF D!Called, f, i
  <2> HIDE DEF i, above
  <2> QED
    BY <2>2 DEF Below
<1>6. GoesOn(p, f)
  <2>1. Len(p) <= Len(f)
    BY <1>1, <1>2, <1>4
  <2>2. ASSUME NEW k \in 1..Len(p) PROVE p[k] = f[k]
    <3>1. k \in 1..Len(q) - 1
      BY <1>1, <1>2
    <3> QED
      BY <1>1, <1>4, <3>1
  <2> HIDE DEF f
  <2> QED
    BY <2>1, <2>2 DEF GoesOn
<1> HIDE DEF f, i
<1>7. CASE f = p
  <2>1. GoesOn(q, q)
    BY DEF GoesOn
  <2> QED
    BY <1>4, <1>5, <1>7, <2>1
<1>8. CASE f # p
  <2>1. PICK k \in Nat : GoesOn(Append(p, k), f) /\ D!Enter(here, k).kind # "nothing"
    BY <1>4, <1>5, <1>6, <1>8, GoesFurther
  <2>2. k < Below(here)
    <3>1. D!Nothing.kind = "nothing"
      BY DEF D!Nothing
    <3> HIDE DEF here
    <3>2. D!Enter(here, k) # D!Nothing
      BY <2>1, <3>1
    <3>3. \/ here.kind = "length" /\ k < Len(here.value.items)
          \/ here.kind = "struct" /\ k < Len(Types[here.type.base])
      BY <3>2 DEF D!Enter
    <3> QED
      BY <3>3 DEF Below
  <2>3. GoesOn(f, q) /\ Append(p, k) \in Seq(Nat)
    BY <1>4, GoesOnToChild, PathBelow
  <2>4. GoesOn(Append(p, k), q)
    BY <1>4, <2>1, <2>3, GoesOnTrans
  <2> QED
    BY <2>2, <2>4
<1> QED
  BY <1>7, <1>8

\* One visit: the places below take the place of the one that is visited.
LEMMA VisitKeepsFlaws ==
    ASSUME D!WellTyped, WalkInv, FlawInv, docPc = "device",
           NEW items \in Seq(Items), D!Visit(items),
           \A k \in 1..Len(items) : items[k].path = Append(D!Todo.path, k - 1),
           D!Contents(doc, D!Todo.path).kind = "nothing" => Len(items) > 0,
           D!Contents(doc, D!Todo.path).kind # "nothing" => Len(items) = Below(D!Contents(doc, D!Todo.path))
    PROVE  FlawInv'
<1> DEFINE p == D!Todo.path
           here == D!Contents(doc, p)
           n == Len(items)
<1>1. /\ Len(agenda) \in Nat \ {0} /\ 1 \in 1..Len(agenda) /\ D!Todo = agenda[1]
      /\ p \in Seq(Nat) /\ p # <<>> /\ agenda \in Seq(Items) /\ agenda # <<>>
  <2>1. agenda \in Seq(Items) /\ agenda # <<>>
    BY DEF WalkInv, WalkTypes, Talking
  <2> QED
    BY <2>1, TodoFacts DEF WalkInv, Talking
<1>2. /\ agenda' = items \o Tail(agenda) /\ docPc' # "raised"
      /\ doc' = doc /\ chunked' = chunked
  BY DEF D!Visit
<1>3. /\ n \in Nat
      /\ \A k \in 1..n : k \in 1..Len(agenda') /\ agenda'[k] = items[k]
      /\ \A k \in 2..Len(agenda) : n + k - 1 \in 1..Len(agenda') /\ agenda'[n + k - 1] = agenda[k]
      /\ \A k \in 1..Len(agenda') :
           \/ k \in 1..n
           \/ k - n + 1 \in 2..Len(agenda) /\ agenda'[k] = agenda[k - n + 1]
  <2> HIDE DEF Items
  <2> QED
    BY <1>1, <1>2, AgendaAfterVisit
<1>4. here.kind # "nothing" => D!Fits(p)
  BY AnsweredFits
<1>5. /\ here.kind = "nothing" => n > 0
      /\ here.kind # "nothing" => n = Below(here)
  OBVIOUS
<1>6. \A k \in 1..n : items[k].path = Append(p, k - 1)
  OBVIOUS
<1> HIDE DEF p, here, n
<1>7. \A k \in 1..n : k - 1 \in Nat /\ agenda'[k].path = Append(p, k - 1)
  <2> SUFFICES ASSUME NEW k \in 1..n PROVE k - 1 \in Nat /\ agenda'[k].path = Append(p, k - 1)
    OBVIOUS
  <2>1. k - 1 \in Nat
    BY <1>3
  <2>2. agenda'[k] = items[k]
    BY <1>3
  <2>3. items[k].path = Append(p, k - 1)
    BY <1>6
  <2> QED
    BY <2>1, <2>2, <2>3
<1>8. FlawsInSight'
  <2> SUFFICES ASSUME NEW q \in Seq(Nat), q # <<>>, Flawed(q)
               PROVE  \E i \in 1..Len(agenda') :
                          \/ GoesOn(agenda'[i].path, q)
                          \/ GoesOn(q, agenda'[i].path) /\ D!Contents(doc, q).kind = "nothing"
    BY <1>2 DEF FlawsInSight, Flawed, InSight, D!Fits
  <2>1. PICK i \in 1..Len(agenda) :
          \/ GoesOn(agenda[i].path, q)
          \/ GoesOn(q, agenda[i].path) /\ D!Contents(doc, q).kind = "nothing"
    BY DEF FlawInv, FlawsInSight, InSight
  <2>2. CASE i # 1
    <3>1. i \in 2..Len(agenda)
      BY <1>1, <2>2
    <3> QED
      BY <1>3, <2>1, <3>1
  <2>3. CASE i = 1 /\ GoesOn(p, q) /\ q # p /\ here.kind # "nothing"
    <3>1. PICK k \in Nat : k < Below(here) /\ GoesOn(Append(p, k), q)
      BY <1>1, <2>3, CalledBelow DEF Flawed, here
    <3>2. k + 1 \in 1..n /\ (k + 1) - 1 = k
      BY <1>3, <1>5, <2>3, <3>1
    <3>3. k + 1 \in 1..Len(agenda') /\ agenda'[k + 1].path = Append(p, k)
      BY <1>3, <1>7, <3>2
    <3> QED
      BY <3>1, <3>3
  <2>4. CASE i = 1 /\ GoesOn(p, q) /\ q # p /\ here.kind = "nothing"
    <3>1. PICK k \in Nat : k < Below(here)
      BY <1>1, <2>4, CalledBelow DEF Flawed, here
    <3> QED
      BY <2>4, <3>1 DEF Below
  <2>5. CASE i = 1 /\ GoesOn(q, p) /\ D!Contents(doc, q).kind = "nothing"
    <3>1. here.kind = "nothing"
      <4>1. here.kind # "nothing" => D!Contents(doc, q).kind # "nothing"
        BY <1>1, <2>5, GoesFurther DEF here
      <4> QED
        BY <2>5, <4>1
    <3>2. 1 \in 1..n
      BY <1>3, <1>5, <3>1
    <3>3. 1 \in 1..Len(agenda') /\ agenda'[1].path = Append(p, 1 - 1) /\ 1 - 1 \in Nat
      BY <1>3, <1>7, <3>2
    <3>4. GoesOn(p, agenda'[1].path) /\ agenda'[1].path \in Seq(Nat)
      BY <1>1, <3>3, GoesOnToChild, PathBelow
    <3>5. GoesOn(q, agenda'[1].path)
      BY <1>1, <2>5, <3>4, GoesOnTrans
    <3> QED
      BY <2>5, <3>3, <3>5
  <2>6. CASE i = 1 /\ q = p
    <3>1. GoesOn(q, p)
      BY <1>1, <2>6 DEF GoesOn
    <3>2. here.kind = "nothing"
      BY <1>4, <2>6 DEF Flawed
    <3> QED
      BY <2>5, <2>6, <3>1, <3>2 DEF here
  <2> QED
    BY <1>1, <2>1, <2>2, <2>3, <2>4, <2>5, <2>6 DEF p
<1>9. AgendaGrounded'
  <2> SUFFICES ASSUME NEW k \in 1..Len(agenda') PROVE Grounded(agenda'[k].path)
    BY <1>2 DEF AgendaGrounded, Grounded
  <2>1. CASE k - n + 1 \in 2..Len(agenda) /\ agenda'[k] = agenda[k - n + 1]
    <3>1. k - n + 1 \in 1..Len(agenda)
      BY <1>1, <2>1
    <3> QED
      BY <2>1, <3>1 DEF FlawInv, AgendaGrounded
  <2>2. CASE k \in 1..n
    <3> DEFINE a == Append(p, k - 1)
    <3>1. agenda'[k].path = a /\ k - 1 \in Nat
      BY <1>7, <2>2
    <3>2. /\ Len(p) \in Nat \ {0} /\ Len(a) = Len(p) + 1
          /\ \A j \in 1..Len(p) : SubSeq(a, 1, j) = SubSeq(p, 1, j)
      <4>1. Len(p) \in Nat \ {0}
        BY <1>1, EmptySeq
      <4>2. \A j \in 1..Len(p) : SubSeq(Append(p, k - 1), 1, j) = SubSeq(p, 1, j)
        BY <1>1, <3>1
      <4>3. Len(a) = Len(p) + 1
        BY <1>1, <3>1
      <4> QED
        BY <4>1, <4>2, <4>3
    <3>3. SubSeq(p, 1, Len(p)) = p
      BY <1>1
    <3>4. CASE here.kind # "nothing"
      <4>1. k - 1 < Below(here)
        BY <1>3, <1>5, <2>2, <3>4
      <4> QED
        BY <1>1, <3>1, <4>1, ChildrenCalled DEF Grounded, here
    <3> HIDE DEF a
    <3>5. CASE here.kind = "nothing"
      <4>1. Grounded(p)
        BY <1>1 DEF FlawInv, AgendaGrounded, p
      <4>2. \E j \in 1..Len(p) : /\ D!Called(doc, SubSeq(p, 1, j))
                                 /\ D!Contents(doc, SubSeq(p, 1, j)).kind = "nothing"
        <5>1. Len(p) \in 1..Len(p)
          BY <3>2
        <5> QED
          BY <3>3, <3>5, <4>1, <5>1 DEF Grounded, here
      <4>3. PICK j \in 1..Len(p) : /\ D!Called(doc, SubSeq(p, 1, j))
                                   /\ D!Contents(doc, SubSeq(p, 1, j)).kind = "nothing"
        BY <4>2
      <4>4. j \in 1..Len(a) /\ SubSeq(a, 1, j) = SubSeq(p, 1, j)
        BY <3>2
      <4> QED
        BY <3>1, <4>3, <4>4 DEF Grounded
    <3> QED
      BY <3>4, <3>5
  <2> QED
    BY <1>3, <2>1, <2>2
<1>10. RaisedAtFlaw'
  BY <1>2 DEF RaisedAtFlaw
<1> QED
  BY <1>8, <1>9, <1>10 DEF FlawInv

\* At first the domain and the message are on the agenda, and all is below them.
LEMMA FlawsStart ==
    ASSUME D!WellTyped, D!Init
    PROVE  FlawInv
<1>1. /\ docPc = "host" /\ agenda[1].path = <<0>> /\ agenda[2].path = <<1>> /\ Len(agenda) = 2
  BY DEF D!Init, D!Start, D!Item
<1>2. FlawsInSight
  <2> SUFFICES ASSUME NEW q \in Seq(Nat), q # <<>>, D!Called(doc, q)
               PROVE  \E i \in 1..Len(agenda) : GoesOn(agenda[i].path, q)
    BY DEF FlawsInSight, Flawed, InSight
  <2>1. Len(q) \in Nat \ {0}
    BY EmptySeq
  <2>2. q[1] \in {0, 1}
    <3>1. CASE q \in {<<0>>, <<1>>}
      BY <3>1
    <3>2. CASE q \notin {<<0>>, <<1>>}
      <4>1. Len(q) > 1 /\ D!Contents(doc, D!Front(q)).kind # "nothing"
        BY <3>2 DEF D!Called
      <4>2. /\ D!Front(q) \in Seq(Nat) /\ D!Front(q) # <<>>
            /\ \A k \in 1..Len(q) - 1 : D!Front(q)[k] = q[k]
        BY <4>1, LastIndex
      <4>3. D!Front(q)[1] = q[1]
        <5>1. 1 \in 1..Len(q) - 1
          BY <2>1, <4>1
        <5> QED
          BY <4>2, <5>1
      <4> QED
        BY <4>1, <4>2, <4>3, TwoRoots
    <3> QED
      BY <3>1, <3>2
  <2>3. GoesOn(<<q[1]>>, q)
    BY <2>1 DEF GoesOn
  <2>4. 1 \in 1..Len(agenda) /\ 2 \in 1..Len(agenda)
    BY <1>1
  <2>5. CASE q[1] = 0
    BY <1>1, <2>3, <2>4, <2>5
  <2>6. CASE q[1] = 1
    BY <1>1, <2>3, <2>4, <2>6
  <2> QED
    BY <2>2, <2>5, <2>6
<1>3. AgendaGrounded
  <2> SUFFICES ASSUME NEW i \in 1..Len(agenda) PROVE D!Called(doc, agenda[i].path)
    BY DEF AgendaGrounded, Grounded
  <2>1. agenda[i].path \in {<<0>>, <<1>>}
    BY <1>1
  <2> QED
    BY <2>1 DEF D!Called
<1>4. RaisedAtFlaw
  BY <1>1 DEF RaisedAtFlaw
<1> QED
  BY <1>2, <1>3, <1>4 DEF FlawInv

\* What the host raises at does not fit.
LEMMA RaisedDoesNotFit ==
    ASSUME D!WellTyped, WalkInv, D!Answer, answer' = D!Error
    PROVE  ~D!Fits(D!Todo.path)
<1> DEFINE p == D!Todo.path
           here == D!Contents(doc, p)
           v == here.value
           base == D!Todo.type.base
<1>1. /\ Talking /\ doc \in Documents
      /\ answer' = IF D!IsStruct(D!Todo) THEN D!StructMembers(base) ELSE D!ValueAck(p, have)
      /\ have \in Nat \cup {D!None}
      /\ have # D!None => /\ here.kind = "value" /\ chunked
                          /\ v.length > MaxLeaf /\ have < v.length
  <2>1. Talking
    BY DEF D!Answer, Talking
  <2> QED
    BY <2>1 DEF D!Answer, D!Todo, WalkInv, WalkTypes, InHand
<1>2. /\ p \in Seq(Nat) /\ p # <<>>
      /\ here.kind \in {"length", "value", "struct", "nothing"}
      /\ here.kind # "nothing" => here.type = D!Todo.type
      /\ here.kind = "length" => D!Todo.type.levels # <<>> /\ here.value.items \in Seq(Values)
      /\ here.kind = "value" =>
           /\ D!Todo.type.levels = <<>> /\ base \in D!LeafTypes /\ v.length \in Nat
      /\ here.kind = "struct" => D!Todo.type.levels = <<>> /\ base \notin D!LeafTypes
  BY <1>1, AtHand
<1>3. CASE here.kind = "nothing"
  BY <1>3 DEF D!Fits
<1>4. CASE here.kind = "struct"
  <2>1. D!StructMembers(here.type.base) = D!Error
    BY <1>1, <1>2, <1>4 DEF D!IsStruct
  <2> QED
    BY <1>4, <2>1 DEF D!Fits
<1>5. CASE here.kind = "length"
  <2>1. D!ValueAck(p, have) = D!Error /\ have = D!None
    BY <1>1, <1>2, <1>5 DEF D!IsStruct
  <2>2. D!ValueAck(p, have) =
          IF have = D!None /\ Len(v.items) <= MaxArray
          THEN [kind |-> "length", length |-> Len(v.items)] ELSE D!Error
    BY <1>1, <1>2, <1>5, HostAnswers
  <2> HIDE DEF v, here, p
  <2>3. \A n : [kind |-> "length", length |-> n] # D!Error
    BY DEF D!Error
  <2>4. ~(Len(v.items) <= MaxArray)
    BY <2>1, <2>2, <2>3
  <2> QED
    BY <1>5, <2>4 DEF D!Fits, v, here, p
<1>6. CASE here.kind = "value"
  <2>1. D!ValueAck(p, have) = D!Error
    BY <1>1, <1>2, <1>6 DEF D!IsStruct
  <2>2. OfValue(p, have, v) = D!Error
    BY <1>1, <1>2, <1>6, <2>1, HostAnswers
  <2>3. \A o, t : D!Piece(v, o, t) # D!Error
    BY DEF D!Piece, D!Error
  <2> HIDE DEF v, here, p
  <2>4. \/ v.length > MaxValue
        \/ v.length > MaxLeaf /\ p[1] = 0
        \/ ~(v.length <= MaxLeaf) /\ ~chunked
    BY <1>1, <1>6, <2>2, <2>3 DEF OfValue, D!OffsetValid
  <2>5. MaxLeaf \in Nat /\ MaxValue \in Nat
    BY DEF D!WellTyped
  <2>6. ~(v.length <= MaxValue /\ (v.length > MaxLeaf => chunked /\ p[1] # 0))
    BY <1>2, <1>6, <2>4, <2>5
  <2> QED
    BY <1>6, <2>6 DEF D!Fits, v, here, p
<1> QED
  BY <1>2, <1>3, <1>4, <1>5, <1>6

\* A step that leaves the agenda alone.
LEMMA SightKept ==
    ASSUME FlawInv, doc' = doc, chunked' = chunked, agenda' = agenda
    PROVE  FlawsInSight' /\ AgendaGrounded'
BY DEF FlawInv, FlawsInSight, Flawed, InSight, AgendaGrounded, Grounded, D!Fits

LEMMA AnswerKeepsFlaws ==
    ASSUME D!WellTyped, WalkInv, FlawInv, D!Answer
    PROVE  FlawInv'
<1> DEFINE p == D!Todo.path
<1>1. /\ doc' = doc /\ chunked' = chunked /\ agenda' = agenda
      /\ docPc' = "raised" => answer' = D!Error
  BY DEF D!Answer
<1>2. FlawsInSight' /\ AgendaGrounded'
  BY <1>1, SightKept
<1>3. ASSUME docPc' = "raised" PROVE agenda # <<>> /\ FlawAt(p)
  <2>1. Talking /\ WalkTypes /\ agenda # <<>>
    BY DEF D!Answer, Talking, WalkInv, WalkTypes
  <2>2. /\ p \in Seq(Nat) /\ p # <<>> /\ 1 \in 1..Len(agenda) /\ D!Todo = agenda[1]
    BY <2>1, TodoFacts
  <2>3. ~D!Fits(p)
    BY <1>1, <1>3, RaisedDoesNotFit
  <2>4. Grounded(p)
    BY <2>2 DEF FlawInv, AgendaGrounded
  <2>5. Len(p) \in 1..Len(p) /\ SubSeq(p, 1, Len(p)) = p
    <3>1. Len(p) \in Nat \ {0}
      BY <2>2, EmptySeq
    <3> QED
      BY <2>2, <3>1
  <2>6. CASE D!Called(doc, p)
    BY <2>1, <2>3, <2>5, <2>6 DEF FlawAt, Flawed
  <2>7. CASE \E n \in 1..Len(p) : /\ D!Called(doc, SubSeq(p, 1, n))
                                  /\ D!Contents(doc, SubSeq(p, 1, n)).kind = "nothing"
    BY <2>1, <2>7 DEF FlawAt, Flawed, D!Fits
  <2> QED
    BY <2>1, <2>4, <2>6, <2>7 DEF Grounded
<1>4. RaisedAtFlaw'
  BY <1>1, <1>3 DEF RaisedAtFlaw, FlawAt, Flawed, D!Fits, D!Todo
<1> QED
  BY <1>2, <1>4 DEF FlawInv

LEMMA MembersKeepFlaws ==
    ASSUME D!WellTyped, D!NoEmptyStructs, WalkInv, FlawInv, D!TakeMembers
    PROVE  FlawInv'
<1> DEFINE here == D!Contents(doc, D!Todo.path)
           base == D!Todo.type.base
<1>1. PICK items \in Seq(Items) :
        /\ D!Visit(items) /\ base \in DOMAIN Types /\ Len(items) = Len(Types[base])
        /\ \A k \in 1..Len(items) : items[k].path = Append(D!Todo.path, k - 1)
  BY MembersVisited
<1>2. docPc = "device" /\ answer.kind = "members"
  BY DEF D!TakeMembers
<1>3. /\ here.kind \in {"struct", "nothing"}
      /\ here.kind = "struct" => here.type = D!Todo.type
  BY <1>2, AnsweredFits
<1>4. Len(items) > 0
  <2>1. Types[base] # <<>> /\ \E S : Types[base] \in Seq(S)
    BY <1>1 DEF D!NoEmptyStructs, D!WellTyped
  <2>2. \A S : \A s \in Seq(S) : s # <<>> => Len(s) > 0
    OBVIOUS
  <2> QED
    BY <1>1, <2>1, <2>2
<1>5. here.kind # "nothing" => Len(items) = Below(here)
  BY <1>1, <1>3 DEF Below
<1> QED
  BY <1>1, <1>2, <1>4, <1>5, VisitKeepsFlaws

LEMMA LengthKeepsFlaws ==
    ASSUME D!WellTyped, WalkInv, FlawInv, D!TakeLength
    PROVE  FlawInv'
<1> DEFINE here == D!Contents(doc, D!Todo.path)
<1>1. PICK items \in Seq(Items) :
        /\ D!Visit(items) /\ Len(items) = Len(here.value.items)
        /\ \A k \in 1..Len(items) : items[k].path = Append(D!Todo.path, k - 1)
  BY LengthVisited
<1>2. docPc = "device" /\ here.kind = "length"
  BY AnsweredFits DEF D!TakeLength
<1>3. Len(items) = Below(here)
  BY <1>1, <1>2 DEF Below
<1> QED
  BY <1>1, <1>2, <1>3, VisitKeepsFlaws

LEMMA ValueKeepsFlaws ==
    ASSUME D!WellTyped, WalkInv, FlawInv, D!TakeValue
    PROVE  FlawInv'
<1> DEFINE here == D!Contents(doc, D!Todo.path)
           none == <<>>
<1>1. docPc = "device" /\ here.kind = "value" /\ D!Visit(none)
  BY AnsweredFits DEF D!TakeValue
<1>2. none \in Seq(Items) /\ Len(none) = 0
  BY EmptySeq
<1>3. Len(none) = Below(here)
  BY <1>1, <1>2 DEF Below
<1>4. \A k \in 1..Len(none) : none[k].path = Append(D!Todo.path, k - 1)
  BY <1>2
<1> HIDE DEF none
<1> QED
  BY <1>1, <1>2, <1>3, <1>4, VisitKeepsFlaws

LEMMA ReadOnKeepsFlaws ==
    ASSUME FlawInv, doc' = doc, chunked' = chunked, agenda' = agenda,
           docPc' = docPc \/ docPc' # "raised"
    PROVE  FlawInv'
<1>1. FlawsInSight' /\ AgendaGrounded'
  BY SightKept
<1>2. RaisedAtFlaw'
  BY DEF FlawInv, RaisedAtFlaw, FlawAt, Flawed, D!Fits, D!Todo
<1> QED
  BY <1>1, <1>2 DEF FlawInv

LEMMA FlawsKept ==
    ASSUME D!WellTyped, D!NoEmptyStructs, WalkInv, FlawInv, [D!Next]_D!vars
    PROVE  FlawInv'
<1>1. CASE D!Answer
  BY <1>1, AnswerKeepsFlaws
<1>2. CASE D!TakeMembers
  BY <1>2, MembersKeepFlaws
<1>3. CASE D!TakeLength
  BY <1>3, LengthKeepsFlaws
<1>4. CASE D!TakeValue
  BY <1>4, ValueKeepsFlaws
<1>5. CASE D!TakeChunk
  BY <1>5, ReadOnKeepsFlaws DEF D!TakeChunk, D!ReadOn
<1>6. CASE D!ReadAgain
  BY <1>6, ReadOnKeepsFlaws DEF D!ReadAgain, D!ReadOn
<1>7. CASE UNCHANGED D!vars
  BY <1>7, ReadOnKeepsFlaws DEF D!vars
<1> QED
  BY <1>1, <1>2, <1>3, <1>4, <1>5, <1>6, <1>7 DEF D!Next, D!Device

\* What is signed is as its types have it in every place that they call for,
\* and the walk ends in an exception only where something is not: structs
\* without members aside, of which the device asks nothing.
THEOREM SignedOnlyAsTyped == D!NoEmptyStructs => (DocumentSpec => []SignedAsTyped)
<1> SUFFICES ASSUME D!NoEmptyStructs PROVE DocumentSpec => []SignedAsTyped
  OBVIOUS
<1> DEFINE Inv == WalkInv /\ FlawInv
<1>1. D!Init => Inv
  BY WalkStarts, FlawsStart, DocumentAssumption
<1>2. Inv /\ [D!Next]_D!vars => Inv'
  BY WalkKeeps, FlawsKept, DocumentAssumption
<1>3. Inv => SignedAsTyped
  <2>1. ASSUME Inv, docPc = "done", NEW p \in Paths, D!Called(doc, p)
        PROVE  D!Fits(p)
    <3>1. Len(agenda) = 0
      BY <2>1 DEF WalkInv, WalkTypes
    <3>2. p \in Seq(Nat) /\ p # <<>>
      BY DocumentAssumption DEF D!WellTyped
    <3>3. ~InSight(p)
      BY <3>1 DEF InSight
    <3> QED
      BY <2>1, <3>2, <3>3 DEF FlawInv, FlawsInSight, Flawed
  <2>2. ASSUME Inv, docPc = "raised"
        PROVE  \E n \in 1..Len(D!Todo.path) :
                   LET p == SubSeq(D!Todo.path, 1, n)
                   IN  D!Called(doc, p) /\ ~D!Fits(p)
    BY <2>2 DEF FlawInv, RaisedAtFlaw, FlawAt, Flawed
  <2> QED
    BY <2>1, <2>2 DEF SignedAsTyped, D!SignedAsTyped
<1> HIDE DEF Inv
<1> QED
  BY <1>1, <1>2, <1>3, PTL DEF DocumentSpec, D!Spec
==============================================================================
