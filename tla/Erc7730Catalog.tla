--------------------------- MODULE Erc7730Catalog ---------------------------
(***************************************************************************)
(* keepkeylib/erc7730.py: a catalog of signed definitions, found by their  *)
(* identity (the hash of the envelope) or by what they describe, and       *)
(* served to the device in chunks.  A catalog is a pair of dictionaries    *)
(* that add() keeps in step.                                               *)
(***************************************************************************)
EXTENDS Integers, Sequences, FiniteSets

CONSTANTS
    Ids,      \* definition_id: hashes of envelopes, as numbers
    Scopes,   \* pairs of kind and chain_id
    Calls,    \* pairs of contract_address and selector_or_type_hash
    Size,     \* Size[i]: length of the envelope with the hash i
    MaxChunk, \* MAX_CHUNK
    MaxDepth  \* MAX_RECURSION_DEPTH

None == -1

\* An envelope is never empty.  Equal hashes mean equal envelopes.
ASSUME CatalogAssumption ==
    /\ Size \in [Ids -> Nat \ {0}]
    /\ MaxChunk \in Nat \ {0}
    /\ MaxDepth \in Nat
    /\ Ids \subseteq Nat

\* One envelope may be offered for several lookups: the class does not look
\* into it.
Definitions == [id : Ids, scope : Scopes, call : Calls]
Missing == [id |-> None]
Lookups == Scopes \X Calls
Catalogs == [byId : [Ids -> Definitions \cup {Missing}],
             byLookup : [Lookups -> Definitions \cup {Missing}]]

EmptyCatalog == [byId |-> [i \in Ids |-> Missing], byLookup |-> [k \in Lookups |-> Missing]]

Lookup(d) == <<d.scope, d.call>>

\* Mutant: a lookup may be given another definition.
CanAddAmbiguous(c, d) == c.byId[d.id] # Missing => Lookup(c.byId[d.id]) = Lookup(d)

\* add() raises for a definition known under another lookup and for a lookup
\* that has another definition.
CanAdd(c, d) ==
    /\ c.byId[d.id] # Missing => Lookup(c.byId[d.id]) = Lookup(d)
    /\ LET other == c.byLookup[Lookup(d)] IN other # Missing => other.id = d.id

\* Mutant: the definition can be found by its lookup only.
AddLookupOnly(c, d) == [byId |-> c.byId, byLookup |-> [c.byLookup EXCEPT ![Lookup(d)] = d]]

Add(c, d) == [byId |-> [c.byId EXCEPT ![d.id] = d],
              byLookup |-> [c.byLookup EXCEPT ![Lookup(d)] = d]]

-----------------------------------------------------------------------------
(* Requests of the device *)

\* EthereumClearSignDefinitionRequest.  Without an id the lookup counts, with
\* one only its scope is looked at.
RequestSet ==
    [id : Ids \cup {None}, scope : Scopes, call : Calls,
     depth : Nat \cup {None}, offset : Nat, length : Nat]

Find(c, q) == IF q.id # None THEN c.byId[q.id] ELSE c.byLookup[<<q.scope, q.call>>]

\* What chunk() returns.
Chunk(i, o, n, t) == [id |-> i, offset |-> o, length |-> n, total |-> t]
NoDefinition == Chunk(None, 0, 0, 0)
Refused == [refused |-> TRUE]

Smaller(m, n) == IF m <= n THEN m ELSE n

\* Mutant: an unknown embedded call is an error like every other.
ServeKnownOnly(c, q) ==
    LET d == Find(c, q)
    IN  IF q.depth > MaxDepth \/ d = Missing THEN Refused
        ELSE IF q.scope # d.scope THEN Refused
        ELSE IF q.length \notin 1..MaxChunk \/ q.offset >= Size[d.id] THEN Refused
        ELSE Chunk(d.id, q.offset, Smaller(q.length, Size[d.id] - q.offset), Size[d.id])

\* resolve() and chunk().  A missing depth (None) passes the first test and is
\* no embedded call.  An embedded call without definition is answered with the
\* empty chunk; every other request that cannot be met raises.
Serve(c, q) ==
    LET d == Find(c, q)
    IN  IF q.depth > MaxDepth THEN Refused
        ELSE IF d = Missing THEN IF q.depth > 0 THEN NoDefinition ELSE Refused
        ELSE IF q.scope # d.scope THEN Refused
        ELSE IF q.length \notin 1..MaxChunk \/ q.offset >= Size[d.id] THEN Refused
        ELSE Chunk(d.id, q.offset, Smaller(q.length, Size[d.id] - q.offset), Size[d.id])

-----------------------------------------------------------------------------
(* What a catalog promises *)

\* The two dictionaries hold the same definitions, each in its place.
Consistent(c) ==
    /\ \A i \in Ids : c.byId[i] # Missing =>
          c.byId[i].id = i /\ c.byLookup[Lookup(c.byId[i])] = c.byId[i]
    /\ \A k \in Lookups : c.byLookup[k] # Missing =>
          Lookup(c.byLookup[k]) = k /\ c.byId[c.byLookup[k].id] = c.byLookup[k]
=============================================================================
