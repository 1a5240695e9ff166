-------------------------------- MODULE Eip712 --------------------------------
(* eip712_stream.py, the host half of structured typed data: the device walks *)
(* the document and asks for one struct, one array length or one piece of a   *)
(* value at a time; struct_members and value_ack answer from the document.    *)
(* Paths, types and nesting are modelled as they are; the text of a type is   *)
(* its base and its brackets, and a value is known by where it stands.        *)
EXTENDS Integers, SequencesExt

CONSTANTS
    Identifiers, \* of types and of members
    Types,       \* the document's "types": name -> sequence of [name, type]
    Documents,   \* [primary, domain, message]
    Values,      \* what documents are made of
    Paths,       \* the paths that are asked about
    MaxLeaf,     \* MAX_LEAF_BYTES, 1024
    MaxValue,    \* MAX_VALUE_BYTES, 1 MB
    MaxArray     \* 65535, the longest array

None == -1
Malformed == -1     \* a dimension "[0]", "[02]" or "[x]"; 0 is "[]"
LeafTypes == {"uint", "bytes", "string"}
Domain == "EIP712Domain"

Descriptors == [base : Identifiers, levels : Seq(Nat \cup {Malformed})]
TypedValue(v) ==
    \/ v.kind \in LeafTypes /\ v.length \in Nat
    \/ v.kind = "list" /\ v.items \in Seq(Values)
    \/ v.kind = "struct" /\ \A n \in DOMAIN v.fields : v.fields[n] \in Values

\* What Python has in hand: dicts, lists and leaves of any shape, which need
\* not be that of the types.
WellTyped ==
    /\ Domain \in Identifiers
    /\ Types \in [DOMAIN Types -> Seq([name : Identifiers, type : Descriptors])]
    /\ \A v \in Values : TypedValue(v)
    /\ \A d \in Documents : d.primary \in Identifiers \ LeafTypes /\ d.domain \in Values /\ d.message \in Values
    /\ \A p \in Paths : p \in Seq(Nat) /\ p # <<>>
    /\ MaxLeaf \in Nat \ {0} /\ MaxValue \in Nat /\ MaxLeaf <= MaxValue /\ MaxArray \in Nat

\* Of a struct without members the device asks nothing, whatever the document
\* has in its place.
NoEmptyStructs == \A n \in DOMAIN Types : Types[n] # <<>>

VARIABLES
    doc,
    chunked,         \* the firmware takes long values in chunks, and says so
    agenda,          \* the device: what is still to be visited, in order
    have, total,     \* of the value being read in chunks: bytes so far, length
    again,           \* a string is being read for the second time
    pieces,          \* those of the value being read
    hashed,          \* the values hashed so far, each with its pieces
    answer,          \* the host's last
    pc               \* host | device | done | raised

reading == <<have, total, again, pieces>>
vars == <<doc, chunked, agenda, reading, hashed, answer, pc>>

-----------------------------------------------------------------------------
(* The host *)

Error == [kind |-> "error"]
Least(a, b) == IF a < b THEN a ELSE b

\* Mutant: what _dimension was once, right for one dimension only.
DimensionFromFront(levels, used) == levels[used + 1]

\* int16[2][][4] has the levels <<2, 0, 4>>, and the outer array is the last.
Dimension(levels, used) == levels[Len(levels) - used]

\* parse_solidity_type raises rather than guessing.
Parses(type) == \A i \in DOMAIN type.levels : type.levels[i] # Malformed

StructMembers(name) ==
    IF /\ name \in DOMAIN Types
       /\ \A i \in DOMAIN Types[name] :
             /\ Parses(Types[name][i].type)
             /\ \A j \in DOMAIN Types[name] : Types[name][i].name = Types[name][j].name => i = j
    THEN [kind |-> "members", members |-> Types[name]] ELSE Error

At(type, value, used) == [kind |-> "at", type |-> type, value |-> value, used |-> used]

\* Mutant: a list of any length is taken for a fixed array.
RightLengthAny(s) == s.value.kind = "list"

InArray(s) == s.used < Len(s.type.levels)
RightLength(s) ==
    /\ s.value.kind = "list"
    /\ Dimension(s.type.levels, s.used) \in {0, Len(s.value.items)}

\* One index of a member_path, into an array or into a struct.
Descend(s, index) ==
    IF s.kind = "error" THEN Error
    ELSE IF InArray(s) THEN
        IF RightLength(s) /\ index < Len(s.value.items)
        THEN At(s.type, s.value.items[index + 1], s.used + 1) ELSE Error
    ELSE IF /\ s.type.base \in DOMAIN Types \ LeafTypes
            /\ index < Len(Types[s.type.base])
            /\ s.value.kind = "struct"
    THEN LET m == Types[s.type.base][index + 1]
         IN  IF Parses(m.type) /\ m.name \in DOMAIN s.value.fields
             THEN At(m.type, s.value.fields[m.name], 0) ELSE Error
    ELSE Error

Root(i) ==
    CASE i = 0 -> At([base |-> Domain, levels |-> <<>>], doc.domain, 0)
      [] i = 1 -> At([base |-> doc.primary, levels |-> <<>>], doc.message, 0)
      [] OTHER -> Error

\* The loop over the path.
ResolveMemberPath(path) ==
    LET upto[n \in 1..Len(path)] ==
            IF n = 1 THEN Root(path[1]) ELSE Descend(upto[n - 1], path[n])
    IN  upto[Len(path)]

\* Mutant: a long value is always offered in chunks.
OfferedAnyway == TRUE

Offered == chunked

\* Mutant: the last chunk has to be a full one.
OffsetValidFull(offset, length) == length > MaxLeaf /\ offset + MaxLeaf <= length

OffsetValid(offset, length) == length > MaxLeaf /\ offset < length

Piece(v, offset, total_) ==
    LET from == IF offset = None THEN 0 ELSE offset
    IN  [kind |-> "value", at |-> v.at, from |-> from, to |-> Least(v.length, from + MaxLeaf),
         offset |-> offset, total |-> total_]

ValueAck(path, offset) ==
    LET s == ResolveMemberPath(path)
        v == s.value
    IN  IF s.kind = "error" THEN Error
        ELSE IF InArray(s) THEN
            IF RightLength(s) /\ offset = None /\ Len(v.items) <= MaxArray
            THEN [kind |-> "length", length |-> Len(v.items)] ELSE Error
        ELSE IF \/ s.type.base \notin LeafTypes
                \/ v.kind # s.type.base          \* encode_value raises
                \/ v.length > MaxValue
                \/ v.length > MaxLeaf /\ path[1] = 0
        THEN Error
        ELSE IF offset # None THEN
            IF OffsetValid(offset, v.length) THEN Piece(v, offset, None) ELSE Error
        ELSE IF v.length <= MaxLeaf THEN Piece(v, None, None)
        ELSE IF Offered THEN Piece(v, None, v.length) ELSE Error

IsStruct(item) == item.type.levels = <<>> /\ item.type.base \notin LeafTypes

\* An Eip712Error ends the walk: whoever drives it has no answer to send.
Answer ==
    /\ pc = "host"
    /\ answer' = LET item == Head(agenda)
                 IN  IF IsStruct(item) THEN StructMembers(item.type.base)
                     ELSE ValueAck(item.path, have)
    /\ pc' = IF answer' = Error THEN "raised" ELSE "device"
    /\ UNCHANGED <<doc, chunked, agenda, reading, hashed>>

-----------------------------------------------------------------------------
(* The device, as tests/test_msg_eip712_streaming.py describes it: it visits  *)
(* everything in declaration order, arrays from the outside.                  *)

Item(path, type) == [path |-> path, type |-> type]
Todo == Head(agenda)

Visit(items) ==
    /\ agenda' = items \o Tail(agenda)
    /\ pc' = IF agenda' = <<>> THEN "done" ELSE "host"
    /\ have' = None /\ total' = None /\ again' = FALSE /\ pieces' = <<>>
    /\ UNCHANGED <<doc, chunked, answer>>

TakeMembers ==
    /\ pc = "device" /\ answer.kind = "members"
    /\ Visit([i \in DOMAIN answer.members |-> Item(Append(Todo.path, i - 1), answer.members[i].type)])
    /\ UNCHANGED hashed

TakeLength ==
    /\ pc = "device" /\ answer.kind = "length"
    /\ Visit([i \in 1..answer.length |->
                 Item(Append(Todo.path, i - 1), [Todo.type EXCEPT !.levels = Front(@)])])
    /\ UNCHANGED hashed

Length == IF have = None THEN answer.total ELSE total
Read == Append(pieces, [at |-> answer.at, from |-> answer.from, to |-> answer.to])

\* Firmware without chunked values skips the chunk fields.
Whole == ~chunked \/ Length = None \/ answer.to = Length

TakeValue ==
    /\ pc = "device" /\ answer.kind = "value" /\ Whole
    /\ Visit(<<>>)
    /\ hashed' = Append(hashed, [path |-> Todo.path, pieces |-> Read])

ReadOn(from, twice, kept) ==
    /\ have' = from /\ total' = Length /\ again' = twice /\ pieces' = kept
    /\ pc' = "host"
    /\ UNCHANGED <<doc, chunked, agenda, hashed, answer>>

TakeChunk ==
    /\ pc = "device" /\ answer.kind = "value" /\ ~Whole
    /\ answer.offset = have
    /\ ReadOn(answer.to, again, Read)

\* A long string is counted and checked first and then read from 0 again.
ReadAgain ==
    /\ pc = "device" /\ answer.kind = "value" /\ Whole
    /\ Todo.type.base = "string" /\ have # None /\ ~again
    /\ ReadOn(0, TRUE, <<>>)

Start == <<Item(<<0>>, [base |-> Domain, levels |-> <<>>]),
           Item(<<1>>, [base |-> doc.primary, levels |-> <<>>])>>

Init ==
    /\ doc \in Documents /\ chunked \in BOOLEAN
    /\ agenda = Start
    /\ have = None /\ total = None /\ again = FALSE /\ pieces = <<>>
    /\ hashed = <<>> /\ answer = Error /\ pc = "host"

Device == TakeMembers \/ TakeLength \/ TakeValue \/ TakeChunk \/ ReadAgain
Next == Answer \/ Device
Spec == Init /\ [][Next]_vars /\ WF_vars(Next)

-----------------------------------------------------------------------------
(* What a document means, from the outside in: T[n][m] is m times a T[n].    *)

Place(type, value) ==
    [kind |-> IF type.levels # <<>>
              THEN IF value.kind = "list" /\ Last(type.levels) \in {0, Len(value.items)}
                   THEN "length" ELSE "nothing"
              ELSE IF type.base \in LeafTypes
              THEN IF value.kind = type.base THEN "value" ELSE "nothing"
              ELSE IF type.base \in DOMAIN Types /\ value.kind = "struct"
              THEN "struct" ELSE "nothing",
     type |-> type, value |-> value]
Nothing == [kind |-> "nothing"]

Element(p, i) == Place([base |-> p.type.base, levels |-> Front(p.type.levels)], p.value.items[i])
Member(p, i) ==
    LET m == Types[p.type.base][i]
    IN  IF Parses(m.type) /\ m.name \in DOMAIN p.value.fields
        THEN Place(m.type, p.value.fields[m.name]) ELSE Nothing

Enter(p, index) ==
    CASE p.kind = "length" /\ index < Len(p.value.items) -> Element(p, index + 1)
      [] p.kind = "struct" /\ index < Len(Types[p.type.base]) -> Member(p, index + 1)
      [] OTHER -> Nothing

Top(d, i) ==
    CASE i = 0 -> Place([base |-> Domain, levels |-> <<>>], d.domain)
      [] i = 1 -> Place([base |-> d.primary, levels |-> <<>>], d.message)
      [] OTHER -> Nothing

\* What stands at a path of the document d.
Contents(d, path) ==
    LET upto[n \in 1..Len(path)] ==
            IF n = 1 THEN Top(d, path[1]) ELSE Enter(upto[n - 1], path[n])
    IN  upto[Len(path)]

\* Whether the types call for something at a path.
Called(d, p) ==
    \/ p \in {<<0>>, <<1>>}
    \/ /\ Len(p) > 1
       /\ LET above == Contents(d, Front(p))
          IN  \/ above.kind = "length" /\ Last(p) < Len(above.value.items)
              \/ above.kind = "struct" /\ Last(p) < Len(Types[above.type.base])

\* What can be signed as it stands.
Fits(p) ==
    LET here == Contents(doc, p)
    IN  \/ here.kind = "struct" /\ StructMembers(here.type.base) # Error
        \/ here.kind = "length" /\ Len(here.value.items) <= MaxArray
        \/ /\ here.kind = "value" /\ here.value.length <= MaxValue
           /\ here.value.length > MaxLeaf => chunked /\ p[1] # 0

\* The order of declaration.
Before(p, q) ==
    \E n \in 1..Len(p) :
        /\ n <= Len(q) /\ p[n] < q[n]
        /\ \A k \in 1..n - 1 : p[k] = q[k]

\* All bytes of a value, each once, in order.
Covers(ps, value) ==
    /\ ps # <<>> /\ ps[1].from = 0 /\ ps[Len(ps)].to = value.length
    /\ \A k \in 1..Len(ps) : ps[k].at = value.at
    /\ \A k \in 1..Len(ps) - 1 : ps[k].to = ps[k + 1].from

-----------------------------------------------------------------------------
(* Properties *)

\* Whatever path and offset a device may ask for, the host answers with what
\* stands there in the document, of the nesting that the type declares, or
\* raises: nothing is answered about a place that does not exist, no piece is
\* empty, too long, or of another value, and what is short enough is answered.
AnswersTheQuestion ==
    agenda = Start =>
        \A p \in Paths :
            LET here == Contents(doc, p)
                a == ValueAck(p, None)
            IN  /\ a # Error => a.kind = here.kind
                /\ here.kind = "length" =>
                     IF a = Error THEN Len(here.value.items) > MaxArray
                     ELSE a.length = Len(here.value.items)
                /\ here.kind = "value" =>
                     /\ IF a = Error THEN here.value.length > MaxLeaf
                        ELSE /\ a.at = here.value.at /\ a.from = 0
                             /\ \/ a.to = here.value.length
                                \/ chunked /\ a.total = here.value.length /\ a.to = MaxLeaf
                     /\ \A o \in 0..(MaxValue + 1) :
                           LET b == ValueAck(p, o)
                           IN  b # Error =>
                                 /\ b.at = here.value.at /\ b.from = o /\ b.offset = o
                                 /\ b.to \in (o + 1)..Least(o + MaxLeaf, here.value.length)

\* A signature covers all of the document: every value that stands somewhere in
\* it is hashed, in the order of declaration, all its bytes once, also by
\* firmware that knows nothing of chunks and by firmware that reads strings
\* twice; and nothing else is.
SignedWhole ==
    pc = "done" =>
        /\ \A p \in Paths : Contents(doc, p).kind = "value" =>
              \E i \in 1..Len(hashed) : hashed[i].path = p
        /\ \A i \in 1..Len(hashed) :
              LET here == Contents(doc, hashed[i].path)
              IN  here.kind = "value" /\ Covers(hashed[i].pieces, here.value)
        /\ \A i, j \in 1..Len(hashed) : i < j => Before(hashed[i].path, hashed[j].path)

\* What is signed is as its types have it, in every place that they call for
\* (NoEmptyStructs), and when the walk ends in an exception the place where it
\* ends, or one above it, is not.
SignedAsTyped ==
    /\ pc = "done" => \A p \in Paths : Called(doc, p) => Fits(p)
    /\ pc = "raised" =>
          \E n \in 1..Len(Todo.path) :
              LET p == SubSeq(Todo.path, 1, n)
              IN  Called(doc, p) /\ ~Fits(p)

\* Exactly the documents that can be signed as they stand are signed; the walk
\* of any other one ends in an exception.
EndsRight == pc = IF \A p \in Paths : Called(doc, p) => Fits(p) THEN "done" ELSE "raised"
SigningSucceeds == <>EndsRight
===============================================================================
