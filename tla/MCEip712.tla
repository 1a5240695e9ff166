------------------------------- MODULE MCEip712 -------------------------------
(* Documents with nested arrays of every small shape, right and wrong, with  *)
(* structs in arrays, and with values of every length around the chunks.     *)
EXTENDS TypedData, Integers, Sequences

\* A dimension like "[0]" (Eip712!Malformed).
NoNumber == -1

Type(b, l) == [base |-> b, levels |-> l]
Field(n, t) == [name |-> n, type |-> t]

SomeTypes ==
    [n \in {"EIP712Domain", "Matrix", "Person", "Mail", "Twice", "Broken", "Dangling"} |->
        CASE n = "EIP712Domain" -> <<Field("name", Type("string", <<>>))>>
          [] n = "Matrix" -> <<Field("values", Type("uint", <<2, 0, 1>>))>>
          [] n = "Person" -> <<Field("note", Type("string", <<>>)), Field("wallet", Type("uint", <<>>))>>
          [] n = "Mail" -> <<Field("from", Type("Person", <<>>)), Field("to", Type("Person", <<0>>)),
                             Field("data", Type("bytes", <<>>))>>
          [] n = "Twice" -> <<Field("a", Type("uint", <<>>)), Field("a", Type("uint", <<>>))>>
          [] n = "Broken" -> <<Field("a", Type("uint", <<>>)), Field("b", Type("uint", <<NoNumber>>))>>
          [] OTHER -> <<Field("a", Type("Nobody", <<>>))>>]

SomeIdentifiers ==
    DOMAIN SomeTypes \cup {"uint", "bytes", "string", "Nobody", "name", "values", "note", "wallet", "from", "to", "data", "a", "b"}

Leaf(k, a, n) == [kind |-> k, at |-> a, length |-> n]
List(s) == [kind |-> "list", items |-> s]
Struct(f) == [kind |-> "struct", fields |-> f]
Document(p, d, m) == [primary |-> p, domain |-> Struct([name |-> Leaf("string", <<"domain">>, d)]), message |-> m]

\* uint[2][][1], with every number of elements at each level up to 2.
Shapes == UNION {[1..n -> UNION {[1..k -> 1..2] : k \in 0..2}] : n \in 0..2}
Matrix(shape) ==
    List([i \in DOMAIN shape |-> List([j \in DOMAIN shape[i] |->
        List([k \in 1..shape[i][j] |-> Leaf("uint", <<"values", i, j, k>>, 1)])])])
Matrices == {Document("Matrix", 1, Struct([values |-> Matrix(s)])) : s \in Shapes}

Person(w, n) == Struct([note |-> Leaf("string", <<"note", w>>, n), wallet |-> Leaf("uint", <<"wallet", w>>, 1)])
Mails ==
    {Document("Mail", d, Struct([from |-> Person(0, n), to |-> List([i \in 1..k |-> Person(i, n)]),
                                 data |-> Leaf("bytes", <<"data">>, b)]))
        : d \in {2, 3}, n \in {0, 3, 5}, k \in 0..3, b \in 0..6}

Odd(m) == Document(m, 1, Struct([a |-> Leaf("uint", <<"a">>, 1), b |-> List(<<>>)]))
SomeDocuments ==
    Matrices \cup Mails \cup {Odd("Twice"), Odd("Broken"), Odd("Dangling"), Odd("Nobody"), Odd("Mail"),
                              Document("Matrix", 1, Struct([values |-> Leaf("uint", <<"values">>, 1)])),
                              Document("Mail", 1, Struct([from |-> List(<<>>), to |-> List(<<>>), data |-> List(<<>>)]))}

\* The parts of a document, and the paths that can lead to one of them.
RECURSIVE PartsOf(_)
PartsOf(v) ==
    {v} \cup CASE v.kind = "list" -> UNION {PartsOf(v.items[i]) : i \in DOMAIN v.items}
               [] v.kind = "struct" -> UNION {PartsOf(v.fields[n]) : n \in DOMAIN v.fields}
               [] OTHER -> {}
SomeValues == UNION {PartsOf(d.domain) \cup PartsOf(d.message) : d \in SomeDocuments}
SomePaths == {p \in UNION {[1..n -> 0..3] : n \in 1..5} : p[1] # 3}

ASSUME MemberAssumption == D!NoEmptyStructs
===============================================================================
