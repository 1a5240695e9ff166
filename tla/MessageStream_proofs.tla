-------------------------- MODULE MessageStream_proofs --------------------------
(* A result of the Cosmos family is the document as the caller wrote it, for  *)
(* documents of any length, and one of Binance if it has one message and coin; *)
(* and a signature of EOS is of all the bytes of all the actions.              *)
EXTENDS MCStreams, SequenceTheorems, WellFoundedInduction, TLAPS

\* What has been sent is the beginning of the document, every message of it
\* one that may be sent.
SentRight ==
    /\ Len(trail) <= Count
    /\ \A k \in 1..Len(trail) :
          /\ k \in 1..Len(document)
          /\ Sendable(document[k]) /\ trail[k] = Ack(document[k])

\* Between CallSignTx and the end a Binance document has a first message.
Contacted == pc \in {"waiting", "got"} => Count <= Len(document)

\* What the code sends for one message.
Acks == [type : {"send", "deposit"}, coins : {1}, denom : {"native", "other", "absent"}]

IInv == TypeOK /\ SentRight /\ Contacted /\ SignedAsAsked

\* A message that passes is signed as it is, whatever the version, and in no other
\* way as far as the repository tells.
LEMMA PassesSignedAsAsked ==
    ASSUME chain \in Chains, version \in Versions, NEW m \in Messages, Sendable(m)
    PROVE  /\ Ack(m) \in Acks
           /\ m.coins = 1 => Asked(m) \in Signed(Ack(m))
           /\ m.coins = 1 /\ (~Unsourced \/ m.native) => Signed(Ack(m)) = {Asked(m)}
<1>1. m.type \in {"send", "deposit"} /\ m.native \in BOOLEAN
  BY DEF Messages, Sendable, TypesOf
<1>2. m.type = "deposit" => m.native
  BY <1>1 DEF Sendable
<1>3. ~m.native => m.type = "send" /\ AnyDenom
  BY <1>1, <1>2 DEF Sendable
<1>4. ~m.native => NamesDenom(m) /\ ~SignsItsOwn
  BY <1>3 DEF AnyDenom, NamesDenom, SignsItsOwn, Versions, V7_14_2, V7_15_0
<1>5. /\ Denom(m) \in SignedDenoms(Ack(m).denom)
      /\ ~Unsourced \/ m.native => SignedDenoms(Ack(m).denom) = {Denom(m)}
  BY <1>1, <1>4 DEF Ack, Denom, SignedDenoms, Unsourced
<1>6. Ack(m).type = m.type /\ Ack(m).coins = 1 /\ Ack(m).denom \in {"native", "other", "absent"}
  BY <1>1 DEF Ack, Denom
<1>7. Ack(m) \in Acks
  BY <1>1, <1>6 DEF Acks, Ack
<1>8. Signed(Ack(m)) = [type : {m.type}, coins : {1}, denom : SignedDenoms(Ack(m).denom)]
  BY <1>6 DEF Signed
<1> DEFINE denoms == SignedDenoms(Ack(m).denom)
<1> HIDE DEF denoms
<1>9. m.coins = 1 => Asked(m) = [type |-> m.type, coins |-> 1, denom |-> Denom(m)]
  BY DEF Asked
<1>10. Denom(m) \in denoms =>
          [type |-> m.type, coins |-> 1, denom |-> Denom(m)] \in [type : {m.type}, coins : {1}, denom : denoms]
  OBVIOUS
<1>11. denoms = {Denom(m)} =>
          [type : {m.type}, coins : {1}, denom : denoms] = {[type |-> m.type, coins |-> 1, denom |-> Denom(m)]}
  <2> SUFFICES ASSUME denoms = {Denom(m)}, NEW r \in [type : {m.type}, coins : {1}, denom : denoms]
               PROVE  r = [type |-> m.type, coins |-> 1, denom |-> Denom(m)]
    BY <1>10
  <2>1. r.type = m.type /\ r.coins = 1 /\ r.denom = Denom(m)
    OBVIOUS
  <2>2. r = [type |-> r.type, coins |-> r.coins, denom |-> r.denom]
    OBVIOUS
  <2> QED
    BY <2>1, <2>2
<1> QED
  BY <1>5, <1>7, <1>8, <1>9, <1>10, <1>11 DEF denoms

LEMMA InitInv == Init => IInv
<1> SUFFICES ASSUME Init PROVE IInv
  OBVIOUS
<1>1. document \in Seq(Messages) /\ Len(document) \in Nat
  <2>1. PICK n \in 0..MaxLength : document \in [1..n -> Messages]
    BY DEF Init
  <2> QED
    BY <2>1, BoundAssumption
<1> QED
  BY <1>1 DEF Init, Count, IInv, TypeOK, SentRight, Contacted, SignedAsAsked, Answers

LEMMA StepInv == IInv /\ [Next]_vars => IInv'
<1> SUFFICES ASSUME IInv, [Next]_vars PROVE IInv'
  OBVIOUS
<1>0. Len(document) \in Nat /\ Len(trail) \in Nat
  BY DEF IInv, TypeOK
<1>1. CASE CallSignTx
  <2>1. pc' = "waiting" => Count <= Len(document)
    BY <1>1, <1>0 DEF CallSignTx, Count, IInv, TypeOK
  <2> QED
    BY <1>1, <2>1 DEF CallSignTx, IInv, TypeOK, SentRight, Contacted, SignedAsAsked, Count,
       Sendable, TypesOf, AnyDenom, Ack, NamesDenom, Denom
<1>2. CASE SendMessage
  <2> DEFINE m == document[Len(trail) + 1]
  <2>1. m \in Messages /\ Sendable(m) /\ Len(trail) + 1 \in 1..Len(document) /\ Len(trail) < Count
    BY <1>2, <1>0 DEF SendMessage, MessagesLeft, IInv, TypeOK, Contacted, Count
  <2>2. trail' = Append(trail, Ack(m)) /\ Ack(m) \in Acks
    BY <1>2, <2>1, PassesSignedAsAsked DEF SendMessage, IInv, TypeOK
  <2>3. TypeOK'
    BY <1>2, <2>2 DEF SendMessage, IInv, TypeOK, Acks
  <2>4. UNCHANGED <<chain, document, version, resp>> /\ pc' = "waiting"
    BY <1>2 DEF SendMessage
  <2>5. Count' = Count /\ \A x : Sendable(x)' = Sendable(x) /\ Ack(x)' = Ack(x)
    BY <2>4 DEF Count, Sendable, TypesOf, AnyDenom, Ack, NamesDenom, Denom
  <2>6. Len(trail') = Len(trail) + 1 /\ trail'[Len(trail) + 1] = Ack(m)
        /\ \A k \in 1..Len(trail) : trail'[k] = trail[k]
    BY <2>2, <1>0 DEF IInv, TypeOK
  <2>7. SentRight'
    <3>1. Len(trail') <= Count'
      BY <2>1, <2>5, <2>6, <1>0 DEF Count
    <3>2. ASSUME NEW k \in 1..Len(trail')
          PROVE  k \in 1..Len(document) /\ Sendable(document[k]) /\ trail'[k] = Ack(document[k])
      <4>1. CASE k = Len(trail) + 1
        BY <4>1, <2>1, <2>6
      <4>2. CASE k \in 1..Len(trail)
        BY <4>2, <2>6 DEF IInv, SentRight
      <4> QED
        BY <4>1, <4>2, <3>2, <2>6, <1>0
    <3>3. \A k \in 1..Len(trail') : Sendable(document[k])' = Sendable(document[k])
                                   /\ Ack(document[k])' = Ack(document[k])
      BY <2>4 DEF Sendable, TypesOf, AnyDenom, Ack, NamesDenom, Denom
    <3> QED
      BY <3>1, <3>2, <3>3, <2>4 DEF SentRight
  <2> QED
    BY <1>2, <2>3, <2>4, <2>5, <2>7 DEF SendMessage, MessagesLeft, IInv, Contacted, SignedAsAsked
<1>3. CASE RejectMessage
  BY <1>3 DEF RejectMessage, IInv, TypeOK, SentRight, Contacted, SignedAsAsked, Count, Sendable,
     TypesOf, AnyDenom, Ack, NamesDenom, Denom
<1>4. CASE Finish
  <2>1. pc' = "done" => SignedAsAsked'
    <3> SUFFICES ASSUME pc' = "done" PROVE SignedAsAsked'
      OBVIOUS
    <3>1. resp = "SignedTx" /\ Len(trail) = Count /\ UNCHANGED <<chain, document, version, resp, trail>>
      BY <1>4 DEF Finish
    <3> DEFINE Whole ==
                 /\ Len(trail) = Len(document)
                 /\ \A k \in 1..Len(document) :
                       /\ Asked(document[k]) \in Signed(trail[k])
                       /\ ~Unsourced \/ document[k].native => Signed(trail[k]) = {Asked(document[k])}
    <3>2. Truncated' = Truncated /\ Unsourced' = Unsourced
      BY <3>1 DEF Truncated, Unsourced, SignsItsOwn, SignsWhatIsSent
    <3>3. \A m : Asked(m)' = Asked(m) /\ Signed(m)' = Signed(m)
      BY <3>1 DEF Asked, Denom, Signed, SignedDenoms, SignsItsOwn, SignsWhatIsSent
    <3> SUFFICES ASSUME ~Truncated PROVE Whole
      BY <3>1, <3>2, <3>3 DEF SignedAsAsked
    <3>4. document \in Seq(Messages) /\ DOMAIN document = 1..Len(document) /\ chain \in Chains /\ version \in Versions
      BY DEF IInv, TypeOK
    <3>5. Len(trail) = Len(document)
      <4>1. chain = "binance" => ~(Len(document) > 1)
        BY DEF Truncated
      <4>2. Len(trail) = Count /\ Count <= Len(document)
        BY <1>4 DEF Finish, IInv, Contacted
      <4> QED
        BY <4>1, <4>2, <1>0 DEF Count
    <3>6. ASSUME NEW k \in 1..Len(document)
          PROVE  /\ Asked(document[k]) \in Signed(trail[k])
                 /\ ~Unsourced \/ document[k].native => Signed(trail[k]) = {Asked(document[k])}
      <4>1. document[k] \in Messages /\ Sendable(document[k]) /\ trail[k] = Ack(document[k])
        BY <3>4, <3>5 DEF IInv, SentRight
      <4>2. document[k].coins = 1
        BY <3>4, <4>1 DEF Sendable, Truncated
      <4> QED
        BY <3>4, <4>1, <4>2, PassesSignedAsAsked
    <3> QED
      BY <3>5, <3>6 DEF Whole
  <2> QED
    BY <1>4, <2>1 DEF Finish, IInv, TypeOK, SentRight, Contacted, SignedAsAsked, Count, Sendable,
       TypesOf, AnyDenom, Ack, NamesDenom, Denom
<1>5. ASSUME NEW r \in Answers, Respond(r) PROVE IInv'
  BY <1>5 DEF Respond, IInv, TypeOK, SentRight, Contacted, SignedAsAsked, Count, Sendable,
     TypesOf, AnyDenom, Ack, NamesDenom, Denom
<1>6. CASE UNCHANGED vars
  <2>1. UNCHANGED <<chain, document, version, pc, resp, trail>>
    BY <1>6 DEF vars
  <2>2. TypeOK' /\ SentRight' /\ Contacted'
    BY <2>1 DEF IInv, TypeOK, SentRight, Contacted, Count, Sendable, TypesOf, AnyDenom, Ack,
       NamesDenom, Denom
  <2>3. Truncated' = Truncated /\ Unsourced' = Unsourced
    BY <2>1 DEF Truncated, Unsourced, SignsItsOwn, SignsWhatIsSent
  <2>4. \A m : Asked(m)' = Asked(m) /\ Signed(m)' = Signed(m)
    BY <2>1 DEF Asked, Denom, Signed, SignedDenoms, SignsItsOwn, SignsWhatIsSent
  <2>5. SignedAsAsked'
    BY <2>1, <2>3, <2>4 DEF IInv, SignedAsAsked
  <2> QED
    BY <2>2, <2>5 DEF IInv
<1> QED
  BY <1>1, <1>2, <1>3, <1>4, <1>5, <1>6 DEF Next, Host

\* A transaction that cosmos_sign_tx and its relatives return is the caller's
\* document, with every message, every coin and its denomination, for any device
\* and version; of binance.sign_tx this holds for documents of one message with one
\* coin.  Where the repository does not say which denomination a firmware signs,
\* the one the caller wrote was sent.
THEOREM SignedCorrect == Spec => []SignedAsAsked
<1>1. IInv => SignedAsAsked
  BY DEF IInv
<1> QED
  BY <1>1, InitInv, StepInv, PTL DEF Spec

-----------------------------------------------------------------------------
(* EOS *)

\* Induction on the natural numbers, for a property given as a set of them.
LEMMA LeastNumber ==
    ASSUME NEW T, T \subseteq Nat, T # {}
    PROVE  \E m \in T : \A y \in T : m <= y
<1> DEFINE Less == OpToRel(<, Nat)
<1>1. IsWellFoundedOn(Less, Nat)
  BY NatLessThanWellFounded, Zenon
<1>2. \A x, y \in Nat : <<y, x>> \in Less <=> y < x
  BY DEF OpToRel
<1> HIDE DEF Less
<1>3. PICK m \in T : \A y \in T : ~ (<<y, m>> \in Less)
  BY <1>1, WFMin, Zenon
<1>4. \A y \in T : ~(y < m)
  BY <1>2, <1>3
<1> QED
  BY <1>3, <1>4

LEMMA SetInduction ==
    ASSUME NEW P, 0 \in P, \A n \in Nat : n \in P => n + 1 \in P
    PROVE  Nat \subseteq P
<1> DEFINE T == {n \in Nat : n \notin P}
<1> SUFFICES ASSUME T # {} PROVE FALSE
  OBVIOUS
<1>1. PICK m \in T : \A y \in T : m <= y
  <2>1. T \subseteq Nat
    OBVIOUS
  <2> HIDE DEF T
  <2> QED
    BY <2>1, LeastNumber
<1>2. m # 0 /\ m - 1 \in Nat /\ m - 1 \notin T
  BY <1>1
<1> QED
  BY <1>1, <1>2

\* FlattenSeq appends the parts one by one: there are partial results, each the
\* one before it and a part, and the last of them is what it returns.
Partial(D) ==
    LET flatten[i \in 1..Len(D)] == IF i = 1 THEN D[i] ELSE flatten[i - 1] \o D[i]
    IN  flatten

LEMMA FlattenByParts ==
    ASSUME NEW D, Len(D) \in Nat \ {0}
    PROVE  /\ E!FlattenSeq(D) = Partial(D)[Len(D)]
           /\ Partial(D)[1] = D[1]
           /\ \A i \in 1..Len(D) - 1 : Partial(D)[i + 1] = Partial(D)[i] \o D[i + 1]
<1> DEFINE Upto(n) == \E f : f = [i \in 1..n |-> IF i = 1 THEN D[i] ELSE f[i - 1] \o D[i]]
           P == {n \in Nat : Upto(n)}
<1>1. 0 \in P
  <2> [i \in {} |-> i] = [i \in 1..0 |-> IF i = 1 THEN D[i] ELSE [i2 \in {} |-> i2][i - 1] \o D[i]]
    OBVIOUS
  <2> QED
    OBVIOUS
<1>2. ASSUME NEW n \in Nat, n \in P PROVE n + 1 \in P
  <2>1. PICK f : f = [i \in 1..n |-> IF i = 1 THEN D[i] ELSE f[i - 1] \o D[i]]
    BY <1>2
  <2> DEFINE g == [i \in 1..n + 1 |-> IF i <= n THEN f[i] ELSE IF i = 1 THEN D[i] ELSE f[i - 1] \o D[i]]
  <2>2. ASSUME NEW i \in 1..n + 1 PROVE g[i] = IF i = 1 THEN D[i] ELSE g[i - 1] \o D[i]
    <3>1. CASE i <= n
      <4>1. i \in 1..n /\ g[i] = f[i]
        BY <3>1
      <4>2. f[i] = IF i = 1 THEN D[i] ELSE f[i - 1] \o D[i]
        BY <2>1, <4>1
      <4>3. i # 1 => g[i - 1] = f[i - 1]
        BY <3>1
      <4> QED
        BY <4>1, <4>2, <4>3
    <3>2. CASE i = n + 1
      <4>1. i # 1 => g[i - 1] = f[i - 1]
        BY <3>2
      <4> QED
        BY <3>2, <4>1
    <3> QED
      BY <3>1, <3>2
  <2>3. g = [i \in 1..n + 1 |-> IF i = 1 THEN D[i] ELSE g[i - 1] \o D[i]]
    <3> HIDE DEF g
    <3>1. g = [i \in 1..n + 1 |-> g[i]]
      BY DEF g
    <3> QED
      BY <3>1, <2>2
  <2>4. Upto(n + 1)
    <3> HIDE DEF g
    <3> QED
      BY <2>3
  <2> HIDE DEF Upto
  <2> QED
    BY <2>4
<1>3. Upto(Len(D))
  <2>1. Nat \subseteq P
    <3> HIDE DEF P
    <3> QED
      BY <1>1, <1>2, SetInduction
  <2> QED
    BY <2>1
<1>4. Partial(D) = [i \in 1..Len(D) |-> IF i = 1 THEN D[i] ELSE Partial(D)[i - 1] \o D[i]]
  BY <1>3, Zenon DEF Partial
<1>5. E!FlattenSeq(D) = Partial(D)[Len(D)]
  BY DEF E!FlattenSeq, Partial
<1> HIDE DEF Upto, P
<1>6. \A i \in 1..Len(D) : Partial(D)[i] = IF i = 1 THEN D[i] ELSE Partial(D)[i - 1] \o D[i]
  BY <1>4
<1>7. ASSUME NEW i \in 1..Len(D) - 1 PROVE Partial(D)[i + 1] = Partial(D)[i] \o D[i + 1]
  <2>1. i + 1 \in 1..Len(D) /\ i + 1 # 1 /\ (i + 1) - 1 = i
    OBVIOUS
  <2> QED
    BY <1>6, <2>1
<1>8. 1 \in 1..Len(D)
  OBVIOUS
<1> QED
  BY <1>5, <1>6, <1>7, <1>8

\* Every chunk but the last is full, the last one brings what is left, and
\* there are as many as the bytes need.
Chunks(size) == (size + ChunkSize - 1) \div ChunkSize
ChunkLength(size, j) == IF j * ChunkSize <= size THEN ChunkSize ELSE size % ChunkSize

LEMMA ChunkLengths ==
    ASSUME NEW s \in Nat
    PROVE  /\ Chunks(s) \in Nat
           /\ \A j \in 1..Chunks(s) :
                /\ ChunkLength(s, j) \in Nat
                /\ (j - 1) * ChunkSize + ChunkLength(s, j) = IF j = Chunks(s) THEN s ELSE j * ChunkSize
                /\ j < Chunks(s) => j * ChunkSize < s
<1> DEFINE b == ChunkSize
           n == Chunks(s)
<1>a. b \in Nat \ {0}
  BY EosAssumption
<1>b. n = (s + b - 1) \div b
  BY DEF Chunks
<1> HIDE DEF b, n
<1> USE <1>a
<1>0. ASSUME NEW a \in Nat
      PROVE  a \div b \in Nat /\ a % b \in 0..b - 1 /\ a = b * (a \div b) + (a % b)
  OBVIOUS
<1> DEFINE q == s \div b
           r == s % b
<1>1. n \in Nat /\ b * n <= s + b - 1 /\ s <= b * n
  <2> DEFINE x == (s + b - 1) % b
             y == b * n
  <2>1. n \in Nat /\ x \in 0..b - 1 /\ y \in Int /\ s + b - 1 = y + x
    <3>1. s + b - 1 \in Nat
      OBVIOUS
    <3> QED
      BY <3>1, <1>0, <1>b
  <2>2. y <= s + b - 1 /\ s <= y
    <3> HIDE DEF x, y
    <3> QED
      BY <2>1
  <2> QED
    BY <2>1, <2>2
<1>2. ASSUME NEW j \in 1..n, NEW len, len = IF j * b <= s THEN b ELSE s % b
      PROVE  /\ len \in Nat
             /\ (j - 1) * b + len = IF j = n THEN s ELSE j * b
             /\ j < n => j * b < s
  <2>1. q \in Nat /\ r \in 0..b - 1 /\ s = b * q + r
    BY <1>0
  <2> HIDE DEF q, r
  <2>2. len \in Nat
    BY <1>2, <2>1 DEF r
  <2>3. j * b \in Int /\ (j - 1) * b = j * b - b /\ n * b = b * n
    BY <1>1
  <2>4. CASE j < n
    <3>1. j * b <= n * b - b
      <4>1. n - 1 - j \in Nat
        BY <2>4, <1>1
      <4>2. (n - 1 - j) * b \in Nat /\ (n - 1 - j) * b = n * b - b - j * b
        BY <4>1, <1>1
      <4> QED
        BY <4>2, <2>3, <1>1
    <3>2. j * b < s
      BY <3>1, <1>1, <2>3
    <3> QED
      BY <3>2, <2>4, <2>3, <1>2, <2>2
  <2>5. CASE j = n
    <3>1. CASE n * b <= s
      BY <3>1, <2>5, <1>1, <1>2, <2>3
    <3>2. CASE n * b > s
      <4>1. n - 1 = q
        <5>1. b * (n - 1) = b * n - b /\ b * (q + 1) = b * q + b
          BY <1>1, <2>1
        <5>2. b * (n - 1) < b * (q + 1) /\ b * q < b * n
          BY <5>1, <1>1, <2>1, <3>2, <2>3
        <5>3. n - 1 < q + 1 /\ q < n
          BY <5>2, <1>1, <2>1
        <5> QED
          BY <5>3, <1>1, <2>1
      <4>2. (j - 1) * b = b * q
        BY <4>1, <2>5, <2>1
      <4>3. len = r
        BY <3>2, <2>5, <1>2 DEF r
      <4> QED
        BY <4>2, <4>3, <2>1, <2>5
    <3> QED
      BY <3>1, <3>2, <1>1, <2>3
  <2> QED
    BY <2>4, <2>5, <1>1
<1>3. \A j : ChunkLength(s, j) = IF j * b <= s THEN b ELSE s % b
  BY DEF ChunkLength, b
<1> QED
  BY <1>1, <1>2, <1>3 DEF b, n

EosParts == [kind : {"known", "unknown", "malformed"}, size : Nat, len : Nat]

\* The parts of an action bring its bytes up to its size with the last of them
\* and not before.
LEMMA PartsBringAll ==
    ASSUME NEW a \in E!Actions
    PROVE  LET parts == E!PartsOf(a)
           IN  /\ parts \in Seq(EosParts)
               /\ \A j \in 1..Len(parts) :
                    /\ (j - 1) * ChunkSize + parts[j].len =
                           IF j = Len(parts) THEN parts[j].size ELSE j * ChunkSize
                    /\ j < Len(parts) => j * ChunkSize < parts[j].size
<1>1. CASE a.kind = "unknown"
  <2>1. a.size \in Nat
    BY EosAssumption DEF E!Actions
  <2> DEFINE n == Chunks(a.size)
             len(j) == ChunkLength(a.size, j)
  <2>2. /\ n \in Nat
        /\ \A j \in 1..n :
              /\ len(j) \in Nat
              /\ (j - 1) * ChunkSize + len(j) = IF j = n THEN a.size ELSE j * ChunkSize
              /\ j < n => j * ChunkSize < a.size
    BY <2>1, ChunkLengths
  <2>3. E!PartsOf(a) = [j \in 1..n |-> [kind |-> "unknown", size |-> a.size, len |-> len(j)]]
    BY <1>1 DEF E!PartsOf, E!ChunksOf, E!Part, Chunks, ChunkLength
  <2> HIDE DEF n, len
  <2>4. E!PartsOf(a) \in Seq(EosParts) /\ Len(E!PartsOf(a)) = n
    BY <2>1, <2>2, <2>3 DEF EosParts
  <2>5. \A j \in 1..n : E!PartsOf(a)[j].len = len(j) /\ E!PartsOf(a)[j].size = a.size
    BY <2>3
  <2> QED
    BY <2>2, <2>4, <2>5
<1>2. CASE a.kind # "unknown"
  <2>1. E!PartsOf(a) = <<[kind |-> "known", size |-> 0, len |-> 0]>>
    BY <1>2 DEF E!PartsOf, E!Part
  <2>2. E!PartsOf(a) \in Seq(EosParts) /\ Len(E!PartsOf(a)) = 1
    BY <2>1 DEF EosParts
  <2>3. E!PartsOf(a)[1].len = 0 /\ E!PartsOf(a)[1].size = 0 /\ (1 - 1) * ChunkSize = 0
    BY <2>1, EosAssumption
  <2> QED
    BY <2>2, <2>3
<1> QED
  BY <1>1, <1>2

EosTypes ==
    /\ eosRaw \in BOOLEAN /\ eosAnnounced \in Nat
    /\ eosDocument \in Seq(IF eosRaw THEN EosParts ELSE E!Actions) /\ eosDocument # <<>>
    /\ eosPc \in {"start", "waiting", "got", "done", "raised"}
    /\ eosNext \in 0..Len(eosDocument)
    /\ eosChunks \in Seq(EosParts) /\ eosTrail \in Seq(EosParts)
    /\ eosResp \in {"Request", "Signed", "Failure"}
    /\ eosComplete \in Nat /\ eosHave \in Nat

\* The raw operation has sent the first parts of its document, and stops only
\* when there are no more.
RawSent ==
    /\ Len(eosTrail) = eosNext
    /\ \A k \in 1..eosNext : eosTrail[k] = eosDocument[k]
    /\ eosPc = "done" => eosNext = Len(eosDocument)

\* The parts of the document, those of the actions popped so far, and those of
\* the last of them.
DocumentParts == [k \in DOMAIN eosDocument |-> E!PartsOf(eosDocument[k])]
Popped == IF eosNext = 0 THEN <<>> ELSE Partial(DocumentParts)[eosNext]
InHand == DocumentParts[eosNext]
SentInHand == Len(InHand) - Len(eosChunks)

\* The device has not counted more than n actions, and n only if each of them
\* has come.
Counted(n) ==
    /\ eosComplete <= n
    /\ eosComplete = n => \A k \in 1..n : DocumentParts[k] # <<>>

\* What has been sent and what is left of the last action popped are the parts
\* of all actions popped.
ListSent ==
    /\ eosAnnounced = Len(eosDocument)
    /\ eosTrail \o eosChunks = Popped
    /\ IF eosNext = 0 THEN eosChunks = <<>>
       ELSE /\ SentInHand >= 0
            /\ \A i \in 1..Len(eosChunks) : eosChunks[i] = InHand[SentInHand + i]

\* The device has the bytes of all parts sent, at "waiting" of all but the last.
DeviceKeepsUp ==
    /\ eosPc = "start" => eosTrail = <<>> /\ eosResp = "Request" /\ eosNext = 0
    /\ eosPc = "waiting" =>
          /\ eosResp = "Request"
          /\ IF eosTrail = <<>> THEN eosNext = 0
             ELSE /\ eosNext > 0 /\ SentInHand > 0
                  /\ eosTrail[Len(eosTrail)] = InHand[SentInHand]
                  /\ eosHave = (SentInHand - 1) * ChunkSize /\ Counted(eosNext - 1)
    /\ eosPc = "got" /\ eosResp # "Failure" =>
          IF eosChunks = <<>> THEN eosHave = 0 /\ Counted(eosNext)
          ELSE /\ eosResp = "Request"
               /\ eosHave = SentInHand * ChunkSize /\ Counted(eosNext - 1)
    /\ eosPc = "done" => eosChunks = <<>> /\ Counted(eosNext)

EosInv ==
    /\ EosTypes
    /\ eosResp = "Signed" => eosComplete = eosAnnounced /\ eosHave = 0
    /\ eosPc = "done" => eosResp = "Signed"
    /\ IF eosRaw THEN RawSent ELSE ListSent /\ DeviceKeepsUp

LEMMA DocumentPartsRight ==
    ASSUME EosTypes, ~eosRaw
    PROVE  /\ Len(eosDocument) \in Nat \ {0} /\ Len(DocumentParts) = Len(eosDocument)
           /\ \A k \in 1..Len(eosDocument) :
                /\ DocumentParts[k] = E!PartsOf(eosDocument[k])
                /\ DocumentParts[k] \in Seq(EosParts)
                /\ \A j \in 1..Len(DocumentParts[k]) :
                     LET p == DocumentParts[k][j]
                     IN  /\ (j - 1) * ChunkSize + p.len =
                              IF j = Len(DocumentParts[k]) THEN p.size ELSE j * ChunkSize
                         /\ j < Len(DocumentParts[k]) => j * ChunkSize < p.size
<1>1. eosDocument \in Seq(E!Actions) /\ Len(eosDocument) \in Nat \ {0}
  BY DEF EosTypes
<1>2. Len(DocumentParts) = Len(eosDocument)
  BY <1>1 DEF DocumentParts
<1>3. ASSUME NEW k \in 1..Len(eosDocument)
      PROVE  eosDocument[k] \in E!Actions /\ DocumentParts[k] = E!PartsOf(eosDocument[k])
  BY <1>1 DEF DocumentParts
<1> QED
  BY <1>1, <1>2, <1>3, PartsBringAll

LEMMA EosInitInv == E!Init => EosInv
<1> SUFFICES ASSUME E!Init PROVE EosInv
  OBVIOUS
<1>1. eosRaw \in BOOLEAN /\ eosPc = "start" /\ eosNext = 0 /\ eosChunks = <<>> /\ eosTrail = <<>>
      /\ eosResp = "Request" /\ eosComplete = 0 /\ eosHave = 0
  BY DEF E!Init
<1>2. eosDocument \in Seq(IF eosRaw THEN EosParts ELSE E!Actions) /\ eosDocument # <<>>
      /\ eosAnnounced \in Nat /\ (~eosRaw => eosAnnounced = Len(eosDocument))
  <2>1. ASSUME NEW S, eosDocument \in E!UpTo(MaxActions, S)
        PROVE  eosDocument \in Seq(S) /\ Len(eosDocument) \in Nat \ {0}
    <3>1. PICK k \in 1..MaxActions : eosDocument \in [1..k -> S]
      BY <2>1 DEF E!UpTo
    <3> QED
      BY <3>1, EosAssumption
  <2>2. CASE ~eosRaw
    BY <2>1, <2>2 DEF E!Init
  <2>3. CASE eosRaw
    <3> DEFINE S == {E!Part("known", 0, 0), E!Malformed}
                        \cup UNION {E!ToSet(E!ChunksOf(s)) : s \in 1..MaxSize}
    <3>1. S \subseteq EosParts
      <4>1. ASSUME NEW s \in 1..MaxSize, NEW p \in E!ToSet(E!ChunksOf(s)) PROVE p \in EosParts
        <5> DEFINE a == [kind |-> "unknown", size |-> s]
        <5>1. a \in E!Actions /\ E!PartsOf(a) = E!ChunksOf(s)
          BY EosAssumption DEF E!Actions, E!PartsOf
        <5> HIDE DEF a
        <5> QED
          BY <4>1, <5>1, PartsBringAll DEF E!ToSet
      <4> QED
        BY <4>1 DEF E!Part, E!Malformed, EosParts
    <3>2. eosDocument \in E!UpTo(MaxActions, S) /\ eosAnnounced \in 1..MaxActions
      BY <2>3 DEF E!Init
    <3> HIDE DEF S
    <3>3. eosDocument \in Seq(S) /\ Len(eosDocument) \in Nat \ {0}
      BY <3>2, <2>1
    <3> QED
      BY <2>3, <3>1, <3>2, <3>3, SeqMonotonic, EosAssumption
  <2> QED
    BY <2>2, <2>3
<1>3. EosTypes
  BY <1>1, <1>2 DEF EosTypes
<1> QED
  BY <1>1, <1>2, <1>3 DEF EosInv, RawSent, ListSent, DeviceKeepsUp, Popped

LEMMA EosCallSignTx == EosInv /\ E!CallSignTx => EosInv'
<1> SUFFICES ASSUME EosInv, E!CallSignTx PROVE EosInv'
  OBVIOUS
<1> USE DEF E!CallSignTx, E!arguments, E!device
<1>1. EosTypes' /\ DocumentParts' = DocumentParts
  BY DEF EosInv, EosTypes, DocumentParts
<1>2. eosRaw => RawSent'
  BY DEF EosInv, RawSent
<1>3. ~eosRaw => ListSent' /\ DeviceKeepsUp'
  BY <1>1 DEF EosInv, ListSent, DeviceKeepsUp, Popped, SentInHand, InHand, Counted
<1> QED
  BY <1>1, <1>2, <1>3 DEF EosInv

LEMMA EosStops ==
    \/ E!NoMoreActions \/ E!RejectRaw
    \/ UNCHANGED EosVars
    => (EosInv => EosInv')
<1> SUFFICES ASSUME EosInv, E!NoMoreActions \/ E!RejectRaw \/ UNCHANGED EosVars PROVE EosInv'
  OBVIOUS
<1>1. UNCHANGED <<eosRaw, eosDocument, eosAnnounced, eosNext, eosChunks, eosResp, eosTrail, eosComplete, eosHave>>
      /\ eosPc' \in {"raised", eosPc}
  BY DEF E!NoMoreActions, E!RejectRaw, E!Raise, E!arguments, E!device, EosVars
<1>2. EosTypes' /\ DocumentParts' = DocumentParts
  BY <1>1 DEF EosInv, EosTypes, DocumentParts
<1>3. eosRaw => RawSent'
  BY <1>1 DEF EosInv, RawSent
<1>4. ~eosRaw => ListSent' /\ DeviceKeepsUp'
  BY <1>1, <1>2 DEF EosInv, ListSent, DeviceKeepsUp, Popped, SentInHand, InHand, Counted
<1> QED
  BY <1>1, <1>2, <1>3, <1>4 DEF EosInv

LEMMA EosTakeAction == EosInv /\ E!TakeAction => EosInv'
<1> SUFFICES ASSUME EosInv, E!TakeAction PROVE EosInv'
  OBVIOUS
<1>1. /\ ~eosRaw /\ eosPc = "got" /\ eosResp = "Request" /\ eosChunks = <<>>
      /\ eosNext < Len(eosDocument) /\ eosNext' = eosNext + 1
      /\ eosChunks' = E!PartsOf(eosDocument[eosNext + 1])
      /\ UNCHANGED <<eosRaw, eosDocument, eosAnnounced, eosPc, eosResp, eosTrail, eosComplete, eosHave>>
  BY DEF E!TakeAction, E!Asked, E!arguments, E!device
<1>2. EosTypes /\ ListSent /\ DeviceKeepsUp /\ Len(eosDocument) \in Nat \ {0} /\ eosNext \in Nat
  BY <1>1, DocumentPartsRight DEF EosInv, EosTypes
<1>3. DocumentParts' = DocumentParts /\ eosNext + 1 \in 1..Len(eosDocument)
      /\ eosChunks' = DocumentParts[eosNext + 1] /\ eosChunks' \in Seq(EosParts)
  <2>1. DocumentParts' = DocumentParts
    BY <1>1 DEF DocumentParts
  <2>2. eosNext + 1 \in 1..Len(eosDocument)
    BY <1>1, <1>2
  <2> QED
    BY <1>1, <1>2, <2>1, <2>2, DocumentPartsRight
<1>4. EosTypes'
  BY <1>1, <1>2, <1>3 DEF EosTypes
<1>5. InHand' = eosChunks' /\ SentInHand' = 0
  BY <1>1, <1>3 DEF InHand, SentInHand
<1>6. ListSent'
  <2>1. eosTrail \o <<>> = eosTrail /\ <<>> \o eosChunks' = eosChunks'
    BY <1>2, <1>3 DEF EosTypes
  <2>2. eosTrail = Popped
    BY <1>1, <1>2, <2>1 DEF ListSent
  <2>3. Popped' = Partial(DocumentParts)[eosNext + 1]
    BY <1>1, <1>2, <1>3 DEF Popped
  <2>4. Popped' = Popped \o eosChunks'
    <3>1. /\ Partial(DocumentParts)[1] = DocumentParts[1]
          /\ \A i \in 1..Len(eosDocument) - 1 :
                Partial(DocumentParts)[i + 1] = Partial(DocumentParts)[i] \o DocumentParts[i + 1]
      BY <1>1, <1>2, DocumentPartsRight, FlattenByParts
    <3>2. CASE eosNext = 0
      BY <3>1, <3>2, <2>1, <2>3, <1>3 DEF Popped
    <3>3. CASE eosNext > 0
      <4>1. eosNext \in 1..Len(eosDocument) - 1
        BY <3>3, <1>1, <1>2
      <4>2. Popped = Partial(DocumentParts)[eosNext]
        BY <3>3, <1>2 DEF Popped
      <4> QED
        BY <3>1, <4>1, <4>2, <2>3, <1>3
    <3> QED
      BY <3>2, <3>3, <1>2
  <2> QED
    BY <1>1, <1>2, <1>5, <2>2, <2>4 DEF ListSent
<1>7. DeviceKeepsUp'
  <2>1. eosHave = 0 /\ eosComplete <= eosNext
        /\ (eosComplete = eosNext => \A k \in 1..eosNext : DocumentParts[k] # <<>>)
    BY <1>1, <1>2 DEF DeviceKeepsUp, Counted
  <2>2. eosNext' - 1 = eosNext /\ eosComplete' \in Nat /\ eosComplete' < eosNext'
    BY <1>1, <1>2, <2>1 DEF EosTypes
  <2>3. 0 * ChunkSize = 0
    BY EosAssumption
  <2> QED
    BY <1>1, <1>2, <1>3, <1>5, <2>1, <2>2, <2>3 DEF DeviceKeepsUp, Counted
<1> QED
  BY <1>1, <1>4, <1>6, <1>7 DEF EosInv

LEMMA EosSendChunk == EosInv /\ E!SendChunk => EosInv'
<1> SUFFICES ASSUME EosInv, E!SendChunk PROVE EosInv'
  OBVIOUS
<1>1. /\ ~eosRaw /\ eosPc = "got" /\ eosResp = "Request" /\ eosChunks # <<>>
      /\ eosChunks' = Tail(eosChunks) /\ eosTrail' = Append(eosTrail, Head(eosChunks))
      /\ eosPc' = "waiting"
      /\ UNCHANGED <<eosRaw, eosDocument, eosAnnounced, eosNext, eosResp, eosComplete, eosHave>>
  BY DEF E!SendChunk, E!SendPart, E!Asked, E!arguments, E!device
<1>2. EosTypes /\ ListSent /\ DeviceKeepsUp /\ eosChunks \in Seq(EosParts) /\ eosTrail \in Seq(EosParts)
  BY <1>1 DEF EosInv, EosTypes
<1>3. eosNext \in 1..Len(eosDocument) /\ InHand \in Seq(EosParts) /\ SentInHand \in Nat
  <2>1. eosNext \in 1..Len(eosDocument)
    BY <1>1, <1>2 DEF ListSent, EosTypes
  <2>2. InHand \in Seq(EosParts) /\ SentInHand >= 0
    BY <1>1, <1>2, <2>1, DocumentPartsRight DEF InHand, ListSent
  <2> QED
    BY <1>2, <2>1, <2>2 DEF SentInHand
<1>4. /\ eosChunks' \in Seq(EosParts) /\ Len(eosChunks') = Len(eosChunks) - 1
      /\ \A i \in 1..Len(eosChunks') : eosChunks'[i] = eosChunks[i + 1]
      /\ Head(eosChunks) = eosChunks[1] /\ Head(eosChunks) \in EosParts /\ Len(eosChunks) \in Nat \ {0}
  BY <1>1, <1>2
<1>5. /\ eosTrail' \in Seq(EosParts) /\ eosTrail' # <<>>
      /\ Len(eosTrail') = Len(eosTrail) + 1 /\ eosTrail'[Len(eosTrail')] = eosChunks[1]
  BY <1>1, <1>2, <1>4
<1>6. EosTypes' /\ DocumentParts' = DocumentParts
  BY <1>1, <1>2, <1>4, <1>5 DEF EosTypes, DocumentParts
<1>7. InHand' = InHand /\ SentInHand' = SentInHand + 1
  <2>1. InHand' = InHand /\ Len(InHand) \in Nat
    BY <1>1, <1>3, <1>6 DEF InHand
  <2> QED
    BY <2>1, <1>4 DEF SentInHand
<1>8. eosChunks[1] = InHand[SentInHand + 1]
  BY <1>2, <1>3, <1>4 DEF ListSent
<1>9. ListSent'
  <2>1. eosTrail' \o eosChunks' = eosTrail \o eosChunks
    BY <1>1, <1>2, <1>4, <1>5
  <2>2. Popped' = Popped
    BY <1>1, <1>6 DEF Popped
  <2>3. \A i \in 1..Len(eosChunks') : eosChunks'[i] = InHand[SentInHand + 1 + i]
    <3> TAKE i \in 1..Len(eosChunks')
    <3>1. i + 1 \in 1..Len(eosChunks) /\ SentInHand + 1 + i = SentInHand + (i + 1)
      BY <1>3, <1>4
    <3> QED
      BY <3>1, <1>2, <1>3, <1>4 DEF ListSent
  <2>4. eosNext # 0 /\ eosAnnounced = Len(eosDocument) /\ eosTrail \o eosChunks = Popped
    BY <1>2, <1>3 DEF ListSent
  <2>5. SentInHand' >= 0 /\ \A i \in 1..Len(eosChunks') : eosChunks'[i] = InHand'[SentInHand' + i]
    BY <1>3, <1>7, <2>3
  <2> QED
    BY <1>1, <2>1, <2>2, <2>4, <2>5 DEF ListSent
<1>10. DeviceKeepsUp'
  <2>1. eosHave = SentInHand * ChunkSize /\ eosComplete <= eosNext - 1
        /\ (eosComplete = eosNext - 1 => \A k \in 1..eosNext - 1 : DocumentParts[k] # <<>>)
    BY <1>1, <1>2 DEF DeviceKeepsUp, Counted
  <2>2. SentInHand' > 0 /\ SentInHand' - 1 = SentInHand /\ eosNext > 0
    BY <1>3, <1>7
  <2> QED
    BY <1>1, <1>5, <1>6, <1>7, <1>8, <2>1, <2>2 DEF DeviceKeepsUp, Counted
<1> QED
  BY <1>1, <1>2, <1>6, <1>9, <1>10 DEF EosInv

LEMMA EosSendRaw == EosInv /\ E!SendRaw => EosInv'
<1> SUFFICES ASSUME EosInv, E!SendRaw PROVE EosInv'
  OBVIOUS
<1>1. /\ eosRaw /\ eosPc = "got" /\ eosNext < Len(eosDocument) /\ eosNext' = eosNext + 1
      /\ eosTrail' = Append(eosTrail, eosDocument[eosNext + 1])
      /\ eosPc' = "waiting"
      /\ UNCHANGED <<eosRaw, eosDocument, eosAnnounced, eosChunks, eosResp, eosComplete, eosHave>>
  BY DEF E!SendRaw, E!SendPart, E!arguments, E!device
<1>2. /\ EosTypes /\ RawSent /\ eosDocument \in Seq(EosParts) /\ eosTrail \in Seq(EosParts)
      /\ eosNext \in Nat /\ eosNext + 1 \in 1..Len(eosDocument)
  BY <1>1 DEF EosInv, EosTypes
<1>3. /\ eosTrail' \in Seq(EosParts) /\ Len(eosTrail') = Len(eosTrail) + 1
      /\ eosTrail'[Len(eosTrail) + 1] = eosDocument[eosNext + 1]
      /\ \A k \in 1..Len(eosTrail) : eosTrail'[k] = eosTrail[k]
  BY <1>1, <1>2
<1>4. EosTypes'
  BY <1>1, <1>2, <1>3 DEF EosTypes
<1>5. RawSent'
  BY <1>1, <1>2, <1>3 DEF RawSent
<1> QED
  BY <1>1, <1>4, <1>5 DEF EosInv

LEMMA EosFinish == EosInv /\ E!Finish => EosInv'
<1> SUFFICES ASSUME EosInv, E!Finish PROVE EosInv'
  OBVIOUS
<1>1. /\ eosPc = "got" /\ (IF eosRaw THEN eosNext = Len(eosDocument) ELSE eosResp # "Request")
      /\ eosPc' = IF eosResp = "Signed" THEN "done" ELSE "raised"
      /\ UNCHANGED <<eosRaw, eosDocument, eosAnnounced, eosNext, eosChunks, eosResp, eosTrail, eosComplete, eosHave>>
  BY DEF E!Finish, E!arguments, E!device
<1>2. EosTypes' /\ DocumentParts' = DocumentParts
  BY <1>1 DEF EosInv, EosTypes, DocumentParts
<1>3. eosRaw => RawSent'
  BY <1>1 DEF EosInv, RawSent
<1>4. ~eosRaw => ListSent'
  BY <1>1, <1>2 DEF EosInv, ListSent, Popped, SentInHand, InHand
<1>5. ~eosRaw => DeviceKeepsUp'
  BY <1>1, <1>2 DEF EosInv, DeviceKeepsUp, SentInHand, InHand, Counted
<1> QED
  BY <1>1, <1>2, <1>3, <1>4, <1>5 DEF EosInv

LEMMA EosDevice == EosInv /\ E!Device => EosInv'
<1> SUFFICES ASSUME EosInv, E!Device PROVE EosInv'
  OBVIOUS
<1>1. /\ eosPc = "waiting" /\ eosPc' = "got"
      /\ UNCHANGED <<eosRaw, eosDocument, eosAnnounced, eosNext, eosChunks, eosTrail>>
  BY DEF E!Device, E!Answer, E!OnWhole, E!arguments
<1> DEFINE p == eosTrail[Len(eosTrail)]
<1>2. \/ eosTrail = <<>> /\ eosResp' = "Request" /\ eosComplete' = 0 /\ eosHave' = 0
      \/ eosTrail # <<>> /\ eosResp' = "Failure" /\ eosComplete' = eosAnnounced /\ eosHave' = 0
      \/ /\ eosTrail # <<>> /\ eosHave + p.len = p.size
         /\ eosResp' = IF eosComplete + 1 = eosAnnounced THEN "Signed" ELSE "Request"
         /\ eosComplete' = eosComplete + 1 /\ eosHave' = 0
      \/ /\ eosTrail # <<>> /\ eosHave + p.len # p.size
         /\ eosResp' = "Request" /\ eosComplete' = eosComplete /\ eosHave' = eosHave + p.len
  BY DEF E!Device, E!Answer, E!OnWhole, E!Last
<1>3. EosTypes /\ (eosTrail # <<>> => p.len \in Nat)
  <2>1. EosTypes
    BY DEF EosInv
  <2>2. eosTrail # <<>> => p \in EosParts
    BY <2>1 DEF EosTypes
  <2> QED
    BY <2>1, <2>2 DEF EosParts
<1> HIDE DEF p
<1>4. EosTypes' /\ DocumentParts' = DocumentParts
  BY <1>1, <1>2, <1>3 DEF EosTypes, DocumentParts
<1>5. eosResp' = "Signed" => eosComplete' = eosAnnounced' /\ eosHave' = 0
  BY <1>1, <1>2
<1>6. eosRaw => RawSent'
  BY <1>1 DEF EosInv, RawSent
<1>7. ~eosRaw => ListSent'
  BY <1>1, <1>4 DEF EosInv, ListSent, Popped, SentInHand, InHand
<1>8. ASSUME ~eosRaw PROVE DeviceKeepsUp'
  <2>1. ListSent /\ DeviceKeepsUp
    BY <1>8 DEF EosInv
  <2>2. CASE eosTrail = <<>>
    <3>1. eosNext = 0 /\ eosChunks = <<>>
      BY <2>1, <2>2, <1>1 DEF DeviceKeepsUp, ListSent
    <3> QED
      BY <3>1, <2>2, <1>1, <1>2 DEF DeviceKeepsUp, Counted
  <2>3. CASE eosTrail # <<>>
    <3>1. /\ eosNext > 0 /\ SentInHand > 0 /\ p = InHand[SentInHand]
          /\ eosHave = (SentInHand - 1) * ChunkSize
          /\ eosComplete <= eosNext - 1
          /\ eosComplete = eosNext - 1 => \A k \in 1..eosNext - 1 : DocumentParts[k] # <<>>
      BY <2>1, <2>3, <1>1 DEF DeviceKeepsUp, Counted, p
    <3>2. eosNext \in 1..Len(eosDocument) /\ eosChunks \in Seq(EosParts)
      BY <3>1, <1>3 DEF EosTypes
    <3>3. InHand \in Seq(EosParts) /\ Len(InHand) \in Nat
      BY <3>2, <1>3, <1>8, DocumentPartsRight DEF InHand
    <3>4. SentInHand \in 1..Len(InHand) /\ (SentInHand = Len(InHand) <=> eosChunks = <<>>)
      BY <3>1, <3>2, <3>3 DEF SentInHand
    <3>5. /\ eosHave + p.len = IF eosChunks = <<>> THEN p.size ELSE SentInHand * ChunkSize
          /\ eosChunks # <<>> => SentInHand * ChunkSize < p.size
      BY <3>1, <3>2, <3>4, <1>3, <1>8, DocumentPartsRight DEF InHand
    <3>6. InHand' = InHand /\ SentInHand' = SentInHand
      BY <1>1, <1>4 DEF InHand, SentInHand
    <3>7. CASE eosChunks = <<>>
      <4>1. \/ eosResp' = "Failure"
            \/ eosComplete' = eosComplete + 1 /\ eosHave' = 0
        BY <3>5, <3>7, <2>3, <1>2
      <4>2. DocumentParts[eosNext] # <<>>
        BY <3>3, <3>4 DEF InHand
      <4>3. eosComplete + 1 = eosNext => \A k \in 1..eosNext : DocumentParts[k] # <<>>
        <5> SUFFICES ASSUME eosComplete + 1 = eosNext, NEW k \in 1..eosNext PROVE DocumentParts[k] # <<>>
          OBVIOUS
        <5>1. eosComplete = eosNext - 1 /\ (k = eosNext \/ k \in 1..eosNext - 1)
          BY <1>3 DEF EosTypes
        <5> QED
          BY <5>1, <3>1, <4>2
      <4>4. eosComplete + 1 <= eosNext
        BY <3>1, <3>2, <1>3 DEF EosTypes
      <4> QED
        BY <4>1, <4>3, <4>4, <3>7, <1>1, <1>4 DEF DeviceKeepsUp, Counted
    <3>8. CASE eosChunks # <<>>
      <4>1. SentInHand * ChunkSize < p.size => eosHave + p.len # p.size
        <5>1. SentInHand * ChunkSize \in Int
          BY <3>4, <3>3, EosAssumption
        <5> QED
          BY <3>5, <3>8, <5>1
      <4>2. \/ eosResp' = "Failure"
            \/ eosResp' = "Request" /\ eosComplete' = eosComplete /\ eosHave' = SentInHand * ChunkSize
        BY <3>5, <3>8, <4>1, <2>3, <1>2
      <4> QED
        BY <4>2, <3>1, <3>6, <3>8, <1>1, <1>4 DEF DeviceKeepsUp, Counted
    <3> QED
      BY <3>7, <3>8
  <2> QED
    BY <2>2, <2>3
<1> QED
  BY <1>1, <1>4, <1>5, <1>6, <1>7, <1>8 DEF EosInv

LEMMA EosNextInv == EosInv /\ [E!Next]_EosVars => EosInv'
BY EosCallSignTx, EosTakeAction, EosSendChunk, EosSendRaw, EosFinish, EosDevice, EosStops
   DEF E!Next, E!Host

LEMMA EosWhole == EosInv => E!SignedWhole
<1> SUFFICES ASSUME EosInv, eosPc = "done"
             PROVE  /\ eosTrail = E!Whole
                    /\ eosComplete = eosAnnounced /\ eosHave = 0
                    /\ ~eosRaw => \A k \in DOMAIN eosDocument : E!PartsOf(eosDocument[k]) # <<>>
  BY DEF E!SignedWhole
<1>1. EosTypes /\ eosResp = "Signed" /\ eosComplete = eosAnnounced /\ eosHave = 0
  BY DEF EosInv
<1>2. CASE eosRaw
  <2>1. eosDocument \in Seq(EosParts) /\ eosTrail \in Seq(EosParts) /\ RawSent
    BY <1>1, <1>2 DEF EosTypes, EosInv
  <2>2. eosTrail = eosDocument
    BY <2>1, SeqEqual DEF RawSent
  <2> QED
    BY <1>1, <1>2, <2>2 DEF E!Whole
<1>3. CASE ~eosRaw
  <2>1. ListSent /\ eosChunks = <<>> /\ eosComplete <= eosNext
        /\ (eosComplete = eosNext => \A k \in 1..eosNext : DocumentParts[k] # <<>>)
    BY <1>3 DEF EosInv, DeviceKeepsUp, Counted
  <2>2. eosComplete = Len(eosDocument) /\ eosNext = Len(eosDocument) /\ Len(eosDocument) \in Nat \ {0}
    BY <1>1, <1>3, <2>1, DocumentPartsRight DEF ListSent, EosTypes
  <2>3. eosTrail \o <<>> = eosTrail
    BY <1>1 DEF EosTypes
  <2>4. eosTrail = Partial(DocumentParts)[Len(eosDocument)]
    BY <2>1, <2>2, <2>3 DEF ListSent, Popped
  <2>5. E!Whole = E!FlattenSeq(DocumentParts)
    BY <1>3 DEF E!Whole, DocumentParts
  <2>6. eosTrail = E!Whole
    BY <2>2, <2>4, <2>5, <1>1, <1>3, DocumentPartsRight, FlattenByParts
  <2>7. DOMAIN eosDocument = 1..Len(eosDocument)
    BY <1>1, <1>3 DEF EosTypes
  <2>8. \A k \in DOMAIN eosDocument : E!PartsOf(eosDocument[k]) # <<>>
    BY <1>1, <1>3, <2>1, <2>2, <2>7, DocumentPartsRight
  <2> QED
    BY <1>1, <2>6, <2>8
<1> QED
  BY <1>2, <1>3

\* Whatever the actions, the size of the chunks and the answers of the device:
\* the signature that eos_sign_tx or eos_sign_tx_raw returns is over the whole
\* transaction, no action left out.
THEOREM EosSignaturesWhole == StreamsSpec => []EosSignedWhole
<1> DEFINE Inv == signer = "eos" => EosInv
<1>1. StreamsInit => Inv
  BY EosInitInv DEF StreamsInit
<1>2. Inv /\ [StreamsNext]_StreamsVars => Inv'
  <2> SUFFICES ASSUME Inv, [StreamsNext]_StreamsVars, signer' = "eos" PROVE EosInv'
    OBVIOUS
  <2>1. signer = "eos" /\ [E!Next]_EosVars
    BY DEF StreamsNext, StreamsVars
  <2> QED
    BY <2>1, EosNextInv
<1>3. Inv => EosSignedWhole
  BY EosWhole DEF EosSignedWhole
<1> QED
  BY <1>1, <1>2, <1>3, PTL DEF StreamsSpec
=============================================================================
