---------------------------- MODULE Framing_proofs ----------------------------
(* The reader of the wire format stays in step with the writer for messages   *)
(* of any length, any size of report and any arrival of the reports; without  *)
(* failed reads the bytes implement the message channel; and, for messages    *)
(* without a second "##", failed reads lose messages but never invent one.    *)
(*                                                                            *)
(* The argument puts every byte at its place in one endless stream: message   *)
(* i begins at offset starts[i], R bytes have been consumed, and what is in   *)
(* the buffer, on the wire and in the outbox are the bytes that follow.       *)
EXTENDS Framing, SequenceTheorems, TLAPS

-----------------------------------------------------------------------------
(* Reports *)

ReportSet == {r \in Seq(Byte) : Len(r) = ChunkLen + 1 /\ Head(r) = ReportId}

\* The reports a message takes, the bytes of n reports, and the bytes of a
\* message with the padding of its last report.
ReportCount(m) == (Len(Frame(m)) + ChunkLen - 1) \div ChunkLen
Bytes(n) == n * ChunkLen
Span(m) == Bytes(ReportCount(m))
PaddedByte(m, j) == IF j <= Len(Frame(m)) THEN Frame(m)[j] ELSE 0

\* n reports after k reports.
LEMMA BytesAdd ==
    /\ Bytes(0) = 0
    /\ \A n \in Nat : Bytes(n) \in Nat /\ Bytes(n + 1) = Bytes(n) + ChunkLen
    /\ \A n, k \in Nat : Bytes(n + k) = Bytes(n) + Bytes(k)
    /\ \A n, k \in Nat : n < k => Bytes(n) + ChunkLen <= Bytes(k)
<1>1. ChunkLen \in Nat
  BY FramingAssumption
<1>2. Bytes(0) = 0
  BY <1>1 DEF Bytes
<1>3. ASSUME NEW n \in Nat PROVE Bytes(n) \in Nat /\ Bytes(n + 1) = Bytes(n) + ChunkLen
  BY <1>1 DEF Bytes
<1>4. ASSUME NEW n \in Nat, NEW k \in Nat PROVE Bytes(n + k) = Bytes(n) + Bytes(k)
  BY <1>1 DEF Bytes
<1>5. ASSUME NEW n \in Nat, NEW k \in Nat, n < k PROVE Bytes(n) + ChunkLen <= Bytes(k)
  <2>1. PICK d \in Nat : k = (n + 1) + d
    <3>1. k - n - 1 \in Nat /\ k = (n + 1) + (k - n - 1)
      BY <1>5
    <3> QED
      BY <3>1
  <2>2. Bytes(k) = Bytes(n) + ChunkLen + Bytes(d) /\ Bytes(d) \in Nat /\ Bytes(n) \in Nat
    BY <1>3, <1>4, <2>1
  <2> QED
    BY <2>2, <1>1
<1> QED
  BY <1>2, <1>3, <1>4, <1>5

\* Splitting off the low byte of a number, and putting it back.
LEMMA LowByte ==
    \A n \in Nat : n \div 256 \in Nat /\ n % 256 \in Byte /\ (n \div 256) * 256 + (n % 256) = n
BY DEF Byte

\* Byte strings one after the other.
LEMMA Joined ==
    ASSUME NEW s \in Seq(Byte), NEW t \in Seq(Byte)
    PROVE  /\ s \o t \in Seq(Byte) /\ Len(s \o t) = Len(s) + Len(t)
           /\ Len(s) \in Nat /\ Len(t) \in Nat
           /\ \A i \in 1..Len(s) : (s \o t)[i] = s[i]
           /\ \A i \in 1..Len(t) : (s \o t)[Len(s) + i] = t[i]
<1>1. Len(s) \in Nat /\ Len(t) \in Nat
  BY LenProperties
<1>2. s \o t \in Seq(Byte) /\ Len(s \o t) = Len(s) + Len(t)
  BY ConcatProperties
<1>3. \A i \in 1..Len(s) + Len(t) : (s \o t)[i] = IF i <= Len(s) THEN s[i] ELSE t[i - Len(s)]
  BY ConcatProperties
<1> DEFINE st == s \o t
           l == Len(s)
           k == Len(t)
<1> HIDE DEF st, l, k
<1>4. \A i \in 1..l + k : st[i] = IF i <= l THEN s[i] ELSE t[i - l]
  BY <1>3 DEF st, l, k
<1>5. \A i \in 1..l : st[i] = s[i]
  BY <1>1, <1>4 DEF l, k
<1>6. ASSUME NEW i \in 1..k PROVE st[l + i] = t[i]
  <2>1. l + i \in 1..l + k /\ ~(l + i <= l) /\ (l + i) - l = i
    BY <1>1 DEF l, k
  <2> QED
    BY <1>4, <2>1
<1> QED
  BY <1>1, <1>2, <1>5, <1>6 DEF st, l, k

\* The header of a message is six bytes, from which the reader gets its type
\* and its length back.
LEMMA HeaderRight ==
    ASSUME NEW m \in Messages
    PROVE  /\ m.type \in MessageType /\ m.body \in Seq(Byte)
           /\ PackHeader(m) \in Seq(Byte) /\ Len(PackHeader(m)) = 6
           /\ LET h == PackHeader(m)
              IN  /\ h[1] * 256 + h[2] = m.type
                  /\ ((h[3] * 256 + h[4]) * 256 + h[5]) * 256 + h[6] = Len(m.body)
<1>1. m.type \in MessageType /\ m.body \in Seq(Byte)
  BY FramingAssumption
<1> DEFINE n == Len(m.body)
           n2 == n \div 256
           n3 == n2 \div 256
<1>2. n \in Nat /\ n3 \div 256 \in Byte
  <2>1. n \in Nat
    BY <1>1, LenProperties
  <2> QED
    BY <2>1, FramingAssumption
<1>3. m.type \div 256 \in Byte /\ m.type % 256 \in Byte /\ (m.type \div 256) * 256 + (m.type % 256) = m.type
  <2>1. m.type \in Nat /\ m.type \div 256 \in Byte
    BY <1>1 DEF MessageType
  <2> QED
    BY <2>1, LowByte
<1> HIDE DEF n
<1>4. n2 \in Nat /\ n % 256 \in Byte /\ n2 * 256 + (n % 256) = n
  BY <1>2, LowByte
<1> HIDE DEF n2
<1>5. n3 \in Nat /\ n2 % 256 \in Byte /\ n3 * 256 + (n2 % 256) = n2
  BY <1>4, LowByte
<1> HIDE DEF n3
<1>51. n3 % 256 \in Byte /\ (n3 \div 256) * 256 + (n3 % 256) = n3
  BY <1>5, LowByte
<1>6. PackHeader(m) = <<m.type \div 256, m.type % 256, n3 \div 256, n3 % 256, n2 % 256, n % 256>>
  BY DEF PackHeader, n, n2, n3
<1>7. PackHeader(m) \in Seq(Byte) /\ Len(PackHeader(m)) = 6
  BY <1>2, <1>3, <1>4, <1>5, <1>51, <1>6
<1> DEFINE h == PackHeader(m)
<1>8. /\ h[1] = m.type \div 256 /\ h[2] = m.type % 256
      /\ h[3] = n3 \div 256 /\ h[4] = n3 % 256 /\ h[5] = n2 % 256 /\ h[6] = n % 256
  BY <1>6
<1>9. h[1] * 256 + h[2] = m.type
  BY <1>3, <1>8
<1> HIDE DEF h
<1>10. ((h[3] * 256 + h[4]) * 256 + h[5]) * 256 + h[6] = n
  BY <1>4, <1>5, <1>51, <1>8
<1> QED
  BY <1>1, <1>7, <1>9, <1>10 DEF n, h

\* Where the parts of a frame are.
LEMMA FrameBytes ==
    ASSUME NEW m \in Messages
    PROVE  /\ Frame(m) \in Seq(Byte) /\ Len(Frame(m)) = 8 + Len(m.body) /\ Len(m.body) \in Nat
           /\ Frame(m)[1] = Hash /\ Frame(m)[2] = Hash
           /\ \A i \in 1..6 : Frame(m)[2 + i] = PackHeader(m)[i]
           /\ \A i \in 1..Len(m.body) : Frame(m)[8 + i] = m.body[i]
<1> DEFINE h == PackHeader(m)
           magic == <<Hash, Hash>>
           top == magic \o h
<1>1. h \in Seq(Byte) /\ Len(h) = 6 /\ m.body \in Seq(Byte) /\ Len(m.body) \in Nat
  BY HeaderRight
<1>2. magic \in Seq(Byte) /\ Len(magic) = 2 /\ magic[1] = Hash /\ magic[2] = Hash
  BY DEF Hash, Byte
<1> HIDE DEF h, magic
<1>3. /\ top \in Seq(Byte) /\ Len(top) = 8
      /\ \A i \in 1..2 : top[i] = magic[i]
      /\ \A i \in 1..6 : top[2 + i] = h[i]
  <2>1. magic \in Seq(Byte) /\ h \in Seq(Byte)
    BY <1>1, <1>2
  <2>2. /\ top \in Seq(Byte) /\ Len(top) = Len(magic) + Len(h)
        /\ \A i \in 1..Len(magic) : top[i] = magic[i]
        /\ \A i \in 1..Len(h) : top[Len(magic) + i] = h[i]
    BY <2>1, Joined
  <2> HIDE DEF top
  <2> QED
    BY <1>1, <1>2, <2>2
<1>5. Frame(m) = top \o m.body
  BY DEF Frame, h, magic
<1> HIDE DEF top
<1>6. /\ Frame(m) \in Seq(Byte) /\ Len(Frame(m)) = 8 + Len(m.body)
      /\ \A i \in 1..8 : Frame(m)[i] = top[i]
      /\ \A i \in 1..Len(m.body) : Frame(m)[8 + i] = m.body[i]
  <2> DEFINE body == m.body
  <2>1. top \in Seq(Byte) /\ body \in Seq(Byte)
    BY <1>1, <1>3
  <2> HIDE DEF body
  <2>2. /\ top \o body \in Seq(Byte) /\ Len(top \o body) = Len(top) + Len(body)
        /\ \A i \in 1..Len(top) : (top \o body)[i] = top[i]
        /\ \A i \in 1..Len(body) : (top \o body)[Len(top) + i] = body[i]
    BY <2>1, Joined
  <2> QED
    BY <1>3, <1>5, <2>2 DEF body
<1>7. Frame(m)[1] = Hash /\ Frame(m)[2] = Hash
  BY <1>2, <1>3, <1>6
<1>8. ASSUME NEW i \in 1..6 PROVE Frame(m)[2 + i] = h[i]
  BY <1>3, <1>6
<1> QED
  BY <1>1, <1>6, <1>7, <1>8 DEF h

\* The last report of a message has some of its bytes.
LEMMA SpanBounds ==
    ASSUME NEW m \in Messages
    PROVE  /\ ReportCount(m) \in Nat /\ ReportCount(m) > 0 /\ Span(m) \in Nat
           /\ Span(m) >= Len(Frame(m)) /\ Span(m) < Len(Frame(m)) + ChunkLen
           /\ Span(m) = Bytes(ReportCount(m) - 1) + ChunkLen
<1> DEFINE L == Len(Frame(m))
           N == (L + ChunkLen - 1) \div ChunkLen
<1>1. ChunkLen \in Nat /\ ChunkLen >= 8
  BY FramingAssumption DEF MagicLen, HeaderLen
<1>2. L \in Nat /\ L >= 8
  <2>1. Len(Frame(m)) = 8 + Len(m.body) /\ Len(m.body) \in Nat
    BY FrameBytes
  <2> QED
    BY <2>1
<1> HIDE DEF L
<1>3. L + ChunkLen - 1 \in Nat
  BY <1>1, <1>2
<1>4. N \in Nat /\ N * ChunkLen <= L + ChunkLen - 1 /\ L + ChunkLen - 1 < N * ChunkLen + ChunkLen
  BY <1>1, <1>3
<1> HIDE DEF N
<1>5. N > 0
  <2>1. CASE N = 0
    <3>1. N * ChunkLen = 0
      BY <1>1, <2>1
    <3> QED
      BY <1>1, <1>2, <1>4, <3>1
  <2> QED
    BY <1>4, <2>1
<1>6. N * ChunkLen \in Nat /\ N * ChunkLen = (N - 1) * ChunkLen + ChunkLen
  BY <1>1, <1>4
<1>7. ReportCount(m) = N /\ Span(m) = N * ChunkLen
  BY DEF ReportCount, Span, Bytes, N, L
<1> QED
  BY <1>1, <1>2, <1>4, <1>5, <1>6, <1>7 DEF L, Bytes

ChunkOf(m, i) ==
    SubSeq(Frame(m), Bytes(i - 1) + 1, IF Bytes(i) < Len(Frame(m)) THEN Bytes(i) ELSE Len(Frame(m)))
ReportOf(m, i) == <<ReportId>> \o ChunkOf(m, i) \o Zeros(ChunkLen - Len(ChunkOf(m, i)))

\* Report i has the bytes after those of the reports before it.
LEMMA ReportBytes ==
    ASSUME NEW m \in Messages, NEW i \in 1..ReportCount(m)
    PROVE  /\ ReportOf(m, i) \in ReportSet
           /\ \A j \in 1..ChunkLen : ReportOf(m, i)[1 + j] = PaddedByte(m, Bytes(i - 1) + j)
<1> DEFINE b == Frame(m)
           L == Len(b)
           from == Bytes(i - 1)
           to == IF Bytes(i) < L THEN Bytes(i) ELSE L
           chunk == ChunkOf(m, i)
           zeros == Zeros(ChunkLen - Len(chunk))
           top == <<ReportId>> \o chunk
           report == ReportOf(m, i)
<1>1. ChunkLen \in Nat /\ ChunkLen >= 8
  BY FramingAssumption DEF MagicLen, HeaderLen
<1>2. b \in Seq(Byte) /\ L \in Nat
  BY FrameBytes
<1>3. from \in Nat /\ Bytes(i) = from + ChunkLen /\ from < L
  <2>1. i - 1 \in Nat /\ (i - 1) + 1 = i /\ ReportCount(m) \in Nat /\ ReportCount(m) - 1 \in Nat
    BY SpanBounds
  <2>2. from \in Nat /\ Bytes(i) = from + ChunkLen
    BY <2>1, BytesAdd
  <2>3. Bytes(ReportCount(m) - 1) < L
    <3>1. /\ Span(m) \in Nat /\ Span(m) < L + ChunkLen
          /\ Span(m) = Bytes(ReportCount(m) - 1) + ChunkLen
      BY SpanBounds
    <3>2. ReportCount(m) - 1 \in Nat /\ Bytes(ReportCount(m) - 1) \in Nat
      BY <2>1, BytesAdd
    <3> HIDE DEF L
    <3> QED
      BY <1>1, <1>2, <3>1, <3>2
  <2>4. Bytes(ReportCount(m) - 1) \in Nat /\ from <= Bytes(ReportCount(m) - 1)
    <3>1. i - 1 < ReportCount(m) - 1 \/ i - 1 = ReportCount(m) - 1
      BY <2>1
    <3>2. i - 1 < ReportCount(m) - 1 => from + ChunkLen <= Bytes(ReportCount(m) - 1)
      BY <2>1, BytesAdd
    <3>3. Bytes(ReportCount(m) - 1) \in Nat
      BY <2>1, BytesAdd
    <3> HIDE DEF from
    <3> QED
      BY <1>1, <2>2, <3>1, <3>2, <3>3 DEF from
  <2> QED
    BY <1>2, <2>2, <2>3, <2>4
<1>4. chunk = SubSeq(b, from + 1, to)
  BY DEF ChunkOf
<1>5. /\ report = top \o zeros
      /\ \A j : PaddedByte(m, j) = IF j <= L THEN b[j] ELSE 0
  BY DEF ReportOf, PaddedByte
<1> HIDE DEF b, L, from, chunk, report
<1>6. to \in Nat /\ to > from /\ to <= L /\ to - from <= ChunkLen
  BY <1>1, <1>2, <1>3
<1>7. /\ chunk \in Seq(Byte) /\ Len(chunk) = to - from
      /\ \A j \in 1..to - from : chunk[j] = b[from + j]
  <2>1. \A j \in from + 1 .. to : b[j] \in Byte
    BY <1>2, <1>3, <1>6 DEF L
  <2>2. /\ SubSeq(b, from + 1, to) \in Seq(Byte)
        /\ Len(SubSeq(b, from + 1, to)) = IF from + 1 <= to THEN to - (from + 1) + 1 ELSE 0
        /\ \A j \in 1 .. to - (from + 1) + 1 : SubSeq(b, from + 1, to)[j] = b[from + 1 + j - 1]
    <3>1. from + 1 \in Int /\ to \in Int
      BY <1>3, <1>6
    <3> HIDE DEF to
    <3> QED
      BY <2>1, <3>1, SubSeqProperties
  <2>3. to - (from + 1) + 1 = to - from /\ from + 1 <= to
    BY <1>3, <1>6
  <2>4. \A j \in 1..to - from : from + 1 + j - 1 = from + j
    BY <1>3, <1>6
  <2> HIDE DEF to
  <2> QED
    BY <1>4, <2>2, <2>3, <2>4
<1>8. /\ zeros \in Seq(Byte) /\ Len(zeros) = ChunkLen - Len(chunk)
      /\ \A j \in 1..ChunkLen - Len(chunk) : zeros[j] = 0
  <2>1. ChunkLen - Len(chunk) \in Nat
    BY <1>1, <1>3, <1>6, <1>7
  <2>2. zeros = [j \in 1..ChunkLen - Len(chunk) |-> 0]
    BY DEF Zeros
  <2> HIDE DEF to, zeros
  <2> QED
    BY <2>1, <2>2 DEF Byte
<1>9. <<ReportId>> \in Seq(Byte) /\ Len(<<ReportId>>) = 1 /\ <<ReportId>>[1] = ReportId
  BY DEF ReportId, Byte
<1> HIDE DEF zeros, to
<1>10. /\ top \in Seq(Byte) /\ Len(top) = 1 + (to - from)
       /\ top[1] = ReportId
       /\ \A j \in 1..to - from : top[1 + j] = chunk[j]
  <2>1. 1 \in 1..Len(<<ReportId>>)
    BY <1>9
  <2> QED
    BY <1>7, <1>9, <2>1, Joined
<1> HIDE DEF top
<1>11. /\ report \in Seq(Byte) /\ Len(report) = 1 + ChunkLen
       /\ report[1] = ReportId
       /\ \A j \in 1..to - from : report[1 + j] = chunk[j]
       /\ \A j \in 1..ChunkLen - (to - from) : report[(1 + (to - from)) + j] = 0
  <2>1. /\ report \in Seq(Byte) /\ Len(report) = Len(top) + Len(zeros)
        /\ \A j \in 1..Len(top) : report[j] = top[j]
        /\ \A j \in 1..Len(zeros) : report[Len(top) + j] = zeros[j]
    BY <1>5, <1>8, <1>10, Joined
  <2>2. Len(top) + Len(zeros) = 1 + ChunkLen /\ Len(zeros) = ChunkLen - (to - from)
    BY <1>1, <1>3, <1>6, <1>7, <1>8, <1>10
  <2>3. 1 \in 1..Len(top) /\ \A j \in 1..to - from : 1 + j \in 1..Len(top)
    BY <1>3, <1>6, <1>10
  <2>4. report[1] = ReportId /\ \A j \in 1..to - from : report[1 + j] = chunk[j]
    BY <1>10, <2>1, <2>3
  <2> QED
    BY <1>7, <1>8, <1>10, <2>1, <2>2, <2>4
<1>12. report \in ReportSet
  <2>2. Head(report) = report[1] /\ Len(report) = ChunkLen + 1
    BY <1>1, <1>11
  <2> QED
    BY <1>11, <2>2 DEF ReportSet
<1>13. ASSUME NEW j \in 1..ChunkLen PROVE report[1 + j] = PaddedByte(m, from + j)
  <2>1. CASE j <= to - from
    <3>1. report[1 + j] = b[from + j] /\ from + j <= L
      BY <1>2, <1>3, <1>6, <1>7, <1>11, <2>1
    <3> QED
      BY <1>5, <3>1
  <2>2. CASE j > to - from
    <3>1. to = L
      BY <1>1, <1>2, <1>3, <2>2 DEF to
    <3>2. report[1 + j] = 0
      <4>1. j - (to - from) \in 1..ChunkLen - (to - from) /\ (1 + (to - from)) + (j - (to - from)) = 1 + j
        BY <1>1, <1>3, <1>6, <2>2
      <4> QED
        BY <1>11, <4>1
    <3>3. ~(from + j <= L)
      BY <1>2, <1>3, <2>2, <3>1
    <3> QED
      BY <1>5, <3>2, <3>3
  <2> QED
    BY <1>3, <1>6, <2>1, <2>2
<1> QED
  BY <1>12, <1>13 DEF report, from

\* What write() puts into the outbox.
LEMMA ReportsRight ==
    ASSUME NEW m \in Messages
    PROVE  /\ Reports(Frame(m)) \in Seq(ReportSet)
           /\ Len(Reports(Frame(m))) = ReportCount(m)
           /\ \A i \in 1..ReportCount(m), j \in 1..ChunkLen :
                 Reports(Frame(m))[i][1 + j] = PaddedByte(m, Bytes(i - 1) + j)
<1>1. Reports(Frame(m)) = [i \in 1..ReportCount(m) |-> ReportOf(m, i)]
  BY DEF Reports, ReportCount, ReportOf, ChunkOf, Bytes
<1>2. ReportCount(m) \in Nat /\ \A i \in 1..ReportCount(m) : ReportOf(m, i) \in ReportSet
  BY SpanBounds, ReportBytes
<1>3. Reports(Frame(m)) \in Seq(ReportSet) /\ Len(Reports(Frame(m))) = ReportCount(m)
  BY <1>1, <1>2, IsASeq
<1>4. ASSUME NEW i \in 1..ReportCount(m), NEW j \in 1..ChunkLen
      PROVE  Reports(Frame(m))[i][1 + j] = PaddedByte(m, Bytes(i - 1) + j)
  BY <1>1, ReportBytes
<1> QED
  BY <1>3, <1>4

-----------------------------------------------------------------------------
(* The stream *)

TypeInv ==
    /\ sent \in Seq(Messages) /\ Len(sent) <= MaxSent
    /\ outbox \in Seq(ReportSet) /\ wire \in Seq(ReportSet)
    /\ buffer \in Seq(Byte)
    /\ pc \in {"idle", "scan", "magic", "header", "body"}
    /\ skipped \in Nat /\ skipped <= SkipLimit /\ (pc = "scan" => skipped < SkipLimit)
    /\ header \in [type : MessageType, len : Nat]
    /\ delivered \in Seq([type : MessageType, body : Seq(Byte)])
    /\ raised \in BOOLEAN
    /\ faults \in Nat /\ faults <= MaxFaults

WholeReports(x) == \E k \in Nat : x = Bytes(k)

\* The bytes S of all messages written, message i after offset starts[i].
Layout(S, starts) ==
    /\ S \in [Nat -> Byte] /\ starts \in [1..Len(sent) + 1 -> Nat]
    /\ \A i \in 1..Len(sent) + 1 : WholeReports(starts[i])
    /\ \A i \in 1..Len(sent) : starts[i + 1] = starts[i] + Span(sent[i])
    /\ \A i \in 1..Len(sent), j \in 1..Len(sent) + 1 : i < j => starts[i] + Span(sent[i]) <= starts[j]
    /\ \A i \in 1..Len(sent) : \A j \in 1..Span(sent[i]) : S[starts[i] + j] = PaddedByte(sent[i], j)

\* Which of them are still to be read, R of them having been consumed.
Ahead(S, end, R) ==
    /\ R \in Nat
    /\ end = R + Len(buffer) + Bytes(Len(wire)) + Bytes(Len(outbox))
    /\ WholeReports(R + Len(buffer))
    /\ \A j \in 1..Len(buffer) : buffer[j] = S[R + j]
    /\ \A i \in 1..Len(wire), j \in 1..ChunkLen : wire[i][1 + j] = S[R + Len(buffer) + Bytes(i - 1) + j]
    /\ \A i \in 1..Len(outbox), j \in 1..ChunkLen :
          outbox[i][1 + j] = S[R + Len(buffer) + Bytes(Len(wire)) + Bytes(i - 1) + j]

Stream(S, starts, R) == Layout(S, starts) /\ Ahead(S, starts[Len(sent) + 1], R)

\* The rest of a byte string.
LEMMA Rest ==
    ASSUME NEW s \in Seq(Byte), NEW w \in Nat, w <= Len(s)
    PROVE  /\ SubSeq(s, w + 1, Len(s)) \in Seq(Byte)
           /\ Len(s) \in Nat /\ Len(SubSeq(s, w + 1, Len(s))) = Len(s) - w
           /\ \A j \in 1..Len(s) - w : SubSeq(s, w + 1, Len(s))[j] = s[w + j]
<1> DEFINE l == Len(s)
           r == SubSeq(s, w + 1, l)
<1>1. l \in Nat /\ \A i \in w + 1 .. l : s[i] \in Byte
  BY LenProperties
<1> HIDE DEF l
<1>2. /\ r \in Seq(Byte) /\ Len(r) = IF w + 1 <= l THEN l - (w + 1) + 1 ELSE 0
      /\ \A j \in 1 .. l - (w + 1) + 1 : r[j] = s[w + 1 + j - 1]
  <2>1. w + 1 \in Int /\ l \in Int
    BY <1>1
  <2> QED
    BY <1>1, <2>1, SubSeqProperties
<1> HIDE DEF r
<1>3. l - (w + 1) + 1 = l - w /\ \A j \in 1..l - w : w + 1 + j - 1 = w + j
  BY <1>1
<1>4. Len(r) = l - w
  BY <1>1, <1>2 DEF l
<1>5. \A j \in 1..l - w : r[j] = s[w + j]
  BY <1>2, <1>3
<1> QED
  BY <1>1, <1>2, <1>4, <1>5 DEF l, r

\* Consuming bytes.
LEMMA StreamConsume ==
    ASSUME TypeInv, NEW S, NEW end, NEW R, Ahead(S, end, R),
           NEW w \in Nat, w <= Len(buffer),
           buffer' = SubSeq(buffer, w + 1, Len(buffer)), UNCHANGED <<wire, outbox>>
    PROVE  Ahead(S, end, R + w)'
<1>1. /\ Len(buffer) \in Nat /\ Len(buffer') = Len(buffer) - w
      /\ \A j \in 1..Len(buffer) - w : buffer'[j] = buffer[w + j]
  BY Rest DEF TypeInv
<1> DEFINE l == Len(buffer)
<1>2. R \in Nat /\ l \in Nat /\ R + w \in Nat /\ R + w + (l - w) = R + l
  <2>1. R \in Nat /\ l \in Nat
    BY <1>1 DEF Ahead
  <2> HIDE DEF l
  <2> QED
    BY <2>1
<1>3. ASSUME NEW j \in 1..l - w PROVE buffer'[j] = S[R + w + j]
  <2>1. w + j \in 1..l /\ R + (w + j) = R + w + j
    BY <1>2
  <2> QED
    BY <1>1, <2>1 DEF Ahead
<1>4. R + w + Len(buffer') = R + l
  BY <1>1, <1>2
<1>5. \A j \in 1..Len(buffer') : buffer'[j] = S[R + w + j]
  BY <1>1, <1>3
<1>6. WholeReports(R + l) /\ end = R + l + Bytes(Len(wire)) + Bytes(Len(outbox))
  BY DEF Ahead
<1>7. \A i \in 1..Len(wire), j \in 1..ChunkLen : wire[i][1 + j] = S[R + l + Bytes(i - 1) + j]
  BY DEF Ahead
<1>8. \A i \in 1..Len(outbox), j \in 1..ChunkLen :
          outbox[i][1 + j] = S[R + l + Bytes(Len(wire)) + Bytes(i - 1) + j]
  BY DEF Ahead
<1> HIDE DEF l
<1>9. WholeReports(R + w + Len(buffer')) /\ end = R + w + Len(buffer') + Bytes(Len(wire')) + Bytes(Len(outbox'))
  BY <1>4, <1>6
<1>10. \A i \in 1..Len(wire'), j \in 1..ChunkLen : wire'[i][1 + j] = S[R + w + Len(buffer') + Bytes(i - 1) + j]
  BY <1>4, <1>7
<1>11. \A i \in 1..Len(outbox'), j \in 1..ChunkLen :
          outbox'[i][1 + j] = S[R + w + Len(buffer') + Bytes(Len(wire')) + Bytes(i - 1) + j]
  BY <1>4, <1>8
<1> QED
  BY <1>2, <1>5, <1>9, <1>10, <1>11 DEF Ahead

\* The bytes of a report without its '?'.
LEMMA ReportTail ==
    ASSUME NEW r \in ReportSet
    PROVE  /\ Tail(r) \in Seq(Byte) /\ Len(Tail(r)) = ChunkLen
           /\ \A j \in 1..ChunkLen : Tail(r)[j] = r[1 + j]
<1>1. ChunkLen \in Nat
  BY FramingAssumption
<1>2. r \in Seq(Byte) /\ Len(r) = ChunkLen + 1 /\ r # <<>>
  BY <1>1 DEF ReportSet
<1>3. /\ Tail(r) \in Seq(Byte) /\ Len(Tail(r)) = Len(r) - 1
      /\ \A j \in 1..Len(Tail(r)) : Tail(r)[j] = r[j + 1]
  BY <1>2, HeadTailProperties
<1> QED
  BY <1>1, <1>2, <1>3

\* A report on its way from the front of one sequence of reports.
LEMMA FirstReport ==
    ASSUME NEW rs \in Seq(ReportSet), rs # <<>>
    PROVE  /\ Len(rs) \in Nat /\ Len(rs) > 0 /\ Head(rs) \in ReportSet /\ Head(rs) = rs[1]
           /\ Tail(rs) \in Seq(ReportSet) /\ Len(Tail(rs)) = Len(rs) - 1
           /\ \A i \in 1..Len(rs) - 1 : Tail(rs)[i] = rs[i + 1]
           /\ Bytes(Len(rs) - 1) \in Nat /\ Bytes(Len(rs)) = Bytes(Len(rs) - 1) + ChunkLen
<1>1. Len(rs) \in Nat /\ Len(rs) > 0
  BY EmptySeq, LenProperties
<1>2. Head(rs) \in ReportSet /\ Tail(rs) \in Seq(ReportSet) /\ Len(Tail(rs)) = Len(rs) - 1
      /\ \A i \in 1..Len(Tail(rs)) : Tail(rs)[i] = rs[i + 1]
  BY HeadTailProperties
<1>3. Len(rs) - 1 \in Nat /\ (Len(rs) - 1) + 1 = Len(rs)
  BY <1>1
<1>4. Bytes(Len(rs) - 1) \in Nat /\ Bytes(Len(rs)) = Bytes(Len(rs) - 1) + ChunkLen
  BY <1>3, BytesAdd
<1>5. Head(rs) = rs[1]
  OBVIOUS
<1> QED
  BY <1>1, <1>2, <1>4, <1>5

\* Receiving a report.
LEMMA StreamReceive ==
    ASSUME TypeInv, NEW S, NEW end, NEW R, Ahead(S, end, R),
           wire # <<>>, buffer' = buffer \o Tail(Head(wire)), wire' = Tail(wire), UNCHANGED outbox
    PROVE  Ahead(S, end, R)'
<1> DEFINE l == Len(buffer)
           r == Head(wire)
           k == Len(wire)
<1>1. ChunkLen \in Nat /\ R \in Nat /\ l \in Nat /\ buffer \in Seq(Byte)
  BY FramingAssumption, LenProperties DEF TypeInv, Ahead
<1>2. /\ k \in Nat /\ k > 0 /\ r \in ReportSet /\ r = wire[1]
      /\ wire' \in Seq(ReportSet) /\ Len(wire') = k - 1
      /\ \A i \in 1..k - 1 : wire'[i] = wire[i + 1]
      /\ Bytes(k - 1) \in Nat /\ Bytes(k) = Bytes(k - 1) + ChunkLen
  BY FirstReport DEF TypeInv
<1>3. /\ Tail(r) \in Seq(Byte) /\ Len(Tail(r)) = ChunkLen
      /\ \A j \in 1..ChunkLen : Tail(r)[j] = r[1 + j]
  BY <1>2, ReportTail
<1>4. /\ Len(buffer') = l + ChunkLen
      /\ \A j \in 1..l : buffer'[j] = buffer[j]
      /\ \A j \in 1..ChunkLen : buffer'[l + j] = r[1 + j]
  <2> DEFINE t == Tail(r)
  <2>1. buffer \in Seq(Byte) /\ t \in Seq(Byte) /\ buffer' = buffer \o t
    BY <1>1, <1>3
  <2> HIDE DEF t
  <2>2. /\ Len(buffer \o t) = Len(buffer) + Len(t)
        /\ \A i \in 1..Len(buffer) : (buffer \o t)[i] = buffer[i]
        /\ \A i \in 1..Len(t) : (buffer \o t)[Len(buffer) + i] = t[i]
    BY <2>1, Joined
  <2> HIDE DEF r
  <2> QED
    BY <1>3, <2>1, <2>2 DEF t
<1> DEFINE B(n) == Bytes(n)
<1>5. /\ end = R + l + B(k) + B(Len(outbox))
      /\ \A j \in 1..l : buffer[j] = S[R + j]
      /\ \A i \in 1..k, j \in 1..ChunkLen : wire[i][1 + j] = S[R + l + B(i - 1) + j]
      /\ \A i \in 1..Len(outbox), j \in 1..ChunkLen : outbox[i][1 + j] = S[R + l + B(k) + B(i - 1) + j]
      /\ WholeReports(R + l)
  BY DEF Ahead
<1>6. /\ B(0) = 0 /\ Len(outbox) \in Nat
      /\ \A n \in Nat : B(n) \in Nat /\ B(n + 1) = B(n) + ChunkLen
  BY BytesAdd, LenProperties DEF TypeInv
<1> HIDE DEF l, k, r, B
<1>7. ASSUME NEW j \in 1..l + ChunkLen PROVE buffer'[j] = S[R + j]
  <2>1. CASE j <= l
    BY <1>1, <1>4, <1>5, <2>1
  <2>2. CASE j > l
    <3>1. j - l \in 1..ChunkLen /\ l + (j - l) = j
      BY <1>1, <2>2
    <3>2. buffer'[j] = wire[1][1 + (j - l)]
      BY <1>2, <1>4, <3>1
    <3>3. wire[1][1 + (j - l)] = S[R + l + B(1 - 1) + (j - l)]
      <4>1. 1 \in 1..k
        BY <1>2
      <4> QED
        BY <1>5, <3>1, <4>1
    <3>4. R + l + B(1 - 1) + (j - l) = R + j
      BY <1>1, <1>6, <3>1
    <3> QED
      BY <3>2, <3>3, <3>4
  <2>3. j <= l \/ j > l
    BY <1>1
  <2> QED
    BY <2>1, <2>2, <2>3
<1>8. ASSUME NEW i \in 1..k - 1, NEW j \in 1..ChunkLen
      PROVE  wire'[i][1 + j] = S[R + (l + ChunkLen) + B(i - 1) + j]
  <2>1. i + 1 \in 1..k /\ i - 1 \in Nat /\ (i + 1) - 1 = (i - 1) + 1
    BY <1>2
  <2>2. wire'[i][1 + j] = S[R + l + B((i + 1) - 1) + j]
    BY <1>2, <1>5, <2>1
  <2>3. B(i - 1) \in Nat /\ B((i + 1) - 1) = B(i - 1) + ChunkLen
    BY <1>6, <2>1
  <2>4. R + l + B((i + 1) - 1) + j = R + (l + ChunkLen) + B(i - 1) + j
    BY <1>1, <2>3
  <2> QED
    BY <2>2, <2>4
<1>9. ASSUME NEW i \in 1..Len(outbox), NEW j \in 1..ChunkLen
      PROVE  outbox[i][1 + j] = S[R + (l + ChunkLen) + B(k - 1) + B(i - 1) + j]
  <2>1. i - 1 \in Nat
    BY <1>6
  <2>3. B(i - 1) \in Nat
    BY <1>6, <2>1
  <2>4. B(k - 1) \in Nat /\ B(k) = B(k - 1) + ChunkLen /\ R \in Nat /\ l \in Nat /\ ChunkLen \in Nat
    BY <1>1, <1>2 DEF B
  <2>2. R + l + B(k) + B(i - 1) + j = R + (l + ChunkLen) + B(k - 1) + B(i - 1) + j
    BY <2>3, <2>4
  <2> QED
    BY <1>5, <2>2
<1>10. end = R + (l + ChunkLen) + B(k - 1) + B(Len(outbox))
  BY <1>1, <1>2, <1>5, <1>6 DEF B
<1>11. WholeReports(R + (l + ChunkLen))
  <2>1. PICK n \in Nat : R + l = B(n)
    BY <1>5 DEF WholeReports, B
  <2>2. R + (l + ChunkLen) = B(n + 1) /\ n + 1 \in Nat
    BY <1>1, <1>6, <2>1
  <2> QED
    BY <2>2 DEF WholeReports, B
<1>12. l + ChunkLen = Len(buffer') /\ k - 1 = Len(wire') /\ outbox' = outbox
  BY <1>2, <1>4
<1>13. /\ end = R + Len(buffer') + B(Len(wire')) + B(Len(outbox'))
       /\ WholeReports(R + Len(buffer'))
       /\ \A j \in 1..Len(buffer') : buffer'[j] = S[R + j]
  BY <1>7, <1>10, <1>11, <1>12
<1>14. \A i \in 1..Len(wire'), j \in 1..ChunkLen : wire'[i][1 + j] = S[R + Len(buffer') + B(i - 1) + j]
  BY <1>8, <1>12
<1>15. \A i \in 1..Len(outbox'), j \in 1..ChunkLen :
          outbox'[i][1 + j] = S[R + Len(buffer') + B(Len(wire')) + B(i - 1) + j]
  BY <1>9, <1>12
<1> QED
  BY <1>1, <1>13, <1>14, <1>15 DEF Ahead, B

\* A report from the outbox to the wire.
LEMMA StreamWriteReport ==
    ASSUME TypeInv, NEW S, NEW end, NEW R, Ahead(S, end, R), WriteReport
    PROVE  Ahead(S, end, R)'
<1> DEFINE l == Len(buffer)
           r == Head(outbox)
           k == Len(wire)
           n == Len(outbox)
<1>1. ChunkLen \in Nat /\ R \in Nat /\ l \in Nat /\ k \in Nat /\ wire \in Seq(ReportSet)
  BY FramingAssumption, LenProperties DEF TypeInv, Ahead
<1>2. /\ n \in Nat /\ n > 0 /\ r \in ReportSet /\ r = outbox[1]
      /\ Len(outbox') = n - 1
      /\ \A i \in 1..n - 1 : outbox'[i] = outbox[i + 1]
      /\ Bytes(n - 1) \in Nat /\ Bytes(n) = Bytes(n - 1) + ChunkLen
  BY FirstReport DEF TypeInv, WriteReport
<1>3. /\ Len(wire') = k + 1 /\ wire'[k + 1] = r
      /\ \A i \in 1..k : wire'[i] = wire[i]
  <2>1. wire' = Append(wire, r) /\ r \in ReportSet
    BY <1>2 DEF WriteReport
  <2> HIDE DEF r
  <2> QED
    BY <1>1, <2>1
<1> DEFINE B(x) == Bytes(x)
<1>4. /\ end = R + l + B(k) + B(n)
      /\ \A i \in 1..k, j \in 1..ChunkLen : wire[i][1 + j] = S[R + l + B(i - 1) + j]
      /\ \A i \in 1..n, j \in 1..ChunkLen : outbox[i][1 + j] = S[R + l + B(k) + B(i - 1) + j]
  BY DEF Ahead
<1>5. B(0) = 0 /\ \A x \in Nat : B(x) \in Nat /\ B(x + 1) = B(x) + ChunkLen
  BY BytesAdd
<1>6. UNCHANGED buffer /\ l' = l
  BY DEF WriteReport
<1> HIDE DEF l, k, n, r, B
<1>7. ASSUME NEW i \in 1..k + 1, NEW j \in 1..ChunkLen
      PROVE  wire'[i][1 + j] = S[R + l + B(i - 1) + j]
  <2>1. CASE i <= k
    BY <1>1, <1>3, <1>4, <2>1
  <2>2. CASE i = k + 1
    <3>1. 1 \in 1..n /\ i - 1 = k
      BY <1>1, <1>2, <2>2
    <3>2. wire'[i] = outbox[1]
      BY <1>2, <1>3, <2>2
    <3>3. outbox[1][1 + j] = S[R + l + B(k) + B(1 - 1) + j]
      BY <1>4, <3>1
    <3>4. B(1 - 1) = 0 /\ B(i - 1) = B(k) /\ B(k) \in Nat
      <4>1. 1 - 1 = 0
        OBVIOUS
      <4> QED
        BY <1>1, <1>5, <3>1, <4>1
    <3>5. PICK b : b = B(k)
      OBVIOUS
    <3>6. R + l + b + 0 = R + l + b
      BY <1>1, <3>4, <3>5
    <3> QED
      BY <3>2, <3>3, <3>4, <3>5, <3>6
  <2> QED
    BY <1>1, <2>1, <2>2
<1>8. ASSUME NEW i \in 1..n - 1, NEW j \in 1..ChunkLen
      PROVE  outbox'[i][1 + j] = S[R + l + B(k + 1) + B(i - 1) + j]
  <2>1. i + 1 \in 1..n /\ i - 1 \in Nat /\ (i + 1) - 1 = (i - 1) + 1
    BY <1>2
  <2>2. outbox'[i][1 + j] = S[R + l + B(k) + B((i + 1) - 1) + j]
    BY <1>2, <1>4, <2>1
  <2>3. /\ B(i - 1) \in Nat /\ B((i + 1) - 1) = B(i - 1) + ChunkLen
        /\ B(k) \in Nat /\ B(k + 1) = B(k) + ChunkLen
    BY <1>1, <1>5, <2>1
  <2>5. ChunkLen \in Nat /\ R \in Nat /\ l \in Nat
    BY <1>1
  <2>4. R + l + B(k) + B((i + 1) - 1) + j = R + l + B(k + 1) + B(i - 1) + j
    BY <2>3, <2>5
  <2> QED
    BY <2>2, <2>4
<1>9. end = R + l + B(k + 1) + B(n - 1)
  <2>1. /\ B(n - 1) \in Nat /\ B(n) = B(n - 1) + ChunkLen
        /\ B(k) \in Nat /\ B(k + 1) = B(k) + ChunkLen
    BY <1>1, <1>2, <1>5 DEF B
  <2>2. ChunkLen \in Nat /\ R \in Nat /\ l \in Nat
    BY <1>1
  <2> QED
    BY <1>4, <2>1, <2>2
<1> QED
  BY <1>1, <1>2, <1>3, <1>6, <1>7, <1>8, <1>9 DEF Ahead, B, l

\* The length of a message fits its padding.
LEMMA PaddedByteType ==
    ASSUME NEW m \in Messages, NEW j \in Nat, j > 0
    PROVE  PaddedByte(m, j) \in Byte
<1>1. Frame(m) \in Seq(Byte) /\ Len(Frame(m)) \in Nat
  BY FrameBytes, LenProperties
<1>2. 0 \in Byte
  BY DEF Byte
<1>3. CASE j <= Len(Frame(m))
  <2>1. j \in 1..Len(Frame(m))
    BY <1>1, <1>3
  <2>2. Frame(m)[j] \in Byte
    BY <1>1, <2>1, ElementOfSeq
  <2> QED
    BY <1>3, <2>2 DEF PaddedByte
<1> QED
  BY <1>2, <1>3 DEF PaddedByte

\* A new message takes its place at the end of the stream.
LEMMA StreamWrite ==
    ASSUME TypeInv, NEW S, NEW starts, NEW R, Stream(S, starts, R), NEW m \in Messages, Write(m)
    PROVE  \E S2, starts2 :
              /\ Stream(S2, starts2, R)'
              /\ \A i \in 1..Len(sent) + 1 : starts2[i] = starts[i]
              /\ \A x \in Nat : x <= starts[Len(sent) + 1] => S2[x] = S[x]
<1> DEFINE n == Len(sent)
           span == Span(m)
<1>0. PICK T, S2, starts2 :
          /\ T = starts[n + 1]
          /\ S2 = [x \in Nat |-> IF x <= T THEN S[x]
                                 ELSE IF x - T <= span THEN PaddedByte(m, x - T) ELSE 0]
          /\ starts2 = [i \in 1..n + 2 |-> IF i <= n + 1 THEN starts[i] ELSE T + span]
  OBVIOUS
<1>1. n \in Nat /\ sent \in Seq(Messages)
  BY LenProperties DEF TypeInv
<1>2. Len(sent') = n + 1 /\ sent'[n + 1] = m /\ \A i \in 1..n : sent'[i] = sent[i]
  <2>1. sent' = Append(sent, m)
    BY DEF Write
  <2> QED
    BY <1>1, <2>1
<1>3. T \in Nat /\ span \in Nat /\ T + span \in Nat
  <2>1. T \in Nat
    <3>1. starts \in [1..n + 1 -> Nat] /\ n + 1 \in 1..n + 1
      BY <1>1 DEF Stream, Layout
    <3>2. T = starts[n + 1]
      BY <1>0
    <3> QED
      BY <3>1, <3>2
  <2>2. span \in Nat
    BY SpanBounds
  <2> HIDE DEF span
  <2> QED
    BY <2>1, <2>2
<1>4. S \in [Nat -> Byte] /\ starts \in [1..n + 1 -> Nat] /\ \A i \in 1..n : sent[i] \in Messages
  BY <1>1, ElementOfSeq DEF Stream, Layout
<1>5. S2 \in [Nat -> Byte]
  <2> SUFFICES ASSUME NEW x \in Nat
               PROVE  (IF x <= T THEN S[x] ELSE IF x - T <= span THEN PaddedByte(m, x - T) ELSE 0) \in Byte
    BY <1>0
  <2>1. S[x] \in Byte /\ 0 \in Byte
    BY <1>4 DEF Byte
  <2>2. ~(x <= T) => PaddedByte(m, x - T) \in Byte
    <3>1. ~(x <= T) => x - T \in Nat /\ x - T > 0
      BY <1>3
    <3> QED
      BY <3>1, PaddedByteType
  <2> QED
    BY <2>1, <2>2
<1>6. /\ starts2 \in [1..n + 2 -> Nat] /\ starts2[n + 2] = T + span
      /\ \A i \in 1..n + 1 : starts2[i] = starts[i]
  <2> HIDE DEF span
  <2> QED
    BY <1>0, <1>1, <1>3, <1>4
<1>7. /\ \A x \in Nat : x <= T => S2[x] = S[x]
      /\ \A j \in 1..span : S2[T + j] = PaddedByte(m, j)
  <2>1. ASSUME NEW j \in 1..span PROVE S2[T + j] = PaddedByte(m, j)
    <3>1. T + j \in Nat /\ ~(T + j <= T) /\ (T + j) - T = j /\ j <= span
      BY <1>3
    <3> HIDE DEF span
    <3> QED
      BY <1>0, <3>1
  <2> QED
    BY <1>0, <2>1
<1>8. /\ \A i \in 1..n + 1 : WholeReports(starts[i])
      /\ \A i \in 1..n : starts[i + 1] = starts[i] + Span(sent[i])
      /\ \A i \in 1..n, j \in 1..n + 1 : i < j => starts[i] + Span(sent[i]) <= starts[j]
      /\ \A i \in 1..n : \A j \in 1..Span(sent[i]) : S[starts[i] + j] = PaddedByte(sent[i], j)
  BY DEF Stream, Layout
<1>9. \A i \in 1..n : Span(sent[i]) \in Nat
  BY <1>4, SpanBounds
<1>10. T = starts[n + 1]
  BY <1>0
<1> HIDE DEF n
<1>11. \A i \in 1..n + 2 : WholeReports(starts2[i])
  <2>1. WholeReports(T + span)
    <3>1. n + 1 \in 1..n + 1
      BY <1>1
    <3>2. PICK a \in Nat : T = Bytes(a)
      BY <1>8, <1>10, <3>1 DEF WholeReports
    <3>3. ReportCount(m) \in Nat /\ span = Bytes(ReportCount(m))
      BY SpanBounds DEF Span
    <3>4. Bytes(a + ReportCount(m)) = Bytes(a) + Bytes(ReportCount(m))
      BY <3>2, <3>3, BytesAdd
    <3>5. T + span = Bytes(a + ReportCount(m)) /\ a + ReportCount(m) \in Nat
      BY <3>2, <3>3, <3>4
    <3> QED
      BY <3>5 DEF WholeReports
  <2>2. \A i \in 1..n + 2 : i \in 1..n + 1 \/ i = n + 2
    BY <1>1
  <2> HIDE DEF span
  <2> QED
    BY <1>6, <1>8, <2>1, <2>2
<1>12. ASSUME NEW i \in 1..n + 1 PROVE starts2[i + 1] = starts2[i] + Span(sent'[i])
  <2>1. CASE i <= n
    <3>1. i \in 1..n /\ i + 1 \in 1..n + 1
      BY <1>1, <2>1
    <3> QED
      BY <1>2, <1>6, <1>8, <3>1
  <2>2. CASE i = n + 1
    <3>1. i + 1 = n + 2
      BY <1>1, <2>2
    <3> QED
      BY <1>2, <1>6, <1>10, <2>2, <3>1
  <2> QED
    BY <1>1, <2>1, <2>2
<1>13. ASSUME NEW i \in 1..n + 1, NEW j \in 1..n + 2, i < j
       PROVE  starts2[i] + Span(sent'[i]) <= starts2[j]
  <2>1. CASE j <= n + 1
    <3>1. i \in 1..n /\ j \in 1..n + 1
      BY <1>1, <1>13, <2>1
    <3> QED
      BY <1>2, <1>6, <1>8, <1>13, <3>1
  <2>2. CASE j = n + 2 /\ i <= n
    <3>1. i \in 1..n /\ n + 1 \in 1..n + 1 /\ i < n + 1
      BY <1>1, <2>2
    <3>2. starts[i] + Span(sent[i]) <= T
      BY <1>8, <1>10, <3>1
    <3>3. starts[i] + Span(sent[i]) \in Nat
      BY <1>4, <1>9, <3>1 DEF n
    <3>4. starts[i] + Span(sent[i]) <= T + span
      <4> HIDE DEF span
      <4> QED
        BY <1>3, <3>2, <3>3
    <3> QED
      BY <1>2, <1>6, <2>2, <3>1, <3>4
  <2>3. CASE j = n + 2 /\ i = n + 1
    <3>1. T + span <= T + span
      BY <1>3
    <3> QED
      BY <1>2, <1>6, <1>10, <2>3, <3>1
  <2> QED
    BY <1>1, <2>1, <2>2, <2>3
<1>14. ASSUME NEW i \in 1..n + 1, NEW j \in 1..Span(sent'[i])
       PROVE  S2[starts2[i] + j] = PaddedByte(sent'[i], j)
  <2>1. CASE i <= n
    <3>1. i \in 1..n /\ n + 1 \in 1..n + 1 /\ i < n + 1
      BY <1>1, <2>1
    <3>2. sent'[i] = sent[i] /\ starts2[i] = starts[i] /\ j \in 1..Span(sent[i])
      BY <1>2, <1>6, <3>1
    <3>3. starts[i] + Span(sent[i]) <= T /\ starts[i] \in Nat /\ Span(sent[i]) \in Nat
      BY <1>4, <1>8, <1>9, <1>10, <3>1 DEF n
    <3>4. starts[i] + j \in Nat /\ starts[i] + j <= T
      BY <1>3, <3>2, <3>3
    <3> QED
      BY <1>7, <1>8, <3>1, <3>2, <3>4
  <2>2. CASE i = n + 1
    BY <1>2, <1>6, <1>7, <1>10, <2>2
  <2> QED
    BY <1>1, <2>1, <2>2
<1>15. Layout(S2, starts2)'
  <2> DEFINE n2 == Len(sent')
  <2>1. n2 + 1 = n + 2 /\ n2 = n + 1
    BY <1>1, <1>2
  <2> HIDE DEF n2
  <2>2. starts2 \in [1..n2 + 1 -> Nat] /\ \A i \in 1..n2 + 1 : WholeReports(starts2[i])
    BY <1>6, <1>11, <2>1
  <2>3. \A i \in 1..n2 : starts2[i + 1] = starts2[i] + Span(sent'[i])
    BY <1>12, <2>1
  <2>4. \A i \in 1..n2, j \in 1..n2 + 1 : i < j => starts2[i] + Span(sent'[i]) <= starts2[j]
    BY <1>13, <2>1
  <2>5. \A i \in 1..n2 : \A j \in 1..Span(sent'[i]) : S2[starts2[i] + j] = PaddedByte(sent'[i], j)
    BY <1>14, <2>1
  <2> QED
    BY <1>5, <2>2, <2>3, <2>4, <2>5 DEF Layout, n2
<1> DEFINE l == Len(buffer)
           k == Len(wire)
           B(x) == Bytes(x)
<1>16. /\ R \in Nat /\ l \in Nat /\ k \in Nat /\ B(k) \in Nat /\ Len(outbox) = 0
       /\ UNCHANGED <<wire, buffer>>
  BY BytesAdd, LenProperties DEF TypeInv, Write, Stream, Ahead
<1>17. /\ T = R + l + B(k) + B(Len(outbox))
       /\ WholeReports(R + l)
       /\ \A j \in 1..l : buffer[j] = S[R + j]
       /\ \A i \in 1..k, j \in 1..ChunkLen : wire[i][1 + j] = S[R + l + B(i - 1) + j]
  BY <1>10 DEF Stream, Ahead, n
<1>18. /\ Len(outbox') = ReportCount(m) /\ ReportCount(m) \in Nat
       /\ \A i \in 1..ReportCount(m), j \in 1..ChunkLen : outbox'[i][1 + j] = PaddedByte(m, B(i - 1) + j)
  BY ReportsRight, SpanBounds DEF Write
<1>19. span = B(ReportCount(m)) /\ T = R + l + B(k)
  <2>1. B(Len(outbox)) = 0
    BY <1>16, BytesAdd
  <2> HIDE DEF l, k, B
  <2> QED
    BY <1>16, <1>17, <2>1 DEF Span, B
<1>20. ASSUME NEW c \in Nat, NEW i \in 1..c, NEW j \in 1..ChunkLen
       PROVE  i - 1 \in Nat /\ B(i - 1) \in Nat /\ B(i - 1) + j \in Nat
              /\ B(i - 1) + j >= 1 /\ B(i - 1) + j <= B(c) /\ B(c) \in Nat
  <2>1. i - 1 \in Nat /\ i - 1 < c
    OBVIOUS
  <2>2. B(i - 1) \in Nat /\ B(c) \in Nat /\ B(i - 1) + ChunkLen <= B(c)
    BY <2>1, BytesAdd
  <2>3. ChunkLen \in Nat
    BY FramingAssumption
  <2> HIDE DEF B
  <2> QED
    BY <2>1, <2>2, <2>3
<1> HIDE DEF l, k, B, span
<1>21. ASSUME NEW j \in 1..l PROVE buffer[j] = S2[R + j]
  <2>1. R + j \in Nat /\ R + j <= T
    BY <1>16, <1>19
  <2> QED
    BY <1>7, <1>17, <2>1
<1>22. ASSUME NEW i \in 1..k, NEW j \in 1..ChunkLen PROVE wire[i][1 + j] = S2[R + l + B(i - 1) + j]
  <2>1. B(i - 1) + j \in Nat /\ B(i - 1) + j <= B(k) /\ B(i - 1) \in Nat
    BY <1>16, <1>20
  <2>2. R \in Nat /\ l \in Nat /\ B(k) \in Nat /\ ChunkLen \in Nat /\ T = R + l + B(k)
    BY <1>16, <1>19, FramingAssumption
  <2>3. R + l + B(i - 1) + j \in Nat /\ R + l + B(i - 1) + j <= T
    BY <2>1, <2>2
  <2> QED
    BY <1>7, <1>17, <2>3
<1>23. ASSUME NEW i \in 1..ReportCount(m), NEW j \in 1..ChunkLen
       PROVE  outbox'[i][1 + j] = S2[R + l + B(k) + B(i - 1) + j]
  <2>1. B(i - 1) + j \in Nat /\ B(i - 1) + j >= 1 /\ B(i - 1) + j <= span /\ B(i - 1) \in Nat
    BY <1>18, <1>19, <1>20
  <2>2. R \in Nat /\ l \in Nat /\ B(k) \in Nat /\ ChunkLen \in Nat /\ T = R + l + B(k) /\ span \in Nat
    BY <1>3, <1>16, <1>19, FramingAssumption
  <2>3. B(i - 1) + j \in 1..span /\ T + (B(i - 1) + j) = R + l + B(k) + B(i - 1) + j
    BY <2>1, <2>2
  <2> QED
    BY <1>7, <1>18, <2>3
<1>24. Ahead(S2, T + span, R)'
  <2>1. Len(outbox') = ReportCount(m) /\ wire' = wire /\ buffer' = buffer /\ Len(wire') = k /\ Len(buffer') = l
    BY <1>16, <1>18 DEF l, k
  <2>2. T + span = R + l + B(k) + B(ReportCount(m))
    BY <1>19
  <2>3. \A j \in 1..Len(buffer') : buffer'[j] = S2[R + j]
    BY <1>21, <2>1
  <2>4. \A i \in 1..Len(wire'), j \in 1..ChunkLen : wire'[i][1 + j] = S2[R + Len(buffer') + B(i - 1) + j]
    BY <1>22, <2>1
  <2>5. \A i \in 1..Len(outbox'), j \in 1..ChunkLen :
           outbox'[i][1 + j] = S2[R + Len(buffer') + B(Len(wire')) + B(i - 1) + j]
    BY <1>23, <2>1
  <2>6. /\ T + span = R + Len(buffer') + B(Len(wire')) + B(Len(outbox'))
        /\ WholeReports(R + Len(buffer'))
    BY <1>17, <2>1, <2>2
  <2> QED
    BY <1>16, <2>3, <2>4, <2>5, <2>6 DEF Ahead, B
<1>25. Stream(S2, starts2, R)'
  <2>1. Len(sent') + 1 = n + 2
    BY <1>1, <1>2
  <2>2. starts2[Len(sent') + 1] = T + span
    BY <1>6, <2>1
  <2> QED
    BY <1>15, <1>24, <2>2 DEF Stream, Ahead
<1>26. /\ \A i \in 1..Len(sent) + 1 : starts2[i] = starts[i]
       /\ \A x \in Nat : x <= starts[Len(sent) + 1] => S2[x] = S[x]
  BY <1>6, <1>7, <1>10 DEF n
<1> QED
  BY <1>25, <1>26
-----------------------------------------------------------------------------
(* The reader *)

\* Between two messages: what is left before the next one is padding, less
\* than a report of it (as long as no read has failed).
InPadding(S, starts, R, p) ==
    /\ pc \in {"idle", "scan"}
    /\ R <= starts[p]
    /\ \A x \in R + 1 .. starts[p] : S[x] = 0
    /\ faults = 0 => starts[p] - R < ChunkLen
    /\ faults = 0 /\ pc = "scan" => starts[p] - R + skipped < ChunkLen

\* In message p, with its magic and its header where they are.
InMessage(starts, R, p) ==
    /\ p <= Len(sent)
    /\ \/ pc = "magic" /\ R = starts[p] + 1
       \/ pc = "header" /\ R = starts[p] + 2
       \/ /\ pc = "body" /\ R = starts[p] + 8
          /\ header = [type |-> sent[p].type, len |-> Len(sent[p].body)]

\* In step, having lost no more messages than reads have failed.
InStep(S, starts, R, p) ==
    /\ p <= Len(delivered) + faults + 1
    /\ InPadding(S, starts, R, p) \/ InMessage(starts, R, p)

\* Looking for a header in the middle of message p, where there is none.
Astray(S, starts, R, p) ==
    /\ p <= Len(sent) /\ p <= Len(delivered) + faults
    /\ starts[p] < R /\ R < starts[p] + Span(sent[p])
    /\ \/ pc \in {"idle", "scan"}
       \/ pc = "magic" /\ starts[p] + 1 < R /\ S[R] = Hash

\* What has been delivered are messages before message p, in their order.
Behind(p, f) ==
    /\ Len(delivered) < p
    /\ f \in [1..Len(delivered) -> 1..p - 1]
    /\ \A i, j \in 1..Len(delivered) : i < j => f[i] < f[j]
    /\ \A i \in 1..Len(delivered) : delivered[i] = sent[f[i]]
    /\ faults = 0 => \A i \in 1..Len(delivered) : f[i] = i

Position(S, starts, R, p, f) ==
    /\ p \in 1..Len(sent) + 1
    /\ InStep(S, starts, R, p) \/ Astray(S, starts, R, p)
    /\ Behind(p, f)

\* Messages in which no second "##" can be found: none after the magic, and
\* no '#' that ends one with its padding.
PlainMessages ==
    \A m \in Messages : \A j \in 2..Span(m) :
        PaddedByte(m, j) = Hash => j < Span(m) /\ PaddedByte(m, j + 1) # Hash

StreamInv == \E S, starts, R, p, f : Stream(S, starts, R) /\ Position(S, starts, R, p, f)

IInv ==
    /\ TypeInv
    /\ OnlyFaultsBreakTheSearch
    /\ faults = 0 \/ PlainMessages => StreamInv

-----------------------------------------------------------------------------
(* Types *)

LEMMA NoHeaderType == NoHeader \in [type : MessageType, len : Nat]
<1>1. 0 \in MessageType
  <2>1. 0 \in Nat /\ 0 \div 256 = 0
    OBVIOUS
  <2> QED
    BY <2>1 DEF MessageType, Byte
<1> QED
  BY <1>1 DEF NoHeader

LEMMA TypesFirst == Init => TypeInv
<1> SUFFICES ASSUME Init PROVE TypeInv
  OBVIOUS
<1>1. SkipLimit \in Nat /\ MaxSent \in Nat /\ MaxFaults \in Nat
  BY FramingAssumption
<1>2. /\ <<>> \in Seq(Messages) /\ <<>> \in Seq(ReportSet) /\ <<>> \in Seq(Byte)
      /\ <<>> \in Seq([type : MessageType, body : Seq(Byte)]) /\ Len(<<>>) = 0
  BY EmptySeq
<1>3. NoHeader \in [type : MessageType, len : Nat]
  BY NoHeaderType
<1>4. /\ sent \in Seq(Messages) /\ outbox \in Seq(ReportSet) /\ wire \in Seq(ReportSet)
      /\ buffer \in Seq(Byte) /\ header \in [type : MessageType, len : Nat]
      /\ delivered \in Seq([type : MessageType, body : Seq(Byte)])
      /\ Len(sent) = 0
  BY <1>2, <1>3, Zenon DEF Init
<1>5. /\ pc = "idle" /\ skipped = 0 /\ raised = FALSE /\ faults = 0
  BY DEF Init
<1>6. /\ Len(sent) <= MaxSent /\ skipped \in Nat /\ skipped <= SkipLimit
      /\ faults \in Nat /\ faults <= MaxFaults
  <2>1. 0 <= SkipLimit /\ 0 <= MaxFaults /\ 0 <= MaxSent
    BY <1>1
  <2> QED
    BY <1>4, <1>5, <2>1, Zenon
<1>7. pc \in {"idle", "scan", "magic", "header", "body"} /\ pc # "scan" /\ raised \in BOOLEAN
  BY <1>5
<1> QED
  BY <1>4, <1>6, <1>7, Zenon DEF TypeInv

\* The bytes a read takes out of the buffer.
LEMMA TakenRight ==
    ASSUME TypeInv, Len(buffer) >= Wanted
    PROVE  /\ Wanted \in Nat /\ Wanted <= Len(buffer) /\ Len(buffer) \in Nat
           /\ Taken \in Seq(Byte) /\ Len(Taken) = Wanted
           /\ \A j \in 1..Wanted : Taken[j] = buffer[j]
           /\ SubSeq(buffer, Wanted + 1, Len(buffer)) \in Seq(Byte)
<1>1. Wanted \in Nat
  BY DEF TypeInv, Wanted, HeaderLen
<1>2. buffer \in Seq(Byte) /\ Len(buffer) \in Nat
  BY LenProperties DEF TypeInv
<1> DEFINE w == Wanted
<1> HIDE DEF w
<1>3. w \in Nat /\ w <= Len(buffer)
  BY <1>1, <1>2 DEF w
<1>4. \A i \in 1..w : buffer[i] \in Byte
  BY <1>2, <1>3
<1>5. /\ SubSeq(buffer, 1, w) \in Seq(Byte)
      /\ Len(SubSeq(buffer, 1, w)) = IF 1 <= w THEN w - 1 + 1 ELSE 0
      /\ \A i \in 1..w - 1 + 1 : SubSeq(buffer, 1, w)[i] = buffer[1 + i - 1]
  <2>1. 1 \in Int /\ w \in Int
    BY <1>3
  <2> QED
    BY <1>4, <2>1, SubSeqProperties
<1>6. w - 1 + 1 = w /\ \A i \in 1..w : 1 + i - 1 = i
  BY <1>3
<1>7. Taken = SubSeq(buffer, 1, w)
  BY DEF Taken, w
<1> DEFINE t == SubSeq(buffer, 1, w)
<1> HIDE DEF t
<1>8. /\ t \in Seq(Byte) /\ Len(t) = w
      /\ \A j \in 1..w : t[j] = buffer[j]
  BY <1>3, <1>5, <1>6 DEF t
<1>9. SubSeq(buffer, w + 1, Len(buffer)) \in Seq(Byte)
  BY <1>2, <1>3, Rest
<1> QED
  BY <1>2, <1>3, <1>7, <1>8, <1>9 DEF t, w

\* A number with one more byte.
WithByte(n, b) == n * 256 + b

LEMMA WithByteRight ==
    \A n \in Nat, b \in Byte : WithByte(n, b) \in Nat /\ WithByte(n, b) \div 256 = n
BY DEF Byte, WithByte

\* Two bytes are a message type, four a length.
LEMMA HeaderType ==
    ASSUME TypeInv, Header
    PROVE  header' \in [type : MessageType, len : Nat]
<1>1. Wanted = 6 /\ Len(buffer) >= Wanted
  BY DEF Header, Ready, Wanted, HeaderLen
<1>2. Taken \in Seq(Byte) /\ Len(Taken) = 6
  BY <1>1, TakenRight
<1>3. \A i \in 1..6 : Taken[i] \in Byte
  BY <1>2, ElementOfSeq
<1> DEFINE t(i) == Taken[i]
<1>4. \A i \in 1..6 : t(i) \in Byte
  BY <1>3
<1>5. header' = [type |-> WithByte(t(1), t(2)),
                 len |-> WithByte(WithByte(WithByte(t(3), t(4)), t(5)), t(6))]
  BY DEF Header, WithByte
<1> HIDE DEF t
<1>6. \A i \in 1..6 : t(i) \in Nat
  <2>1. Byte \subseteq Nat
    BY DEF Byte
  <2> QED
    BY <1>4, <2>1
<1>7. WithByte(t(1), t(2)) \in Nat /\ WithByte(t(1), t(2)) \div 256 \in Byte
  BY <1>4, <1>6, WithByteRight
<1>8. WithByte(WithByte(t(3), t(4)), t(5)) \in Nat
  <2>1. WithByte(t(3), t(4)) \in Nat /\ t(5) \in Byte
    BY <1>4, <1>6, WithByteRight
  <2> QED
    BY <2>1, WithByteRight
<1>9. WithByte(WithByte(WithByte(t(3), t(4)), t(5)), t(6)) \in Nat
  BY <1>4, <1>8, WithByteRight
<1> QED
  BY <1>5, <1>7, <1>9 DEF MessageType

LEMMA TypesNext == TypeInv /\ [Next]_vars => TypeInv'
<1> SUFFICES ASSUME TypeInv, [Next]_vars PROVE TypeInv'
  OBVIOUS
<1>1. ASSUME NEW m \in Messages, Write(m) PROVE TypeInv'
  <2>1. Reports(Frame(m)) \in Seq(ReportSet)
    BY ReportsRight
  <2>2. Append(sent, m) \in Seq(Messages) /\ Len(Append(sent, m)) = Len(sent) + 1 /\ Len(sent) \in Nat
    BY LenProperties DEF TypeInv
  <2>3. Len(sent) + 1 <= MaxSent
    BY <1>1, <2>2, FramingAssumption DEF Write
  <2> QED
    BY <1>1, <2>1, <2>2, <2>3 DEF Write, TypeInv
<1>2. CASE WriteReport
  <2>1. Head(outbox) \in ReportSet /\ Tail(outbox) \in Seq(ReportSet)
    BY <1>2, FirstReport DEF WriteReport, TypeInv
  <2>2. Append(wire, Head(outbox)) \in Seq(ReportSet)
    BY <2>1 DEF TypeInv
  <2> QED
    BY <1>2, <2>1, <2>2 DEF WriteReport, TypeInv
<1>3. CASE ReadBlocking
  <2>1. SkipLimit \in Nat /\ 0 < SkipLimit
    BY FramingAssumption DEF MagicLen, HeaderLen
  <2> QED
    BY <1>3, <2>1, NoHeaderType DEF ReadBlocking, TypeInv, writerVars
<1>4. CASE Stash \/ Receive
  <2>1. /\ wire # <<>> /\ buffer' = buffer \o Tail(Head(wire)) /\ wire' = Tail(wire)
        /\ UNCHANGED <<writerVars, pc, skipped, header, delivered, raised, faults>>
    BY <1>4 DEF Stash, Receive
  <2>2. Tail(wire) \in Seq(ReportSet) /\ Head(wire) \in ReportSet
    BY <2>1, FirstReport DEF TypeInv
  <2>3. Tail(Head(wire)) \in Seq(Byte)
    BY <2>2, ReportTail
  <2>4. buffer \o Tail(Head(wire)) \in Seq(Byte)
    BY <2>3, Joined DEF TypeInv
  <2> QED
    BY <2>1, <2>2, <2>4 DEF TypeInv, writerVars
<1>5. CASE Scan
  <2>1. buffer' \in Seq(Byte)
    BY <1>5, TakenRight DEF Scan, Ready, Consume
  <2>2. skipped' \in Nat /\ skipped' <= SkipLimit /\ (pc' = "scan" => skipped' < SkipLimit)
        /\ pc' \in {"idle", "scan", "magic"} /\ raised' \in BOOLEAN
    <3>1. CASE Taken[1] = Hash
      BY <1>5, <3>1 DEF Scan, Ready, TypeInv
    <3>2. CASE Taken[1] # Hash /\ skipped + 1 >= SkipLimit
      BY <1>5, <3>2, FramingAssumption DEF Scan, Ready, TypeInv
    <3>3. CASE Taken[1] # Hash /\ ~(skipped + 1 >= SkipLimit)
      BY <1>5, <3>3, FramingAssumption DEF Scan, Ready, TypeInv
    <3> QED
      BY <3>1, <3>2, <3>3
  <2> QED
    BY <1>5, <2>1, <2>2 DEF Scan, TypeInv, writerVars
<1>6. CASE Magic
  <2>1. buffer' \in Seq(Byte)
    BY <1>6, TakenRight DEF Magic, Ready, Consume
  <2>2. pc' \in {"idle", "header"} /\ raised' \in BOOLEAN
    BY <1>6 DEF Magic, TypeInv
  <2> QED
    BY <1>6, <2>1, <2>2 DEF Magic, TypeInv, writerVars
<1>7. CASE Header
  <2>1. buffer' \in Seq(Byte)
    BY <1>7, TakenRight DEF Header, Ready, Consume
  <2>2. header' \in [type : MessageType, len : Nat]
    BY <1>7, HeaderType
  <2> QED
    BY <1>7, <2>1, <2>2 DEF Header, TypeInv, writerVars
<1>8. CASE Body
  <2>1. buffer' \in Seq(Byte) /\ Taken \in Seq(Byte)
    BY <1>8, TakenRight DEF Body, Ready, Consume
  <2>2. [type |-> header.type, body |-> Taken] \in [type : MessageType, body : Seq(Byte)]
    BY <2>1 DEF TypeInv
  <2>3. delivered' \in Seq([type : MessageType, body : Seq(Byte)])
    <3> DEFINE d == [type |-> header.type, body |-> Taken]
               D == [type : MessageType, body : Seq(Byte)]
    <3>1. d \in D /\ delivered \in Seq(D) /\ delivered' = Append(delivered, d)
      BY <1>8, <2>2 DEF Body, TypeInv
    <3> HIDE DEF d, D
    <3> QED
      BY <3>1 DEF D
  <2> QED
    BY <1>8, <2>1, <2>3 DEF Body, TypeInv, writerVars
<1>9. CASE Timeout \/ SocketError
  <2>1. SkipLimit \in Nat /\ 0 < SkipLimit /\ faults' \in Nat /\ faults' <= MaxFaults
    BY <1>9, FramingAssumption DEF MagicLen, HeaderLen, TypeInv, Timeout, SocketError
  <2>2. CASE Timeout
    BY <2>1, <2>2 DEF Timeout, TypeInv, writerVars
  <2>3. CASE SocketError
    BY <2>1, <2>3, NoHeaderType DEF SocketError, TypeInv, writerVars
  <2> QED
    BY <1>9, <2>2, <2>3
<1>10. CASE UNCHANGED vars
  BY <1>10 DEF vars, TypeInv
<1> QED
  BY <1>1, <1>2, <1>3, <1>4, <1>5, <1>6, <1>7, <1>8, <1>9, <1>10 DEF Next, Reading

-----------------------------------------------------------------------------
(* Where the reader is *)

\* The bytes of a message's body where the message starts behind s.
BodyAt(S, s, m) == \A i \in 1..Len(m.body) : S[s + 8 + i] = m.body[i]

\* What the stream holds at message p.
LEMMA MessageBytes ==
    ASSUME TypeInv, NEW S, NEW starts, Layout(S, starts), NEW p \in 1..Len(sent)
    PROVE  /\ sent[p] \in Messages /\ Len(sent) \in Nat /\ p + 1 \in 1..Len(sent) + 1
           /\ starts[p] \in Nat /\ Span(sent[p]) \in Nat /\ Len(sent[p].body) \in Nat
           /\ 8 + Len(sent[p].body) <= Span(sent[p])
           /\ Span(sent[p]) < 8 + Len(sent[p].body) + ChunkLen
           /\ starts[p + 1] = starts[p] + Span(sent[p])
           /\ starts[p] + Span(sent[p]) <= starts[Len(sent) + 1]
           /\ S[starts[p] + 1] = Hash /\ S[starts[p] + 2] = Hash
           /\ \A i \in 1..6 : S[starts[p] + 2 + i] = PackHeader(sent[p])[i]
           /\ BodyAt(S, starts[p], sent[p])
           /\ \A j \in 1..Span(sent[p]) : S[starts[p] + j] = PaddedByte(sent[p], j)
           /\ \A x \in starts[p] + 8 + Len(sent[p].body) + 1 .. starts[p] + Span(sent[p]) : S[x] = 0
<1> DEFINE m == sent[p]
           s == starts[p]
           k == Len(m.body)
           span == Span(m)
           F == Frame(m)
<1>1. m \in Messages /\ Len(sent) \in Nat /\ p + 1 \in 1..Len(sent) + 1
  <2>1. sent \in Seq(Messages) /\ Len(sent) \in Nat
    BY LenProperties DEF TypeInv
  <2> QED
    BY <2>1, ElementOfSeq
<1>2. /\ s \in Nat /\ starts[p + 1] = s + span /\ s + span <= starts[Len(sent) + 1]
      /\ \A j \in 1..span : S[s + j] = PaddedByte(m, j)
  <2>1. p \in 1..Len(sent) + 1 /\ Len(sent) + 1 \in 1..Len(sent) + 1 /\ p < Len(sent) + 1
    BY <1>1
  <2> QED
    BY <2>1 DEF Layout
<1> HIDE DEF m, s, span
<1>3. /\ Len(F) = 8 + k /\ k \in Nat
      /\ F[1] = Hash /\ F[2] = Hash
      /\ \A i \in 1..6 : F[2 + i] = PackHeader(m)[i]
      /\ \A i \in 1..k : F[8 + i] = m.body[i]
  BY <1>1, FrameBytes
<1>4. span \in Nat /\ span >= Len(F) /\ span < Len(F) + ChunkLen /\ ChunkLen \in Nat
  BY <1>1, SpanBounds, FramingAssumption DEF span
<1>5. \A j : PaddedByte(m, j) = IF j <= 8 + k THEN F[j] ELSE 0
  BY <1>3 DEF PaddedByte
<1> HIDE DEF F, k
<1>6. ASSUME NEW j \in 1..8 + k PROVE S[s + j] = F[j]
  <2>1. j \in 1..span /\ j <= 8 + k
    BY <1>3, <1>4
  <2> QED
    BY <1>2, <1>5, <2>1
<1>7. S[s + 1] = Hash /\ S[s + 2] = Hash
  <2>1. 1 \in 1..8 + k /\ 2 \in 1..8 + k
    BY <1>3
  <2> QED
    BY <1>3, <1>6, <2>1
<1>8. ASSUME NEW i \in 1..6 PROVE S[s + 2 + i] = PackHeader(m)[i]
  <2>1. 2 + i \in 1..8 + k /\ s + (2 + i) = s + 2 + i
    BY <1>2, <1>3
  <2> QED
    BY <1>3, <1>6, <2>1
<1>9. ASSUME NEW i \in 1..k PROVE S[s + 8 + i] = m.body[i]
  <2>1. 8 + i \in 1..8 + k /\ s + (8 + i) = s + 8 + i
    BY <1>2, <1>3
  <2> QED
    BY <1>3, <1>6, <2>1
<1>10. ASSUME NEW x \in s + 8 + k + 1 .. s + span PROVE S[x] = 0
  <2>1. x - s \in 1..span /\ s + (x - s) = x /\ ~(x - s <= 8 + k)
    BY <1>2, <1>3, <1>4
  <2> QED
    BY <1>2, <1>5, <2>1
<1>11. 8 + k <= span /\ span < 8 + k + ChunkLen
  BY <1>3, <1>4
<1>12. BodyAt(S, s, m)
  BY <1>9 DEF BodyAt, k
<1> QED
  BY <1>1, <1>2, <1>3, <1>4, <1>7, <1>8, <1>10, <1>11, <1>12 DEF m, s, k, span

\* The same for the body alone: its place, its bytes and the padding behind it.
LEMMA BodyBytes ==
    ASSUME TypeInv, NEW S, NEW starts, Layout(S, starts), NEW p \in 1..Len(sent),
           NEW m, m = sent[p]
    PROVE  /\ m \in Messages /\ p + 1 \in 1..Len(sent) + 1 /\ Len(m.body) \in Nat /\ Span(m) \in Nat
           /\ 8 + Len(m.body) <= Span(m) /\ Span(m) < 8 + Len(m.body) + ChunkLen
           /\ starts[p + 1] = starts[p] + Span(m)
           /\ \A j \in 1..Len(m.body) : S[starts[p] + 8 + j] = m.body[j]
           /\ \A x \in starts[p] + 8 + Len(m.body) + 1 .. starts[p] + Span(m) : S[x] = 0
<1>1. /\ m \in Messages /\ p + 1 \in 1..Len(sent) + 1 /\ Len(m.body) \in Nat /\ Span(m) \in Nat
      /\ 8 + Len(m.body) <= Span(m) /\ Span(m) < 8 + Len(m.body) + ChunkLen
      /\ starts[p + 1] = starts[p] + Span(m)
  BY MessageBytes
<1>2. BodyAt(S, starts[p], m)
  BY MessageBytes
<1>3. \A x \in starts[p] + 8 + Len(sent[p].body) + 1 .. starts[p] + Span(sent[p]) : S[x] = 0
  BY MessageBytes
<1> QED
  BY <1>1, <1>2, <1>3 DEF BodyAt

\* A read takes the next bytes of the stream.
LEMMA NextBytes ==
    ASSUME TypeInv, NEW S, NEW starts, NEW R, Stream(S, starts, R),
           Len(buffer) >= Wanted, Consume, UNCHANGED <<writerVars, wire>>, NEW w, w = Wanted
    PROVE  /\ Stream(S, starts, R + w)' /\ w \in Nat /\ R \in Nat
           /\ R + w <= starts[Len(sent) + 1]
           /\ \A j \in 1..w : Taken[j] = S[R + j]
<1> DEFINE end == starts[Len(sent) + 1]
<1>1. w \in Nat /\ w <= Len(buffer) /\ Len(buffer) \in Nat /\ \A j \in 1..w : Taken[j] = buffer[j]
  BY TakenRight
<1>2. buffer' = SubSeq(buffer, w + 1, Len(buffer)) /\ UNCHANGED <<sent, wire, outbox>>
  BY DEF Consume, writerVars
<1>3. PICK e : e = end
  OBVIOUS
<1>4. Ahead(S, e, R)
  BY <1>3 DEF Stream
<1>5. Ahead(S, e, R + w)'
  BY <1>1, <1>2, <1>4, StreamConsume
<1>6. Layout(S, starts)'
  BY <1>2 DEF Stream, Layout
<1>7. Stream(S, starts, R + w)'
  BY <1>2, <1>3, <1>5, <1>6 DEF Stream
<1>8. R \in Nat /\ R + w <= end
  <2>1. /\ R \in Nat /\ e = R + Len(buffer) + Bytes(Len(wire)) + Bytes(Len(outbox))
        /\ Bytes(Len(wire)) \in Nat /\ Bytes(Len(outbox)) \in Nat
    BY <1>4, BytesAdd, LenProperties DEF Ahead, TypeInv
  <2> HIDE DEF end
  <2> QED
    BY <1>1, <1>3, <2>1
<1>9. \A j \in 1..w : Taken[j] = S[R + j]
  BY <1>1, <1>4 DEF Ahead
<1> QED
  BY <1>1, <1>7, <1>8, <1>9

\* The numbers of a position.
LEMMA Numbers ==
    ASSUME TypeInv, NEW S, NEW starts, NEW R, NEW p, NEW f,
           Stream(S, starts, R), Position(S, starts, R, p, f)
    PROVE  /\ R \in Nat /\ p \in Nat /\ p >= 1 /\ p <= Len(sent) + 1 /\ Len(sent) \in Nat
           /\ Len(delivered) \in Nat /\ faults \in Nat /\ skipped \in Nat
           /\ ChunkLen \in Nat /\ SkipLimit \in Nat /\ SkipLimit >= ChunkLen
           /\ starts[p] \in Nat /\ Len(delivered) < p
<1>1. Len(sent) \in Nat /\ Len(delivered) \in Nat
  BY LenProperties DEF TypeInv
<1>2. p \in 1..Len(sent) + 1
  BY DEF Position
<1>3. starts[p] \in Nat /\ R \in Nat
  BY <1>2 DEF Stream, Layout, Ahead
<1> QED
  BY <1>1, <1>2, <1>3, FramingAssumption DEF TypeInv, Position, Behind

\* The end of a message that the reader has lost is where it is in step again.
LEMMA EndOfMessage ==
    ASSUME NEW S, NEW starts, NEW R \in Nat, NEW p \in Nat, NEW f, Behind(p, f)',
           Len(delivered') \in Nat, faults' \in Nat, faults' > 0, p <= Len(delivered') + faults',
           p + 1 \in 1..Len(sent') + 1, starts[p + 1] = R, pc' \in {"idle", "scan"}
    PROVE  Position(S, starts, R, p + 1, f)'
<1>1. InPadding(S, starts, R, p + 1)'
  BY DEF InPadding
<1>2. p + 1 <= Len(delivered') + faults' + 1
  OBVIOUS
<1>3. Behind(p + 1, f)'
  <2>1. 1..p - 1 \subseteq 1..(p + 1) - 1 /\ (Len(delivered') < p => Len(delivered') < p + 1)
    OBVIOUS
  <2> QED
    BY <2>1 DEF Behind
<1> QED
  BY <1>1, <1>2, <1>3 DEF Position, InStep

LEMMA ScanStep ==
    ASSUME TypeInv, TypeInv', faults = 0 \/ PlainMessages, NEW S, NEW starts, NEW R, NEW p, NEW f,
           Stream(S, starts, R), Position(S, starts, R, p, f), Scan
    PROVE  StreamInv' /\ (raised' => raised \/ faults > 0)
<1> DEFINE n == Len(sent)
           D == Len(delivered)
           b == Taken[1]
<1>1. /\ R \in Nat /\ p \in Nat /\ p >= 1 /\ p <= n + 1 /\ n \in Nat /\ D \in Nat
      /\ faults \in Nat /\ skipped \in Nat
      /\ ChunkLen \in Nat /\ SkipLimit \in Nat /\ SkipLimit >= ChunkLen
      /\ starts[p] \in Nat /\ D < p
  BY Numbers
<1>2. Stream(S, starts, R + 1)' /\ R + 1 <= starts[n + 1] /\ b = S[R + 1]
  <2>1. Len(buffer) >= Wanted /\ Consume /\ UNCHANGED <<writerVars, wire>> /\ 1 = Wanted
    BY DEF Scan, Ready, Wanted
  <2>2. /\ Stream(S, starts, R + 1)' /\ R + 1 <= starts[n + 1]
        /\ \A j \in 1..1 : Taken[j] = S[R + j]
    BY <2>1, NextBytes
  <2> QED
    BY <2>2
<1>3. /\ pc = "scan" /\ UNCHANGED <<sent, delivered, faults, header>>
      /\ b = Hash => pc' = "magic" /\ UNCHANGED <<skipped, raised>>
      /\ b # Hash => skipped' = skipped + 1 /\ pc' \in {"idle", "scan"}
      /\ b # Hash /\ skipped + 1 < SkipLimit => UNCHANGED raised
  BY <1>1 DEF Scan, Ready, writerVars
<1>4. Behind(p, f) /\ Behind(p, f)' /\ p \in 1..Len(sent') + 1
  BY <1>1, <1>3 DEF Position, Behind
<1> HIDE DEF b
<1>5. CASE p <= D + faults + 1 /\ InPadding(S, starts, R, p)
  <2>1. CASE R < starts[p]
    <3>1. b # Hash
      <4>1. R + 1 \in R + 1 .. starts[p]
        BY <1>1, <2>1
      <4>2. S[R + 1] = 0
        BY <1>5, <4>1 DEF InPadding
      <4> QED
        BY <1>2, <4>2 DEF Hash
    <3>2. faults = 0 => starts[p] - R + skipped < ChunkLen /\ starts[p] - R < ChunkLen
      BY <1>3, <1>5 DEF InPadding
    <3>3. InPadding(S, starts, R + 1, p)'
      <4>1. pc' \in {"idle", "scan"} /\ R + 1 <= starts[p]
        BY <1>1, <1>3, <2>1, <3>1
      <4>2. \A x \in (R + 1) + 1 .. starts[p] : S[x] = 0
        BY <1>1, <1>5 DEF InPadding
      <4>3. skipped' = skipped + 1 /\ faults' = faults
        BY <1>3, <3>1
      <4>4. ASSUME faults' = 0
            PROVE  starts[p] - (R + 1) < ChunkLen /\ starts[p] - (R + 1) + skipped' < ChunkLen
        <5>1. starts[p] - R + skipped < ChunkLen /\ starts[p] - R < ChunkLen
          BY <3>2, <4>3, <4>4
        <5>2. R \in Nat /\ skipped \in Nat /\ ChunkLen \in Nat /\ starts[p] \in Nat
          BY <1>1
        <5> QED
          BY <4>3, <5>1, <5>2
      <4> QED
        BY <4>1, <4>2, <4>4 DEF InPadding
    <3>4. raised' => raised \/ faults > 0
      <4>1. CASE faults = 0
        <5>2. /\ R \in Nat /\ skipped \in Nat /\ ChunkLen \in Nat /\ starts[p] \in Nat
              /\ SkipLimit \in Nat /\ SkipLimit >= ChunkLen
          BY <1>1
        <5>3. starts[p] - R + skipped < ChunkLen /\ starts[p] - R > 0
          BY <2>1, <3>2, <4>1, <5>2
        <5>1. skipped + 1 < SkipLimit
          BY <5>2, <5>3
        <5> QED
          BY <1>3, <3>1, <5>1
      <4> QED
        BY <1>1, <4>1
    <3>5. Position(S, starts, R + 1, p, f)'
      BY <1>3, <1>4, <1>5, <3>3 DEF Position, InStep
    <3> QED
      BY <1>2, <3>4, <3>5 DEF StreamInv
  <2>2. CASE R = starts[p]
    <3>1. p \in 1..n
      <4>1. p # n + 1
        BY <1>1, <1>2, <2>2
      <4> QED
        BY <1>1, <4>1
    <3>2. b = Hash
      <4>1. S[starts[p] + 1] = Hash
        BY <3>1, MessageBytes DEF Stream
      <4> QED
        BY <1>2, <2>2, <4>1
    <3>3. InMessage(starts, R + 1, p)'
      BY <1>1, <1>3, <2>2, <3>1, <3>2 DEF InMessage
    <3>5. Position(S, starts, R + 1, p, f)'
      BY <1>3, <1>4, <1>5, <3>3 DEF Position, InStep
    <3> QED
      BY <1>2, <1>3, <3>2, <3>5 DEF StreamInv
  <2> QED
    BY <1>1, <1>5, <2>1, <2>2 DEF InPadding
<1>6. CASE Astray(S, starts, R, p)
  <2> DEFINE s == starts[p]
             span == Span(sent[p])
             j == R + 1 - s
  <2>1. p \in 1..n /\ s < R /\ R < s + span /\ p <= D + faults /\ faults > 0
    BY <1>1, <1>6 DEF Astray
  <2>2. span \in Nat /\ sent[p] \in Messages /\ \A i \in 1..span : S[s + i] = PaddedByte(sent[p], i)
    BY <2>1, MessageBytes DEF Stream
  <2> HIDE DEF s, span
  <2>3. j \in 2..span /\ j \in 1..span /\ s + j = R + 1 /\ s \in Nat
    <3>1. s \in Nat
      BY <1>1 DEF s
    <3> QED
      BY <1>1, <2>1, <2>2, <3>1
  <2>4. b = PaddedByte(sent[p], j)
    BY <1>2, <2>2, <2>3
  <2> HIDE DEF j
  <2>5. CASE b = Hash
    <3>1. j < span
      <4>1. PlainMessages
        BY <2>1
      <4>2. sent[p] \in Messages /\ j \in 2..Span(sent[p]) /\ PaddedByte(sent[p], j) = Hash
        BY <2>2, <2>3, <2>4, <2>5 DEF span
      <4> QED
        BY <4>1, <4>2 DEF PlainMessages, span
    <3>2. R + 1 < s + span /\ s + 1 < R + 1 /\ s < R + 1
      BY <1>1, <2>1, <2>2, <2>3, <3>1
    <3>3. Astray(S, starts, R + 1, p)'
      BY <1>1, <1>2, <1>3, <2>1, <2>5, <3>2 DEF Astray, s, span
    <3>4. Position(S, starts, R + 1, p, f)'
      BY <1>4, <3>3 DEF Position
    <3> QED
      BY <1>2, <1>3, <2>5, <3>4 DEF StreamInv
  <2>6. CASE b # Hash /\ R + 1 < s + span
    <3>1. s < R + 1
      BY <1>1, <2>1, <2>3
    <3>2. Astray(S, starts, R + 1, p)'
      BY <1>3, <2>1, <2>6, <3>1 DEF Astray, s, span
    <3>3. Position(S, starts, R + 1, p, f)'
      BY <1>4, <3>2 DEF Position
    <3> QED
      BY <1>2, <2>1, <3>3 DEF StreamInv
  <2>7. CASE b # Hash /\ R + 1 = s + span
    <3>1. Position(S, starts, R + 1, p + 1, f)'
      <4>1. p + 1 \in 1..Len(sent) + 1 /\ starts[p + 1] = R + 1
        BY <2>1, <2>7, MessageBytes DEF Stream, s, span
      <4>2. /\ R + 1 \in Nat /\ Len(delivered') \in Nat /\ faults' \in Nat /\ faults' > 0
            /\ p <= Len(delivered') + faults' /\ pc' \in {"idle", "scan"} /\ p + 1 \in 1..Len(sent') + 1
        BY <1>1, <1>3, <2>1, <2>7, <4>1
      <4> QED
        BY <1>1, <1>4, <4>1, <4>2, EndOfMessage
    <3> QED
      BY <1>2, <2>1, <3>1 DEF StreamInv
  <2> QED
    BY <1>1, <2>1, <2>2, <2>3, <2>5, <2>6, <2>7
<1> QED
  BY <1>3, <1>5, <1>6 DEF Position, InStep, InMessage

LEMMA MagicStep ==
    ASSUME TypeInv, faults = 0 \/ PlainMessages, NEW S, NEW starts, NEW R, NEW p, NEW f,
           Stream(S, starts, R), Position(S, starts, R, p, f), Magic
    PROVE  StreamInv' /\ (raised' => raised \/ faults > 0)
<1> DEFINE n == Len(sent)
           D == Len(delivered)
           b == Taken[1]
<1>1. /\ R \in Nat /\ p \in Nat /\ p >= 1 /\ p <= n + 1 /\ n \in Nat /\ D \in Nat
      /\ faults \in Nat /\ starts[p] \in Nat /\ D < p
  BY Numbers
<1>2. Stream(S, starts, R + 1)' /\ b = S[R + 1]
  <2>1. Len(buffer) >= Wanted /\ Consume /\ UNCHANGED <<writerVars, wire>> /\ 1 = Wanted
    BY DEF Magic, Ready, Wanted
  <2>2. Stream(S, starts, R + 1)' /\ \A j \in 1..1 : Taken[j] = S[R + j]
    BY <2>1, NextBytes
  <2> QED
    BY <2>2
<1>3. /\ pc = "magic" /\ UNCHANGED <<sent, delivered, faults, header>>
      /\ b = Hash => pc' = "header" /\ UNCHANGED raised
      /\ b # Hash => pc' = "idle"
  BY DEF Magic, Ready, writerVars
<1>4. Behind(p, f)' /\ p \in 1..Len(sent') + 1
  BY <1>1, <1>3 DEF Position, Behind
<1> HIDE DEF b
<1>5. CASE p <= D + faults + 1 /\ InMessage(starts, R, p)
  <2>1. p \in 1..n /\ R = starts[p] + 1
    BY <1>1, <1>3, <1>5 DEF InMessage
  <2>2. S[starts[p] + 2] = Hash
    BY <2>1, MessageBytes DEF Stream
  <2>3. R + 1 = starts[p] + 2
    <3>1. starts[p] \in Nat
      BY <1>1
    <3> QED
      BY <2>1, <3>1
  <2>4. b = Hash
    BY <1>2, <2>2, <2>3
  <2>5. InMessage(starts, R + 1, p)'
    BY <1>3, <2>1, <2>3, <2>4 DEF InMessage
  <2>6. Position(S, starts, R + 1, p, f)'
    BY <1>3, <1>4, <1>5, <2>5 DEF Position, InStep
  <2> QED
    BY <1>2, <1>3, <2>4, <2>6 DEF StreamInv
<1>6. CASE Astray(S, starts, R, p)
  <2> DEFINE s == starts[p]
             span == Span(sent[p])
             j == R - s
  <2>1. /\ p \in 1..n /\ R < s + span /\ p <= D + faults /\ faults > 0
        /\ s + 1 < R /\ S[R] = Hash
    BY <1>1, <1>3, <1>6 DEF Astray
  <2>2. span \in Nat /\ sent[p] \in Messages /\ \A i \in 1..span : S[s + i] = PaddedByte(sent[p], i)
    BY <2>1, MessageBytes DEF Stream
  <2> HIDE DEF s, span
  <2>3. /\ j \in 2..span /\ j \in 1..span /\ j + 1 \in 1..span
        /\ s + j = R /\ s + (j + 1) = R + 1 /\ s \in Nat
    <3>1. s \in Nat
      BY <1>1 DEF s
    <3> QED
      BY <1>1, <2>1, <2>2, <3>1
  <2>4. PaddedByte(sent[p], j) = Hash /\ b = PaddedByte(sent[p], j + 1)
    BY <1>2, <2>1, <2>2, <2>3
  <2> HIDE DEF j
  <2>5. b # Hash
    <3>1. PlainMessages
      BY <2>1
    <3>2. sent[p] \in Messages /\ j \in 2..Span(sent[p]) /\ PaddedByte(sent[p], j) = Hash
      BY <2>2, <2>3, <2>4 DEF span
    <3>3. PaddedByte(sent[p], j + 1) # Hash
      BY <3>1, <3>2 DEF PlainMessages
    <3> QED
      BY <2>4, <3>3
  <2>6. CASE R + 1 < s + span
    <3>1. s < R + 1
      BY <1>1, <2>1, <2>3
    <3>2. Astray(S, starts, R + 1, p)'
      BY <1>3, <2>1, <2>5, <2>6, <3>1 DEF Astray, s, span
    <3>3. Position(S, starts, R + 1, p, f)'
      BY <1>4, <3>2 DEF Position
    <3> QED
      BY <1>2, <2>1, <3>3 DEF StreamInv
  <2>7. CASE R + 1 = s + span
    <3>1. Position(S, starts, R + 1, p + 1, f)'
      <4>1. p + 1 \in 1..Len(sent) + 1 /\ starts[p + 1] = R + 1
        BY <2>1, <2>7, MessageBytes DEF Stream, s, span
      <4>2. /\ R + 1 \in Nat /\ Len(delivered') \in Nat /\ faults' \in Nat /\ faults' > 0
            /\ p <= Len(delivered') + faults' /\ pc' \in {"idle", "scan"} /\ p + 1 \in 1..Len(sent') + 1
        BY <1>1, <1>3, <2>1, <2>5, <4>1
      <4> QED
        BY <1>1, <1>4, <4>1, <4>2, EndOfMessage
    <3> QED
      BY <1>2, <2>1, <3>1 DEF StreamInv
  <2> QED
    BY <1>1, <2>1, <2>2, <2>3, <2>6, <2>7
<1> QED
  BY <1>3, <1>5, <1>6 DEF Position, InStep, InPadding

\* In the header and the body the reader is in step.
LEMMA InStepThen ==
    ASSUME TypeInv, NEW S, NEW starts, NEW R, NEW p, NEW f,
           Stream(S, starts, R), Position(S, starts, R, p, f), pc \in {"header", "body"}
    PROVE  /\ p \in 1..Len(sent) /\ p <= Len(delivered) + faults + 1
           /\ pc = "header" => R = starts[p] + 2
           /\ pc = "body" => /\ R = starts[p] + 8
                             /\ header = [type |-> sent[p].type, len |-> Len(sent[p].body)]
<1>1. p \in Nat /\ p >= 1
  BY Numbers
<1> QED
  BY <1>1 DEF Position, InStep, Astray, InPadding, InMessage

LEMMA HeaderStep ==
    ASSUME TypeInv, NEW S, NEW starts, NEW R, NEW p, NEW f,
           Stream(S, starts, R), Position(S, starts, R, p, f), Header
    PROVE  StreamInv'
<1>1. R \in Nat /\ p \in Nat /\ p >= 1 /\ p <= Len(sent) + 1 /\ starts[p] \in Nat
  BY Numbers
<1>2. Stream(S, starts, R + 6)' /\ \A j \in 1..6 : Taken[j] = S[R + j]
  <2>1. Len(buffer) >= Wanted /\ Consume /\ UNCHANGED <<writerVars, wire>> /\ 6 = Wanted
    BY DEF Header, Ready, Wanted, HeaderLen
  <2> QED
    BY <2>1, NextBytes
<1>3. pc = "header" /\ pc' = "body" /\ UNCHANGED <<sent, delivered, faults>>
  BY DEF Header, Ready, writerVars
<1>4. p \in 1..Len(sent) /\ p <= Len(delivered) + faults + 1 /\ R = starts[p] + 2
  BY <1>3, InStepThen
<1> DEFINE m == sent[p]
           h == PackHeader(m)
<1>5. m \in Messages /\ \A j \in 1..6 : S[starts[p] + 2 + j] = h[j]
  BY <1>4, MessageBytes DEF Stream
<1>6. \A j \in 1..6 : Taken[j] = h[j]
  BY <1>2, <1>4, <1>5
<1> HIDE DEF m
<1>7. header' = [type |-> m.type, len |-> Len(m.body)]
  <2>1. /\ h[1] * 256 + h[2] = m.type
        /\ ((h[3] * 256 + h[4]) * 256 + h[5]) * 256 + h[6] = Len(m.body)
    BY <1>5, HeaderRight
  <2>2. /\ Taken[1] = h[1] /\ Taken[2] = h[2] /\ Taken[3] = h[3]
        /\ Taken[4] = h[4] /\ Taken[5] = h[5] /\ Taken[6] = h[6]
    BY <1>6
  <2> HIDE DEF h
  <2> QED
    BY <2>1, <2>2 DEF Header
<1>8. R + 6 = starts[p] + 8
  <2>1. starts[p] \in Nat /\ R = starts[p] + 2
    BY <1>1, <1>4
  <2> QED
    BY <2>1
<1>9. InMessage(starts, R + 6, p)'
  BY <1>1, <1>3, <1>4, <1>7, <1>8 DEF InMessage, m
<1>10. Position(S, starts, R + 6, p, f)'
  BY <1>3, <1>4, <1>9 DEF Position, InStep, Behind
<1> QED
  BY <1>2, <1>10 DEF StreamInv

LEMMA BodyStep ==
    ASSUME TypeInv, TypeInv', NEW S, NEW starts, NEW R, NEW p, NEW f,
           Stream(S, starts, R), Position(S, starts, R, p, f), Body
    PROVE  /\ StreamInv'
           /\ faults = 0 => /\ Len(delivered) < Len(sent)
                            /\ delivered' = Append(delivered, sent[Len(delivered) + 1])
<1> DEFINE n == Len(sent)
           D == Len(delivered)
<1>0. PICK m, k : m = sent[p] /\ k = Len(m.body)
  OBVIOUS
<1>1. /\ R \in Nat /\ p \in Nat /\ p >= 1 /\ p <= n + 1 /\ n \in Nat /\ D \in Nat
      /\ faults \in Nat /\ starts[p] \in Nat /\ D < p /\ ChunkLen \in Nat
  BY Numbers
<1>2. pc = "body" /\ pc' = "idle" /\ UNCHANGED <<sent, faults>>
  BY DEF Body, Ready, writerVars
<1>3. /\ p \in 1..n /\ p <= D + faults + 1 /\ R = starts[p] + 8
      /\ header = [type |-> m.type, len |-> k]
  BY <1>0, <1>2, InStepThen
<1>4. /\ m \in Messages /\ p + 1 \in 1..n + 1 /\ k \in Nat /\ Span(m) \in Nat
      /\ 8 + k <= Span(m) /\ Span(m) < 8 + k + ChunkLen
      /\ starts[p + 1] = starts[p] + Span(m)
      /\ \A j \in 1..k : S[starts[p] + 8 + j] = m.body[j]
      /\ \A x \in starts[p] + 8 + k + 1 .. starts[p] + Span(m) : S[x] = 0
  <2>1. Layout(S, starts) /\ p \in 1..Len(sent)
    BY <1>3 DEF Stream
  <2> QED
    BY <1>0, <2>1, BodyBytes
<1>5. Wanted = k
  BY <1>2, <1>3 DEF Wanted
<1>6. Stream(S, starts, R + k)' /\ \A j \in 1..k : Taken[j] = S[R + j]
  <2>1. Len(buffer) >= Wanted /\ Consume /\ UNCHANGED <<writerVars, wire>>
    BY DEF Body, Ready
  <2> QED
    BY <1>5, <2>1, NextBytes
<1>7. Taken = m.body
  <2>1. Taken \in Seq(Byte) /\ Len(Taken) = k
    BY <1>5, TakenRight DEF Body, Ready
  <2>2. m.body \in Seq(Byte)
    BY <1>4, HeaderRight
  <2>3. \A j \in 1..k : Taken[j] = m.body[j]
    BY <1>3, <1>4, <1>6
  <2>4. Len(Taken) = Len(m.body) /\ \A j \in 1..Len(Taken) : Taken[j] = m.body[j]
    BY <1>0, <2>1, <2>3
  <2> QED
    BY <2>1, <2>2, <2>4, SeqEqual
<1>8. m = [type |-> m.type, body |-> m.body]
  <2>1. m \in [type : MessageType, body : Seq(Byte)]
    BY <1>4, FramingAssumption
  <2> QED
    BY <2>1
<1>9. delivered' = Append(delivered, m)
  BY <1>3, <1>7, <1>8 DEF Body
<1>10. /\ Len(delivered') = D + 1 /\ delivered'[D + 1] = m
       /\ \A i \in 1..D : delivered'[i] = delivered[i]
  <2> DEFINE M == [type : MessageType, body : Seq(Byte)]
  <2>1. delivered \in Seq(M) /\ m \in M
    BY <1>4, FramingAssumption DEF TypeInv
  <2> HIDE DEF M
  <2> QED
    BY <1>9, <2>1
<1>11. InPadding(S, starts, R + k, p + 1)'
  <2>1. R + k <= starts[p + 1] /\ starts[p + 1] - (R + k) < ChunkLen
    <3>1. /\ starts[p] \in Nat /\ R = starts[p] + 8 /\ k \in Nat /\ Span(m) \in Nat /\ ChunkLen \in Nat
          /\ 8 + k <= Span(m) /\ Span(m) < 8 + k + ChunkLen
          /\ starts[p + 1] = starts[p] + Span(m)
      BY <1>1, <1>3, <1>4
    <3> QED
      BY <3>1
  <2>2. \A x \in (R + k) + 1 .. starts[p + 1] : S[x] = 0
    <3>1. (R + k) + 1 = starts[p] + 8 + k + 1
      BY <1>1, <1>3, <1>4
    <3> QED
      BY <1>4, <3>1
  <2> QED
    BY <1>2, <2>1, <2>2 DEF InPadding
<1>12. PICK g : g = [i \in 1..D + 1 |-> IF i = D + 1 THEN p ELSE f[i]]
  OBVIOUS
<1>15. faults = 0 => p = D + 1 /\ D < n
  <2>1. p \in Nat /\ D \in Nat /\ n \in Nat /\ D < p /\ p <= n /\ p <= D + faults + 1
    BY <1>1, <1>3
  <2> HIDE DEF n, D
  <2> QED
    BY <2>1
<1>13. Behind(p + 1, g)'
  <2>1. /\ f \in [1..D -> 1..p - 1]
        /\ \A i, j \in 1..D : i < j => f[i] < f[j]
        /\ \A i \in 1..D : delivered[i] = sent[f[i]]
        /\ faults = 0 => \A i \in 1..D : f[i] = i
    BY DEF Position, Behind
  <2>2. g[D + 1] = p /\ \A i \in 1..D : g[i] = f[i] /\ f[i] \in 1..p - 1
    BY <1>1, <1>12, <2>1
  <2>3. \A i \in 1..D + 1 : i \in 1..D \/ i = D + 1
    BY <1>1
  <2>4. g \in [1..D + 1 -> 1..(p + 1) - 1]
    <3>1. \A i \in 1..D + 1 : g[i] \in 1..(p + 1) - 1
      BY <1>1, <2>2, <2>3
    <3> QED
      BY <1>12, <3>1
  <2>5. ASSUME NEW i \in 1..D + 1, NEW j \in 1..D + 1, i < j PROVE g[i] < g[j]
    <3>1. i \in 1..D
      BY <1>1, <2>5
    <3>2. CASE j \in 1..D
      <4>1. f[i] < f[j] /\ g[i] = f[i] /\ g[j] = f[j]
        BY <2>1, <2>2, <2>5, <3>1, <3>2
      <4> QED
        BY <4>1
    <3>3. CASE j = D + 1
      BY <1>1, <2>2, <3>1, <3>3
    <3> QED
      BY <2>3, <3>2, <3>3
  <2>6. \A i \in 1..D + 1 : delivered'[i] = sent[g[i]]
    BY <1>0, <1>10, <2>1, <2>2, <2>3
  <2>7. faults = 0 => \A i \in 1..D + 1 : g[i] = i
    BY <1>15, <2>1, <2>2, <2>3
  <2>8. D + 1 < p + 1
    BY <1>1
  <2> QED
    BY <1>2, <1>10, <2>4, <2>5, <2>6, <2>7, <2>8 DEF Behind
<1>14. Position(S, starts, R + k, p + 1, g)'
  <2>1. p + 1 <= Len(delivered') + faults' + 1 /\ p + 1 \in 1..Len(sent') + 1
    BY <1>1, <1>2, <1>3, <1>4, <1>10
  <2> QED
    BY <1>11, <1>13, <2>1 DEF Position, InStep
<1> QED
  <2>1. StreamInv'
    BY <1>6, <1>14 DEF StreamInv
  <2>2. ASSUME faults = 0 PROVE D < n /\ delivered' = Append(delivered, sent[D + 1])
    BY <1>0, <1>9, <1>15, <2>2
  <2> QED
    BY <2>1, <2>2

LEMMA ReadStep ==
    ASSUME TypeInv, NEW S, NEW starts, NEW R, NEW p, NEW f,
           Stream(S, starts, R), Position(S, starts, R, p, f), ReadBlocking
    PROVE  StreamInv'
<1>1. R \in Nat /\ starts[p] \in Nat /\ ChunkLen \in Nat
  BY Numbers
<1>2. /\ pc = "idle" /\ pc' = "scan" /\ skipped' = 0
      /\ UNCHANGED <<sent, outbox, wire, buffer, delivered, faults>>
  BY DEF ReadBlocking, writerVars
<1>3. Stream(S, starts, R)'
  BY <1>2 DEF Stream, Layout, Ahead
<1>4. CASE p <= Len(delivered) + faults + 1 /\ InPadding(S, starts, R, p)
  <2>1. starts[p] - R + 0 = starts[p] - R
    BY <1>1
  <2>2. InPadding(S, starts, R, p)'
    BY <1>2, <1>4, <2>1 DEF InPadding
  <2>3. Position(S, starts, R, p, f)'
    BY <1>2, <1>4, <2>2 DEF Position, InStep, Behind
  <2> QED
    BY <1>3, <2>3 DEF StreamInv
<1>5. CASE Astray(S, starts, R, p)
  <2>1. Astray(S, starts, R, p)'
    BY <1>2, <1>5 DEF Astray
  <2>2. Position(S, starts, R, p, f)'
    BY <1>2, <2>1 DEF Position, Behind
  <2> QED
    BY <1>3, <2>2 DEF StreamInv
<1> QED
  BY <1>2, <1>4, <1>5 DEF Position, InStep, InMessage

\* Reports that move on change no position.
LEMMA ReportSteps ==
    ASSUME TypeInv, NEW S, NEW starts, NEW R, NEW p, NEW f,
           Stream(S, starts, R), Position(S, starts, R, p, f), Receive \/ Stash \/ WriteReport
    PROVE  StreamInv'
<1>1. UNCHANGED <<sent, pc, skipped, header, delivered, faults>>
  BY DEF Receive, Stash, WriteReport, writerVars
<1>2. PICK e : e = starts[Len(sent) + 1]
  OBVIOUS
<1>3. Ahead(S, e, R)
  BY <1>2 DEF Stream
<1>4. Ahead(S, e, R)'
  <2>1. CASE Receive \/ Stash
    <3>1. /\ wire # <<>> /\ buffer' = buffer \o Tail(Head(wire))
          /\ wire' = Tail(wire) /\ UNCHANGED outbox
      BY <2>1 DEF Receive, Stash, writerVars
    <3> QED
      BY <1>3, <3>1, StreamReceive
  <2>2. CASE WriteReport
    BY <1>3, <2>2, StreamWriteReport
  <2> QED
    BY <2>1, <2>2
<1>5. Stream(S, starts, R)'
  BY <1>1, <1>2, <1>4 DEF Stream, Layout
<1>6. Position(S, starts, R, p, f)'
  BY <1>1 DEF Position, InStep, InPadding, InMessage, Astray, Behind
<1> QED
  BY <1>5, <1>6 DEF StreamInv

LEMMA WriteStep ==
    ASSUME TypeInv, NEW S, NEW starts, NEW R, NEW p, NEW f,
           Stream(S, starts, R), Position(S, starts, R, p, f), NEW m \in Messages, Write(m)
    PROVE  StreamInv'
<1>1. PICK S2, starts2 :
          /\ Stream(S2, starts2, R)'
          /\ \A i \in 1..Len(sent) + 1 : starts2[i] = starts[i]
          /\ \A x \in Nat : x <= starts[Len(sent) + 1] => S2[x] = S[x]
  BY StreamWrite
<1>2. /\ R \in Nat /\ p \in Nat /\ p >= 1 /\ p <= Len(sent) + 1 /\ Len(sent) \in Nat
      /\ starts[p] \in Nat /\ Len(delivered) < p /\ Len(delivered) \in Nat
  BY Numbers
<1>3. UNCHANGED <<pc, skipped, header, delivered, faults>> /\ sent' = Append(sent, m)
  BY DEF Write
<1>4. Len(sent') = Len(sent) + 1 /\ \A i \in 1..Len(sent) : sent'[i] = sent[i]
  <2>1. sent \in Seq(Messages)
    BY DEF TypeInv
  <2> QED
    BY <1>3, <2>1
<1>5. starts2[p] = starts[p] /\ p \in 1..Len(sent') + 1
  BY <1>1, <1>2, <1>4
<1>6. starts[p] <= starts[Len(sent) + 1] /\ starts[Len(sent) + 1] \in Nat
  <2>1. CASE p = Len(sent) + 1
    BY <1>2, <2>1
  <2>2. CASE p <= Len(sent)
    <3>1. p \in 1..Len(sent) /\ Len(sent) + 1 \in 1..Len(sent) + 1
      BY <1>2, <2>2
    <3>2. starts[Len(sent) + 1] \in Nat
      BY <3>1 DEF Stream, Layout
    <3>3. starts[p] + Span(sent[p]) <= starts[Len(sent) + 1] /\ Span(sent[p]) \in Nat
      BY <3>1, MessageBytes DEF Stream
    <3> QED
      BY <1>2, <3>2, <3>3
  <2> QED
    BY <1>2, <2>1, <2>2
<1>7. Behind(p, f)'
  <2>1. /\ f \in [1..Len(delivered) -> 1..p - 1]
        /\ \A i \in 1..Len(delivered) : delivered[i] = sent[f[i]]
    BY DEF Position, Behind
  <2>2. \A i \in 1..Len(delivered) : f[i] \in 1..Len(sent)
    BY <1>2, <2>1
  <2>3. \A i \in 1..Len(delivered) : delivered[i] = sent'[f[i]]
    BY <1>4, <2>1, <2>2
  <2> QED
    BY <1>3, <2>3 DEF Position, Behind
<1>8. CASE p <= Len(delivered) + faults + 1 /\ InPadding(S, starts, R, p)
  <2>1. \A x \in R + 1 .. starts[p] : S2[x] = 0
    <3>1. \A x \in R + 1 .. starts[p] : x \in Nat /\ x <= starts[Len(sent) + 1]
      BY <1>2, <1>6
    <3> QED
      BY <1>1, <1>8, <3>1 DEF InPadding
  <2>2. InPadding(S2, starts2, R, p)'
    BY <1>3, <1>5, <1>8, <2>1 DEF InPadding
  <2>3. Position(S2, starts2, R, p, f)'
    BY <1>3, <1>5, <1>7, <1>8, <2>2 DEF Position, InStep
  <2> QED
    BY <1>1, <2>3 DEF StreamInv
<1>9. CASE p <= Len(delivered) + faults + 1 /\ InMessage(starts, R, p)
  <2>1. p \in 1..Len(sent) /\ sent'[p] = sent[p] /\ p <= Len(sent')
    BY <1>2, <1>4, <1>9 DEF InMessage
  <2>2. InMessage(starts2, R, p)'
    BY <1>3, <1>5, <1>9, <2>1 DEF InMessage
  <2>3. Position(S2, starts2, R, p, f)'
    BY <1>3, <1>5, <1>7, <1>9, <2>2 DEF Position, InStep
  <2> QED
    BY <1>1, <2>3 DEF StreamInv
<1>10. CASE Astray(S, starts, R, p)
  <2>1. p \in 1..Len(sent) /\ sent'[p] = sent[p] /\ p <= Len(sent')
    BY <1>2, <1>4, <1>10 DEF Astray
  <2>2. S2[R] = S[R]
    <3>1. starts[p] + Span(sent[p]) <= starts[Len(sent) + 1] /\ Span(sent[p]) \in Nat
          /\ R < starts[p] + Span(sent[p])
      BY <1>10, <2>1, MessageBytes DEF Stream, Astray
    <3>2. R <= starts[Len(sent) + 1]
      BY <1>2, <1>6, <3>1
    <3> QED
      BY <1>1, <1>2, <3>2
  <2>3. Astray(S2, starts2, R, p)'
    BY <1>3, <1>5, <1>10, <2>1, <2>2 DEF Astray
  <2>4. Position(S2, starts2, R, p, f)'
    BY <1>5, <1>7, <2>3 DEF Position
  <2> QED
    BY <1>1, <2>4 DEF StreamInv
<1> QED
  BY <1>8, <1>9, <1>10 DEF Position, InStep

\* A read that fails costs at most the message it was reading.
LEMMA FaultStep ==
    ASSUME TypeInv, TypeInv', NEW S, NEW starts, NEW R, NEW p, NEW f,
           Stream(S, starts, R), Position(S, starts, R, p, f), Timeout \/ SocketError
    PROVE  StreamInv'
<1>1. /\ R \in Nat /\ p \in Nat /\ p >= 1 /\ p <= Len(sent) + 1 /\ Len(sent) \in Nat
      /\ starts[p] \in Nat /\ Len(delivered) < p /\ Len(delivered) \in Nat /\ faults \in Nat
  BY Numbers
<1>2. /\ Waiting /\ faults' = faults + 1 /\ faults' # 0 /\ pc' \in {"idle", "scan"}
      /\ UNCHANGED <<sent, outbox, wire, buffer, delivered>>
  BY <1>1 DEF Timeout, SocketError, writerVars
<1>3. Stream(S, starts, R)'
  BY <1>2 DEF Stream, Layout, Ahead
<1>4. Behind(p, f)' /\ p \in 1..Len(sent') + 1
  BY <1>1, <1>2 DEF Position, Behind
<1>5. CASE p <= Len(delivered) + faults + 1 /\ InPadding(S, starts, R, p)
  <2>1. InPadding(S, starts, R, p)'
    BY <1>2, <1>5 DEF InPadding
  <2>2. p <= Len(delivered') + faults' + 1
    BY <1>1, <1>2, <1>5
  <2>3. Position(S, starts, R, p, f)'
    BY <1>4, <2>1, <2>2 DEF Position, InStep
  <2> QED
    BY <1>3, <2>3 DEF StreamInv
<1>6. CASE p <= Len(delivered) + faults + 1 /\ InMessage(starts, R, p)
  <2>1. p \in 1..Len(sent)
    BY <1>1, <1>6 DEF InMessage
  <2>2. /\ Span(sent[p]) \in Nat /\ Len(sent[p].body) \in Nat
        /\ 8 + Len(sent[p].body) <= Span(sent[p])
    BY <2>1, MessageBytes DEF Stream
  <2> DEFINE s == starts[p]
             span == Span(sent[p])
             k == Len(sent[p].body)
  <2>7. s \in Nat /\ span \in Nat /\ k \in Nat /\ 8 + k <= span
    BY <1>1, <2>2
  <2>3. starts[p] < R /\ R < starts[p] + Span(sent[p])
    <3>1. CASE pc = "magic" \/ pc = "header"
      <4>1. R = s + 1 \/ R = s + 2
        BY <1>6, <3>1 DEF InMessage
      <4>2. s < R /\ R < s + span
        <5> HIDE DEF s, span, k
        <5> QED
          BY <2>7, <4>1
      <4> QED
        BY <4>2
    <3>2. CASE pc = "body"
      <4>1. R = starts[p] + 8 /\ header.len = Len(sent[p].body)
        BY <1>6, <3>2 DEF InMessage
      <4>2. Len(buffer) < Len(sent[p].body) /\ Len(buffer) \in Nat
        <5>1. Len(buffer) < Wanted /\ Wanted = header.len
          BY <1>2, <3>2 DEF Waiting, Wanted
        <5>2. Len(buffer) \in Nat
          BY LenProperties DEF TypeInv
        <5> QED
          BY <4>1, <5>1, <5>2
      <4>3. R = s + 8 /\ k > 0
        BY <2>7, <4>1, <4>2
      <4>4. s < R /\ R < s + span
        <5> HIDE DEF s, span, k
        <5> QED
          BY <2>7, <4>3
      <4> QED
        BY <4>4
    <3> QED
      BY <1>6, <3>1, <3>2 DEF InMessage
  <2>4. p <= Len(sent') /\ p <= Len(delivered') + faults'
    BY <1>1, <1>2, <1>6, <2>1
  <2>5. Astray(S, starts, R, p)'
    BY <1>2, <2>3, <2>4 DEF Astray
  <2>6. Position(S, starts, R, p, f)'
    BY <1>4, <2>5 DEF Position
  <2> QED
    BY <1>3, <2>6 DEF StreamInv
<1>7. CASE Astray(S, starts, R, p)
  <2>1. p <= Len(delivered') + faults'
    BY <1>1, <1>2, <1>7 DEF Astray
  <2>2. Astray(S, starts, R, p)'
    BY <1>2, <1>7, <2>1 DEF Astray
  <2>3. Position(S, starts, R, p, f)'
    BY <1>4, <2>2 DEF Position
  <2> QED
    BY <1>3, <2>3 DEF StreamInv
<1> QED
  BY <1>5, <1>6, <1>7 DEF Position, InStep

-----------------------------------------------------------------------------
(* The theorems *)

LEMMA FirstInv == Init => IInv
<1> SUFFICES ASSUME Init PROVE IInv
  OBVIOUS
<1>1. TypeInv
  BY TypesFirst
<1>2. /\ Len(sent) = 0 /\ Len(outbox) = 0 /\ Len(wire) = 0 /\ Len(buffer) = 0 /\ Len(delivered) = 0
      /\ pc = "idle" /\ skipped = 0 /\ faults = 0 /\ raised = FALSE
  BY DEF Init
<1>3. PICK S : S = [x \in Nat |-> 0]
  OBVIOUS
<1>4. PICK starts : starts = [i \in 1..1 |-> 0]
  OBVIOUS
<1>5. PICK f : f = [i \in 1..0 |-> 1]
  OBVIOUS
<1>6. Bytes(0) = 0 /\ WholeReports(0)
  BY BytesAdd DEF WholeReports
<1>7. S \in [Nat -> Byte] /\ starts \in [1..1 -> Nat] /\ starts[1] = 0
  BY <1>3, <1>4 DEF Byte
<1>8. Layout(S, starts)
  <2>1. \A i \in 1..0 : FALSE
    OBVIOUS
  <2>2. \A i \in 1..1 : WholeReports(starts[i])
    BY <1>6, <1>7
  <2> QED
    BY <1>2, <1>7, <2>1, <2>2 DEF Layout
<1>9. Ahead(S, 0, 0)
  <2>1. \A i \in 1..0 : FALSE
    OBVIOUS
  <2>2. 0 + Len(buffer) = 0 /\ 0 + Len(buffer) + Bytes(Len(wire)) + Bytes(Len(outbox)) = 0
    BY <1>2, <1>6
  <2> QED
    BY <1>2, <1>6, <2>1, <2>2 DEF Ahead
<1>10. Stream(S, starts, 0)
  BY <1>2, <1>7, <1>8, <1>9 DEF Stream
<1>11. ChunkLen \in Nat /\ 0 < ChunkLen
  BY FramingAssumption DEF MagicLen, HeaderLen
<1>12. InPadding(S, starts, 0, 1)
  <2>1. \A x \in 0 + 1 .. starts[1] : FALSE
    BY <1>7
  <2> QED
    BY <1>2, <1>7, <1>11, <2>1 DEF InPadding
<1>13. Behind(1, f)
  <2>1. \A i \in 1..0 : FALSE
    OBVIOUS
  <2>2. f \in [1..0 -> 1..1 - 1]
    BY <1>5, <2>1
  <2> QED
    BY <1>2, <2>1, <2>2 DEF Behind
<1>14. Position(S, starts, 0, 1, f)
  BY <1>2, <1>12, <1>13 DEF Position, InStep
<1> QED
  BY <1>1, <1>2, <1>10, <1>14 DEF IInv, StreamInv, OnlyFaultsBreakTheSearch

LEMMA NextInv == IInv /\ [Next]_vars => IInv'
<1> SUFFICES ASSUME IInv, [Next]_vars PROVE IInv'
  OBVIOUS
<1>1. TypeInv /\ TypeInv'
  BY TypesNext DEF IInv
<1>2. faults \in Nat /\ faults' \in Nat /\ (faults' = 0 => faults = 0) /\ (faults > 0 => faults' > 0)
  <2>1. faults \in Nat /\ (faults' = faults \/ faults' = faults + 1)
    BY <1>1 DEF Next, Reading, Write, WriteReport, ReadBlocking, Receive, Stash, Scan, Magic, Header,
       Body, Timeout, SocketError, vars, TypeInv
  <2> QED
    BY <2>1
<1>3. CASE ~(faults = 0 \/ PlainMessages)
  BY <1>1, <1>2, <1>3 DEF IInv, OnlyFaultsBreakTheSearch
<1>4. CASE faults = 0 \/ PlainMessages
  <2>1. PICK S, starts, R, p, f : Stream(S, starts, R) /\ Position(S, starts, R, p, f)
    BY <1>4 DEF IInv, StreamInv
  <2>2. StreamInv' /\ (raised' => raised \/ faults > 0)
    <3>1. CASE Scan
      BY <1>1, <1>4, <2>1, <3>1, ScanStep
    <3>2. CASE Magic
      BY <1>1, <1>4, <2>1, <3>2, MagicStep
    <3>3. CASE Header
      BY <1>1, <2>1, <3>3, HeaderStep DEF Header
    <3>4. CASE Body
      <4>1. StreamInv'
        BY <1>1, <2>1, <3>4, BodyStep
      <4> QED
        BY <3>4, <4>1 DEF Body
    <3>5. CASE ReadBlocking
      BY <1>1, <2>1, <3>5, ReadStep DEF ReadBlocking
    <3>6. CASE Receive \/ Stash \/ WriteReport
      <4>1. StreamInv'
        BY <1>1, <2>1, <3>6, ReportSteps
      <4> QED
        BY <3>6, <4>1 DEF Receive, Stash, WriteReport
    <3>7. ASSUME NEW m \in Messages, Write(m) PROVE StreamInv' /\ (raised' => raised \/ faults > 0)
      <4>1. StreamInv'
        BY <1>1, <2>1, <3>7, WriteStep
      <4> QED
        BY <3>7, <4>1 DEF Write
    <3>8. CASE Timeout \/ SocketError
      <4>1. StreamInv'
        BY <1>1, <2>1, <3>8, FaultStep
      <4> QED
        BY <3>8, <4>1 DEF Timeout, SocketError
    <3>9. CASE UNCHANGED vars
      <4>1. Stream(S, starts, R)' /\ Position(S, starts, R, p, f)'
        BY <2>1, <3>9 DEF vars, Stream, Layout, Ahead, Position, InStep, InPadding, InMessage, Astray, Behind
      <4> QED
        BY <3>9, <4>1 DEF vars, StreamInv
    <3> QED
      BY <3>1, <3>2, <3>3, <3>4, <3>5, <3>6, <3>7, <3>8, <3>9 DEF Next, Reading
  <2> QED
    BY <1>1, <1>2, <2>2 DEF IInv, OnlyFaultsBreakTheSearch
<1> QED
  BY <1>3, <1>4

LEMMA AlwaysInv == Spec => []IInv
BY FirstInv, NextInv, PTL DEF Spec

\* Whole reports of bytes and then fewer bytes than one more has.
LEMMA Remainder ==
    ASSUME NEW R \in Nat, NEW l \in Nat, NEW s \in Nat,
           s < ChunkLen, WholeReports(R + l), WholeReports(R + s)
    PROVE  s <= l /\ l % ChunkLen = s
<1>1. PICK a \in Nat : R + l = Bytes(a)
  BY DEF WholeReports
<1>2. PICK b \in Nat : R + s = Bytes(b)
  BY DEF WholeReports
<1>3. ChunkLen \in Nat /\ ChunkLen > 0 /\ Bytes(a) \in Nat /\ Bytes(b) \in Nat
  <2>1. ChunkLen \in Nat /\ ChunkLen > 0
    BY FramingAssumption DEF MagicLen, HeaderLen
  <2> QED
    BY <2>1, BytesAdd
<1>4. b <= a
  <2>1. CASE a < b
    <3>1. Bytes(a) + ChunkLen <= Bytes(b)
      BY <2>1, BytesAdd
    <3> QED
      BY <1>1, <1>2, <1>3, <3>1
  <2> QED
    BY <2>1
<1>5. a - b \in Nat /\ b + (a - b) = a
  BY <1>4
<1>6. Bytes(a) = Bytes(b) + Bytes(a - b) /\ Bytes(a - b) \in Nat
  BY <1>5, BytesAdd
<1>7. l = Bytes(a - b) + s
  <2>1. PICK x, y, z : x = Bytes(a) /\ y = Bytes(b) /\ z = Bytes(a - b)
    OBVIOUS
  <2>2. x \in Nat /\ y \in Nat /\ z \in Nat /\ x = y + z /\ R + l = x /\ R + s = y
    BY <1>1, <1>2, <1>3, <1>6, <2>1
  <2>3. l = z + s
    BY <2>2
  <2> QED
    BY <2>1, <2>3
<1>8. PICK d, m : d = l \div ChunkLen /\ m = l % ChunkLen
  OBVIOUS
<1>9. d \in Nat /\ m \in Nat /\ m < ChunkLen /\ l = d * ChunkLen + m
  BY <1>3, <1>8
<1>10. l = Bytes(d) + m /\ Bytes(d) \in Nat
  BY <1>9, BytesAdd DEF Bytes
<1>11. PICK e : e = a - b
  OBVIOUS
<1>12. e \in Nat /\ Bytes(e) \in Nat /\ l = Bytes(e) + s
  BY <1>5, <1>6, <1>7, <1>11
<1>13. d = e
  <2>1. CASE d < e
    <3>1. Bytes(d) + ChunkLen <= Bytes(e)
      BY <1>9, <1>12, <2>1, BytesAdd
    <3> QED
      BY <1>3, <1>9, <1>10, <1>12, <3>1
  <2>2. CASE e < d
    <3>1. Bytes(e) + ChunkLen <= Bytes(d)
      BY <1>9, <1>12, <2>2, BytesAdd
    <3> QED
      BY <1>3, <1>9, <1>10, <1>12, <3>1
  <2> QED
    BY <1>9, <1>12, <2>1, <2>2
<1>14. m = s /\ s <= l
  BY <1>9, <1>10, <1>12, <1>13
<1> QED
  BY <1>8, <1>14

\* In step and between two reads, with no failed read: the buffer is padding
\* up to the next message, and then whole reports.
LEMMA InStepResidue ==
    ASSUME TypeInv, StreamInv
    PROVE  ResidueIsPadding
<1> SUFFICES ASSUME faults = 0, pc = "idle"
             PROVE  /\ \A i \in 1..Len(buffer) % ChunkLen : buffer[i] = 0
                    /\ Len(buffer) > Len(buffer) % ChunkLen => buffer[(Len(buffer) % ChunkLen) + 1] = Hash
  BY DEF ResidueIsPadding
<1>1. PICK S, starts, R, p, f : Stream(S, starts, R) /\ Position(S, starts, R, p, f)
  BY DEF StreamInv
<1>2. /\ R \in Nat /\ p \in Nat /\ p >= 1 /\ p <= Len(sent) + 1 /\ Len(sent) \in Nat
      /\ starts[p] \in Nat /\ Len(delivered) < p /\ Len(delivered) \in Nat
  BY <1>1, Numbers
<1>3. InPadding(S, starts, R, p)
  BY <1>1, <1>2 DEF Position, InStep, InMessage, Astray
<1>4. PICK l, s : l = Len(buffer) /\ s = starts[p] - R
  OBVIOUS
<1>5. l \in Nat /\ s \in Nat /\ s < ChunkLen /\ R + s = starts[p]
  <2>1. l \in Nat
    BY <1>4, LenProperties DEF TypeInv
  <2>2. starts[p] - R < ChunkLen /\ R <= starts[p]
    BY <1>3 DEF InPadding
  <2>3. starts[p] \in Nat /\ R \in Nat
    BY <1>2
  <2>4. s = starts[p] - R
    BY <1>4
  <2>5. s \in Nat /\ R + s = starts[p]
    BY <2>2, <2>3, <2>4
  <2> QED
    BY <2>1, <2>2, <2>4, <2>5
<1>6. WholeReports(R + l) /\ WholeReports(R + s)
  <2>1. p \in 1..Len(sent) + 1
    BY <1>2
  <2>2. WholeReports(starts[p])
    BY <1>1, <2>1 DEF Stream, Layout
  <2>3. WholeReports(R + l)
    BY <1>1, <1>4 DEF Stream, Ahead
  <2> QED
    BY <1>5, <2>2, <2>3
<1>7. s <= l /\ l % ChunkLen = s
  BY <1>2, <1>5, <1>6, Remainder
<1>8. \A j \in 1..l : buffer[j] = S[R + j]
  BY <1>1, <1>4 DEF Stream, Ahead
<1>9. ASSUME NEW i \in 1..s PROVE buffer[i] = 0
  <2>1. i \in 1..l /\ R + i \in R + 1 .. starts[p]
    BY <1>2, <1>5, <1>7
  <2> QED
    BY <1>3, <1>8, <2>1 DEF InPadding
<1>10. ASSUME l > s PROVE buffer[s + 1] = Hash
  <2>1. s + 1 \in 1..l /\ R + (s + 1) = starts[p] + 1
    BY <1>2, <1>5, <1>10
  <2>2. p \in 1..Len(sent)
    <3>1. starts[Len(sent) + 1] >= R + l /\ starts[Len(sent) + 1] \in Nat
      <4>1. /\ starts[Len(sent) + 1] = R + l + Bytes(Len(wire)) + Bytes(Len(outbox))
            /\ Bytes(Len(wire)) \in Nat /\ Bytes(Len(outbox)) \in Nat
        BY <1>1, <1>4, BytesAdd, LenProperties DEF Stream, Ahead, TypeInv
      <4>2. PICK x, y : x = Bytes(Len(wire)) /\ y = Bytes(Len(outbox))
        OBVIOUS
      <4>3. starts[Len(sent) + 1] = R + l + x + y /\ x \in Nat /\ y \in Nat
        BY <4>1, <4>2
      <4>4. R \in Nat /\ l \in Nat
        BY <1>2, <1>5
      <4>5. R + l + x + y >= R + l /\ R + l + x + y \in Nat
        BY <4>3, <4>4
      <4> QED
        BY <4>3, <4>5
    <3>2. p # Len(sent) + 1
      BY <1>2, <1>5, <1>10, <3>1
    <3> QED
      BY <1>2, <3>2
  <2>3. S[starts[p] + 1] = Hash
    BY <1>1, <2>2, MessageBytes DEF Stream
  <2> QED
    BY <1>8, <2>1, <2>3
<1> QED
  BY <1>4, <1>7, <1>9, <1>10

\* The types of the transport's state.
LEMMA TypesFine == TypeInv => TypeOK
<1> SUFFICES ASSUME TypeInv PROVE TypeOK
  OBVIOUS
<1>1. ASSUME NEW r \in ToSet(outbox) \cup ToSet(wire)
      PROVE  r \in Seq(Byte) /\ Len(r) = ChunkLen + 1 /\ Head(r) = ReportId
  <2>1. r \in ReportSet
    <3>1. outbox \in Seq(ReportSet) /\ wire \in Seq(ReportSet)
      BY DEF TypeInv
    <3>2. ToSet(outbox) \subseteq ReportSet /\ ToSet(wire) \subseteq ReportSet
      BY <3>1 DEF ToSet
    <3> QED
      BY <3>2
  <2> QED
    BY <2>1 DEF ReportSet
<1>2. skipped \in 0..SkipLimit /\ faults \in 0..MaxFaults
  BY FramingAssumption DEF TypeInv
<1> QED
  BY <1>1, <1>2 DEF TypeInv, TypeOK

\* The reader is never out of step while no read fails, for messages of any
\* length (of up to four bytes), reports of any size and any arrival of them:
\* the header search always finds the next message within the padding of one
\* report, and what stays in the buffer between two reads is that padding and
\* then whole reports.
THEOREM ReaderStaysInStep == Spec => []ReaderInStep
<1>1. IInv => ReaderInStep
  <2> SUFFICES ASSUME IInv PROVE ReaderInStep
    OBVIOUS
  <2>1. TypeOK /\ OnlyFaultsBreakTheSearch
    BY TypesFine DEF IInv
  <2>2. CASE faults = 0
    BY <2>1, <2>2, InStepResidue DEF IInv, ReaderInStep
  <2>3. CASE faults # 0
    BY <2>1, <2>3 DEF ReaderInStep, ResidueIsPadding
  <2> QED
    BY <2>2, <2>3
<1> QED
  BY <1>1, AlwaysInv, PTL

\* What has been returned is a subsequence of what was written.
LEMMA NothingIsForged == TypeInv /\ StreamInv => NothingForged
<1> SUFFICES ASSUME TypeInv, StreamInv PROVE NothingForged
  OBVIOUS
<1>1. PICK S, starts, R, p, f : Stream(S, starts, R) /\ Position(S, starts, R, p, f)
  BY DEF StreamInv
<1>2. /\ f \in [1..Len(delivered) -> 1..p - 1]
      /\ \A i, j \in 1..Len(delivered) : i < j => f[i] < f[j]
      /\ \A i \in 1..Len(delivered) : delivered[i] = sent[f[i]]
  BY <1>1 DEF Position, Behind
<1>3. 1..p - 1 \subseteq 1..Len(sent)
  <2>1. p \in Nat /\ p <= Len(sent) + 1 /\ Len(sent) \in Nat
    BY <1>1, Numbers
  <2> QED
    BY <2>1
<1>4. DOMAIN delivered = 1..Len(delivered) /\ DOMAIN sent = 1..Len(sent)
  BY LenProperties DEF TypeInv
<1>5. f \in [1..Len(delivered) -> 1..Len(sent)]
  BY <1>2, <1>3
<1> QED
  BY <1>2, <1>4, <1>5 DEF NothingForged, IsSubsequence

\* With everything read, the reader is at the end of the stream, in step.
LEMMA LossesCounted == TypeInv /\ StreamInv => OneLossPerFault
<1> SUFFICES ASSUME TypeInv, StreamInv, Drained PROVE Len(sent) - Len(delivered) <= faults
  BY DEF OneLossPerFault
<1>1. PICK S, starts, R, p, f : Stream(S, starts, R) /\ Position(S, starts, R, p, f)
  BY DEF StreamInv
<1>2. /\ R \in Nat /\ p \in Nat /\ p >= 1 /\ p <= Len(sent) + 1 /\ Len(sent) \in Nat
      /\ starts[p] \in Nat /\ Len(delivered) \in Nat /\ faults \in Nat
  BY <1>1, Numbers
<1>3. starts[Len(sent) + 1] = R
  <2>1. Len(buffer) = 0 /\ Len(wire) = 0 /\ Len(outbox) = 0 /\ Bytes(0) = 0
    BY BytesAdd DEF Drained
  <2>2. starts[Len(sent) + 1] = R + Len(buffer) + Bytes(Len(wire)) + Bytes(Len(outbox))
    BY <1>1 DEF Stream, Ahead
  <2> QED
    BY <1>2, <2>1, <2>2
<1>4. p <= Len(sent) => starts[p] + Span(sent[p]) <= R /\ Span(sent[p]) \in Nat /\ Span(sent[p]) > 0
  <2> SUFFICES ASSUME p <= Len(sent)
               PROVE  starts[p] + Span(sent[p]) <= R /\ Span(sent[p]) \in Nat /\ Span(sent[p]) > 0
    OBVIOUS
  <2>1. p \in 1..Len(sent)
    BY <1>2
  <2>2. /\ starts[p] + Span(sent[p]) <= R /\ Span(sent[p]) \in Nat
        /\ Len(sent[p].body) \in Nat /\ 8 + Len(sent[p].body) <= Span(sent[p])
    BY <1>1, <1>3, <2>1, MessageBytes DEF Stream
  <2> QED
    BY <2>2
<1>5. pc = "scan"
  BY DEF Drained
<1>6. CASE p <= Len(delivered) + faults + 1 /\ InPadding(S, starts, R, p)
  <2>1. R <= starts[p]
    BY <1>6 DEF InPadding
  <2>2. ~(p <= Len(sent))
    BY <1>2, <1>4, <2>1
  <2> QED
    BY <1>2, <1>6, <2>2
<1>7. CASE Astray(S, starts, R, p)
  BY <1>2, <1>4, <1>7 DEF Astray
<1> QED
  BY <1>1, <1>5, <1>6, <1>7 DEF Position, InStep, InMessage

\* For messages without a second "##", reads that time out or fail in the
\* socket, however many and wherever, lose at most one message each, and what
\* is returned has been written, in this order.
THEOREM FailedReadsOnlyLose == PlainMessages => (Spec => []FaultsOnlyLose)
<1>1. ASSUME PlainMessages PROVE IInv => FaultsOnlyLose
  BY <1>1, NothingIsForged, LossesCounted DEF IInv, FaultsOnlyLose
<1>2. ASSUME PlainMessages PROVE Spec => []FaultsOnlyLose
  <2>1. IInv => FaultsOnlyLose
    BY <1>1, <1>2
  <2> QED
    BY <2>1, AlwaysInv, PTL
<1> QED
  BY <1>2

\* With no failed read the bytes on the wire implement the message channel:
\* every step is one of the channel's or changes nothing of it.
THEOREM ImplementsChannel ==
    MaxFaults = 0 => (Spec => Channel!Init /\ [][Channel!Next]_(Channel!vars))
<1> SUFFICES ASSUME MaxFaults = 0
             PROVE  Spec => Channel!Init /\ [][Channel!Next]_(Channel!vars)
  OBVIOUS
<1>1. Init => Channel!Init
  BY DEF Init, Channel!Init
<1>2. IInv /\ [Next]_vars => [Channel!Next]_(Channel!vars)
  <2> SUFFICES ASSUME IInv, [Next]_vars PROVE [Channel!Next]_(Channel!vars)
    OBVIOUS
  <2>1. TypeInv /\ TypeInv'
    BY TypesNext DEF IInv
  <2>2. ASSUME NEW m \in Messages, Write(m) PROVE Channel!Send(m)
    BY <2>2 DEF Write, Channel!Send
  <2>3. CASE Body
    <3>1. faults = 0
      BY <2>1 DEF TypeInv
    <3>2. PICK S, starts, R, p, f : Stream(S, starts, R) /\ Position(S, starts, R, p, f)
      BY <3>1 DEF IInv, StreamInv
    <3>3. Len(delivered) < Len(sent) /\ delivered' = Append(delivered, sent[Len(delivered) + 1])
      BY <2>1, <2>3, <3>1, <3>2, BodyStep
    <3> QED
      BY <2>3, <3>3 DEF Body, writerVars, Channel!Next, Channel!Deliver
  <2>4. CASE UNCHANGED <<sent, delivered>>
    BY <2>4 DEF Channel!vars
  <2> QED
    BY <2>2, <2>3, <2>4 DEF Next, Reading, WriteReport, ReadBlocking, Stash, Receive, Scan, Magic,
       Header, Timeout, SocketError, vars, writerVars, Channel!Next
<1> QED
  BY <1>1, <1>2, AlwaysInv, PTL DEF Spec

=============================================================================
