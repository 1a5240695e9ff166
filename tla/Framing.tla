------------------------------ MODULE Framing ------------------------------
(***************************************************************************)
(* The wire format of keepkeylib, byte by byte: Transport.write() turns a  *)
(* message into "##", a message type, a length and the serialised body;    *)
(* _write() cuts that into 64-byte reports, each a '?' followed by 63      *)
(* bytes of which the last ones may be zero padding; _read() finds the     *)
(* header again in the bytes that come out of the reports and collects the *)
(* body.  Bytes that a read does not use stay in the transport's buffer    *)
(* for the next one.                                                       *)
(*                                                                         *)
(* The reports are written by one end of the connection and read by the    *)
(* other: the two ends use the same format, so the module connects the     *)
(* library's own writer to its own reader.  The reader is that of every    *)
(* transport: only the in-process one takes reports into its buffer        *)
(* between two reads (Stash), only it and the UDP one time out, and only   *)
(* the UDP one starts over after an error of its socket.                   *)
(***************************************************************************)
EXTENDS Integers, SequencesExt

CONSTANTS
    Messages,    \* the messages that may be written: [type, body] records
    ChunkLen,    \* payload bytes of a report (63 in the code)
    SkipLimit,   \* bytes the header search skips before it gives up (64)
    MaxSent,     \* bound: messages written
    MaxFaults    \* bound: reads that time out or fail in the socket

Byte == 0..255
MessageType == {t \in Nat : t \div 256 \in Byte}   \* "H": two bytes
Hash == 35       \* '#'
ReportId == 63   \* '?'
MagicLen == 2    \* "##"
HeaderLen == 6   \* struct.calcsize(">HL")

ASSUME FramingAssumption ==
    /\ ChunkLen \in Nat /\ ChunkLen >= MagicLen + HeaderLen
    /\ SkipLimit \in Nat /\ SkipLimit >= ChunkLen
    /\ MaxSent \in Nat /\ MaxFaults \in Nat
    /\ Messages \subseteq [type : MessageType, body : Seq(Byte)]
    /\ \A m \in Messages : ((Len(m.body) \div 256) \div 256) \div 256 \in Byte

VARIABLES
    sent,        \* history: messages whose write() has begun
    outbox,      \* reports of the current write() not yet on the wire
    wire,        \* reports on their way
    buffer,      \* self.buffer: bytes received and not yet consumed
    pc,          \* where the current read_blocking() is; "idle" between calls
    skipped,     \* i in _read_headers
    header,      \* (msg_type, datalen) once _read_headers has returned
    delivered,   \* history: messages read_blocking() has returned
    raised,      \* history: a read has ended in an exception of _read_headers
    faults       \* history: timeouts and socket errors so far

writerVars == <<sent, outbox>>
vars == <<sent, outbox, wire, buffer, pc, skipped, header, delivered, raised, faults>>

-----------------------------------------------------------------------------
(* Writing *)

Zeros(n) == [i \in 1..n |-> 0]

\* struct.pack(">HL", type, length): six bytes, big endian.
PackHeader(m) ==
    LET n1 == Len(m.body)
        n2 == n1 \div 256
        n3 == n2 \div 256
    IN  <<m.type \div 256, m.type % 256, n3 \div 256, n3 % 256, n2 % 256, n1 % 256>>

Frame(m) == <<Hash, Hash>> \o PackHeader(m) \o m.body

\* The reports of a byte string: '?' + 63 bytes, the last one filled with zeros.
Reports(bytes) ==
    LET Chunk(i) == SubSeq(bytes, (i - 1) * ChunkLen + 1,
                           IF i * ChunkLen < Len(bytes) THEN i * ChunkLen ELSE Len(bytes))
    IN  [i \in 1..((Len(bytes) + ChunkLen - 1) \div ChunkLen) |->
            <<ReportId>> \o Chunk(i) \o Zeros(ChunkLen - Len(Chunk(i)))]

Write(m) ==
    /\ outbox = <<>>
    /\ Len(sent) < MaxSent
    /\ sent' = Append(sent, m)
    /\ outbox' = Reports(Frame(m))
    /\ UNCHANGED <<wire, buffer, pc, skipped, header, delivered, raised, faults>>

WriteReport ==
    /\ outbox # <<>>
    /\ wire' = Append(wire, Head(outbox))
    /\ outbox' = Tail(outbox)
    /\ UNCHANGED <<sent, buffer, pc, skipped, header, delivered, raised, faults>>

-----------------------------------------------------------------------------
(* Reading *)

\* The number of bytes the read in progress has asked _raw_read() for.
Wanted == CASE pc = "scan"   -> 1
            [] pc = "magic"  -> 1
            [] pc = "header" -> HeaderLen
            [] pc = "body"   -> header.len
            [] OTHER         -> 0

Waiting == pc # "idle" /\ Len(buffer) < Wanted
Ready(step) == pc = step /\ Len(buffer) >= Wanted
Taken == SubSeq(buffer, 1, Wanted)
Consume == buffer' = SubSeq(buffer, Wanted + 1, Len(buffer))

NoHeader == [type |-> 0, len |-> 0]

ReadBlocking ==
    /\ pc = "idle"
    /\ pc' = "scan" /\ skipped' = 0 /\ header' = NoHeader
    /\ UNCHANGED <<writerVars, wire, buffer, delivered, raised, faults>>

\* Mutant: the '?' of the report stays in the bytes.
ReceiveWholeReport ==
    /\ Waiting
    /\ wire # <<>>
    /\ buffer' = buffer \o Head(wire)
    /\ wire' = Tail(wire)
    /\ UNCHANGED <<writerVars, pc, skipped, header, delivered, raised, faults>>

\* _raw_read: one more report, without its leading '?'.
Receive ==
    /\ Waiting
    /\ wire # <<>>
    /\ buffer' = buffer \o Tail(Head(wire))
    /\ wire' = Tail(wire)
    /\ UNCHANGED <<writerVars, pc, skipped, header, delivered, raised, faults>>

\* Mutant: "mixing stripped and unstripped frames in one buffer".
StashWholeReport ==
    /\ pc = "idle"
    /\ wire # <<>>
    /\ buffer' = buffer \o Head(wire)
    /\ wire' = Tail(wire)
    /\ UNCHANGED <<writerVars, pc, skipped, header, delivered, raised, faults>>

\* ready_to_read of the in-process transport: a report taken between two reads.
Stash ==
    /\ pc = "idle"
    /\ wire # <<>>
    /\ buffer' = buffer \o Tail(Head(wire))
    /\ wire' = Tail(wire)
    /\ UNCHANGED <<writerVars, pc, skipped, header, delivered, raised, faults>>

\* Mutant: a byte that is not '#' stays in the buffer.
ScanKeepingByte ==
    /\ Ready("scan")
    /\ IF Taken[1] = Hash
          THEN Consume /\ pc' = "magic" /\ UNCHANGED <<skipped, raised>>
          ELSE /\ skipped' = skipped + 1 /\ UNCHANGED buffer
               /\ IF skipped + 1 >= SkipLimit
                     THEN pc' = "idle" /\ raised' = TRUE
                     ELSE UNCHANGED <<pc, raised>>
    /\ UNCHANGED <<writerVars, wire, header, delivered, faults>>

\* Mutant: a search that fails throws away all that has arrived.
ScanFlushing ==
    /\ Ready("scan")
    /\ IF Taken[1] = Hash
          THEN Consume /\ pc' = "magic" /\ UNCHANGED <<skipped, raised, wire>>
          ELSE /\ skipped' = skipped + 1
               /\ IF skipped + 1 >= SkipLimit
                     THEN pc' = "idle" /\ raised' = TRUE /\ buffer' = <<>> /\ wire' = <<>>
                     ELSE Consume /\ UNCHANGED <<pc, raised, wire>>
    /\ UNCHANGED <<writerVars, header, delivered, faults>>

\* _read_headers looks for the first '#', one byte at a time.
Scan ==
    /\ Ready("scan")
    /\ Consume
    /\ IF Taken[1] = Hash
          THEN pc' = "magic" /\ UNCHANGED <<skipped, raised>>
          ELSE /\ skipped' = skipped + 1
               /\ IF skipped + 1 >= SkipLimit
                     THEN pc' = "idle" /\ raised' = TRUE
                     ELSE UNCHANGED <<pc, raised>>
    /\ UNCHANGED <<writerVars, wire, header, delivered, faults>>

\* The second '#' must follow at once.
Magic ==
    /\ Ready("magic")
    /\ Consume
    /\ IF Taken[1] = Hash
          THEN pc' = "header" /\ UNCHANGED raised
          ELSE pc' = "idle" /\ raised' = TRUE
    /\ UNCHANGED <<writerVars, wire, skipped, header, delivered, faults>>

Header ==
    /\ Ready("header")
    /\ Consume
    /\ header' = [type |-> Taken[1] * 256 + Taken[2],
                  len |-> ((Taken[3] * 256 + Taken[4]) * 256 + Taken[5]) * 256 + Taken[6]]
    /\ pc' = "body"
    /\ UNCHANGED <<writerVars, wire, skipped, delivered, raised, faults>>

\* The body is complete: _parse_message hands it to the caller.
Body ==
    /\ Ready("body")
    /\ Consume
    /\ delivered' = Append(delivered, [type |-> header.type, body |-> Taken])
    /\ pc' = "idle"
    /\ UNCHANGED <<writerVars, wire, skipped, header, raised, faults>>

-----------------------------------------------------------------------------
(* Reads that fail.  Neither path touches the buffer or puts back what the *)
(* read has already taken out of it.                                       *)

\* socket.timeout or a refused connection: EmulatorNotResponding reaches the caller.
Timeout ==
    /\ Waiting
    /\ wire = <<>>
    /\ faults < MaxFaults
    /\ faults' = faults + 1
    /\ pc' = "idle"
    /\ UNCHANGED <<writerVars, wire, buffer, skipped, header, delivered, raised>>

\* Any other socket.error: _read() returns None and read_blocking() starts over.
SocketError ==
    /\ Waiting
    /\ wire = <<>>
    /\ faults < MaxFaults
    /\ faults' = faults + 1
    /\ pc' = "scan" /\ skipped' = 0 /\ header' = NoHeader
    /\ UNCHANGED <<writerVars, wire, buffer, delivered, raised>>

-----------------------------------------------------------------------------
Init ==
    /\ sent = <<>> /\ outbox = <<>> /\ wire = <<>> /\ buffer = <<>>
    /\ pc = "idle" /\ skipped = 0 /\ header = NoHeader
    /\ delivered = <<>> /\ raised = FALSE /\ faults = 0

Reading == Receive \/ Scan \/ Magic \/ Header \/ Body

Next ==
    \/ \E m \in Messages : Write(m)
    \/ WriteReport
    \/ ReadBlocking
    \/ Stash
    \/ Reading
    \/ Timeout
    \/ SocketError

\* A write() that has begun runs to its end, a caller who wants a message
\* keeps reading, and a read makes progress whenever it can.
Fairness == WF_vars(WriteReport) /\ WF_vars(ReadBlocking) /\ WF_vars(Reading)

Spec == Init /\ [][Next]_vars /\ Fairness

-----------------------------------------------------------------------------
(* Properties *)

\* Type invariant of the transport's state (transport.py, transport_udp.py).
TypeOK ==
    /\ sent \in Seq(Messages) /\ Len(sent) <= MaxSent
    /\ \A r \in ToSet(outbox) \cup ToSet(wire) :
          r \in Seq(Byte) /\ Len(r) = ChunkLen + 1 /\ Head(r) = ReportId
    /\ buffer \in Seq(Byte)
    /\ pc \in {"idle", "scan", "magic", "header", "body"}
    /\ skipped \in 0..SkipLimit
    /\ header \in [type : MessageType, len : Nat]
    /\ raised \in BOOLEAN
    /\ faults \in 0..MaxFaults

\* Reports, padding and the buffer that survives from one read to the next
\* implement the in-order, lossless message channel (no read fails).
Channel == INSTANCE MessageChannel
ChannelSpec == Channel!Spec

\* As long as no read has failed, the header search never gives up and never
\* meets a broken magic: what it skips is at most the padding of one report.
OnlyFaultsBreakTheSearch == raised => faults > 0

\* Between two reads the buffer is less than a report of padding, and then
\* whole reports of the next messages (as long as no read has failed).
ResidueIsPadding ==
    faults = 0 /\ pc = "idle" =>
        LET padding == Len(buffer) % ChunkLen
        IN  /\ \A i \in 1..padding : buffer[i] = 0
            /\ Len(buffer) > padding => buffer[padding + 1] = Hash

\* Reads that fail lose messages but never invent one: what has been returned
\* is a subsequence of what was written (bodies without '#').
IsSubsequence(s, t) ==
    \E f \in [DOMAIN s -> DOMAIN t] :
        /\ \A i, j \in DOMAIN s : i < j => f[i] < f[j]
        /\ \A i \in DOMAIN s : s[i] = t[f[i]]

NothingForged == IsSubsequence(delivered, sent)

\* A failed read costs at most the one message it was reading: once everything
\* written has been read, no more messages are missing than reads have failed.
Drained == outbox = <<>> /\ wire = <<>> /\ pc = "scan" /\ buffer = <<>>
OneLossPerFault == Drained => Len(sent) - Len(delivered) <= faults

\* After the last failed read the reader finds its way back: what has been
\* written is eventually all read past, and the reader waits for a new header.
ReaderRecovers == <>[](outbox = <<>>) => <>[]Drained

\* The reader is never out of step while no read fails: types, the padding
\* that is all a read leaves behind, and a search that always finds its header.
ReaderInStep == TypeOK /\ ResidueIsPadding /\ OnlyFaultsBreakTheSearch

\* What failed reads can cost, and what they cannot (bodies without '#').
FaultsOnlyLose == NothingForged /\ OneLossPerFault
=============================================================================
