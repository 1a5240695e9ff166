---------------------------- MODULE SignTx_proofs ----------------------------
(***************************************************************************)
(* Proofs about sign_tx() for every transaction, any number of inputs and  *)
(* outputs, and every device; and that the result of an honest device is   *)
(* the device's own.                                                       *)
(***************************************************************************)
EXTENDS MCSignTx, SequenceTheorems, FiniteSetTheorems, WellFoundedInduction, TLAPS

\* The request being handled is the last one that was logged.
LastLogged ==
    pc = "got" =>
        /\ Len(log) >= 1
        /\ log[Len(log)] = [sig |-> res.sig, part |-> res.part]

\* Requests the host has dealt with, or raised on.
Handled == IF pc = "got" THEN Len(log) - 1 ELSE Len(log)

\* A filled slot holds the signature the device sent for that input.
FilledRight == \A i \in Slots : signatures[i] # None => SignedFor(i)

\* Every signature of a request that was dealt with is in its slot.
AllFilled ==
    pc # "raised" =>
        \A k \in 1..Handled :
            log[k].sig # None => log[k].sig \in Slots /\ signatures[log[k].sig] = k

\* sign_tx leaves its loop normally only with every slot filled.
NoneMissing == pc = "done" => \A i \in Slots : signatures[i] # None

TypeInv == TypeOK /\ LastLogged
SigInv == TypeInv /\ FilledRight /\ AllFilled /\ NoneMissing

-----------------------------------------------------------------------------
\* Facts about the types that the steps below use again and again.
LEMMA ArgumentFacts ==
    ASSUME TypeOK
    PROVE  /\ arg \in ArgumentSet
           /\ InputCount \in Nat
           /\ \A i \in Slots : i \in Nat
           /\ Len(log) \in Nat
           /\ res.sig \in Indices \cup {None} /\ res.part \in BOOLEAN
           /\ res.index \in Nat /\ res.hash \in Hashes \cup {Own}
<1>1. arg \in ArgumentSet
  BY SignTxAssumption DEF TypeOK
<1>2. InputCount \in Nat
  BY <1>1 DEF ArgumentSet, InputCount
<1>3. \A i \in Slots : i \in Nat
  BY <1>2 DEF Slots
<1>4. Len(log) \in Nat
  BY DEF TypeOK
<1>5. /\ res.sig \in Indices \cup {None} /\ res.part \in BOOLEAN
      /\ res.index \in Nat /\ res.hash \in Hashes \cup {Own}
  <2>1. Indices \subseteq Nat
    BY SignTxAssumption
  <2>2. CASE res \in Requests
    BY <2>1, <2>2 DEF Requests
  <2>3. CASE res = NoRequest
    BY <2>3 DEF NoRequest
  <2> QED
    BY <2>2, <2>3 DEF TypeOK
<1> QED
  BY <1>1, <1>2, <1>3, <1>4, <1>5

LEMMA InitTypeInv == Init => TypeInv
<1> SUFFICES ASSUME Init PROVE TypeInv
  OBVIOUS
<1>1. arg \in ArgumentSet /\ InputCount \in Nat
  <2>1. arg \in ArgumentSet
    BY SignTxAssumption DEF Init
  <2> QED
    BY <2>1 DEF ArgumentSet, InputCount
<1>2. signatures \in [Slots -> {None} \cup 1..MaxRequests]
  BY DEF Init
<1>3. log \in Seq([sig : Indices \cup {None}, part : BOOLEAN]) /\ Len(log) <= MaxRequests
  BY SignTxAssumption DEF Init
<1>4. ack \in [of : Hashes \cup {Own}, kind : PieceKinds, at : Nat]
  BY DEF Init, NoAck, Piece, PieceKinds
<1>5. pos \in 0..InputCount
  BY <1>1 DEF Init
<1>6. serialized \in Seq(1..MaxRequests)
  BY DEF Init
<1> QED
  BY <1>2, <1>3, <1>4, <1>5, <1>6 DEF Init, TypeInv, TypeOK, LastLogged

-----------------------------------------------------------------------------
\* The serialised parts stay numbers of requests.
LEMMA AddPartType ==
    ASSUME TypeInv, pc = "got", AddPart
    PROVE  serialized' \in Seq(1..MaxRequests)
<1>1. Len(log) \in 1..MaxRequests
  BY ArgumentFacts, SignTxAssumption DEF TypeInv, LastLogged, TypeOK
<1>2. serialized \in Seq(1..MaxRequests)
  BY DEF TypeInv, TypeOK
<1>3. CASE res.part
  BY <1>1, <1>2, <1>3 DEF AddPart
<1>4. CASE ~res.part
  BY <1>2, <1>4 DEF AddPart
<1> QED
  BY <1>3, <1>4

\* What Collect does to the two results, when it is reached.
LEMMA CollectType ==
    ASSUME TypeInv, pc = "got", Accepted, Collect
    PROVE  /\ signatures' \in [Slots -> {None} \cup 1..MaxRequests]
           /\ serialized' \in Seq(1..MaxRequests)
<1>1. Len(log) \in 1..MaxRequests
  BY ArgumentFacts, SignTxAssumption DEF TypeInv, LastLogged, TypeOK
<1>2. serialized' \in Seq(1..MaxRequests)
  BY AddPartType DEF Collect
<1>3. signatures' \in [Slots -> {None} \cup 1..MaxRequests]
  BY <1>1 DEF Collect, TypeInv, TypeOK
<1> QED
  BY <1>2, <1>3

\* An answer to a request keeps the types: AckMeta, AckInput, AckOutput, AckExtraData.
LEMMA AnswerType ==
    ASSUME TypeInv, NEW type, NEW k \in PieceKinds, NEW i \in Nat,
           Answer(type, Piece(res.hash, k, i))
    PROVE  TypeInv'
<1>1. signatures' \in [Slots -> {None} \cup 1..MaxRequests] /\ serialized' \in Seq(1..MaxRequests)
  BY CollectType DEF Answer
<1>2. ack' \in [of : Hashes \cup {Own}, kind : PieceKinds, at : Nat]
  BY ArgumentFacts DEF Answer, Piece, TypeInv
<1>3. UNCHANGED <<arg, pos, txes, res, log>> /\ pc' = "called"
  BY DEF Answer
<1> QED
  BY <1>1, <1>2, <1>3 DEF TypeInv, TypeOK, LastLogged, Slots, InputCount

\* Type correctness of one step.
LEMMA NextTypeInv == TypeInv /\ [Next]_vars => TypeInv'
<1> SUFFICES ASSUME TypeInv, [Next]_vars PROVE TypeInv'
  OBVIOUS
<1> USE DEF TypeInv
<1>1. CASE PrepareNext
  <2>1. pos' \in 0..InputCount /\ pos + 1 \in 1..InputCount
    BY <1>1, ArgumentFacts DEF PrepareNext, Prepared, TypeOK
  <2>2. arg.inputs[pos + 1].prev \in Hashes
    <3>1. arg.inputs \in Seq([prev : Hashes, witness : BOOLEAN]) /\ pos + 1 \in 1..Len(arg.inputs)
      BY <2>1, ArgumentFacts DEF ArgumentSet, InputCount
    <3>2. arg.inputs[pos + 1] \in [prev : Hashes, witness : BOOLEAN]
      BY <3>1, ElementOfSeq
    <3> QED
      BY <3>2
  <2>3. txes' \subseteq Hashes
    BY <1>1, <2>2 DEF PrepareNext, TypeOK
  <2> QED
    BY <1>1, <2>1, <2>3 DEF PrepareNext, TypeOK, LastLogged, Slots, InputCount
<1>2. CASE PrepareFails
  BY <1>2 DEF PrepareFails, TypeOK, LastLogged, Slots, InputCount
<1>3. CASE CallSignTx
  <2>1. ack' \in [of : Hashes \cup {Own}, kind : PieceKinds, at : Nat]
    BY <1>3 DEF CallSignTx, SignTxMsg, Piece, PieceKinds
  <2> QED
    BY <1>3, <2>1 DEF CallSignTx, TypeOK, LastLogged, Slots, InputCount
<1>4. CASE RejectSignature
  <2>2. serialized' \in Seq(1..MaxRequests)
    BY <1>4, AddPartType DEF RejectSignature
  <2> QED
    BY <1>4, <2>2 DEF RejectSignature, Raise, TypeOK, LastLogged, Slots, InputCount
<1>5. CASE Finish
  <2>1. signatures' \in [Slots -> {None} \cup 1..MaxRequests] /\ serialized' \in Seq(1..MaxRequests)
    BY <1>5, CollectType DEF Finish
  <2> QED
    BY <1>5, <2>1 DEF Finish, TypeOK, LastLogged, Slots, InputCount
<1>6. CASE RejectRequest
  <2>1. signatures' \in [Slots -> {None} \cup 1..MaxRequests] /\ serialized' \in Seq(1..MaxRequests)
    BY <1>6, CollectType DEF RejectRequest
  <2> QED
    BY <1>6, <2>1 DEF RejectRequest, Raise, TypeOK, LastLogged, Slots, InputCount
<1>7. CASE AckMeta
  BY <1>7, AnswerType DEF AckMeta, PieceKinds
<1>8. CASE AckInput
  BY <1>8, AnswerType, ArgumentFacts DEF AckInput, PieceKinds
<1>9. CASE AckOutput
  BY <1>9, AnswerType, ArgumentFacts DEF AckOutput, OutputKind, PieceKinds
<1>10. CASE AckExtraData
  BY <1>10, AnswerType, ArgumentFacts DEF AckExtraData, PieceKinds
<1>11. CASE DeviceRequest
  <2> PICK r \in Requests : Respond(r)
    BY <1>11 DEF DeviceRequest
  <2>1. [sig |-> r.sig, part |-> r.part] \in [sig : Indices \cup {None}, part : BOOLEAN]
    BY DEF Requests
  <2>2. log' \in Seq([sig : Indices \cup {None}, part : BOOLEAN]) /\ Len(log') = Len(log) + 1
    BY <2>1 DEF Respond, TypeOK
  <2>3. Len(log') <= MaxRequests
    BY <2>2, ArgumentFacts, SignTxAssumption DEF Respond
  <2>4. LastLogged'
    BY <2>2, ArgumentFacts DEF Respond, LastLogged, TypeOK
  <2> QED
    BY <2>2, <2>3, <2>4 DEF Respond, TypeOK, Slots, InputCount
<1>12. CASE DeviceOther
  BY <1>12 DEF DeviceOther, Raise, TypeOK, LastLogged, Slots, InputCount
<1>13. CASE UNCHANGED vars
  BY <1>13 DEF vars, TypeOK, LastLogged, Slots, InputCount
<1> QED
  BY <1>1, <1>2, <1>3, <1>4, <1>5, <1>6, <1>7, <1>8, <1>9, <1>10, <1>11, <1>12, <1>13
     DEF Next, Host, Device

\* sign_tx's local state always has its types.
THEOREM TypeCorrect == Spec => []TypeOK
<1>1. TypeInv => TypeOK
  BY DEF TypeInv
<1> QED
  BY <1>1, InitTypeInv, NextTypeInv, PTL DEF Spec

-----------------------------------------------------------------------------
(* Signatures *)

\* Collect puts the signature of the request, if it has one, into its own
\* empty slot and leaves the others alone.
LEMMA CollectFills ==
    ASSUME SigInv, pc = "got", Accepted, Collect, UNCHANGED <<arg, log>>, pc' # "got"
    PROVE  /\ \A i \in Slots : signatures[i] # None => signatures'[i] = signatures[i]
           /\ FilledRight' /\ AllFilled'
<1>1. /\ Len(log) \in Nat /\ Len(log) >= 1
      /\ log[Len(log)].sig = res.sig
  BY ArgumentFacts DEF SigInv, TypeInv, LastLogged
<1>2. Slots' = Slots /\ Handled = Len(log) - 1 /\ Handled' = Len(log)
  BY DEF Slots, InputCount, Handled
<1>3. signatures \in [Slots -> {None} \cup 1..MaxRequests]
  BY DEF SigInv, TypeInv, TypeOK
<1>4. CASE HasSignature
  <2>1. res.sig \in Slots /\ signatures[res.sig] = None
    BY <1>4 DEF Accepted
  <2>2. signatures' = [signatures EXCEPT ![res.sig] = Len(log)]
    BY <1>4 DEF Collect
  <2>3. FilledRight'
    BY <1>1, <1>2, <1>3, <2>1, <2>2 DEF FilledRight, SignedFor, SigInv, None
  <2>4. \A k \in 1..Len(log) :
           log[k].sig # None => log[k].sig \in Slots /\ signatures'[log[k].sig] = k
    BY <1>1, <1>2, <1>3, <2>1, <2>2 DEF AllFilled, SigInv, None
  <2> QED
    BY <1>2, <1>3, <2>1, <2>2, <2>3, <2>4 DEF AllFilled
<1>5. CASE ~HasSignature
  <2>1. signatures' = signatures /\ res.sig = None
    BY <1>5 DEF Collect, HasSignature
  <2>2. FilledRight'
    BY <1>2, <2>1 DEF FilledRight, SignedFor, SigInv
  <2>3. \A k \in 1..Len(log) :
           log[k].sig # None => log[k].sig \in Slots /\ signatures'[log[k].sig] = k
    BY <1>1, <1>2, <2>1 DEF AllFilled, SigInv
  <2> QED
    BY <1>2, <2>1, <2>2, <2>3 DEF AllFilled
<1> QED
  BY <1>4, <1>5

\* A step that leaves the results, the log and the arguments alone.
LEMMA SignaturesUntouched ==
    ASSUME SigInv, UNCHANGED <<arg, signatures, log>>,
           pc' \in {pc, "raised"} \/ (pc = "prepare" /\ pc' = "called")
    PROVE  FilledRight' /\ AllFilled' /\ NoneMissing'
<1>1. FilledRight'
  BY DEF SigInv, FilledRight, SignedFor, Slots, InputCount
<1>2. pc' # "raised" => Handled' = Handled
  BY DEF Handled
<1>3. AllFilled'
  BY <1>2 DEF SigInv, AllFilled, Slots, InputCount
<1>4. NoneMissing'
  BY DEF SigInv, NoneMissing, Slots, InputCount
<1> QED
  BY <1>1, <1>3, <1>4

\* One step keeps the invariant about signatures.
LEMMA NextSigInv == SigInv /\ [Next]_vars => SigInv'
<1> SUFFICES ASSUME SigInv, [Next]_vars PROVE FilledRight' /\ AllFilled' /\ NoneMissing'
  BY NextTypeInv DEF SigInv
<1>1. CASE PrepareNext
  BY <1>1, SignaturesUntouched DEF PrepareNext
<1>2. CASE PrepareFails
  BY <1>2, SignaturesUntouched DEF PrepareFails
<1>3. CASE CallSignTx
  BY <1>3, SignaturesUntouched DEF CallSignTx
<1>4. CASE RejectSignature
  BY <1>4, SignaturesUntouched DEF RejectSignature, Raise
<1>5. CASE Finish
  <2>1. FilledRight' /\ AllFilled'
    BY <1>5, CollectFills DEF Finish
  <2>2. NoneMissing'
    BY <1>5 DEF Finish, NoneMissing, Slots, InputCount
  <2> QED
    BY <2>1, <2>2
<1>6. CASE RejectRequest
  BY <1>6, CollectFills DEF RejectRequest, Raise, NoneMissing
<1>7. ASSUME NEW type, NEW piece, Answer(type, piece)
      PROVE  FilledRight' /\ AllFilled' /\ NoneMissing'
  BY <1>7, CollectFills DEF Answer, NoneMissing
<1>8. CASE AckMeta \/ AckInput \/ AckOutput \/ AckExtraData
  BY <1>7, <1>8 DEF AckMeta, AckInput, AckOutput, AckExtraData
<1>9. CASE DeviceRequest
  <2> PICK r \in Requests : Respond(r)
    BY <1>9 DEF DeviceRequest
  <2> DEFINE e == [sig |-> r.sig, part |-> r.part]
  <2>1. /\ log \in Seq([sig : Indices \cup {None}, part : BOOLEAN])
        /\ log' = Append(log, e) /\ e \in [sig : Indices \cup {None}, part : BOOLEAN]
    BY DEF Respond, Requests, SigInv, TypeInv, TypeOK
  <2>2. Len(log') = Len(log) + 1 /\ Len(log) \in Nat
        /\ \A k \in 1..Len(log) : log'[k] = log[k]
    BY <2>1
  <2>3. pc = "called" /\ pc' = "got" /\ UNCHANGED <<arg, signatures>>
    BY DEF Respond
  <2>4. Slots' = Slots /\ Handled' = Handled
    BY <2>2, <2>3 DEF Slots, InputCount, Handled
  <2>5. FilledRight'
    BY <2>2, <2>3, <2>4 DEF FilledRight, SignedFor, SigInv
  <2>6. AllFilled'
    BY <2>2, <2>3, <2>4 DEF AllFilled, SigInv, Handled
  <2> QED
    BY <2>3, <2>5, <2>6 DEF NoneMissing
<1>10. CASE DeviceOther
  BY <1>10, SignaturesUntouched DEF DeviceOther, Raise
<1>11. CASE UNCHANGED vars
  BY <1>11, SignaturesUntouched DEF vars
<1> QED
  BY <1>1, <1>2, <1>3, <1>4, <1>5, <1>6, <1>8, <1>9, <1>10, <1>11 DEF Next, Host, Device

LEMMA InitSigInv == Init => SigInv
<1> SUFFICES ASSUME Init PROVE SigInv
  OBVIOUS
<1>1. TypeInv
  BY InitTypeInv
<1>2. Handled = 0 /\ \A i \in Slots : signatures[i] = None
  BY DEF Init, Handled
<1> QED
  BY <1>1, <1>2 DEF Init, SigInv, FilledRight, AllFilled, NoneMissing

\* sign_tx returns only complete results: one signature per input, the one
\* the device sent for that input.
THEOREM Complete == Spec => []CompleteOrRaise
<1>1. SigInv => CompleteOrRaise
  BY DEF SigInv, CompleteOrRaise, FilledRight, NoneMissing
<1> QED
  BY <1>1, InitSigInv, NextSigInv, PTL DEF Spec

\* A device that repeats a signature index never gets sign_tx to return.
THEOREM NoRepeatedSignature == Spec => []NoSecondSignature
<1>1. SigInv => NoSecondSignature
  <2> SUFFICES ASSUME SigInv, pc = "done", NEW j \in 1..Len(log), NEW k \in 1..Len(log),
                      log[j].sig # None, log[j].sig = log[k].sig
               PROVE  j = k
    BY DEF NoSecondSignature
  <2>1. Handled = Len(log)
    BY DEF Handled
  <2> QED
    BY <2>1 DEF SigInv, AllFilled
<1> QED
  BY <1>1, InitSigInv, NextSigInv, PTL DEF Spec

-----------------------------------------------------------------------------
(* The serialised transaction *)

Increasing == \A j, k \in DOMAIN serialized : j < k => serialized[j] < serialized[k]
OnlyHandled == \A j \in DOMAIN serialized : serialized[j] <= Handled
EveryPart ==
    pc # "raised" =>
        {k \in 1..Handled : log[k].part} = {serialized[j] : j \in DOMAIN serialized}

PartInv == TypeInv /\ Increasing /\ OnlyHandled /\ EveryPart

\* Parts are numbers of requests.
LEMMA PartNumbers ==
    ASSUME PartInv
    PROVE  \A j \in DOMAIN serialized : serialized[j] \in Nat
<1>1. serialized \in Seq(1..MaxRequests)
  BY DEF PartInv, TypeInv, TypeOK
<1>2. DOMAIN serialized = 1..Len(serialized)
  BY <1>1
<1>3. ASSUME NEW j \in DOMAIN serialized PROVE serialized[j] \in 1..MaxRequests
  BY <1>1, <1>2, <1>3, ElementOfSeq
<1> QED
  BY <1>3, SignTxAssumption

\* Handling the last request appends its number, if it carries a part.
LEMMA AddPartKeeps ==
    ASSUME PartInv, pc = "got", AddPart, UNCHANGED <<arg, log>>, pc' # "got"
    PROVE  Increasing' /\ OnlyHandled' /\ EveryPart'
<1>1. /\ Len(log) \in Nat /\ Len(log) >= 1 /\ log[Len(log)].part = res.part
      /\ serialized \in Seq(1..MaxRequests)
      /\ Handled = Len(log) - 1 /\ Handled' = Len(log)
  BY ArgumentFacts DEF PartInv, TypeInv, TypeOK, LastLogged, Handled
<1>2. {k \in 1..(Len(log) - 1) : log[k].part} = {serialized[j] : j \in DOMAIN serialized}
  BY <1>1 DEF PartInv, EveryPart
<1>3. CASE res.part
  <2>1. /\ serialized' = Append(serialized, Len(log))
        /\ Len(serialized') = Len(serialized) + 1
        /\ \A j \in 1..Len(serialized) : serialized'[j] = serialized[j]
        /\ serialized'[Len(serialized) + 1] = Len(log)
        /\ DOMAIN serialized = 1..Len(serialized) /\ Len(serialized) \in Nat
        /\ DOMAIN serialized' = 1..(Len(serialized) + 1)
    BY <1>1, <1>3 DEF AddPart
  <2>2. \A j \in 1..Len(serialized) : serialized[j] \in Nat /\ serialized[j] <= Len(log) - 1
    BY <1>1, <2>1, PartNumbers DEF PartInv, OnlyHandled
  <2>3. Increasing'
    BY <1>1, <2>1, <2>2 DEF PartInv, Increasing
  <2>4. OnlyHandled'
    BY <1>1, <2>1, <2>2 DEF OnlyHandled
  <2>5. {k \in 1..Len(log) : log[k].part}
          = {k \in 1..(Len(log) - 1) : log[k].part} \cup {Len(log)}
    <3>1. 1..Len(log) = (1..(Len(log) - 1)) \cup {Len(log)}
      BY <1>1
    <3>2. log[Len(log)].part
      BY <1>1, <1>3
    <3> QED
      BY <3>1, <3>2, Zenon
  <2>6. {serialized'[j] : j \in DOMAIN serialized'}
          = {serialized[j] : j \in DOMAIN serialized} \cup {Len(log)}
    BY <2>1
  <2> QED
    BY <1>1, <1>2, <2>3, <2>4, <2>5, <2>6 DEF EveryPart
<1>4. CASE ~res.part
  <2>1. serialized' = serialized
    BY <1>4 DEF AddPart
  <2>2. \A j \in DOMAIN serialized : serialized[j] \in Nat /\ serialized[j] <= Len(log) - 1
    BY <1>1, PartNumbers DEF PartInv, OnlyHandled
  <2>3. {k \in 1..Len(log) : log[k].part} = {k \in 1..(Len(log) - 1) : log[k].part}
    <3>1. 1..Len(log) = (1..(Len(log) - 1)) \cup {Len(log)}
      BY <1>1
    <3>2. ~log[Len(log)].part
      BY <1>1, <1>4
    <3> QED
      BY <3>1, <3>2, Zenon
  <2> QED
    BY <1>1, <1>2, <2>1, <2>2, <2>3 DEF PartInv, Increasing, OnlyHandled, EveryPart
<1> QED
  BY <1>3, <1>4 DEF PartInv, TypeInv, TypeOK, Requests, NoRequest

\* A step that does not handle a request.
LEMMA PartsUntouched ==
    ASSUME PartInv, UNCHANGED <<arg, serialized, log>>,
           pc' \in {pc, "raised"} \/ (pc = "prepare" /\ pc' = "called")
    PROVE  Increasing' /\ OnlyHandled' /\ EveryPart'
<1>1. Handled \in Int /\ Handled' \in Int /\ Handled <= Handled'
  BY ArgumentFacts DEF Handled, PartInv, TypeInv
<1>2. \A j \in DOMAIN serialized : serialized[j] \in Nat
  BY PartNumbers
<1>3. pc' # "raised" => Handled' = Handled
  BY DEF Handled
<1> QED
  BY <1>1, <1>2, <1>3 DEF PartInv, Increasing, OnlyHandled, EveryPart

\* One step keeps the invariant about the serialised parts.
LEMMA NextPartInv == PartInv /\ [Next]_vars => PartInv'
<1> SUFFICES ASSUME PartInv, [Next]_vars PROVE Increasing' /\ OnlyHandled' /\ EveryPart'
  BY NextTypeInv DEF PartInv
<1>1. CASE PrepareNext
  BY <1>1, PartsUntouched DEF PrepareNext
<1>2. CASE PrepareFails
  BY <1>2, PartsUntouched DEF PrepareFails
<1>3. CASE CallSignTx
  BY <1>3, PartsUntouched DEF CallSignTx
<1>4. CASE RejectSignature
  BY <1>4, AddPartKeeps DEF RejectSignature, Raise
<1>5. CASE Finish
  BY <1>5, AddPartKeeps DEF Finish, Collect
<1>6. CASE RejectRequest
  BY <1>6, AddPartKeeps DEF RejectRequest, Raise, Collect
<1>7. ASSUME NEW type, NEW piece, Answer(type, piece)
      PROVE  Increasing' /\ OnlyHandled' /\ EveryPart'
  BY <1>7, AddPartKeeps DEF Answer, Collect
<1>8. CASE AckMeta \/ AckInput \/ AckOutput \/ AckExtraData
  BY <1>7, <1>8 DEF AckMeta, AckInput, AckOutput, AckExtraData
<1>9. CASE DeviceRequest
  <2> PICK r \in Requests : Respond(r)
    BY <1>9 DEF DeviceRequest
  <2> DEFINE e == [sig |-> r.sig, part |-> r.part]
  <2>1. /\ log \in Seq([sig : Indices \cup {None}, part : BOOLEAN])
        /\ log' = Append(log, e) /\ e \in [sig : Indices \cup {None}, part : BOOLEAN]
    BY DEF Respond, Requests, PartInv, TypeInv, TypeOK
  <2>2. Len(log') = Len(log) + 1 /\ Len(log) \in Nat
        /\ \A k \in 1..Len(log) : log'[k] = log[k]
    BY <2>1
  <2>3. pc = "called" /\ pc' = "got" /\ UNCHANGED serialized
    BY DEF Respond
  <2>4. Handled = Len(log) /\ Handled' = Len(log)
    BY <2>2, <2>3 DEF Handled
  <2>5. {k \in 1..Len(log) : log'[k].part} = {k \in 1..Len(log) : log[k].part}
    BY <2>2
  <2> QED
    BY <2>3, <2>4, <2>5 DEF PartInv, Increasing, OnlyHandled, EveryPart
<1>10. CASE DeviceOther
  BY <1>10, PartsUntouched DEF DeviceOther, Raise
<1>11. CASE UNCHANGED vars
  BY <1>11, PartsUntouched DEF vars
<1> QED
  BY <1>1, <1>2, <1>3, <1>4, <1>5, <1>6, <1>8, <1>9, <1>10, <1>11 DEF Next, Host, Device

LEMMA InitPartInv == Init => PartInv
<1> SUFFICES ASSUME Init PROVE PartInv
  OBVIOUS
<1>1. TypeInv
  BY InitTypeInv
<1>2. Handled = 0 /\ DOMAIN serialized = {} /\ 1..0 = {}
  BY DEF Init, Handled
<1> QED
  BY <1>1, <1>2 DEF PartInv, Increasing, OnlyHandled, EveryPart

\* The transaction that sign_tx returns has every part, once, in order.
THEOREM SerializedRight == Spec => []SerializedInOrder
<1>1. PartInv => SerializedInOrder
  BY DEF PartInv, SerializedInOrder, Increasing, EveryPart, Handled
<1> QED
  BY <1>1, InitPartInv, NextPartInv, PTL DEF Spec

-----------------------------------------------------------------------------
(* What the host serves *)

\* The inputs looked at so far have what they need, and nothing else was fetched.
Fetched ==
    /\ \A i \in 1..pos : arg.inputs[i].witness \/ arg.inputs[i].prev \in txes
    /\ \A h \in txes : \E i \in 1..InputCount : arg.inputs[i] = [prev |-> h, witness |-> FALSE]
    /\ arg.bip143 => txes = {}
    /\ (pc \notin {"prepare", "raised"} \/ ack # NoAck) => Prepared

ServeInv == TypeInv /\ Fetched /\ ServesOnlyItsTransactions

LEMMA InputFacts ==
    ASSUME TypeOK, NEW i \in 1..InputCount
    PROVE  arg.inputs[i] \in [prev : Hashes, witness : BOOLEAN]
<1>1. arg.inputs \in Seq([prev : Hashes, witness : BOOLEAN]) /\ i \in 1..Len(arg.inputs)
  BY ArgumentFacts DEF ArgumentSet, InputCount
<1> QED
  BY <1>1, ElementOfSeq

\* One more input looked at.
LEMMA PrepareKeepsFetched == ServeInv /\ PrepareNext => Fetched'
<1> SUFFICES ASSUME ServeInv, PrepareNext PROVE Fetched'
  OBVIOUS
<1>1. /\ pos \in Nat /\ pos + 1 \in 1..InputCount /\ pos' = pos + 1 /\ ~arg.bip143
      /\ UNCHANGED <<arg, pc, ack>> /\ pc = "prepare" /\ InputCount' = InputCount
  BY ArgumentFacts DEF ServeInv, TypeInv, TypeOK, PrepareNext, Prepared, InputCount
<1>2. arg.inputs[pos + 1] \in [prev : Hashes, witness : BOOLEAN]
  BY <1>1, InputFacts DEF ServeInv, TypeInv
<1>3. ack = NoAck
  BY <1>1 DEF ServeInv, Fetched, PrepareNext
<1>4. CASE MustFetch(pos + 1)
  <2>1. txes' = txes \cup {arg.inputs[pos + 1].prev}
        /\ ~arg.inputs[pos + 1].witness
    BY <1>4 DEF PrepareNext, MustFetch
  <2>2. arg.inputs[pos + 1] = [prev |-> arg.inputs[pos + 1].prev, witness |-> FALSE]
    BY <1>2, <2>1
  <2>3. \A i \in 1..pos' : arg.inputs[i].witness \/ arg.inputs[i].prev \in txes'
    BY <1>1, <2>1 DEF ServeInv, Fetched
  <2>4. \A h \in txes' : \E i \in 1..InputCount : arg.inputs[i] = [prev |-> h, witness |-> FALSE]
    BY <1>1, <2>1, <2>2 DEF ServeInv, Fetched
  <2> QED
    BY <1>1, <1>3, <2>3, <2>4 DEF Fetched, NoAck, Piece
<1>5. CASE ~MustFetch(pos + 1)
  <2>1. txes' = txes /\ (arg.inputs[pos + 1].witness \/ arg.inputs[pos + 1].prev \in txes)
    BY <1>5 DEF PrepareNext, MustFetch
  <2> QED
    BY <1>1, <1>3, <2>1 DEF ServeInv, Fetched, NoAck, Piece
<1> QED
  BY <1>4, <1>5

\* Answers come from a known transaction and stay inside it.
LEMMA AnswerServes ==
    ASSUME ServeInv, AckMeta \/ AckInput \/ AckOutput \/ AckExtraData
    PROVE  ServesOnlyItsTransactions'
<1>1. /\ UNCHANGED arg /\ Known
      /\ ack'.of = res.hash
      /\ \/ ack'.kind \in {"meta", "extra_data"}
         \/ ack'.kind = "inputs" /\ ack'.at < Size(res.hash).ins
         \/ ack'.kind \in {"outputs", "bin_outputs"} /\ ack'.at < Size(res.hash).outs
  BY DEF AckMeta, AckInput, AckOutput, AckExtraData, Answer, InRange, Piece, OutputKind
<1>3. InputCount' = InputCount
  BY <1>1 DEF InputCount
<1>4. res.hash = Own \/ (~arg.bip143 /\ \E i \in 1..InputCount :
                              arg.inputs[i] = [prev |-> res.hash, witness |-> FALSE])
  BY <1>1 DEF Known, ServeInv, Fetched
<1> QED
  BY <1>1, <1>3, <1>4 DEF ServesOnlyItsTransactions, Size

\* One step keeps the invariant about what is served.
LEMMA NextServeInv == ServeInv /\ [Next]_vars => ServeInv'
<1> SUFFICES ASSUME ServeInv, [Next]_vars PROVE Fetched' /\ ServesOnlyItsTransactions'
  BY NextTypeInv DEF ServeInv
<1>1. CASE PrepareNext
  BY <1>1, PrepareKeepsFetched DEF PrepareNext, ServesOnlyItsTransactions
<1>2. CASE CallSignTx
  <2>1. Fetched'
    BY <1>2 DEF CallSignTx, ServeInv, Fetched, Prepared, InputCount
  <2> QED
    BY <1>2, <2>1 DEF CallSignTx, ServesOnlyItsTransactions, SignTxMsg, Piece
<1>3. CASE AckMeta \/ AckInput \/ AckOutput \/ AckExtraData
  <2>1. UNCHANGED <<arg, pos, txes>> /\ pc = "got"
    BY <1>3 DEF AckMeta, AckInput, AckOutput, AckExtraData, Answer
  <2>2. Fetched'
    <3>1. Prepared
      BY <2>1 DEF ServeInv, Fetched
    <3> QED
      BY <2>1, <3>1 DEF ServeInv, Fetched, Prepared, InputCount
  <2> QED
    BY <1>3, <2>2, AnswerServes
<1>4. CASE PrepareFails \/ RejectSignature \/ Finish \/ RejectRequest \/ DeviceRequest \/ DeviceOther
  <2>1. UNCHANGED <<arg, pos, txes, ack>> /\ pc' # "called"
        /\ (pc' \notin {"prepare", "raised"} => pc \notin {"prepare", "raised"})
    BY <1>4 DEF PrepareFails, RejectSignature, Finish, RejectRequest, DeviceRequest, Respond,
               DeviceOther, Raise
  <2> QED
    BY <2>1 DEF ServeInv, Fetched, Prepared, InputCount, ServesOnlyItsTransactions, NoAck, Piece
<1>5. CASE UNCHANGED vars
  BY <1>5 DEF vars, ServeInv, Fetched, Prepared, InputCount, ServesOnlyItsTransactions, Size, NoAck, Piece
<1> QED
  BY <1>1, <1>2, <1>3, <1>4, <1>5 DEF Next, Host, Device

LEMMA InitServeInv == Init => ServeInv
<1> SUFFICES ASSUME Init PROVE Fetched /\ ServesOnlyItsTransactions
  BY InitTypeInv DEF ServeInv
<1>1. 1..pos = {}
  BY DEF Init
<1> QED
  BY <1>1 DEF Init, Fetched, ServesOnlyItsTransactions

\* The device gets nothing but pieces of the transaction being signed and of
\* those its inputs spend.
THEOREM ServesOnly == Spec => []ServesOnlyItsTransactions
<1>1. ServeInv => ServesOnlyItsTransactions
  BY DEF ServeInv
<1> QED
  BY <1>1, InitServeInv, NextServeInv, PTL DEF Spec

\* All previous transactions have been fetched before the device is contacted.
THEOREM PreparedFirst == Spec => []PreparedBeforeContact
<1>1. ServeInv => PreparedBeforeContact
  BY ArgumentFacts DEF ServeInv, TypeInv, Fetched, PreparedBeforeContact, Prepared
<1> QED
  BY <1>1, InitServeInv, NextServeInv, PTL DEF Spec

\* What sign_tx() returns is complete, signed once per input and in order.
THEOREM ResultCorrect == Spec => []ResultRight
<1>1. CompleteOrRaise /\ NoSecondSignature /\ SerializedInOrder => ResultRight
  BY DEF ResultRight
<1> QED
  BY <1>1, Complete, NoRepeatedSignature, SerializedRight, PTL

\* sign_tx() serves only its own transactions, and has them before it starts.
THEOREM ServiceCorrect == Spec => []ServedRight
<1>1. TypeOK /\ ServesOnlyItsTransactions /\ PreparedBeforeContact => ServedRight
  BY DEF ServedRight
<1> QED
  BY <1>1, TypeCorrect, ServesOnly, PreparedFirst, PTL

-----------------------------------------------------------------------------
(* The honest device *)

\* Induction on the natural numbers, for a property given as a set of them.
LEMMA LeastNumber ==
    ASSUME NEW T, T \subseteq Nat, T # {}
    PROVE  \E m \in T : \A y \in T : m <= y
<1> DEFINE Less == OpToRel(<, Nat)
<1>1. IsWellFoundedOn(Less, Nat)
  BY NatLessThanWellFounded, Zenon
<1>2. \A x, y \in Nat : <<y, x>> \in Less <=> y < x
  BY DEF OpToRel
<1> HIDE DEF Less
<1>3. PICK m \in T : \A y \in T : ~ (<<y, m>> \in Less)
  BY <1>1, WFMin, Zenon
<1>4. \A y \in T : ~(y < m)
  BY <1>2, <1>3
<1> QED
  BY <1>3, <1>4

LEMMA SetInduction ==
    ASSUME NEW P, 0 \in P, \A n \in Nat : n \in P => n + 1 \in P
    PROVE  Nat \subseteq P
<1> DEFINE T == {n \in Nat : n \notin P}
<1> SUFFICES ASSUME T # {} PROVE FALSE
  OBVIOUS
<1>1. PICK m \in T : \A y \in T : m <= y
  <2>1. T \subseteq Nat
    OBVIOUS
  <2> HIDE DEF T
  <2> QED
    BY <2>1, LeastNumber
<1>2. m # 0 /\ m - 1 \in Nat /\ m - 1 \notin T
  BY <1>1
<1> QED
  BY <1>1, <1>2

\* FlattenSeq appends the parts one by one: there are partial results, each the
\* one before it and a part, and the last of them is what it returns.
Partial(D) ==
    LET flatten[i \in 1..Len(D)] == IF i = 1 THEN D[i] ELSE flatten[i - 1] \o D[i]
    IN  flatten

LEMMA FlattenByParts ==
    ASSUME NEW D, Len(D) \in Nat \ {0}
    PROVE  /\ FlattenSeq(D) = Partial(D)[Len(D)]
           /\ Partial(D)[1] = D[1]
           /\ \A i \in 1..Len(D) - 1 : Partial(D)[i + 1] = Partial(D)[i] \o D[i + 1]
<1> DEFINE Upto(n) == \E f : f = [i \in 1..n |-> IF i = 1 THEN D[i] ELSE f[i - 1] \o D[i]]
           P == {n \in Nat : Upto(n)}
<1>1. 0 \in P
  <2> [i \in {} |-> i] = [i \in 1..0 |-> IF i = 1 THEN D[i] ELSE [i2 \in {} |-> i2][i - 1] \o D[i]]
    OBVIOUS
  <2> QED
    OBVIOUS
<1>2. ASSUME NEW n \in Nat, n \in P PROVE n + 1 \in P
  <2>1. PICK f : f = [i \in 1..n |-> IF i = 1 THEN D[i] ELSE f[i - 1] \o D[i]]
    BY <1>2
  <2> DEFINE g == [i \in 1..n + 1 |-> IF i <= n THEN f[i] ELSE IF i = 1 THEN D[i] ELSE f[i - 1] \o D[i]]
  <2>2. ASSUME NEW i \in 1..n + 1 PROVE g[i] = IF i = 1 THEN D[i] ELSE g[i - 1] \o D[i]
    <3>1. CASE i <= n
      <4>1. i \in 1..n /\ g[i] = f[i]
        BY <3>1
      <4>2. f[i] = IF i = 1 THEN D[i] ELSE f[i - 1] \o D[i]
        BY <2>1, <4>1
      <4>3. i # 1 => g[i - 1] = f[i - 1]
        BY <3>1
      <4> QED
        BY <4>1, <4>2, <4>3
    <3>2. CASE i = n + 1
      <4>1. i # 1 => g[i - 1] = f[i - 1]
        BY <3>2
      <4> QED
        BY <3>2, <4>1
    <3> QED
      BY <3>1, <3>2
  <2>3. g = [i \in 1..n + 1 |-> IF i = 1 THEN D[i] ELSE g[i - 1] \o D[i]]
    <3> HIDE DEF g
    <3>1. g = [i \in 1..n + 1 |-> g[i]]
      BY DEF g
    <3> QED
      BY <3>1, <2>2
  <2>4. Upto(n + 1)
    <3> HIDE DEF g
    <3> QED
      BY <2>3
  <2> HIDE DEF Upto
  <2> QED
    BY <2>4
<1>3. Upto(Len(D))
  <2>1. Nat \subseteq P
    <3> HIDE DEF P
    <3> QED
      BY <1>1, <1>2, SetInduction
  <2> QED
    BY <2>1
<1>4. Partial(D) = [i \in 1..Len(D) |-> IF i = 1 THEN D[i] ELSE Partial(D)[i - 1] \o D[i]]
  BY <1>3, Zenon DEF Partial
<1>5. FlattenSeq(D) = Partial(D)[Len(D)]
  BY DEF FlattenSeq, Partial
<1> HIDE DEF Upto, P
<1>6. \A i \in 1..Len(D) : Partial(D)[i] = IF i = 1 THEN D[i] ELSE Partial(D)[i - 1] \o D[i]
  BY <1>4
<1>7. ASSUME NEW i \in 1..Len(D) - 1 PROVE Partial(D)[i + 1] = Partial(D)[i] \o D[i + 1]
  <2>1. i + 1 \in 1..Len(D) /\ i + 1 # 1 /\ (i + 1) - 1 = i
    OBVIOUS
  <2> QED
    BY <1>6, <2>1
<1>8. 1 \in 1..Len(D)
  OBVIOUS
<1> QED
  BY <1>5, <1>6, <1>7, <1>8


\* A request of the script before the last one, and how the parts of the
\* serialised transaction add up along a list of them.
Asks ==
    [type : RequestTypes \ {"TXFINISHED"}, hash : Hashes \cup {Own}, index : Nat,
     sig : Nat \cup {None}, part : BOOLEAN]

One(b) == IF b THEN 1 ELSE 0

Running(s, c) ==
    /\ c \in [0..Len(s) -> Nat] /\ c[0] = 0
    /\ \A k \in 1..Len(s) : c[k] = c[k - 1] + One(s[k].part)

HasParts(s, n) == s \in Seq(Asks) /\ \E c : Running(s, c) /\ c[Len(s)] = n

LEMMA NoParts ==
    ASSUME NEW s \in Seq(Asks), \A k \in 1..Len(s) : ~s[k].part
    PROVE  HasParts(s, 0)
<1> DEFINE c == [k \in 0..Len(s) |-> 0]
<1>1. Len(s) \in Nat
  OBVIOUS
<1>2. Running(s, c)
  BY <1>1 DEF Running, One
<1>3. c[Len(s)] = 0
  BY <1>1
<1> HIDE DEF c
<1> QED
  BY <1>2, <1>3 DEF HasParts

LEMMA PartsAdd ==
    ASSUME NEW s, NEW t, NEW a, NEW b, HasParts(s, a), HasParts(t, b)
    PROVE  HasParts(s \o t, a + b)
<1>1. PICK c : Running(s, c) /\ c[Len(s)] = a
  BY DEF HasParts
<1>2. PICK d : Running(t, d) /\ d[Len(t)] = b
  BY DEF HasParts
<1>3. s \in Seq(Asks) /\ t \in Seq(Asks)
  BY DEF HasParts
<1>4. PICK m, n : m = Len(s) /\ n = Len(t)
  OBVIOUS
<1>5. /\ m \in Nat /\ n \in Nat /\ Len(s \o t) = m + n /\ s \o t \in Seq(Asks)
      /\ \A k \in 1..m : (s \o t)[k] = s[k]
      /\ \A k \in 1..n : (s \o t)[m + k] = t[k]
  BY <1>3, <1>4
<1>6. /\ \A k \in 0..m : c[k] \in Nat
      /\ \A k \in 0..n : d[k] \in Nat
      /\ c[0] = 0 /\ d[0] = 0
      /\ \A k \in 1..m : c[k] = c[k - 1] + One(s[k].part)
      /\ \A k \in 1..n : d[k] = d[k - 1] + One(t[k].part)
      /\ a = c[m] /\ b = d[n]
  BY <1>1, <1>2, <1>4 DEF Running
<1> DEFINE e == [k \in 0..m + n |-> IF k <= m THEN c[k] ELSE a + d[k - m]]
<1>7. a \in Nat /\ b \in Nat
  BY <1>5, <1>6
<1>8. e \in [0..m + n -> Nat]
  <2>1. ASSUME NEW k \in 0..m + n PROVE (IF k <= m THEN c[k] ELSE a + d[k - m]) \in Nat
    <3>1. CASE k <= m
      BY <1>5, <1>6, <3>1
    <3>2. CASE ~(k <= m)
      <4>1. k - m \in 0..n
        BY <1>5, <3>2
      <4>2. d[k - m] \in Nat
        BY <1>6, <4>1
      <4> QED
        BY <1>7, <3>2, <4>2
    <3> QED
      BY <3>1, <3>2
  <2> QED
    BY <2>1
<1>9. ASSUME NEW k \in 1..m + n PROVE e[k] = e[k - 1] + One((s \o t)[k].part)
  <2>0. k \in 0..m + n /\ k - 1 \in 0..m + n
    BY <1>5
  <2>1. CASE k <= m
    <3>1. k \in 1..m /\ k - 1 <= m
      BY <1>5, <2>1
    <3>2. e[k] = c[k] /\ e[k - 1] = c[k - 1]
      BY <2>0, <2>1, <3>1
    <3> QED
      BY <1>5, <1>6, <3>1, <3>2
  <2>2. CASE ~(k <= m)
    <3>1. PICK j \in 1..n : k = m + j
      <4>1. k - m \in 1..n /\ k = m + (k - m)
        BY <1>5, <2>2
      <4> QED
        BY <4>1
    <3>2. k - m = j /\ (k - 1) - m = j - 1 /\ (k - 1 <= m => j = 1 /\ k - 1 = m)
      BY <1>5, <2>2, <3>1
    <3>3. e[k] = a + d[j]
      BY <2>0, <2>2, <3>2
    <3>4. e[k - 1] = a + d[j - 1]
      <4>1. CASE k - 1 <= m
        <5>1. e[k - 1] = c[m] /\ d[j - 1] = 0
          BY <1>6, <2>0, <3>2, <4>1
        <5> QED
          BY <1>6, <1>7, <5>1
      <4>2. CASE ~(k - 1 <= m)
        BY <2>0, <3>2, <4>2
      <4> QED
        BY <4>1, <4>2
    <3>5. d[j] = d[j - 1] + One(t[j].part) /\ (s \o t)[k] = t[j]
      BY <1>5, <1>6, <3>1
    <3>6. d[j - 1] \in Nat /\ One(t[j].part) \in Nat
      <4>1. j - 1 \in 0..n
        BY <1>5
      <4> QED
        BY <1>6, <4>1 DEF One
    <3> QED
      BY <1>7, <3>3, <3>4, <3>5, <3>6
  <2> QED
    BY <2>1, <2>2
<1>10. e[0] = 0
  BY <1>5, <1>6
<1>11. e[m + n] = a + b
  <2>1. m + n \in 0..m + n
    BY <1>5
  <2>2. CASE n = 0
    <3>1. m + n <= m /\ m + n = m
      BY <1>5, <2>2
    <3>2. e[m + n] = a /\ b = 0
      BY <1>6, <2>1, <2>2, <3>1
    <3> QED
      BY <1>7, <3>2
  <2>3. CASE n # 0
    <3>1. ~(m + n <= m) /\ (m + n) - m = n
      BY <1>5, <2>3
    <3> QED
      BY <1>6, <2>1, <3>1
  <2> QED
    BY <2>2, <2>3
<1> HIDE DEF e
<1>12. Running(s \o t, e)
  BY <1>5, <1>8, <1>9, <1>10 DEF Running
<1> QED
  BY <1>5, <1>11, <1>12 DEF HasParts

LEMMA PartsAreNat ==
    ASSUME NEW s, NEW n, HasParts(s, n)
    PROVE  n \in Nat
<1>1. PICK c : Running(s, c) /\ c[Len(s)] = n
  BY DEF HasParts
<1>2. Len(s) \in 0..Len(s)
  BY DEF HasParts
<1> QED
  BY <1>1, <1>2 DEF Running

\* The pieces of the script.
LEMMA AskInAsks ==
    ASSUME NEW t \in RequestTypes \ {"TXFINISHED"}, NEW h \in Hashes \cup {Own}, NEW i \in Nat
    PROVE  Ask(t, h, i) \in Asks /\ ~Ask(t, h, i).part
  BY DEF Ask, Asks

LEMMA AllOfParts ==
    ASSUME NEW t \in RequestTypes \ {"TXFINISHED"}, NEW h \in Hashes \cup {Own}, NEW n \in Nat
    PROVE  /\ AllOf(t, h, n) \in Seq(Asks) /\ Len(AllOf(t, h, n)) = n
           /\ \A k \in 1..n : ~AllOf(t, h, n)[k].part
           /\ HasParts(AllOf(t, h, n), 0)
<1>1. \A k \in 1..n : Ask(t, h, k - 1) \in Asks /\ ~Ask(t, h, k - 1).part
  BY AskInAsks
<1>2. AllOf(t, h, n) \in Seq(Asks) /\ Len(AllOf(t, h, n)) = n
  BY <1>1 DEF AllOf
<1>3. \A k \in 1..n : ~AllOf(t, h, n)[k].part
  BY <1>1 DEF AllOf
<1> QED
  BY <1>2, <1>3, NoParts

LEMMA AskParts ==
    ASSUME NEW t \in RequestTypes \ {"TXFINISHED"}, NEW h \in Hashes \cup {Own}, NEW i \in Nat
    PROVE  /\ <<Ask(t, h, i)>> \in Seq(Asks) /\ Len(<<Ask(t, h, i)>>) = 1
           /\ \A k \in 1..1 : ~<<Ask(t, h, i)>>[k].part
           /\ HasParts(<<Ask(t, h, i)>>, 0)
<1> DEFINE q == Ask(t, h, i)
<1>1. q \in Asks /\ ~q.part
  BY AskInAsks
<1> HIDE DEF q
<1>2. <<q>> \in Seq(Asks) /\ Len(<<q>>) = 1 /\ \A k \in 1..1 : ~<<q>>[k].part
  BY <1>1
<1>3. HasParts(<<q>>, 0)
  BY <1>2, NoParts
<1> QED
  BY <1>2, <1>3 DEF q

LEMMA EmptyParts == HasParts(<<>>, 0)
<1>1. <<>> \in Seq(Asks) /\ \A k \in 1..Len(<<>>) : ~<<>>[k].part
  OBVIOUS
<1> QED
  BY <1>1, NoParts

\* What is computed once the last request of a list has been answered.
LEMMA YieldingParts ==
    ASSUME NEW s \in Seq(Asks), Len(s) # 0, \A k \in 1..Len(s) : ~s[k].part,
           NEW sig \in Nat \cup {None}
    PROVE  HasParts(Yielding(s, sig), 1)
<1> DEFINE y == Yielding(s, sig)
<1>1. PICK n : n = Len(s)
  OBVIOUS
<1>2. n \in Nat /\ n # 0 /\ n \in 1..n
  BY <1>1
<1>3. PICK q : q = [s[n] EXCEPT !.sig = sig, !.part = TRUE]
  OBVIOUS
<1>4. q \in Asks /\ q.part
  <2>1. s[n] \in Asks
    BY <1>1, <1>2
  <2> QED
    BY <1>3, <2>1 DEF Asks
<1>5. y = [s EXCEPT ![n] = q]
  BY <1>1, <1>3 DEF Yielding
<1>6. /\ y \in Seq(Asks) /\ Len(y) = n /\ y[n] = q
      /\ \A k \in 1..n : k # n => y[k] = s[k]
  BY <1>1, <1>2, <1>4, <1>5
<1> HIDE DEF y
<1> DEFINE c == [k \in 0..n |-> IF k = n THEN 1 ELSE 0]
<1>7. c \in [0..n -> Nat] /\ c[0] = 0 /\ c[n] = 1
  BY <1>2
<1>8. ASSUME NEW k \in 1..n PROVE c[k] = c[k - 1] + One(y[k].part)
  <2>1. k - 1 \in 0..n /\ k - 1 # n /\ c[k - 1] = 0
    BY <1>2
  <2>2. CASE k = n
    BY <1>4, <1>6, <1>7, <2>1, <2>2 DEF One
  <2>3. CASE k # n
    <3>1. ~y[k].part
      BY <1>1, <1>6, <2>3
    <3>2. c[k] = 0
      BY <2>3
    <3> QED
      BY <2>1, <3>1, <3>2 DEF One
  <2> QED
    BY <2>2, <2>3
<1> HIDE DEF c
<1>9. Running(y, c) /\ c[Len(y)] = 1
  BY <1>6, <1>7, <1>8 DEF Running
<1> QED
  BY <1>6, <1>9 DEF HasParts, y

\* The parts of a list that is made of lists.
AddUp(D, n, w) ==
    /\ Len(D) = n /\ (n = 0 => D = <<>>) /\ w[0] = 0
    /\ \A i \in 1..n : \E v : HasParts(D[i], v) /\ w[i] = w[i - 1] + v

LEMMA FlattenParts ==
    ASSUME NEW D, NEW n \in Nat, NEW w, AddUp(D, n, w)
    PROVE  HasParts(FlattenSeq(D), w[n])
<1> USE DEF AddUp
<1>1. CASE n = 0
  <2>1. FlattenSeq(D) = <<>>
    BY <1>1 DEF FlattenSeq
  <2> QED
    BY <1>1, <2>1, EmptyParts
<1>2. CASE n # 0
  <2>1. /\ FlattenSeq(D) = Partial(D)[n]
        /\ Partial(D)[1] = D[1]
        /\ \A i \in 1..n - 1 : Partial(D)[i + 1] = Partial(D)[i] \o D[i + 1]
    BY <1>2, FlattenByParts
  <2> DEFINE P == {i \in Nat : i \in 1..n => HasParts(Partial(D)[i], w[i])}
  <2>2. 0 \in P
    OBVIOUS
  <2>3. ASSUME NEW i \in Nat, i \in P PROVE i + 1 \in P
    <3> SUFFICES ASSUME i + 1 \in 1..n PROVE HasParts(Partial(D)[i + 1], w[i + 1])
      OBVIOUS
    <3>1. PICK v : HasParts(D[i + 1], v) /\ w[i + 1] = w[(i + 1) - 1] + v
      OBVIOUS
    <3>2. (i + 1) - 1 = i
      OBVIOUS
    <3>3. CASE i = 0
      <4>1. v \in Nat
        BY <3>1, PartsAreNat
      <4>2. w[i + 1] = v /\ i + 1 = 1
        BY <3>1, <3>2, <3>3, <4>1
      <4> QED
        BY <2>1, <3>1, <4>2
    <3>4. CASE i # 0
      <4>1. i \in 1..n /\ i \in 1..n - 1
        BY <3>4
      <4>2. HasParts(Partial(D)[i], w[i])
        BY <2>3, <4>1
      <4>3. HasParts(Partial(D)[i] \o D[i + 1], w[i] + v)
        BY <3>1, <4>2, PartsAdd
      <4> QED
        BY <2>1, <3>1, <3>2, <4>1, <4>3
    <3> QED
      BY <3>3, <3>4
  <2>4. n \in P
    <3> HIDE DEF P
    <3> QED
      BY <2>2, <2>3, SetInduction
  <2> QED
    BY <1>2, <2>1, <2>4
<1> QED
  BY <1>1, <1>2

LEMMA PreviousParts ==
    ASSUME NEW h \in Hashes
    PROVE  HasParts(Previous(h), 0)
<1>1. /\ Prev[h].ins \in Nat /\ Prev[h].outs \in Nat
      /\ {"TXMETA", "TXINPUT", "TXOUTPUT", "TXEXTRADATA"} \subseteq RequestTypes \ {"TXFINISHED"}
  BY SignTxAssumption DEF RequestTypes
<1>2. HasParts(<<Ask("TXMETA", h, 0)>>, 0) /\ HasParts(<<Ask("TXEXTRADATA", h, 0)>>, 0)
  BY <1>1, AskParts
<1>3. HasParts(AllOf("TXINPUT", h, Prev[h].ins), 0) /\ HasParts(AllOf("TXOUTPUT", h, Prev[h].outs), 0)
  BY <1>1, AllOfParts
<1>4. PICK a, b, c, d : /\ a = <<Ask("TXMETA", h, 0)>> /\ b = AllOf("TXINPUT", h, Prev[h].ins)
                        /\ c = AllOf("TXOUTPUT", h, Prev[h].outs)
                        /\ d = IF Prev[h].extra > 0 THEN <<Ask("TXEXTRADATA", h, 0)>> ELSE <<>>
  OBVIOUS
<1>5. HasParts(a, 0) /\ HasParts(b, 0) /\ HasParts(c, 0) /\ HasParts(d, 0)
  BY <1>2, <1>3, <1>4, EmptyParts
<1>6. HasParts(a \o b, 0 + 0)
  BY <1>5, PartsAdd
<1>7. HasParts((a \o b) \o c, 0 + 0 + 0)
  BY <1>5, <1>6, PartsAdd
<1>8. HasParts(((a \o b) \o c) \o d, 0 + 0 + 0 + 0)
  BY <1>5, <1>7, PartsAdd
<1> QED
  BY <1>4, <1>8 DEF Previous

\* Inputs whose signature covers the amount, up to the i-th.
Witnesses(i) == {j \in 1..i : arg.inputs[j].witness}
PartCount == InputCount + arg.outputs + Cardinality(Witnesses(InputCount))

LEMMA WitnessesCounted ==
    ASSUME NEW i \in Nat
    PROVE  /\ Witnesses(0) = {} /\ Cardinality(Witnesses(0)) = 0
           /\ Cardinality(Witnesses(i)) \in Nat
           /\ Cardinality(Witnesses(i + 1)) =
                  Cardinality(Witnesses(i)) + One(arg.inputs[i + 1].witness)
<1>1. Witnesses(0) = {}
  BY DEF Witnesses
<1>2. IsFiniteSet(Witnesses(i))
  <2>1. IsFiniteSet(1..i) /\ Witnesses(i) \in SUBSET (1..i)
    BY FS_Interval DEF Witnesses
  <2> QED
    BY <2>1, FS_Subset
<1>3. Cardinality(Witnesses(i)) \in Nat
  BY <1>2, FS_CardinalityType
<1>4. CASE arg.inputs[i + 1].witness
  <2>1. Witnesses(i + 1) = Witnesses(i) \cup {i + 1} /\ i + 1 \notin Witnesses(i)
    BY <1>4 DEF Witnesses
  <2>2. Cardinality(Witnesses(i) \cup {i + 1}) = Cardinality(Witnesses(i)) + 1
    BY <1>2, <2>1, FS_AddElement
  <2> QED
    BY <1>1, <1>3, <1>4, <2>1, <2>2, FS_EmptySet DEF One
<1>5. CASE ~arg.inputs[i + 1].witness
  <2>1. Witnesses(i + 1) = Witnesses(i)
    BY <1>5 DEF Witnesses
  <2> QED
    BY <1>1, <1>3, <1>5, <2>1, FS_EmptySet DEF One
<1> QED
  BY <1>4, <1>5

\* What the device is called with.
LEMMA ArgumentTypes ==
    ASSUME arg \in ArgumentSet
    PROVE  /\ InputCount \in Nat /\ arg.outputs \in Nat /\ arg.bip143 \in BOOLEAN
           /\ \A i \in 1..InputCount : arg.inputs[i] \in [prev : Hashes, witness : BOOLEAN]
           /\ {"TXMETA", "TXINPUT", "TXOUTPUT", "TXEXTRADATA"} \subseteq RequestTypes \ {"TXFINISHED"}
<1>1. arg.inputs \in Seq([prev : Hashes, witness : BOOLEAN]) /\ arg.outputs \in Nat /\ arg.bip143 \in BOOLEAN
  BY DEF ArgumentSet
<1>2. InputCount \in Nat /\ \A i \in 1..InputCount : arg.inputs[i] \in [prev : Hashes, witness : BOOLEAN]
  <2>1. PICK s : s = arg.inputs
    OBVIOUS
  <2>2. s \in Seq([prev : Hashes, witness : BOOLEAN]) /\ InputCount = Len(s)
    BY <1>1, <2>1 DEF InputCount
  <2>3. Len(s) \in Nat /\ \A i \in 1..Len(s) : s[i] \in [prev : Hashes, witness : BOOLEAN]
    BY <2>2, ElementOfSeq, LenProperties, Zenon
  <2> QED
    BY <2>1, <2>2, <2>3
<1>3. {"TXMETA", "TXINPUT", "TXOUTPUT", "TXEXTRADATA"} \subseteq RequestTypes \ {"TXFINISHED"}
  BY DEF RequestTypes
<1> QED
  BY <1>1, <1>2, <1>3

\* The first half of the script computes nothing.
LEMMA CheckParts ==
    ASSUME arg \in ArgumentSet
    PROVE  HasParts(Check, 0)
<1> DEFINE Block(i) == <<Ask("TXINPUT", Own, i - 1)>>
                       \o (IF SignsOldWay(i) THEN Previous(arg.inputs[i].prev) ELSE <<>>)
           D == [i \in 1..InputCount |-> Block(i)]
           w == [i \in 0..InputCount |-> 0]
<1>1. InputCount \in Nat /\ arg.outputs \in Nat
  BY ArgumentTypes
<1>2. ASSUME NEW i \in 1..InputCount PROVE HasParts(Block(i), 0)
  <2>1. HasParts(<<Ask("TXINPUT", Own, i - 1)>>, 0)
    <3>1. i - 1 \in Nat /\ "TXINPUT" \in RequestTypes \ {"TXFINISHED"}
      BY <1>1, ArgumentTypes
    <3> QED
      BY <3>1, AskParts
  <2>2. PICK t : t = IF SignsOldWay(i) THEN Previous(arg.inputs[i].prev) ELSE <<>>
    OBVIOUS
  <2>3. arg.inputs[i].prev \in Hashes
    BY ArgumentTypes
  <2>4. HasParts(t, 0)
    BY <2>2, <2>3, PreviousParts, EmptyParts
  <2>5. HasParts(<<Ask("TXINPUT", Own, i - 1)>> \o t, 0 + 0)
    BY <2>1, <2>4, PartsAdd
  <2> QED
    BY <2>2, <2>5
<1> HIDE DEF Block
<1>3. HasParts(FlattenSeq(D), 0)
  <2>1. Len(D) = InputCount /\ (InputCount = 0 => D = <<>>) /\ w[0] = 0 /\ w[InputCount] = 0
    BY <1>1
  <2>2. ASSUME NEW i \in 1..InputCount PROVE \E v : HasParts(D[i], v) /\ w[i] = w[i - 1] + v
    <3>1. D[i] = Block(i) /\ w[i] = 0 /\ w[i - 1] = 0
      BY <1>1
    <3> QED
      BY <1>2, <3>1
  <2> HIDE DEF D, w
  <2>3. AddUp(D, InputCount, w)
    BY <2>1, <2>2 DEF AddUp
  <2>4. HasParts(FlattenSeq(D), w[InputCount])
    BY <1>1, <2>3, FlattenParts
  <2> QED
    BY <2>1, <2>4
<1>4. HasParts(AllOf("TXOUTPUT", Own, arg.outputs), 0)
  BY <1>1, ArgumentTypes, AllOfParts
<1>5. HasParts(FlattenSeq(D) \o AllOf("TXOUTPUT", Own, arg.outputs), 0 + 0)
  BY <1>3, <1>4, PartsAdd
<1>6. Check = FlattenSeq(D) \o AllOf("TXOUTPUT", Own, arg.outputs)
  BY DEF Check, Block
<1> QED
  BY <1>5, <1>6

\* Signing an input computes one part, and a signature unless it has a witness.
LEMMA SignInputParts ==
    ASSUME arg \in ArgumentSet, NEW i \in 1..InputCount
    PROVE  HasParts(SignInput(i), 1)
<1>1. /\ InputCount \in Nat /\ arg.outputs \in Nat /\ i - 1 \in Nat
      /\ i - 1 \in Nat \cup {None} /\ None \in Nat \cup {None}
  BY ArgumentTypes
<1>2. {"TXINPUT", "TXOUTPUT"} \subseteq RequestTypes \ {"TXFINISHED"}
  BY ArgumentTypes
<1>3. PICK a, b : a = AllOf("TXINPUT", Own, InputCount) /\ b = AllOf("TXOUTPUT", Own, arg.outputs)
  OBVIOUS
<1>4. /\ a \in Seq(Asks) /\ Len(a) = InputCount /\ \A k \in 1..InputCount : ~a[k].part
      /\ b \in Seq(Asks) /\ Len(b) = arg.outputs /\ \A k \in 1..arg.outputs : ~b[k].part
  BY <1>1, <1>2, <1>3, AllOfParts
<1>5. a \o b \in Seq(Asks) /\ Len(a \o b) # 0 /\ \A k \in 1..Len(a \o b) : ~(a \o b)[k].part
  <2>1. /\ a \o b \in Seq(Asks) /\ Len(a \o b) = InputCount + arg.outputs
        /\ \A k \in 1..InputCount : (a \o b)[k] = a[k]
        /\ \A k \in 1..arg.outputs : (a \o b)[InputCount + k] = b[k]
    <3>1. a \in Seq(Asks) /\ b \in Seq(Asks)
      BY <1>4
    <3>2. /\ a \o b \in Seq(Asks) /\ Len(a \o b) = Len(a) + Len(b)
          /\ \A k \in 1..Len(a) : (a \o b)[k] = a[k]
          /\ \A k \in 1..Len(b) : (a \o b)[Len(a) + k] = b[k]
      BY <3>1
    <3> QED
      BY <1>4, <3>2
  <2>2. ASSUME NEW k \in 1..InputCount + arg.outputs PROVE ~(a \o b)[k].part
    <3>1. CASE k <= InputCount
      <4>1. k \in 1..InputCount
        BY <1>1, <3>1
      <4> QED
        BY <1>4, <2>1, <4>1
    <3>2. CASE ~(k <= InputCount)
      <4>1. k - InputCount \in 1..arg.outputs /\ InputCount + (k - InputCount) = k
        BY <1>1, <3>2
      <4> QED
        BY <1>4, <2>1, <4>1
    <3> QED
      BY <3>1, <3>2
  <2>3. InputCount + arg.outputs # 0
    BY <1>1
  <2> QED
    BY <2>1, <2>2, <2>3
<1>6. HasParts(Yielding(a \o b, i - 1), 1)
  BY <1>1, <1>5, YieldingParts
<1>7. PICK q : q = <<Ask("TXINPUT", Own, i - 1)>>
  OBVIOUS
<1>8. q \in Seq(Asks) /\ Len(q) # 0 /\ \A k \in 1..Len(q) : ~q[k].part
  <2>1. q \in Seq(Asks) /\ Len(q) = 1 /\ \A k \in 1..1 : ~q[k].part
    BY <1>1, <1>2, <1>7, AskParts
  <2> QED
    BY <2>1
<1>9. HasParts(Yielding(q, i - 1), 1) /\ HasParts(Yielding(q, None), 1)
  BY <1>1, <1>8, YieldingParts
<1> QED
  BY <1>3, <1>6, <1>7, <1>9 DEF SignInput

\* The device's requests: nothing before the last of them is TXFINISHED, and
\* they yield a part per input, per output and per witness.
FullScript(B) == B \o <<Ask("TXFINISHED", Own, 0)>>

LEMMA ScriptParts ==
    ASSUME arg \in ArgumentSet
    PROVE  \E B : Script = FullScript(B) /\ HasParts(B, PartCount)
<1> DEFINE A == [i \in 1..InputCount |-> SignInput(i)]
           O == [j \in 1..arg.outputs |-> SerializeOutput(j)]
           W == [i \in 1..InputCount |-> SignWitness(i)]
<1>1. InputCount \in Nat /\ arg.outputs \in Nat
  BY ArgumentTypes
<1>2. {"TXINPUT", "TXOUTPUT"} \subseteq RequestTypes \ {"TXFINISHED"}
  BY ArgumentTypes
<1>3. HasParts(FlattenSeq(A), InputCount)
  <2> DEFINE w == [i \in 0..InputCount |-> i]
  <2>1. Len(A) = InputCount /\ (InputCount = 0 => A = <<>>) /\ w[0] = 0 /\ w[InputCount] = InputCount
    BY <1>1
  <2>2. ASSUME NEW i \in 1..InputCount PROVE \E v : HasParts(A[i], v) /\ w[i] = w[i - 1] + v
    <3>1. A[i] = SignInput(i) /\ w[i] = w[i - 1] + 1
      BY <1>1
    <3> QED
      BY <3>1, SignInputParts
  <2> HIDE DEF A, w
  <2>3. AddUp(A, InputCount, w)
    BY <2>1, <2>2 DEF AddUp
  <2> QED
    BY <1>1, <2>1, <2>3, FlattenParts
<1>4. HasParts(FlattenSeq(O), arg.outputs)
  <2> DEFINE w == [j \in 0..arg.outputs |-> j]
  <2>1. Len(O) = arg.outputs /\ (arg.outputs = 0 => O = <<>>) /\ w[0] = 0 /\ w[arg.outputs] = arg.outputs
    BY <1>1
  <2>2. ASSUME NEW j \in 1..arg.outputs PROVE \E v : HasParts(O[j], v) /\ w[j] = w[j - 1] + v
    <3>1. O[j] = SerializeOutput(j) /\ w[j] = w[j - 1] + 1
      BY <1>1
    <3>2. PICK q : q = <<Ask("TXOUTPUT", Own, j - 1)>>
      OBVIOUS
    <3>3. j - 1 \in Nat
      BY <1>1
    <3>4. q \in Seq(Asks) /\ Len(q) = 1 /\ \A k \in 1..1 : ~q[k].part
      BY <1>2, <3>2, <3>3, AskParts
    <3>5. Len(q) # 0 /\ \A k \in 1..Len(q) : ~q[k].part
      BY <3>4
    <3>6. HasParts(Yielding(q, None), 1)
      BY <3>4, <3>5, YieldingParts
    <3>7. HasParts(O[j], 1)
      BY <3>1, <3>2, <3>6 DEF SerializeOutput
    <3> QED
      BY <3>1, <3>7
  <2> HIDE DEF O, w
  <2>3. AddUp(O, arg.outputs, w)
    BY <2>1, <2>2 DEF AddUp
  <2> QED
    BY <1>1, <2>1, <2>3, FlattenParts
<1>5. HasParts(FlattenSeq(W), Cardinality(Witnesses(InputCount)))
  <2> DEFINE w == [i \in 0..InputCount |-> Cardinality(Witnesses(i))]
  <2>1. /\ Len(W) = InputCount /\ (InputCount = 0 => W = <<>>) /\ w[0] = 0
        /\ w[InputCount] = Cardinality(Witnesses(InputCount))
    <3>1. Len(W) = InputCount /\ (InputCount = 0 => W = <<>>)
      BY <1>1
    <3>2. 0 \in 0..InputCount /\ InputCount \in 0..InputCount
      BY <1>1
    <3>3. Cardinality(Witnesses(0)) = 0
      BY <1>1, WitnessesCounted
    <3> QED
      BY <3>1, <3>2, <3>3
  <2>2. ASSUME NEW i \in 1..InputCount PROVE \E v : HasParts(W[i], v) /\ w[i] = w[i - 1] + v
    <3>1. W[i] = SignWitness(i) /\ i - 1 \in Nat /\ (i - 1) + 1 = i
      BY <1>1
    <3>2. w[i] = w[i - 1] + One(arg.inputs[i].witness)
      <4>1. w[i] = Cardinality(Witnesses(i)) /\ w[i - 1] = Cardinality(Witnesses(i - 1))
        BY <1>1
      <4>2. Cardinality(Witnesses((i - 1) + 1)) =
                Cardinality(Witnesses(i - 1)) + One(arg.inputs[(i - 1) + 1].witness)
        BY <3>1, WitnessesCounted
      <4> QED
        BY <3>1, <4>1, <4>2
    <3>3. CASE arg.inputs[i].witness
      <4>1. PICK q : q = <<Ask("TXINPUT", Own, i - 1)>>
        OBVIOUS
      <4>2. q \in Seq(Asks) /\ Len(q) = 1 /\ \A k \in 1..1 : ~q[k].part
        BY <1>2, <3>1, <4>1, AskParts
      <4>3. Len(q) # 0 /\ \A k \in 1..Len(q) : ~q[k].part
        BY <4>2
      <4>4. HasParts(Yielding(q, i - 1), 1)
        BY <3>1, <4>2, <4>3, YieldingParts
      <4>5. HasParts(W[i], 1) /\ One(arg.inputs[i].witness) = 1
        BY <3>1, <3>3, <4>1, <4>4 DEF SignWitness, One
      <4> QED
        BY <3>2, <4>5
    <3>4. CASE ~arg.inputs[i].witness
      <4>1. HasParts(W[i], 0) /\ One(arg.inputs[i].witness) = 0
        BY <3>1, <3>4, EmptyParts DEF SignWitness, One
      <4> QED
        BY <3>2, <4>1
    <3> QED
      BY <3>3, <3>4
  <2> HIDE DEF W, w
  <2>3. AddUp(W, InputCount, w)
    BY <2>1, <2>2 DEF AddUp
  <2> QED
    BY <1>1, <2>1, <2>3, FlattenParts
<1>6. PICK a, o, t : a = FlattenSeq(A) /\ o = FlattenSeq(O) /\ t = FlattenSeq(W)
  OBVIOUS
<1>7. HasParts(Check \o a, 0 + InputCount)
  BY <1>3, <1>6, CheckParts, PartsAdd
<1>8. HasParts(Check \o a \o o, 0 + InputCount + arg.outputs)
  BY <1>4, <1>6, <1>7, PartsAdd
<1>9. HasParts(Check \o a \o o \o t, 0 + InputCount + arg.outputs + Cardinality(Witnesses(InputCount)))
  BY <1>5, <1>6, <1>8, PartsAdd
<1>10. 0 + InputCount + arg.outputs + Cardinality(Witnesses(InputCount)) = PartCount
  BY <1>1 DEF PartCount
<1>11. Script = FullScript(Check \o a \o o \o t)
  BY <1>6 DEF Script, FullScript
<1> QED
  BY <1>9, <1>10, <1>11

\* The k-th request of a script, and how far the host is on its way through it:
\* what it has collected are the parts of the requests it has dealt with.
RequestAt(S, k) ==
    [type |-> S[k].type, hash |-> S[k].hash, index |-> S[k].index,
     sig |-> IF k = 1 THEN None ELSE S[k - 1].sig, part |-> k > 1 /\ S[k - 1].part]

Logged(q) == [sig |-> q.sig, part |-> q.part]
LogEntries == [sig : Nat \cup {None}, part : BOOLEAN]

Walk(B, c) ==
    /\ pc \in {"prepare", "called", "got", "done", "raised"}
    /\ log \in Seq(LogEntries)
    /\ serialized \in Seq(Nat)
    /\ pc = "prepare" => Len(log) = 0
    /\ pc = "called" => Len(log) <= Len(B)
    /\ pc = "got" => /\ Len(log) \in 1..Len(B) + 1
                     /\ res = RequestAt(FullScript(B), Len(log))
                     /\ log[Len(log)] = Logged(res)
    /\ pc = "done" => Len(log) = Len(B) + 1
    /\ pc # "raised" => Len(serialized) = IF Handled = 0 THEN 0 ELSE c[Handled - 1]

HonestScript(B, c) ==
    /\ Script = FullScript(B) /\ B \in Seq(Asks)
    /\ Running(B, c) /\ c[Len(B)] = PartCount

SlotsRight ==
    /\ signatures \in [Slots -> {None} \cup Nat]
    /\ FilledRight /\ NoneMissing

HonestInv ==
    /\ arg \in ArgumentSet
    /\ SlotsRight
    /\ \E B, c : HonestScript(B, c) /\ Walk(B, c)

\* The device ends its script with TXFINISHED, not before; a request brings
\* the part that the answer to the one before has yielded.
LEMMA RequestFacts ==
    ASSUME NEW B \in Seq(Asks), NEW c, Running(B, c), NEW k \in 1..Len(B) + 1,
           NEW q, q = RequestAt(FullScript(B), k)
    PROVE  /\ q.type = "TXFINISHED" <=> k = Len(B) + 1
           /\ Logged(q) \in LogEntries
           /\ c[k - 1] \in Nat
           /\ c[k - 1] = (IF k = 1 THEN 0 ELSE c[k - 2]) + One(q.part)
<1> DEFINE S == FullScript(B)
           fin == Ask("TXFINISHED", Own, 0)
<1>1. PICK n : n = Len(B)
  OBVIOUS
<1>2. n \in Nat /\ k \in Nat /\ k >= 1 /\ k <= n + 1
  BY <1>1
<1>3. S[n + 1] = fin /\ \A j \in 1..n : S[j] = B[j]
  <2> HIDE DEF fin
  <2>1. \A j \in 1..Len(B) : (B \o <<fin>>)[j] = B[j]
    OBVIOUS
  <2>2. (B \o <<fin>>)[Len(B) + 1] = fin
    OBVIOUS
  <2> QED
    BY <1>1, <2>1, <2>2 DEF FullScript, fin
<1> HIDE DEF S, fin
<1>4. \A j \in 1..n : B[j] \in Asks
  BY <1>1, ElementOfSeq
<1>5. fin.type = "TXFINISHED"
  BY DEF fin, Ask
<1>6. q.type = "TXFINISHED" <=> k = n + 1
  <2>1. q.type = S[k].type
    BY DEF RequestAt, S
  <2>2. CASE k = n + 1
    BY <1>3, <1>5, <2>1, <2>2
  <2>3. CASE k # n + 1
    <3>1. k \in 1..n
      BY <1>2, <2>3
    <3>2. S[k] \in Asks
      BY <1>3, <1>4, <3>1
    <3> QED
      BY <2>1, <2>3, <3>2 DEF Asks
  <2> QED
    BY <2>2, <2>3
<1>7. CASE k = 1
  <2>1. q.sig = None /\ q.part = FALSE
    <3>1. q.sig = None /\ q.part = (k > 1 /\ S[k - 1].part)
      BY <1>7 DEF RequestAt, S
    <3>2. ~(k > 1)
      BY <1>7
    <3>3. (k > 1 /\ S[k - 1].part) = FALSE
      BY <3>2, Zenon
    <3> QED
      BY <3>1, <3>3
  <2>2. c[k - 1] = 0 /\ One(q.part) = 0
    BY <1>7, <2>1 DEF Running, One
  <2>3. Logged(q) \in LogEntries
    BY <2>1 DEF Logged, LogEntries
  <2> QED
    BY <1>1, <1>6, <1>7, <2>2, <2>3
<1>8. CASE k # 1
  <2>1. k - 1 \in 1..n /\ (k - 1) - 1 = k - 2
    BY <1>2, <1>8
  <2>2. q.sig = B[k - 1].sig /\ q.part = B[k - 1].part
    <3>1. q.sig = S[k - 1].sig /\ q.part = (k > 1 /\ S[k - 1].part)
      BY <1>8 DEF RequestAt, S
    <3>2. S[k - 1] = B[k - 1] /\ B[k - 1].part \in BOOLEAN
      BY <1>3, <1>4, <2>1 DEF Asks
    <3>3. k > 1
      BY <1>2, <1>8
    <3> QED
      BY <3>1, <3>2, <3>3
  <2>3. B[k - 1] \in Asks
    BY <1>4, <2>1
  <2>4. Logged(q) \in LogEntries
    BY <2>2, <2>3 DEF Logged, LogEntries, Asks
  <2>5. c[k - 1] = c[k - 2] + One(q.part)
    BY <1>1, <2>1, <2>2 DEF Running
  <2>6. c[k - 1] \in Nat
    <3>1. k - 1 \in 0..n
      BY <2>1
    <3> QED
      BY <1>1, <3>1 DEF Running
  <2> QED
    BY <1>1, <1>6, <1>8, <2>4, <2>5, <2>6
<1> QED
  BY <1>7, <1>8

\* The script depends on the arguments only.
LEMMA ScriptUnchanged ==
    ASSUME arg' = arg
    PROVE  Script' = Script /\ PartCount' = PartCount
<1>1. InputCount' = InputCount /\ \A i : SignsOldWay(i)' = SignsOldWay(i)
  BY DEF InputCount, SignsOldWay
<1>2. Check' = Check
  BY <1>1 DEF Check
<1>3. \A i : SignInput(i)' = SignInput(i)
  BY <1>1 DEF SignInput
<1>4. \A i : SignWitness(i)' = SignWitness(i)
  BY DEF SignWitness
<1>5. Script' = Script
  BY <1>1, <1>2, <1>3, <1>4 DEF Script
<1> QED
  BY <1>1, <1>5 DEF PartCount, Witnesses

\* The host takes the request in hand into account.
LEMMA HonestCollect ==
    ASSUME NEW B, NEW c, HonestScript(B, c), Walk(B, c), SlotsRight, arg \in ArgumentSet,
           pc = "got", Accepted, Collect, UNCHANGED <<arg, log>>, pc' # "got"
    PROVE  /\ signatures' \in [Slots' -> {None} \cup Nat] /\ FilledRight'
           /\ serialized' \in Seq(Nat)
           /\ Handled' = Len(log) /\ Len(serialized') = c[Len(log) - 1]
           /\ res.type = "TXFINISHED" <=> Len(log) = Len(B) + 1
           /\ Len(log) \in 1..Len(B) + 1
<1>1. PICK l : l = Len(log)
  OBVIOUS
<1>2. /\ l \in 1..Len(B) + 1 /\ l \in Nat /\ log[l] = Logged(res)
      /\ Len(B) \in Nat
  <2>1. Len(B) \in Nat
    BY DEF HonestScript
  <2> QED
    BY <1>1, <2>1 DEF Walk
<1>3. /\ res.type = "TXFINISHED" <=> l = Len(B) + 1
      /\ Logged(res) \in LogEntries /\ c[l - 1] \in Nat
      /\ c[l - 1] = (IF l = 1 THEN 0 ELSE c[l - 2]) + One(res.part)
  BY <1>1, <1>2, RequestFacts DEF HonestScript, Walk
<1>4. Slots' = Slots /\ Handled' = l
  BY <1>1 DEF Slots, InputCount, Handled
<1>5. log[l].sig = res.sig /\ res.sig \in Nat \cup {None} /\ res.part \in BOOLEAN
  BY <1>2, <1>3 DEF Logged, LogEntries
<1>6. signatures' \in [Slots -> {None} \cup Nat] /\ FilledRight'
  <2>1. signatures \in [Slots -> {None} \cup Nat] /\ \A i \in Slots : signatures[i] # None => SignedFor(i)
    BY DEF SlotsRight, FilledRight
  <2>2. CASE HasSignature
    <3>1. res.sig \in Slots /\ signatures' = [signatures EXCEPT ![res.sig] = l]
      BY <1>1, <2>2 DEF Accepted, Collect
    <3>2. l \in 1..Len(log') /\ log' = log
      BY <1>1, <1>2
    <3>3. signatures' \in [Slots -> {None} \cup Nat]
      BY <1>2, <2>1, <3>1
    <3>4. ASSUME NEW i \in Slots, signatures'[i] # None PROVE SignedFor(i)'
      <4>1. CASE i = res.sig
        BY <1>5, <2>1, <3>1, <3>2, <4>1 DEF SignedFor
      <4>2. CASE i # res.sig
        <5>1. signatures'[i] = signatures[i]
          BY <2>1, <3>1, <4>2
        <5> QED
          BY <2>1, <3>4, <3>2, <5>1 DEF SignedFor
      <4> QED
        BY <4>1, <4>2
    <3> QED
      BY <1>4, <3>3, <3>4 DEF FilledRight
  <2>3. CASE ~HasSignature
    <3>1. signatures' = signatures /\ log' = log
      BY <2>3 DEF Collect
    <3> QED
      BY <1>4, <2>1, <3>1 DEF FilledRight, SignedFor
  <2> QED
    BY <2>2, <2>3
<1>7. Len(serialized) = IF l = 1 THEN 0 ELSE c[l - 2]
  <2>1. Len(serialized) = IF Handled = 0 THEN 0 ELSE c[Handled - 1]
    BY DEF Walk
  <2>2. Handled = l - 1 /\ (l - 1) - 1 = l - 2 /\ (l - 1 = 0 <=> l = 1)
    BY <1>1, <1>2 DEF Handled
  <2> QED
    BY <2>1, <2>2
<1>8. serialized' \in Seq(Nat) /\ Len(serialized') = Len(serialized) + One(res.part)
  <2>1. serialized \in Seq(Nat)
    BY DEF Walk
  <2>2. CASE res.part
    <3>1. serialized' = Append(serialized, l)
      BY <1>1, <2>2 DEF Collect, AddPart
    <3> QED
      BY <1>2, <2>1, <2>2, <3>1 DEF One
  <2>3. CASE ~res.part
    <3>1. serialized' = serialized
      BY <2>3 DEF Collect, AddPart
    <3> QED
      BY <2>1, <2>3, <3>1 DEF One
  <2> QED
    BY <2>2, <2>3
<1> QED
  BY <1>1, <1>2, <1>3, <1>4, <1>6, <1>7, <1>8

\* A step that leaves what has been collected, the log and the arguments alone.
LEMMA HonestUntouched ==
    ASSUME NEW B, NEW c, HonestScript(B, c), Walk(B, c), SlotsRight,
           UNCHANGED <<arg, signatures, log>>,
           \/ pc' = "raised" /\ serialized' \in Seq(Nat)
           \/ pc = "prepare" /\ pc' \in {"prepare", "called"} /\ UNCHANGED serialized
    PROVE  SlotsRight' /\ Walk(B, c)'
<1>1. Len(B) \in Nat
  BY DEF HonestScript
<1>2. SlotsRight'
  BY DEF SlotsRight, FilledRight, NoneMissing, SignedFor, Slots, InputCount
<1>3. CASE pc' = "raised" /\ serialized' \in Seq(Nat)
  <2>1. log' \in Seq(LogEntries)
    BY DEF Walk
  <2>2. pc' \notin {"prepare", "called", "got", "done"}
    BY <1>3
  <2> QED
    BY <1>2, <1>3, <2>1, <2>2 DEF Walk
<1>4. CASE pc = "prepare" /\ pc' \in {"prepare", "called"} /\ UNCHANGED serialized
  <2>1. Handled' = Handled
    BY <1>4 DEF Handled
  <2>2. Len(log) = 0 /\ Len(log) <= Len(B)
    BY <1>1, <1>4 DEF Walk
  <2>3. log' \in Seq(LogEntries) /\ Len(log') = Len(log) /\ serialized' \in Seq(Nat)
    BY <1>4 DEF Walk
  <2>4. Len(serialized') = IF Handled' = 0 THEN 0 ELSE c[Handled' - 1]
    BY <1>4, <2>1 DEF Walk
  <2>5. pc' \notin {"got", "done"} /\ pc' \in {"prepare", "called", "got", "done", "raised"}
    BY <1>4
  <2> QED
    BY <1>2, <2>2, <2>3, <2>4, <2>5 DEF Walk
<1> QED
  BY <1>2, <1>3, <1>4

\* One step of the host or of the honest device.
LEMMA NextHonestInv == HonestInv /\ (Host \/ FirmwareRequest \/ UNCHANGED vars) => HonestInv'
<1> SUFFICES ASSUME HonestInv, Host \/ FirmwareRequest \/ UNCHANGED vars PROVE HonestInv'
  OBVIOUS
<1>1. PICK B, c : HonestScript(B, c) /\ Walk(B, c)
  BY DEF HonestInv
<1>2. arg \in ArgumentSet /\ SlotsRight /\ Len(B) \in Nat /\ Len(log) \in Nat
  BY <1>1 DEF HonestInv, HonestScript, Walk
<1>3. arg' = arg
  BY DEF Host, PrepareNext, PrepareFails, CallSignTx, RejectSignature, Finish, RejectRequest,
         AckMeta, AckInput, AckOutput, AckExtraData, Answer, FirmwareRequest, Respond, vars
<1>4. HonestScript(B, c)'
  BY <1>1, <1>3, ScriptUnchanged DEF HonestScript
<1> SUFFICES SlotsRight' /\ Walk(B, c)'
  BY <1>2, <1>3, <1>4 DEF HonestInv
<1>5. CASE PrepareNext
  BY <1>1, <1>2, <1>5, HonestUntouched DEF PrepareNext
<1>6. CASE PrepareFails
  BY <1>1, <1>2, <1>6, HonestUntouched DEF PrepareFails, Walk
<1>7. CASE CallSignTx
  BY <1>1, <1>2, <1>7, HonestUntouched DEF CallSignTx
<1>8. CASE RejectSignature
  <2>1. serialized' \in Seq(Nat)
    <3>1. serialized \in Seq(Nat) /\ serialized' = IF res.part THEN Append(serialized, Len(log)) ELSE serialized
      BY <1>1, <1>8 DEF Walk, RejectSignature, AddPart
    <3> QED
      BY <1>2, <3>1
  <2> QED
    BY <1>1, <1>2, <1>8, <2>1, HonestUntouched DEF RejectSignature, Raise
<1>9. CASE Finish
  <2>1. /\ signatures' \in [Slots' -> {None} \cup Nat] /\ FilledRight' /\ serialized' \in Seq(Nat)
        /\ Handled' = Len(log) /\ Len(serialized') = c[Len(log) - 1]
        /\ Len(log) = Len(B) + 1
    BY <1>1, <1>2, <1>9, HonestCollect DEF Finish
  <2>2. /\ pc' = IF \E i \in Slots : signatures'[i] = None THEN "raised" ELSE "done"
        /\ log' = log /\ Slots' = Slots
    BY <1>9 DEF Finish, Slots, InputCount
  <2>3. SlotsRight'
    BY <2>1, <2>2 DEF SlotsRight, NoneMissing
  <2>4. Len(serialized') = (IF Handled' = 0 THEN 0 ELSE c[Handled' - 1])
    BY <1>2, <2>1
  <2>5. log \in Seq(LogEntries)
    BY <1>1 DEF Walk
  <2>6. Walk(B, c)'
    BY <2>1, <2>2, <2>4, <2>5 DEF Walk
  <2> QED
    BY <2>3, <2>6
<1>10. ASSUME pc = "got", Accepted, Collect, UNCHANGED <<arg, log>>,
              pc' = "raised" \/ (pc' = "called" /\ res.type # "TXFINISHED")
       PROVE  SlotsRight' /\ Walk(B, c)'
  <2>1. /\ signatures' \in [Slots' -> {None} \cup Nat] /\ FilledRight' /\ serialized' \in Seq(Nat)
        /\ Handled' = Len(log) /\ Len(serialized') = c[Len(log) - 1]
        /\ res.type = "TXFINISHED" <=> Len(log) = Len(B) + 1
        /\ Len(log) \in 1..Len(B) + 1
    BY <1>1, <1>2, <1>10, HonestCollect
  <2>2. SlotsRight'
    BY <1>10, <2>1 DEF SlotsRight, NoneMissing
  <2>3. Len(serialized') = (IF Handled' = 0 THEN 0 ELSE c[Handled' - 1])
    BY <1>2, <2>1
  <2>4. log' \in Seq(LogEntries) /\ Len(log') = Len(log)
    BY <1>1, <1>10 DEF Walk
  <2>5. pc' = "called" => Len(log) <= Len(B)
    BY <1>2, <1>10, <2>1
  <2>6. Walk(B, c)'
    BY <1>10, <2>1, <2>3, <2>4, <2>5 DEF Walk
  <2> QED
    BY <2>2, <2>6
<1>11. CASE RejectRequest
  BY <1>10, <1>11 DEF RejectRequest, Raise
<1>12. CASE AckMeta \/ AckInput \/ AckOutput \/ AckExtraData
  <2>1. ASSUME NEW type, NEW piece, type # "TXFINISHED", Answer(type, piece)
        PROVE  SlotsRight' /\ Walk(B, c)'
    BY <1>10, <2>1 DEF Answer
  <2> QED
    BY <1>12, <2>1 DEF AckMeta, AckInput, AckOutput, AckExtraData
<1>13. CASE FirmwareRequest
  <2>1. PICK k, q : k = Len(log) + 1 /\ q = RequestAt(FullScript(B), k)
    OBVIOUS
  <2>2. Respond(q)
    <3>1. ScriptedRequest(k) = q
      BY <1>1, <2>1 DEF ScriptedRequest, RequestAt, HonestScript
    <3> QED
      BY <1>13, <2>1, <3>1 DEF FirmwareRequest
  <2>3. /\ pc = "called" /\ pc' = "got" /\ res' = q /\ log' = Append(log, Logged(q))
        /\ UNCHANGED <<signatures, serialized>>
    BY <2>2 DEF Respond, Logged
  <2>4. k \in 1..Len(B) + 1
    BY <1>1, <1>2, <2>1, <2>3 DEF Walk
  <2>5. Logged(q) \in LogEntries
    BY <1>1, <2>1, <2>4, RequestFacts DEF HonestScript
  <2>6. /\ log' \in Seq(LogEntries) /\ Len(log') = k /\ log'[k] = Logged(q)
        /\ \A j \in 1..Len(log) : log'[j] = log[j]
    <3>1. log \in Seq(LogEntries)
      BY <1>1 DEF Walk
    <3> QED
      BY <2>1, <2>3, <2>5, <3>1
  <2>7. Slots' = Slots /\ Handled' = Handled
    BY <1>2, <1>3, <2>1, <2>3, <2>6 DEF Slots, InputCount, Handled
  <2>8. SlotsRight'
    <3>1. ASSUME NEW i \in Slots, SignedFor(i) PROVE SignedFor(i)'
      BY <1>2, <2>1, <2>3, <2>6, <3>1 DEF SignedFor
    <3> QED
      BY <1>2, <2>3, <2>7, <3>1 DEF SlotsRight, FilledRight, NoneMissing
  <2>9. Walk(B, c)'
    <3>1. Len(serialized) = IF Handled = 0 THEN 0 ELSE c[Handled - 1]
      BY <1>1, <2>3 DEF Walk
    <3>2. serialized' \in Seq(Nat) /\ serialized' = serialized
      BY <1>1, <2>3 DEF Walk
    <3> QED
      BY <2>1, <2>3, <2>4, <2>6, <2>7, <3>1, <3>2 DEF Walk
  <2> QED
    BY <2>8, <2>9
<1>14. CASE UNCHANGED vars
  <2>1. SlotsRight'
    BY <1>2, <1>14 DEF vars, SlotsRight, FilledRight, NoneMissing, SignedFor, Slots, InputCount
  <2>2. Walk(B, c)'
    BY <1>1, <1>14 DEF vars, Walk, Handled
  <2> QED
    BY <2>1, <2>2
<1> QED
  BY <1>5, <1>6, <1>7, <1>8, <1>9, <1>11, <1>12, <1>13, <1>14 DEF Host

LEMMA InitHonestInv == Init => HonestInv
<1> SUFFICES ASSUME Init PROVE HonestInv
  OBVIOUS
<1>1. arg \in ArgumentSet
  BY SignTxAssumption DEF Init
<1>2. PICK B : Script = FullScript(B) /\ HasParts(B, PartCount)
  BY <1>1, ScriptParts
<1>3. PICK c : Running(B, c) /\ c[Len(B)] = PartCount
  BY <1>2 DEF HasParts
<1>4. HonestScript(B, c)
  BY <1>2, <1>3 DEF HonestScript, HasParts
<1>5. log = <<>> /\ Len(log) = 0 /\ Handled = 0 /\ serialized = <<>> /\ Len(serialized) = 0
  BY DEF Init, Handled
<1>6. Walk(B, c)
  BY <1>5 DEF Init, Walk
<1>7. SlotsRight
  BY DEF Init, SlotsRight, FilledRight, NoneMissing
<1> QED
  BY <1>1, <1>4, <1>6, <1>7 DEF HonestInv

\* At the end the whole script has been gone through.
LEMMA HonestInvSuffices == HonestInv => ResultIsTheDevices
<1> SUFFICES ASSUME HonestInv, pc = "done"
             PROVE  /\ \A i \in Slots : SignedFor(i)
                    /\ Len(serialized) = InputCount + arg.outputs
                           + Cardinality({i \in 1..InputCount : arg.inputs[i].witness})
  BY DEF ResultIsTheDevices
<1>1. \A i \in Slots : SignedFor(i)
  BY DEF HonestInv, SlotsRight, FilledRight, NoneMissing
<1>2. PICK B, c : HonestScript(B, c) /\ Walk(B, c)
  BY DEF HonestInv
<1>3. Handled = Len(B) + 1 /\ Len(B) \in Nat
  BY <1>2 DEF HonestScript, Walk, Handled
<1>4. Len(serialized) = c[(Len(B) + 1) - 1]
  BY <1>2, <1>3 DEF Walk
<1>5. Len(serialized) = PartCount
  BY <1>2, <1>3, <1>4 DEF HonestScript
<1> QED
  BY <1>1, <1>5 DEF PartCount, Witnesses

\* What sign_tx returns from an honest device is the device's own result, for
\* any number of inputs and outputs: for each input the signature the device
\* computed for it, and every part of the transaction it has serialised, one
\* per input, per output and per witness.
THEOREM HonestDeviceResult == Init /\ [][Host \/ FirmwareRequest]_vars => []ResultIsTheDevices
<1>1. HonestInv /\ [Host \/ FirmwareRequest]_vars => HonestInv'
  BY NextHonestInv
<1> QED
  BY <1>1, InitHonestInv, HonestInvSuffices, PTL

\* The same of the specification that is checked, whose device is either the
\* honest one or any.
THEOREM HonestResults == EitherSpec => []HonestResult
<1> DEFINE Inv == honest => HonestInv
<1>1. EitherInit => Inv
  BY InitHonestInv DEF EitherInit
<1>2. Inv /\ [EitherNext]_EitherVars => Inv'
  <2> SUFFICES ASSUME Inv, [EitherNext]_EitherVars, honest' PROVE HonestInv'
    OBVIOUS
  <2>1. honest' = honest
    BY DEF EitherNext, EitherVars
  <2>2. Host \/ FirmwareRequest \/ UNCHANGED vars
    BY <2>1 DEF EitherNext, EitherVars
  <2> QED
    BY <2>1, <2>2, NextHonestInv
<1>3. Inv => HonestResult
  BY HonestInvSuffices DEF HonestResult
<1> QED
  BY <1>1, <1>2, <1>3, PTL DEF EitherSpec
=============================================================================
