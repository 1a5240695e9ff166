-------------------------- MODULE ZcashPczt_proofs --------------------------
(***************************************************************************)
(* Proofs about zcash_sign_pczt() for any number of outputs, inputs and    *)
(* actions, and for every device.                                          *)
(***************************************************************************)
EXTENDS ZcashPczt, FiniteSetTheorems, SequenceTheorems, TLAPS

\* How far each loop has got.  The third conjunct is the delicate one: the
\* first loop may end early, and it is the kind of the last message that keeps
\* the second loop from starting then.
Progress ==
    /\ stage = "outputs" => sentInputs = 0
    /\ stage \in {"outputs", "inputs"} =>
          sentActions = {} /\ Len(trail) = sentOutputs + sentInputs
    /\ stage = "inputs" /\ sentOutputs # arg.outputs =>
          /\ sentInputs = 0
          /\ pc = "raised" \/ (pc = "got" /\ resp.kind # "TransparentAck")
    /\ stage \in {"actions", "final", "second"} =>
          /\ AllPlaintextSent
          /\ Len(trail) = arg.outputs + arg.inputs + Cardinality(sentActions)
    /\ stage \in {"final", "second"} => sentActions = 0..(ActionCount - 1)
    /\ stage \notin {"final", "second"} => transparent = <<>>
    /\ pc = "start" => stage = "outputs"
    /\ pc = "done" => stage \in {"final", "second"} /\ Acceptable

\* The pieces after the plaintext are the actions that are marked as sent.
ActionsSent ==
    \A k \in 1..Len(trail) : k > arg.outputs + arg.inputs => trail[k].at \in sentActions

IInv == TypeOK /\ Progress /\ ActionsSent /\ StreamedInOrder

-----------------------------------------------------------------------------
\* The types that the steps below use again and again.
LEMMA ArgumentFacts ==
    ASSUME TypeOK
    PROVE  /\ arg.outputs \in Nat /\ arg.inputs \in Nat
           /\ Stream \in Seq(Marks) /\ ActionCount \in Nat
           /\ Len(trail) \in Nat
           /\ sentOutputs \in Nat /\ sentInputs \in Nat
<1>1. arg \in ArgumentSet
  BY ZcashAssumption DEF TypeOK
<1>2. arg.outputs \in Nat /\ arg.inputs \in Nat /\ arg.orchard \in Seq(Marks) /\ arg.ironwood \in Seq(Marks)
  BY <1>1 DEF ArgumentSet
<1>3. Stream \in Seq(Marks)
  BY <1>2 DEF Stream
<1> QED
  BY <1>2, <1>3 DEF ActionCount, TypeOK

\* Actions are finitely many, and counting them works.
LEMMA ActionsFinite ==
    ASSUME TypeOK
    PROVE  /\ IsFiniteSet(sentActions)
           /\ Cardinality(sentActions) \in Nat
           /\ \A x : x \notin sentActions => Cardinality(sentActions \cup {x}) = Cardinality(sentActions) + 1
           /\ Cardinality(0..(ActionCount - 1)) = ActionCount
<1>1. IsFiniteSet(0..(ActionCount - 1)) /\ Cardinality(0..(ActionCount - 1)) = ActionCount
  <2>1. ActionCount \in Nat
    BY ArgumentFacts
  <2>2. 0 \in Int /\ ActionCount - 1 \in Int
    BY <2>1
  <2>3. Cardinality(0..(ActionCount - 1)) = IF 0 > ActionCount - 1 THEN 0 ELSE (ActionCount - 1) - 0 + 1
    BY <2>2, FS_Interval
  <2> QED
    BY <2>1, <2>2, <2>3, FS_Interval
<1>2. IsFiniteSet(sentActions)
  BY <1>1, FS_Subset DEF TypeOK
<1>3. Cardinality(sentActions) \in Nat
  BY <1>2, FS_CardinalityType
<1>4. \A x : x \notin sentActions => Cardinality(sentActions \cup {x}) = Cardinality(sentActions) + 1
  BY <1>2, FS_AddElement
<1> QED
  BY <1>1, <1>2, <1>3, <1>4

\* The loops over the signatures leave a list that is good throughout.
LEMMA AllGood ==
    ASSUME NEW t \in Seq(BOOLEAN), \A i \in DOMAIN t : t[i]
    PROVE  t \in [1..Len(t) -> {TRUE}]
<1>1. t \in [1..Len(t) -> BOOLEAN] /\ DOMAIN t = 1..Len(t)
  OBVIOUS
<1>2. \A i \in 1..Len(t) : t[i] \in {TRUE}
  BY <1>1, Zenon
<1> QED
  BY <1>1, <1>2, Zenon

LEMMA InitIInv == Init => IInv
<1> SUFFICES ASSUME Init PROVE IInv
  OBVIOUS
<1>1. arg \in ArgumentSet
  BY ZcashAssumption DEF Init
<1>2. arg.outputs \in Nat /\ arg.inputs \in Nat
  BY <1>1 DEF ArgumentSet
<1>3. TypeOK
  BY <1>2 DEF Init, TypeOK
<1>4. Progress
  BY <1>2 DEF Init, Progress
<1>5. ActionsSent /\ StreamedInOrder
  BY DEF Init, ActionsSent, StreamedInOrder
<1> QED
  BY <1>3, <1>4, <1>5 DEF IInv

-----------------------------------------------------------------------------
\* Sending the k-th piece in its place keeps the order, if it is new.
LEMMA AppendInOrder ==
    ASSUME TypeOK, StreamedInOrder,
           NEW p \in PieceSet,
           trail' = Append(trail, p), arg' = arg,
           \A k \in 1..Len(trail) : trail[k] # p,
           p = CASE Len(trail) + 1 <= arg.outputs -> Piece("output", Len(trail))
                 [] Len(trail) + 1 > arg.outputs /\ Len(trail) + 1 <= arg.outputs + arg.inputs ->
                       Piece("input", Len(trail) + 1 - arg.outputs - 1)
                 [] OTHER -> Piece("action", p.at)
    PROVE  StreamedInOrder' /\ trail' \in Seq(PieceSet)
           /\ Len(trail') = Len(trail) + 1
           /\ trail'[Len(trail) + 1] = p
           /\ \A k \in 1..Len(trail) : trail'[k] = trail[k]
<1>1. /\ trail' \in Seq(PieceSet) /\ Len(trail') = Len(trail) + 1
      /\ trail'[Len(trail) + 1] = p
      /\ \A k \in 1..Len(trail) : trail'[k] = trail[k]
  BY DEF TypeOK
<1>2. arg.outputs \in Nat /\ arg.inputs \in Nat /\ Len(trail) \in Nat
  BY ArgumentFacts
<1>3. \A k \in 1..Len(trail)' :
         trail'[k] = CASE k <= arg.outputs -> Piece("output", k - 1)
                       [] k > arg.outputs /\ k <= arg.outputs + arg.inputs ->
                             Piece("input", k - arg.outputs - 1)
                       [] OTHER -> Piece("action", trail'[k].at)
  <2> TAKE k \in 1..Len(trail)'
  <2>1. CASE k \in 1..Len(trail)
    BY <1>1, <1>2, <2>1 DEF StreamedInOrder
  <2>2. CASE k = Len(trail) + 1
    BY <1>1, <1>2, <2>2
  <2> QED
    BY <1>1, <1>2, <2>1, <2>2
<1>4. \A j, k \in 1..Len(trail)' : trail'[j] = trail'[k] => j = k
  BY <1>1, <1>2 DEF StreamedInOrder
<1>5. StreamedInOrder'
  BY <1>3, <1>4 DEF StreamedInOrder
<1> QED
  BY <1>1, <1>5

LEMMA NextIInv == IInv /\ [Next]_vars => IInv'
<1> SUFFICES ASSUME IInv, [Next]_vars PROVE IInv'
  OBVIOUS
<1> USE DEF IInv
<1>0. /\ arg.outputs \in Nat /\ arg.inputs \in Nat /\ ActionCount \in Nat
      /\ Len(trail) \in Nat /\ sentOutputs \in 0..arg.outputs /\ sentInputs \in 0..arg.inputs
  BY ArgumentFacts DEF TypeOK
\* Most steps send nothing: the order and the types of what was sent stay.
<1>f. ASSUME UNCHANGED <<arg, sentOutputs, sentInputs, sentActions, trail>>
      PROVE  StreamedInOrder' /\ ActionsSent' /\ ActionCount' = ActionCount
  BY <1>f DEF StreamedInOrder, ActionsSent, ActionCount, Stream
<1>t. ASSUME UNCHANGED <<arg, sentOutputs, sentInputs, sentActions, trail>>,
             pc' \in {"start", "called", "got", "done", "raised"},
             stage' \in {"outputs", "inputs", "actions", "final", "second"},
             resp' \in Messages \cup {Other}, transparent' \in Seq(BOOLEAN)
      PROVE  TypeOK'
  BY <1>f, <1>t DEF TypeOK
<1>a. ASSUME Raise PROVE IInv'
  <2>1. TypeOK' /\ StreamedInOrder' /\ ActionsSent' /\ ActionCount' = ActionCount
    BY <1>a, <1>f, <1>t DEF Raise, TypeOK
  <2>2. Progress'
    BY <1>a, <2>1 DEF Raise, Progress, AllPlaintextSent
  <2> QED
    BY <2>1, <2>2
<1>1. CASE RejectArguments
  <2>1. TypeOK' /\ StreamedInOrder' /\ ActionsSent' /\ ActionCount' = ActionCount
    BY <1>1, <1>f, <1>t DEF RejectArguments, TypeOK
  <2>2. Progress'
    BY <1>1, <2>1 DEF RejectArguments, Progress, AllPlaintextSent
  <2> QED
    BY <2>1, <2>2
<1>2. CASE CallSignPczt
  <2>1. TypeOK' /\ StreamedInOrder' /\ ActionsSent' /\ ActionCount' = ActionCount
    BY <1>2, <1>f, <1>t DEF CallSignPczt, TypeOK
  <2>2. Progress'
    BY <1>2, <2>1 DEF CallSignPczt, Progress, AllPlaintextSent
  <2> QED
    BY <2>1, <2>2
<1>3. CASE SendOutput
  <2>1. /\ stage = "outputs" /\ sentInputs = 0 /\ sentActions = {} /\ Len(trail) = sentOutputs
        /\ sentOutputs < arg.outputs
    BY <1>0, <1>3 DEF SendOutput, Loop, MoreOutputs, Progress
  <2> DEFINE p == Piece("output", sentOutputs)
  <2>2. p \in PieceSet
    BY <1>0 DEF Piece, PieceSet
  <2>3. trail' = Append(trail, p) /\ arg' = arg
    BY <1>3 DEF SendOutput, SendPiece
  <2>4. \A k \in 1..Len(trail) : trail[k] # p
    BY <1>0, <2>1 DEF StreamedInOrder, Piece
  <2>5. /\ StreamedInOrder' /\ trail' \in Seq(PieceSet) /\ Len(trail') = Len(trail) + 1
    BY <1>0, <2>1, <2>2, <2>3, <2>4, AppendInOrder
  <2>6. ActionsSent'
    BY <1>0, <2>1, <2>3, <2>5 DEF ActionsSent
  <2>7. TypeOK'
    BY <1>0, <1>3, <2>1, <2>5 DEF SendOutput, SendPiece, TypeOK, ActionCount, Stream
  <2>8. Progress'
    BY <1>0, <1>3, <2>1, <2>5 DEF SendOutput, SendPiece, Progress
  <2> QED
    BY <2>5, <2>6, <2>7, <2>8
<1>4. CASE RejectOutput
  BY <1>4, <1>a DEF RejectOutput
<1>5. CASE LeaveOutputs
  <2>1. /\ Enter("inputs") /\ stage = "outputs" /\ pc = "got"
        /\ sentOutputs = arg.outputs \/ resp.kind # "TransparentAck"
    BY <1>0, <1>5 DEF LeaveOutputs, Loop, MoreOutputs
  <2>2. TypeOK' /\ StreamedInOrder' /\ ActionsSent'
    BY <2>1, <1>f, <1>t DEF Enter, TypeOK
  <2>3. Progress'
    BY <2>1 DEF Enter, Progress, AllPlaintextSent
  <2> QED
    BY <2>2, <2>3
<1>6. CASE SendInput
  <2>1. /\ stage = "inputs" /\ sentActions = {} /\ Len(trail) = sentOutputs + sentInputs
        /\ sentInputs < arg.inputs /\ sentOutputs = arg.outputs
    BY <1>0, <1>6 DEF SendInput, Loop, MoreInputs, Progress
  <2> DEFINE p == Piece("input", sentInputs)
  <2>2. p \in PieceSet
    BY <1>0 DEF Piece, PieceSet
  <2>3. trail' = Append(trail, p) /\ arg' = arg
    BY <1>6 DEF SendInput, SendPiece
  <2>4. \A k \in 1..Len(trail) : trail[k] # p
    <3> TAKE k \in 1..Len(trail)
    <3>1. CASE k <= arg.outputs
      <4>1. trail[k] = Piece("output", k - 1)
        BY <1>0, <3>1 DEF StreamedInOrder
      <4> QED
        BY <4>1 DEF Piece
    <3>2. CASE k > arg.outputs
      <4>1. trail[k] = Piece("input", k - arg.outputs - 1) /\ k - arg.outputs - 1 # sentInputs
        BY <1>0, <2>1, <3>2 DEF StreamedInOrder
      <4> QED
        BY <4>1 DEF Piece
    <3> QED
      BY <1>0, <3>1, <3>2
  <2>5. /\ StreamedInOrder' /\ trail' \in Seq(PieceSet) /\ Len(trail') = Len(trail) + 1
    BY <1>0, <2>1, <2>2, <2>3, <2>4, AppendInOrder
  <2>6. ActionsSent'
    BY <1>0, <2>1, <2>3, <2>5 DEF ActionsSent
  <2>7. TypeOK'
    BY <1>0, <1>6, <2>1, <2>5 DEF SendInput, SendPiece, TypeOK, ActionCount, Stream
  <2>8. Progress'
    BY <1>0, <1>6, <2>1, <2>5 DEF SendInput, SendPiece, Progress
  <2> QED
    BY <2>5, <2>6, <2>7, <2>8
<1>7. CASE RejectInput
  BY <1>7, <1>a DEF RejectInput
<1>8. CASE LeaveInputs
  <2>1. CASE AllPlaintextSent
    <3>1. Cardinality(sentActions) = 0
      BY <1>8, FS_EmptySet DEF LeaveInputs, Loop, Progress
    <3>2. Enter("actions") /\ stage = "inputs" /\ pc = "got"
      BY <1>8, <2>1 DEF LeaveInputs, Loop
    <3>3. TypeOK' /\ StreamedInOrder' /\ ActionsSent'
      BY <3>2, <1>f, <1>t DEF Enter, TypeOK
    <3>4. Len(trail) = arg.outputs + arg.inputs + Cardinality(sentActions)
      BY <1>0, <2>1, <3>1, <3>2 DEF AllPlaintextSent, Progress
    <3>5. Progress'
      BY <2>1, <3>2, <3>4 DEF Enter, Progress, AllPlaintextSent
    <3> QED
      BY <3>3, <3>5
  <2>2. CASE ~AllPlaintextSent
    BY <1>8, <1>a, <2>2 DEF LeaveInputs
  <2> QED
    BY <2>1, <2>2
<1>9. CASE SendAction
  <2>1. /\ stage = "actions" /\ AllPlaintextSent
        /\ Len(trail) = arg.outputs + arg.inputs + Cardinality(sentActions)
        /\ resp.action \in 0..(ActionCount - 1) \ sentActions
    BY <1>9 DEF SendAction, Loop, NextAction, Progress
  <2> DEFINE p == Piece("action", resp.action)
  <2>2. p \in PieceSet /\ p.at = resp.action /\ p.kind = "action"
    BY <1>0, <2>1 DEF Piece, PieceSet
  <2>3. trail' = Append(trail, p) /\ arg' = arg /\ sentActions' = sentActions \cup {resp.action}
    BY <1>9 DEF SendAction, SendPiece
  <2>4. \A k \in 1..Len(trail) : trail[k] # p
    <3> TAKE k \in 1..Len(trail)
    <3>1. CASE k > arg.outputs + arg.inputs
      BY <2>1, <2>2, <3>1 DEF ActionsSent
    <3>2. CASE k <= arg.outputs + arg.inputs
      <4>1. trail[k] = Piece("output", k - 1) \/ trail[k] = Piece("input", k - arg.outputs - 1)
        BY <1>0, <3>2 DEF StreamedInOrder
      <4> QED
        BY <2>2, <4>1 DEF Piece
    <3> QED
      BY <1>0, <3>1, <3>2
  <2>5. /\ Cardinality(sentActions) \in Nat
        /\ Cardinality(sentActions') = Cardinality(sentActions) + 1
    BY <2>1, <2>3, ActionsFinite
  <2>10. p = Piece("action", p.at) /\ Len(trail) + 1 > arg.outputs + arg.inputs
    BY <1>0, <2>1, <2>2, <2>5
  <2> HIDE DEF p
  <2>11. p = CASE Len(trail) + 1 <= arg.outputs -> Piece("output", Len(trail))
               [] Len(trail) + 1 > arg.outputs /\ Len(trail) + 1 <= arg.outputs + arg.inputs ->
                     Piece("input", Len(trail) + 1 - arg.outputs - 1)
               [] OTHER -> Piece("action", p.at)
    BY <1>0, <2>10
  <2>6. /\ StreamedInOrder' /\ trail' \in Seq(PieceSet) /\ Len(trail') = Len(trail) + 1
        /\ trail'[Len(trail) + 1] = p
        /\ \A k \in 1..Len(trail) : trail'[k] = trail[k]
    BY <2>2, <2>3, <2>4, <2>11, AppendInOrder
  <2>7. ActionsSent'
    BY <1>0, <2>2, <2>3, <2>6 DEF ActionsSent
  <2>8. TypeOK'
    BY <1>0, <1>9, <2>1, <2>6 DEF SendAction, SendPiece, TypeOK, ActionCount, Stream
  <2>9. Progress'
    <3>1. /\ UNCHANGED <<arg, stage, transparent, sentOutputs, sentInputs>> /\ pc' = "called"
          /\ transparent = <<>>
      BY <1>9, <2>1 DEF SendAction, SendPiece, Progress
    <3>2. Len(trail') = arg.outputs + arg.inputs + Cardinality(sentActions')
      <4>1. Len(trail') = Len(trail) + 1
        BY <2>6
      <4>2. \A c \in Nat : Len(trail) = arg.outputs + arg.inputs + c
                           => Len(trail) + 1 = arg.outputs + arg.inputs + (c + 1)
        BY <1>0
      <4> QED
        BY <2>1, <2>5, <4>1, <4>2
    <3> QED
      BY <2>1, <3>1, <3>2 DEF Progress, AllPlaintextSent
  <2> QED
    BY <2>6, <2>7, <2>8, <2>9
<1>10. CASE RejectAction
  BY <1>10, <1>a DEF RejectAction
<1>11. CASE LeaveActions
  <2>1. CASE sentActions = 0..(ActionCount - 1)
    <3>1. Enter("final") /\ stage = "actions" /\ pc = "got"
      BY <1>11, <2>1 DEF LeaveActions, Loop
    <3>2. TypeOK' /\ StreamedInOrder' /\ ActionsSent' /\ ActionCount' = ActionCount
      BY <3>1, <1>f, <1>t DEF Enter, TypeOK
    <3>3. Progress'
      BY <2>1, <3>1, <3>2 DEF Enter, Progress, AllPlaintextSent
    <3> QED
      BY <3>2, <3>3
  <2>2. CASE sentActions # 0..(ActionCount - 1)
    BY <1>11, <1>a, <2>2 DEF LeaveActions
  <2> QED
    BY <2>1, <2>2
<1>12. CASE TakeTransparent
  <2>1. resp.signatures \in Seq(BOOLEAN)
    BY <1>12, ZcashAssumption DEF TakeTransparent, TypeOK, Messages, Acks, ActionAcks, SignatureMessages, Others, Other
  <2>2. TypeOK' /\ StreamedInOrder' /\ ActionsSent' /\ ActionCount' = ActionCount
    BY <1>12, <2>1, <1>f, <1>t DEF TakeTransparent, TypeOK
  <2>3. Progress'
    BY <1>12, <2>2 DEF TakeTransparent, Loop, Progress, AllPlaintextSent
  <2> QED
    BY <2>2, <2>3
<1>13. CASE Return
  <2>1. TypeOK' /\ StreamedInOrder' /\ ActionsSent' /\ ActionCount' = ActionCount
    BY <1>13, <1>f, <1>t DEF Return, TypeOK
  <2>2. Acceptable' = Acceptable
    BY <1>13 DEF Return, Acceptable, Spends, ActionCount, Stream
  <2>3. pc' = "done" => stage \in {"final", "second"} /\ Acceptable
    BY <1>13 DEF Return, Loop
  <2>4. /\ pc = "got" /\ pc' \in {"done", "raised"} /\ stage \in {"final", "second"}
        /\ UNCHANGED <<arg, stage, resp, sentOutputs, sentInputs, sentActions, transparent, trail>>
    BY <1>13 DEF Return, Loop
  <2>5. Progress'
    BY <2>1, <2>2, <2>3, <2>4 DEF Progress, AllPlaintextSent
  <2> QED
    BY <2>1, <2>5
<1>14. CASE Device
  <2>1. PICK r \in Messages : Respond(r)
    BY <1>14 DEF Device
  <2>2. TypeOK' /\ StreamedInOrder' /\ ActionsSent' /\ ActionCount' = ActionCount
    BY <2>1, <1>f, <1>t DEF Respond, TypeOK
  <2>3. Progress'
    BY <2>1, <2>2 DEF Respond, Progress, AllPlaintextSent
  <2> QED
    BY <2>2, <2>3
<1>15. CASE UNCHANGED vars
  <2>1. TypeOK' /\ StreamedInOrder' /\ ActionsSent' /\ ActionCount' = ActionCount
    BY <1>15, <1>f, <1>t DEF vars, TypeOK
  <2>2. Acceptable' = Acceptable
    BY <1>15 DEF vars, Acceptable, Spends, ActionCount, Stream
  <2>3. Progress'
    BY <1>15, <2>1, <2>2 DEF vars, Progress, AllPlaintextSent
  <2> QED
    BY <2>1, <2>3
<1> QED
  BY <1>1, <1>2, <1>3, <1>4, <1>5, <1>6, <1>7, <1>8, <1>9, <1>10, <1>11, <1>12, <1>13, <1>14, <1>15
     DEF Next, Host

-----------------------------------------------------------------------------
LEMMA Inductive == Spec => []IInv
<1> QED
  BY InitIInv, NextIInv, PTL DEF Spec

\* The local state of zcash_sign_pczt keeps its types.
THEOREM TypeCorrect == Spec => []TypeOK
<1>1. IInv => TypeOK
  BY DEF IInv
<1> QED
  BY <1>1, Inductive, PTL

\* Outputs, inputs and actions go out in this order, each piece once.
THEOREM InOrder == Spec => []StreamedInOrder
<1>1. IInv => StreamedInOrder
  BY DEF IInv
<1> QED
  BY <1>1, Inductive, PTL

\* A result means that everything was sent and everything was signed.
THEOREM Complete == Spec => []CompleteOrRaise
<1>1. IInv => CompleteOrRaise
  <2> SUFFICES ASSUME IInv, pc = "done"
               PROVE  /\ Len(trail) = arg.outputs + arg.inputs + ActionCount
                      /\ transparent \in [1..arg.inputs -> {TRUE}]
                      /\ resp.kind = "SignedPCZT"
                      /\ resp.signatures \in [1..Cardinality(Spends) -> {TRUE}]
    BY DEF CompleteOrRaise
  <2>1. stage \in {"final", "second"} /\ Acceptable /\ TypeOK
    BY DEF IInv, Progress
  <2>2. Len(trail) = arg.outputs + arg.inputs + ActionCount
    BY <2>1, ActionsFinite DEF IInv, Progress
  <2>3. transparent \in Seq(BOOLEAN)
    BY <2>1 DEF TypeOK
  <2>4. transparent \in [1..arg.inputs -> {TRUE}]
    BY <2>1, <2>3, AllGood DEF Acceptable
  <2>5. resp.kind = "SignedPCZT"
    BY <2>1 DEF Acceptable
  <2>6. resp.signatures \in Seq(BOOLEAN)
    BY <2>1, <2>5, ZcashAssumption DEF TypeOK, Messages, Acks, ActionAcks, SignatureMessages, Others, Other
  <2>7. resp.signatures \in [1..Cardinality(Spends) -> {TRUE}]
    BY <2>1, <2>6, AllGood DEF Acceptable
  <2> QED
    BY <2>2, <2>4, <2>5, <2>7
<1> QED
  BY <1>1, Inductive, PTL

\* Signatures are taken only after the last piece has been sent.
THEOREM Last == Spec => []SignaturesLast
<1>1. IInv => SignaturesLast
  <2> SUFFICES ASSUME IInv, transparent # <<>>
               PROVE  Len(trail) = arg.outputs + arg.inputs + ActionCount
    BY DEF SignaturesLast
  <2>1. stage \in {"final", "second"} /\ TypeOK
    BY DEF IInv, Progress
  <2> QED
    BY <2>1, ActionsFinite DEF IInv, Progress
<1> QED
  BY <1>1, Inductive, PTL

\* zcash_sign_pczt() sends its three lists in order and takes signatures last.
THEOREM StreamCorrect == Spec => []StreamRight
<1>1. TypeOK /\ StreamedInOrder /\ SignaturesLast => StreamRight
  BY DEF StreamRight
<1> QED
  BY <1>1, TypeCorrect, InOrder, Last, PTL
=============================================================================
