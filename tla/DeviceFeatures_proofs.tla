------------------------- MODULE DeviceFeatures_proofs -------------------------
(* The cached features are the device's, and the guards of the operations     *)
(* that read them mean the device, for any number of operations and faults;   *)
(* and a test that passes has seen its script, for any nesting of blocks.     *)
EXTENDS MCDeviceFeatures, SequenceTheorems, TLAPS

AlmostFresh == features = [dev EXCEPT !.advanced = features.advanced]

\* Until the answer of an operation the cache is as fresh as it was before;
\* between its answer and the refresh only clear_session keeps it so.
IInv ==
    /\ TypeOK
    /\ pc # "answered" /\ ~doubt => AlmostFresh /\ (~cleared => features = dev)
    /\ pc = "answered" /\ op = "clear" /\ ~doubt => AlmostFresh

LEMMA InitInv == Init => IInv
<1> SUFFICES ASSUME Init PROVE IInv
  OBVIOUS
<1>1. dev \in States /\ features = dev
  BY DEF Init
<1>2. AlmostFresh
  BY <1>1 DEF AlmostFresh, States
<1>3. TypeOK
  <2>1. 0 \in 0..MaxFaults
    BY FaultAssumption
  <2>2. features \in States
    BY <1>1
  <2> QED
    BY <1>1, <2>1, <2>2, Zenon DEF Init, TypeOK, Operations
<1> QED
  BY <1>1, <1>2, <1>3 DEF Init, IInv

LEMMA EffectType == TypeOK => Effect \in States
BY DEF TypeOK, Effect, States

LEMMA StepInv == IInv /\ [Next]_vars => IInv'
<1> SUFFICES ASSUME IInv, [Next]_vars PROVE IInv'
  OBVIOUS
<1> USE FaultAssumption
<1>1. ASSUME NEW o \in Operations, Refuse(o) PROVE IInv'
  BY <1>1 DEF Refuse, End, IInv, TypeOK, AlmostFresh, operation
<1>2. ASSUME NEW o \in Operations, NEW f \in BOOLEAN, Begin(o, f) PROVE IInv'
  BY <1>2 DEF Begin, IInv, TypeOK, AlmostFresh
<1>3. CASE Entropy
  BY <1>3 DEF Entropy, IInv, TypeOK, AlmostFresh, operation
<1>4. ASSUME NEW a \in {"Success", "Other"}, Execute(a) PROVE IInv'
  <2>1. TypeOK'
    BY <1>4, EffectType DEF Execute, LastMessage, IInv, TypeOK, operation
  <2>2. op = "clear" /\ ~doubt => AlmostFresh'
    BY <1>4 DEF Execute, LastMessage, IInv, TypeOK, AlmostFresh, Effect, States
  <2> QED
    BY <1>4, <2>1, <2>2 DEF Execute, IInv, operation
<1>5. CASE Failure
  BY <1>5 DEF Failure, End, IInv, TypeOK, AlmostFresh, operation
<1>6. CASE Lost
  BY <1>6, EffectType DEF Lost, End, IInv, TypeOK, operation
<1>7. CASE Refresh
  BY <1>7 DEF Refresh, End, IInv, TypeOK, AlmostFresh, States, operation
<1>8. CASE RefreshLost
  BY <1>8 DEF RefreshLost, End, IInv, TypeOK, operation
<1>9. CASE ReturnUnrefreshed
  BY <1>9 DEF ReturnUnrefreshed, Refreshing, End, IInv, TypeOK, AlmostFresh, operation
<1>10. CASE UNCHANGED vars
  BY <1>10 DEF vars, operation, IInv, TypeOK, AlmostFresh
<1> QED
  BY <1>1, <1>2, <1>3, <1>4, <1>5, <1>6, <1>7, <1>8, <1>9, <1>10 DEF Next

LEMMA Inductive == Spec => []IInv
BY InitInv, StepInv, PTL DEF Spec

\* Between operations client.features is the device's state, unless an answer
\* was lost after the last refresh; clear_session leaves one field behind.
THEOREM FreshCache == Spec => []CacheFresh
<1>1. IInv => CacheFresh
  BY DEF IInv, CacheFresh, AlmostFresh
<1> QED
  BY <1>1, Inductive, PTL

\* No seed goes to an initialised device and no dry run to an empty one, as
\* long as no answer was lost: the cached flag that guards them is right.
THEOREM GuardsCorrect == Spec => GuardsMeanTheDevice
<1> DEFINE Guarded == pc' = "sent" /\ ~doubt =>
          /\ op' \in {"load", "reset"} => ~dev.initialized
          /\ op' = "dry_run" => dev.initialized
<1>1. IInv /\ Next => Guarded \/ UNCHANGED vars
  <2> SUFFICES ASSUME IInv, Next, pc' = "sent", ~doubt
               PROVE  (op' \in {"load", "reset"} => ~dev.initialized)
                      /\ (op' = "dry_run" => dev.initialized)
    OBVIOUS
  <2>1. PICK o \in Operations, f \in BOOLEAN : Begin(o, f)
    BY DEF Next, Refuse, Entropy, Execute, Failure, Lost, Refresh, RefreshLost, ReturnUnrefreshed, End
  <2>2. features.initialized = dev.initialized
    BY <2>1 DEF Begin, IInv, TypeOK, AlmostFresh, States
  <2> QED
    BY <2>1, <2>2 DEF Begin, Allowed
<1>2. IInv /\ [Next]_vars => [Guarded]_vars
  BY <1>1
<1> QED
  BY <1>2, Inductive, PTL DEF Spec, GuardsMeanTheDevice

-----------------------------------------------------------------------------
(* The script of a test *)

Lists == Seq(Responses)

ScriptTypeOK ==
    /\ expected \in Lists \cup {T!None} /\ script \in Lists \cup {T!None}
    /\ got \in Lists
    /\ depth \in Nat
    /\ raising \in BOOLEAN /\ nested \in BOOLEAN /\ caught \in BOOLEAN /\ passed \in BOOLEAN

\* While nothing has gone wrong in its block, a script is what has come and
\* what is still expected.
Following ==
    depth > 0 /\ script # T!None /\ ~nested /\ ~caught /\ ~raising =>
        expected # T!None /\ script = got \o expected

ScriptInv ==
    /\ ScriptTypeOK
    /\ Following
    /\ passed => depth = 0
    /\ ScriptRight

LEMMA NoneIsNoList == T!None \notin Lists /\ T!None # <<>>
BY ScriptAssumption DEF T!None, Lists

LEMMA ScriptsAreLists == T!Scripts \subseteq Lists
BY ScriptAssumption DEF T!Scripts, Lists

\* A response that is expected goes from the front of one list to the end of
\* the other.
LEMMA OneMoreCame ==
    ASSUME NEW e \in Lists, NEW g \in Lists, e # <<>>
    PROVE  /\ Tail(e) \in Lists /\ Append(g, Head(e)) \in Lists
           /\ Append(g, Head(e)) \o Tail(e) = g \o e
<1> USE DEF Lists
<1>1. Head(e) \in Responses /\ Tail(e) \in Lists /\ <<Head(e)>> \in Lists
  BY HeadTailProperties
<1>2. Append(g, Head(e)) \in Lists /\ Append(g, Head(e)) = g \o <<Head(e)>>
  BY <1>1, AppendProperties, AppendIsConcat
<1>3. <<Head(e)>> \o Tail(e) = e
  <2>1. /\ Len(e) \in 1..Len(e)
        /\ SubSeq(e, 1, Len(e)) = e /\ SubSeq(e, 2, Len(e)) = Tail(e) /\ e[1] = Head(e)
    BY SubSeqFull, TailIsSubSeq
  <2> QED
    BY <2>1, SubSeqRecursiveFirst
<1>4. (g \o <<Head(e)>>) \o Tail(e) = g \o (<<Head(e)>> \o Tail(e))
  BY <1>1, ConcatAssociative
<1> QED
  BY <1>1, <1>2, <1>3, <1>4

LEMMA InitScriptInv == T!Init => ScriptInv
<1>1. <<>> \in Lists
  BY DEF Lists
<1> SUFFICES ASSUME T!Init PROVE ScriptInv
  OBVIOUS
<1>2. ScriptTypeOK
  BY <1>1 DEF T!Init, ScriptTypeOK
<1>3. Following
  BY DEF T!Init, Following
<1>4. ScriptRight
  BY DEF T!Init, ScriptRight, T!ScriptRight
<1> QED
  BY <1>2, <1>3, <1>4 DEF T!Init, ScriptInv

LEMMA StepScriptInv == ScriptInv /\ T!Next => ScriptInv'
<1> SUFFICES ASSUME ScriptInv, T!Next PROVE ScriptInv'
  OBVIOUS
<1> USE NoneIsNoList DEF ScriptInv, ScriptTypeOK, ScriptRight, T!ScriptRight
<1>1. CASE T!Enter
  <2>1. ScriptTypeOK'
    <3>1. script' \in Lists \cup {T!None} /\ depth' \in Nat
      BY <1>1 DEF T!Enter
    <3>2. passed' \in BOOLEAN /\ UNCHANGED <<expected, got, raising, nested, caught>>
      BY <1>1 DEF T!Enter
    <3> QED
      BY <3>1, <3>2, Zenon
  <2>2. Following'
    BY <1>1 DEF T!Enter, Following
  <2>3. depth' # 0 /\ ~passed'
    BY <1>1 DEF T!Enter
  <2> QED
    BY <2>1, <2>2, <2>3
<1>2. CASE T!SetOutsideBlock \/ T!Fail
  <2>1. ScriptTypeOK'
    BY <1>2 DEF T!SetOutsideBlock, T!Fail
  <2>2. raising' /\ UNCHANGED <<expected, depth, script, got, nested, caught, passed>>
    BY <1>2 DEF T!SetOutsideBlock, T!Fail
  <2> QED
    BY <2>1, <2>2 DEF Following
<1>3. CASE T!Catch
  BY <1>3 DEF T!Catch, Following
<1>4. CASE T!Exit
  <2>1. ScriptTypeOK' /\ ~passed
    <3>1. depth - 1 \in Nat /\ ~passed /\ depth' = depth - 1 /\ UNCHANGED <<script, got, caught>>
      BY <1>4 DEF T!Exit
    <3>2. nested' \in BOOLEAN /\ raising' \in BOOLEAN /\ passed' \in BOOLEAN
      BY <1>4, Zenon DEF T!Exit
    <3>3. expected' \in Lists \cup {T!None}
      BY <1>4 DEF T!Exit
    <3> QED
      BY <3>1, <3>2, <3>3, Zenon
  <2>2. CASE expected \in {T!None, <<>>}
    <3>1. Following'
      <4>1. depth > 1 \/ depth' = 0
        BY <1>4 DEF T!Exit
      <4>2. depth > 1 => nested'
        BY <1>4, Zenon DEF T!Exit
      <4> QED
        BY <4>1, <4>2 DEF Following
    <3>2. script # T!None /\ ~nested /\ ~caught => got = script
      BY <1>4, <2>2, ConcatEmptySeq DEF T!Exit, Following, Lists
    <3> QED
      BY <1>4, <2>1, <2>2, <3>1, <3>2 DEF T!Exit
  <2>3. CASE expected \notin {T!None, <<>>}
    BY <1>4, <2>1, <2>3 DEF T!Exit, Following
  <2> QED
    BY <2>2, <2>3
<1>5. CASE T!ExitRaising
  <2>1. ScriptTypeOK' /\ ~passed /\ raising'
    BY <1>5 DEF T!ExitRaising
  <2> QED
    BY <1>5, <2>1 DEF T!ExitRaising, Following
<1>6. ASSUME NEW list \in T!Scripts, T!SetExpectedResponses(list) PROVE ScriptInv'
  <2>1. list \in Lists /\ list # T!None /\ <<>> \in Lists
    BY ScriptsAreLists DEF Lists
  <2>2. <<>> \o list = list
    BY <2>1, ConcatEmptySeq DEF Lists
  <2>3. /\ expected' = list /\ script' = list /\ got' = <<>> /\ nested' = FALSE /\ caught' = FALSE
        /\ UNCHANGED <<depth, raising, passed>> /\ depth > 0
    BY <1>6 DEF T!SetExpectedResponses
  <2>4. ScriptTypeOK'
    BY <2>1, <2>3
  <2>5. Following'
    BY <2>1, <2>2, <2>3 DEF Following
  <2>6. depth' # 0 /\ ~passed'
    BY <2>3
  <2> QED
    BY <2>4, <2>5, <2>6
<1>7. ASSUME NEW r \in Responses, T!CheckRequest(r) PROVE ScriptInv'
  <2>1. Append(got, r) \in Lists
    BY DEF Lists
  <2>2. CASE expected \in {T!None, <<>>}
    BY <1>7, <2>1, <2>2 DEF T!CheckRequest, Following
  <2>3. CASE expected \notin {T!None, <<>>}
    <3>1. /\ Tail(expected) \in Lists
          /\ r = Head(expected) => Append(got, r) \o Tail(expected) = got \o expected
      BY <2>3, OneMoreCame
    <3>2. /\ expected' = Tail(expected) /\ got' = Append(got, r) /\ raising' \in BOOLEAN
          /\ passed' = FALSE /\ UNCHANGED <<depth, script, nested, caught>>
      BY <1>7, <2>3 DEF T!CheckRequest
    <3>3. ~raising /\ (~raising' => Head(expected) = r)
      BY <1>7, <2>3 DEF T!CheckRequest
    <3>4. Following'
      BY <3>1, <3>2, <3>3 DEF Following
    <3>5. ScriptTypeOK'
      BY <2>1, <3>1, <3>2
    <3> QED
      BY <2>3, <3>2, <3>3, <3>4, <3>5
  <2> QED
    BY <2>2, <2>3
<1> QED
  BY <1>1, <1>2, <1>3, <1>4, <1>5, <1>6, <1>7 DEF T!Next

\* A test that passes has seen its script: an outermost "with client:" that
\* ends without an exception, none having been caught in it and no inner
\* block having dropped the list, got exactly the listed responses; and a list
\* outlives its block only when an exception ended it.
THEOREM ScriptsAreSeen == KeptSpec => []ScriptRight
<1>1. KeptInit => ScriptInv
  BY InitScriptInv DEF KeptInit
<1>2. ScriptInv /\ [KeptNext]_KeptVars => ScriptInv'
  <2> SUFFICES ASSUME ScriptInv, [KeptNext]_KeptVars PROVE ScriptInv'
    OBVIOUS
  <2>1. CASE T!Next
    BY <2>1, StepScriptInv
  <2>2. CASE UNCHANGED ScriptVars
    BY <2>2 DEF ScriptVars, ScriptInv, ScriptTypeOK, Following, ScriptRight, T!ScriptRight
  <2> QED
    BY <2>1, <2>2 DEF KeptNext, KeptVars
<1>3. ScriptInv => ScriptRight
  BY DEF ScriptInv
<1> QED
  BY <1>1, <1>2, <1>3, PTL DEF KeptSpec
=============================================================================
