---------------------------- MODULE Bridge_proofs ----------------------------
(* No client that has lost its place keeps the device, for any number of       *)
(* requests at a time, failing transfers and unplugged devices.                *)
EXTENDS Bridge, TLAPS

Places == {"idle", "entry", "test", "close", "release", "forget", "enumerate", "open",
           "features", "assign", "look", "call", "read"}
Requests == [pc : Places, kind : Kinds, stage : {"opening", "failing", "reopening"},
             using : Clients \cup {None}, status : {0, 200, 400, 404, 500}, clean : BOOLEAN]

TypeOK ==
    /\ kkClient \in Clients \cup {None}
    /\ handle \in [Clients -> {"free", "open", "closed", "dead"}]
    /\ req \in [Threads -> Requests]

\* A client is there as long as something refers to it, and no longer.
Referred ==
    /\ kkClient # None => handle[kkClient] # "free"
    /\ \A t \in Threads : req[t].using # None => handle[req[t].using] # "free"
    /\ \A c \in Clients : handle[c] # "free" =>
          c = kkClient \/ \E t \in Threads : req[t].using = c
    /\ \A t \in Threads : req[t].using # None => req[t].pc \in {"release", "features", "assign", "read"}

\* Only the thread that opens a client knows of it before the global does, so
\* nobody can have closed it.
NewIsPrivate ==
    \A t \in Threads : req[t].pc \in {"features", "assign"} /\ req[t].using # None =>
        /\ req[t].using # kkClient /\ handle[req[t].using] # "closed"
        /\ \A u \in Threads \ {t} : req[u].using # req[t].using

\* Who has closed the global is about to forget it.
ClosedIsForgotten ==
    kkClient # None /\ handle[kkClient] = "closed" => \E t \in Threads : req[t].pc = "forget"

IInv == TypeOK /\ Referred /\ NewIsPrivate /\ ClosedIsForgotten

LEMMA InitInv == Init => IInv
<1> SUFFICES ASSUME Init PROVE IInv
  OBVIOUS
<1>1. \A t \in Threads : req[t] \in Requests /\ req[t].pc = "idle" /\ req[t].using = None
  BY ClientsAssumption DEF Init, Ended, Requests, Places, Kinds
<1>2. req \in [Threads -> Requests] /\ handle \in [Clients -> {"free"}] /\ kkClient = None
  BY <1>1 DEF Init
<1> QED
  BY <1>1, <1>2, ClientsAssumption DEF IInv, TypeOK, Referred, NewIsPrivate, ClosedIsForgotten

-----------------------------------------------------------------------------
(* What Handles keeps is just what is referred to *)

LEMMA HandlesKeep ==
    ASSUME TypeOK', NEW h \in [Clients -> {"free", "open", "closed", "dead"}], Handles(h),
           kkClient' # None => h[kkClient'] # "free",
           \A t \in Threads : req'[t].using # None =>
               h[req'[t].using] # "free" /\ req'[t].pc \in {"release", "features", "assign", "read"}
    PROVE  /\ Referred'
           /\ kkClient' # None => handle'[kkClient'] = h[kkClient']
           /\ \A t \in Threads : req'[t].using # None => handle'[req'[t].using] = h[req'[t].using]
<1>1. \A c \in Clients : handle'[c] = IF c = kkClient' \/ \E t \in Threads : req'[t].using = c
                                     THEN h[c] ELSE "free"
  BY DEF Handles
<1>2. kkClient' \in Clients \cup {None} /\ \A t \in Threads : req'[t].using \in Clients \cup {None}
  BY DEF TypeOK, Requests
<1>3. kkClient' # None => handle'[kkClient'] = h[kkClient']
  BY <1>1, <1>2
<1>4. \A t \in Threads : req'[t].using # None => handle'[req'[t].using] = h[req'[t].using]
  BY <1>1, <1>2
<1>5. \A c \in Clients : handle'[c] # "free" => c = kkClient' \/ \E t \in Threads : req'[t].using = c
  BY <1>1
<1> QED
  BY <1>3, <1>4, <1>5 DEF Referred

\* As long as nothing refers to other clients than before, they all stay.
LEMMA HandlesStay ==
    ASSUME IInv, handle' = handle, kkClient' = kkClient, NEW t \in Threads,
           \A u \in Threads : req'[u].using = req[u].using
    PROVE  Handles(handle)
<1>1. \A c \in Clients : handle[c] = IF c = kkClient \/ \E u \in Threads : req[u].using = c
                                    THEN handle[c] ELSE "free"
  BY DEF IInv, TypeOK, Referred
<1>2. handle = [c \in Clients |-> IF c = kkClient \/ \E u \in Threads : req[u].using = c
                                  THEN handle[c] ELSE "free"]
  BY <1>1, Zenon DEF IInv, TypeOK
<1> QED
  BY <1>2 DEF Handles

\* A step of one thread that opens, closes and assigns nothing.
LEMMA PlainStep ==
    ASSUME IInv, TypeOK', NEW t \in Threads, Handles(handle),
           \A u \in Threads \ {t} : req'[u].pc = req[u].pc /\ req'[u].using = req[u].using,
           kkClient' \in {kkClient, None},
           req[t].pc = "forget" => kkClient' = None,
           req'[t].using # None =>
               \/ req'[t].using = kkClient /\ kkClient' = kkClient /\ req'[t].pc \in {"release", "read"}
               \/ req'[t].using = req[t].using /\ {req[t].pc, req'[t].pc} \subseteq {"features", "assign"}
    PROVE  IInv'
<1>1. \A u \in Threads : req'[u].using # None =>
          handle[req'[u].using] # "free" /\ req'[u].pc \in {"release", "features", "assign", "read"}
  BY DEF IInv, Referred
<1>2. kkClient' # None => handle[kkClient'] # "free"
  BY DEF IInv, Referred
<1>3. handle \in [Clients -> {"free", "open", "closed", "dead"}]
  BY DEF IInv, TypeOK
<1>4. /\ Referred'
      /\ kkClient' # None => handle'[kkClient'] = handle[kkClient']
      /\ \A u \in Threads : req'[u].using # None => handle'[req'[u].using] = handle[req'[u].using]
  BY <1>1, <1>2, <1>3, HandlesKeep
<1>5. NewIsPrivate'
  <2> SUFFICES ASSUME NEW u \in Threads, req'[u].pc \in {"features", "assign"}, req'[u].using # None
               PROVE  /\ req'[u].using # kkClient' /\ handle'[req'[u].using] # "closed"
                      /\ \A v \in Threads \ {u} : req'[v].using # req'[u].using
    BY DEF NewIsPrivate
  <2>1. req[u].pc \in {"features", "assign"} /\ req[u].using = req'[u].using
    BY DEF IInv, Referred
  <2>2. /\ req[u].using # kkClient /\ handle[req[u].using] # "closed"
        /\ \A v \in Threads \ {u} : req[v].using # req[u].using
    BY <2>1 DEF IInv, NewIsPrivate
  <2>3. ASSUME NEW v \in Threads \ {u} PROVE req'[v].using # req'[u].using
    BY <2>1, <2>2
  <2> QED
    BY <2>1, <2>2, <2>3, <1>4
<1>6. ClosedIsForgotten'
  <2> SUFFICES ASSUME kkClient' # None, handle'[kkClient'] = "closed"
               PROVE  \E u \in Threads : req'[u].pc = "forget"
    BY DEF ClosedIsForgotten
  <2>1. PICK u \in Threads : req[u].pc = "forget"
    BY <1>4 DEF IInv, ClosedIsForgotten
  <2> QED
    BY <2>1
<1> QED
  BY <1>4, <1>5, <1>6 DEF IInv

-----------------------------------------------------------------------------
(* The types of what the steps write *)

LEMMA EndedType ==
    ASSUME NEW r \in Requests, NEW s \in {200, 400, 404, 500}
    PROVE  /\ Ended(r, s) \in Requests
           /\ Ended(r, s).using = None /\ Ended(r, s).pc = "idle"
BY DEF Ended, Requests, Places, Kinds

LEMMA MovedRecord ==
    ASSUME NEW r \in Requests, NEW p \in Places, NEW c \in Clients \cup {None}
    PROVE  [r EXCEPT !.pc = p, !.using = c] \in Requests
<1> DEFINE q == [r EXCEPT !.pc = p]
<1>1. q \in Requests
  BY DEF Requests
<1>2. [q EXCEPT !.using = c] \in Requests
  <2> HIDE DEF q
  <2> QED
    BY <1>1 DEF Requests
<1>3. [r EXCEPT !.pc = p, !.using = c] = [q EXCEPT !.using = c]
  BY DEF Requests
<1> QED
  BY <1>2, <1>3

LEMMA RaisedType ==
    ASSUME NEW r \in Requests
    PROVE  Raised(r) \in Requests /\ Raised(r).using = None
<1>1. CASE r.pc \in {"call", "read"} /\ r.kind \in {"ping", "post"}
  <2> DEFINE q == [r EXCEPT !.pc = "close", !.using = None]
  <2>1. q \in Requests
    BY MovedRecord DEF Places
  <2>2. [q EXCEPT !.stage = "failing"] \in Requests /\ [q EXCEPT !.stage = "failing"].using = q.using
    <3> HIDE DEF q
    <3> QED
      BY <2>1 DEF Requests
  <2>3. Raised(r) = [q EXCEPT !.stage = "failing"] /\ q.using = None
    BY <1>1 DEF Raised, Requests
  <2> QED
    BY <2>2, <2>3
<1>2. CASE ~(r.pc \in {"call", "read"} /\ r.kind \in {"ping", "post"})
  BY <1>2, EndedType DEF Raised
<1> QED
  BY <1>1, <1>2

\* A step leaves its own thread at p with the client c, and the others alone.
Leaves(t, p, c) ==
    /\ req' \in [Threads -> Requests]
    /\ req'[t].pc = p /\ req'[t].using = c
    /\ \A u \in Threads \ {t} : req'[u].pc = req[u].pc /\ req'[u].using = req[u].using

LEMMA MovedLeaves ==
    ASSUME req \in [Threads -> Requests], NEW t \in Threads, NEW p \in Places, NEW c \in Clients \cup {None},
           GoWith(t, p, c)
    PROVE  Leaves(t, p, c)
<1> DEFINE r == [req[t] EXCEPT !.pc = p, !.using = c]
<1>1. r \in Requests
  BY MovedRecord
<1>2. r.pc = p /\ r.using = c
  BY DEF Requests
<1>3. req' = [req EXCEPT ![t] = r]
  BY DEF GoWith
<1> HIDE DEF r
<1> QED
  BY <1>1, <1>2, <1>3 DEF Leaves

LEMMA GoLeaves ==
    ASSUME req \in [Threads -> Requests], NEW t \in Threads, NEW p \in Places, Go(t, p)
    PROVE  Leaves(t, p, None)
BY MovedLeaves DEF Go, GoWith

LEMMA EndLeaves ==
    ASSUME req \in [Threads -> Requests], NEW t \in Threads, NEW s \in {200, 400, 404, 500}, End(t, s)
    PROVE  Leaves(t, "idle", None)
BY EndedType DEF End, Leaves

LEMMA RaiseLeaves ==
    ASSUME req \in [Threads -> Requests], NEW t \in Threads, Raise(t)
    PROVE  \E p \in Places : Leaves(t, p, None)
<1>1. req[t] \in Requests /\ Raised(req[t]) \in Requests /\ Raised(req[t]).using = None
  BY RaisedType
<1>2. Raised(req[t]).pc \in Places
  BY <1>1 DEF Requests
<1> QED
  BY <1>1, <1>2 DEF Raise, Leaves

LEMMA HandlesType ==
    ASSUME NEW h \in [Clients -> {"free", "open", "closed", "dead"}], Handles(h)
    PROVE  handle' \in [Clients -> {"free", "open", "closed", "dead"}]
BY DEF Handles

-----------------------------------------------------------------------------
(* The steps that open, close and assign nothing *)

LEMMA EntryInv == ASSUME IInv, NEW t \in Threads, Entry(t) PROVE IInv'
<1>1. req \in [Threads -> Requests] /\ req[t].using = None /\ req[t].pc # "forget"
  BY DEF IInv, TypeOK, Referred, Entry, At
<1>2. \E p \in Places : Leaves(t, p, None)
  BY <1>1, GoLeaves DEF Entry, Places
<1>3. TypeOK'
  BY <1>2 DEF IInv, TypeOK, Leaves, Entry
<1>4. Handles(handle)
  BY <1>1, <1>2, HandlesStay DEF Leaves, Entry
<1> QED
  BY <1>1, <1>2, <1>3, <1>4, PlainStep DEF Leaves, Entry

LEMMA TestInv == ASSUME IInv, NEW t \in Threads, Test(t) PROVE IInv'
<1>1. req \in [Threads -> Requests] /\ req[t].using = None /\ req[t].pc # "forget"
  BY DEF IInv, TypeOK, Referred, Test, At
<1>2. \E p \in Places : Leaves(t, p, None)
  BY <1>1, GoLeaves DEF Test, Places
<1>3. TypeOK'
  BY <1>2 DEF IInv, TypeOK, Leaves, Test
<1>4. Handles(handle)
  BY <1>1, <1>2, HandlesStay DEF Leaves, Test
<1> QED
  BY <1>1, <1>2, <1>3, <1>4, PlainStep DEF Leaves, Test

LEMMA EnumerateInv == ASSUME IInv, NEW t \in Threads, Enumerate(t) PROVE IInv'
<1>1. req \in [Threads -> Requests] /\ req[t].using = None /\ req[t].pc # "forget"
  BY DEF IInv, TypeOK, Referred, Enumerate, At
<1>2. \E p \in Places : Leaves(t, p, None)
  BY <1>1, GoLeaves DEF Enumerate, Places
<1>3. TypeOK'
  BY <1>2 DEF IInv, TypeOK, Leaves, Enumerate
<1>4. Handles(handle)
  BY <1>1, <1>2, HandlesStay DEF Leaves, Enumerate
<1> QED
  BY <1>1, <1>2, <1>3, <1>4, PlainStep DEF Leaves, Enumerate

LEMMA CloseInv == ASSUME IInv, NEW t \in Threads, Close(t) PROVE IInv'
<1>1. req \in [Threads -> Requests] /\ kkClient \in Clients \cup {None}
  BY DEF IInv, TypeOK
<1>2. \/ \E p \in Places : Leaves(t, p, None)
      \/ \E p \in {"release", "read"} : Leaves(t, p, kkClient) /\ kkClient' = kkClient
  BY <1>1, GoLeaves, MovedLeaves, RaiseLeaves DEF Close, Places
<1>3. kkClient' \in {kkClient, None} /\ Handles(handle)
  BY DEF Close
<1>4. req[t].pc = "forget" => kkClient' = None
  BY DEF Close, At
<1>5. TypeOK'
  BY <1>1, <1>2, <1>3, HandlesType DEF IInv, TypeOK, Leaves
<1> QED
  BY <1>2, <1>3, <1>4, <1>5, PlainStep DEF Leaves

LEMMA LookInv == ASSUME IInv, NEW t \in Threads, Look(t) PROVE IInv'
<1>1. req \in [Threads -> Requests] /\ kkClient \in Clients \cup {None}
  BY DEF IInv, TypeOK
<1>2. \/ \E p \in Places : Leaves(t, p, None)
      \/ \E p \in {"release", "read"} : Leaves(t, p, kkClient) /\ kkClient' = kkClient
  BY <1>1, GoLeaves, EndLeaves DEF Look, Places
<1>3. kkClient' \in {kkClient, None} /\ Handles(handle)
  BY DEF Look
<1>4. req[t].pc = "forget" => kkClient' = None
  BY DEF Look, At
<1>5. TypeOK'
  BY <1>1, <1>2, <1>3, HandlesType DEF IInv, TypeOK, Leaves
<1> QED
  BY <1>2, <1>3, <1>4, <1>5, PlainStep DEF Leaves

LEMMA CallInv == ASSUME IInv, NEW t \in Threads, Call(t) PROVE IInv'
<1>1. req \in [Threads -> Requests] /\ kkClient \in Clients \cup {None}
  BY DEF IInv, TypeOK
<1>2. \/ \E p \in Places : Leaves(t, p, None)
      \/ \E p \in {"release", "read"} : Leaves(t, p, kkClient) /\ kkClient' = kkClient
  BY <1>1, EndLeaves, MovedLeaves, RaiseLeaves DEF Call, Places
<1>3. kkClient' \in {kkClient, None} /\ Handles(handle)
  BY DEF Call
<1>4. req[t].pc = "forget" => kkClient' = None
  BY DEF Call, At
<1>5. TypeOK'
  BY <1>1, <1>2, <1>3, HandlesType DEF IInv, TypeOK, Leaves
<1> QED
  BY <1>2, <1>3, <1>4, <1>5, PlainStep DEF Leaves

LEMMA ReadMixedInv == ASSUME IInv, NEW t \in Threads, ReadMixed(t) PROVE IInv'
<1>1. req \in [Threads -> Requests] /\ kkClient \in Clients \cup {None}
  BY DEF IInv, TypeOK
<1>2. \/ \E p \in Places : Leaves(t, p, None)
      \/ \E p \in {"release", "read"} : Leaves(t, p, kkClient) /\ kkClient' = kkClient
  BY <1>1, RaiseLeaves DEF ReadMixed, Places
<1>3. kkClient' \in {kkClient, None} /\ Handles(handle)
  BY DEF ReadMixed
<1>4. req[t].pc = "forget" => kkClient' = None
  BY DEF ReadMixed, At, Reading
<1>5. TypeOK'
  BY <1>1, <1>2, <1>3, HandlesType DEF IInv, TypeOK, Leaves
<1> QED
  BY <1>2, <1>3, <1>4, <1>5, PlainStep DEF Leaves

LEMMA ForgetInv == ASSUME IInv, NEW t \in Threads, Forget(t) PROVE IInv'
<1>1. req \in [Threads -> Requests] /\ req[t].using = None
  BY DEF IInv, TypeOK, Referred, Forget, At
<1>2. ASSUME req' = [req EXCEPT ![t].pc = "test", ![t].stage = "reopening"]
      PROVE  Leaves(t, "test", None)
  <2> DEFINE q == [req[t] EXCEPT !.pc = "test"]
             r == [q EXCEPT !.stage = "reopening"]
  <2>1. q \in Requests /\ q.pc = "test" /\ q.using = None
    BY <1>1 DEF Requests, Places
  <2>2. r \in Requests /\ r.pc = "test" /\ r.using = None
    <3> HIDE DEF q
    <3> QED
      BY <2>1 DEF Requests
  <2>3. req' = [req EXCEPT ![t] = r]
    BY <1>2
  <2> HIDE DEF r
  <2> QED
    BY <1>1, <2>2, <2>3 DEF Leaves
<1>3. \E p \in Places : Leaves(t, p, None)
  BY <1>1, <1>2, GoLeaves, EndLeaves DEF Forget, Places
<1>4. TypeOK'
  BY <1>3, HandlesType DEF IInv, TypeOK, Leaves, Forget
<1> QED
  BY <1>3, <1>4, PlainStep DEF Leaves, Forget

LEMMA DisturbedRecord ==
    ASSUME NEW r \in Requests
    PROVE  /\ [r EXCEPT !.clean = FALSE] \in Requests
           /\ [r EXCEPT !.clean = FALSE].pc = r.pc
           /\ [r EXCEPT !.clean = FALSE].using = r.using
<1>1. [r EXCEPT !.clean = FALSE].pc = r.pc /\ [r EXCEPT !.clean = FALSE].using = r.using
  BY DEF Requests
<1>2. [r EXCEPT !.clean = FALSE] \in Requests
  <2>1. ASSUME NEW b \in BOOLEAN PROVE [r EXCEPT !.clean = b] \in Requests
    BY DEF Requests
  <2> QED
    BY <2>1, Zenon
<1> QED
  BY <1>1, <1>2

LEMMA BeginInv == ASSUME IInv, NEW t \in Threads, NEW k \in Kinds, Begin(t, k) PROVE IInv'
<1>1. req \in [Threads -> Requests] /\ req[t].using = None /\ req[t].pc # "forget"
  BY DEF IInv, TypeOK, Referred, Begin, At
<1>2. ASSUME NEW u \in Threads
      PROVE  [req[u] EXCEPT !.clean = FALSE] \in Requests
             /\ [req[u] EXCEPT !.clean = FALSE].pc = req[u].pc
             /\ [req[u] EXCEPT !.clean = FALSE].using = req[u].using
  BY <1>1, DisturbedRecord
<1>3. InOrder(k) \in BOOLEAN
  BY DEF InOrder
<1>4. /\ req'[t] \in Requests /\ req'[t].pc \in {"test", "entry"} /\ req'[t].using = None
  BY <1>3 DEF Begin, Requests, Places
<1>5. \A u \in Threads \ {t} :
          req'[u] \in Requests /\ req'[u].pc = req[u].pc /\ req'[u].using = req[u].using
  BY <1>1, <1>2 DEF Begin
<1>6. \E p \in Places : Leaves(t, p, None)
  BY <1>4, <1>5 DEF Leaves, Places, Begin
<1>7. TypeOK'
  BY <1>6 DEF IInv, TypeOK, Leaves, Begin
<1>8. Handles(handle)
  BY <1>1, <1>6, HandlesStay DEF Leaves, Begin
<1> QED
  BY <1>1, <1>6, <1>7, <1>8, PlainStep DEF Leaves, Begin

LEMMA DisturbedType ==
    ASSUME req \in [Threads -> Requests]
    PROVE  /\ Disturbed \in [Threads -> Requests]
           /\ \A u \in Threads : Disturbed[u].pc = req[u].pc /\ Disturbed[u].using = req[u].using
<1>1. ASSUME NEW u \in Threads
      PROVE  [req[u] EXCEPT !.clean = FALSE] \in Requests
             /\ [req[u] EXCEPT !.clean = FALSE].pc = req[u].pc
             /\ [req[u] EXCEPT !.clean = FALSE].using = req[u].using
  BY DisturbedRecord
<1> QED
  BY <1>1 DEF Disturbed

LEMMA FaultInv == ASSUME IInv, NEW t \in Threads, Fault(t) PROVE IInv'
<1>1. req \in [Threads -> Requests]
  BY DEF IInv, TypeOK
<1>2. Disturbed[t] \in Requests /\ Raised(Disturbed[t]) \in Requests /\ Raised(Disturbed[t]).using = None
  BY <1>1, DisturbedType, RaisedType
<1>3. Raised(Disturbed[t]).pc \in Places
  BY <1>2 DEF Requests
<1>4. \E p \in Places : Leaves(t, p, None)
  BY <1>1, <1>2, <1>3, DisturbedType DEF Leaves, Fault
<1>5. TypeOK' /\ req[t].pc # "forget"
  BY <1>4, HandlesType DEF IInv, TypeOK, Leaves, Fault, At, Reading
<1> QED
  BY <1>4, <1>5, PlainStep DEF Leaves, Fault

LEMMA ReadInv == ASSUME IInv, NEW t \in Threads, Read(t) PROVE IInv'
<1>1. req \in [Threads -> Requests] /\ req[t].using \in Clients \cup {None}
  BY DEF IInv, TypeOK, Requests
<1>2. \/ \E p \in Places : Leaves(t, p, None)
      \/ Leaves(t, "assign", req[t].using) /\ req[t].pc = "features"
  BY <1>1, EndLeaves, RaiseLeaves, MovedLeaves DEF Read, Reading, At, Places
<1>3. TypeOK' /\ req[t].pc # "forget" /\ kkClient' = kkClient /\ Handles(handle)
  BY <1>2, HandlesType DEF IInv, TypeOK, Leaves, Read, Reading
<1> QED
  BY <1>2, <1>3, PlainStep DEF Leaves

-----------------------------------------------------------------------------
(* Opening, assigning and closing *)

LEMMA OpenDeviceInv == ASSUME IInv, NEW t \in Threads, OpenDevice(t) PROVE IInv'
<1>1. req \in [Threads -> Requests] /\ req[t].using = None /\ req[t].pc # "forget" /\ kkClient' = kkClient
  BY DEF IInv, TypeOK, Referred, OpenDevice, At
<1>2. CASE Raise(t) /\ UNCHANGED handle
  <2>1. \E p \in Places : Leaves(t, p, None)
    BY <1>1, <1>2, RaiseLeaves
  <2>2. TypeOK'
    BY <1>1, <1>2, <2>1 DEF IInv, TypeOK, Leaves
  <2>3. Handles(handle)
    BY <1>1, <1>2, <2>1, HandlesStay DEF Leaves
  <2> QED
    BY <1>1, <2>1, <2>2, <2>3, PlainStep DEF Leaves
<1>3. ASSUME NEW c \in Free, GoWith(t, "features", c), Handles([handle EXCEPT ![c] = "open"])
      PROVE  IInv'
  <2> DEFINE h == [handle EXCEPT ![c] = "open"]
  <2>1. c \in Clients /\ handle[c] = "free" /\ handle \in [Clients -> {"free", "open", "closed", "dead"}]
    BY DEF Free, IInv, TypeOK
  <2>2. /\ h \in [Clients -> {"free", "open", "closed", "dead"}] /\ h[c] = "open"
        /\ \A d \in Clients \ {c} : h[d] = handle[d]
    BY <2>1
  <2> HIDE DEF h
  <2>3. Leaves(t, "features", c)
    BY <1>1, <1>3, <2>1, MovedLeaves DEF Places
  <2>4. TypeOK'
    BY <1>1, <1>3, <2>2, <2>3, HandlesType DEF IInv, TypeOK, Leaves, h
  <2>5. /\ kkClient \in Clients \cup {None} /\ kkClient # c
        /\ \A u \in Threads : req[u].using \in Clients \cup {None} /\ req[u].using # c
    BY <2>1, ClientsAssumption DEF IInv, TypeOK, Requests, Referred
  <2>6. kkClient' # None => h[kkClient'] # "free"
    BY <1>1, <2>2, <2>5 DEF IInv, Referred
  <2>7. \A u \in Threads : req'[u].using # None =>
            h[req'[u].using] # "free" /\ req'[u].pc \in {"release", "features", "assign", "read"}
    BY <2>2, <2>3, <2>5 DEF IInv, Referred, Leaves
  <2>8. /\ Referred'
        /\ kkClient' # None => handle'[kkClient'] = h[kkClient']
        /\ \A u \in Threads : req'[u].using # None => handle'[req'[u].using] = h[req'[u].using]
    BY <1>3, <2>2, <2>4, <2>6, <2>7, HandlesKeep DEF h
  <2>9. NewIsPrivate'
    BY <1>1, <2>2, <2>3, <2>5, <2>8 DEF IInv, NewIsPrivate, Leaves
  <2>10. ClosedIsForgotten'
    BY <1>1, <2>2, <2>3, <2>5, <2>8 DEF IInv, ClosedIsForgotten, Leaves
  <2> QED
    BY <2>4, <2>8, <2>9, <2>10 DEF IInv
<1> QED
  BY <1>2, <1>3 DEF OpenDevice

LEMMA AssignInv == ASSUME IInv, NEW t \in Threads, Assign(t) PROVE IInv'
<1>1. req \in [Threads -> Requests] /\ req[t].using \in Clients \cup {None} /\ req[t].pc = "assign"
  BY DEF IInv, TypeOK, Requests, Assign, At
<1>2. \E p \in Places : Leaves(t, p, None)
  BY <1>1, GoLeaves, EndLeaves DEF Assign, Places
<1>3. kkClient' = req[t].using /\ Handles(handle)
  BY DEF Assign
<1>4. TypeOK'
  BY <1>1, <1>2, <1>3, HandlesType DEF IInv, TypeOK, Leaves
<1>5. /\ Referred'
      /\ kkClient' # None => handle'[kkClient'] = handle[kkClient']
      /\ \A u \in Threads : req'[u].using # None => handle'[req'[u].using] = handle[req'[u].using]
  <2>1. handle \in [Clients -> {"free", "open", "closed", "dead"}]
    BY DEF IInv, TypeOK
  <2>2. \A u \in Threads : req'[u].using # None =>
            handle[req'[u].using] # "free" /\ req'[u].pc \in {"release", "features", "assign", "read"}
    BY <1>2 DEF IInv, Referred, Leaves
  <2>3. kkClient' # None => handle[kkClient'] # "free"
    BY <1>3 DEF IInv, Referred
  <2> QED
    BY <1>3, <1>4, <2>1, <2>2, <2>3, HandlesKeep
<1>6. req[t].using # None =>
          handle[req[t].using] # "closed" /\ \A u \in Threads \ {t} : req[u].using # req[t].using
  BY <1>1 DEF IInv, NewIsPrivate
<1>7. NewIsPrivate'
  BY <1>2, <1>3, <1>5, <1>6 DEF IInv, NewIsPrivate, Leaves
<1>8. ClosedIsForgotten'
  BY <1>3, <1>5, <1>6 DEF ClosedIsForgotten
<1> QED
  BY <1>4, <1>5, <1>7, <1>8 DEF IInv

LEMMA ReleaseInv == ASSUME IInv, NEW t \in Threads, Release(t) PROVE IInv'
<1> DEFINE c == req[t].using
<1>1. req \in [Threads -> Requests] /\ c \in Clients \cup {None} /\ req[t].pc = "release" /\ kkClient' = kkClient
  BY DEF IInv, TypeOK, Requests, Release, At
<1>2. CASE ~Open(c)
  <2>1. Raise(t) /\ Handles(handle)
    BY <1>2 DEF Release
  <2>2. \E p \in Places : Leaves(t, p, None)
    BY <1>1, <2>1, RaiseLeaves
  <2>3. TypeOK'
    BY <1>1, <2>1, <2>2, HandlesType DEF IInv, TypeOK, Leaves
  <2> QED
    BY <1>1, <2>1, <2>2, <2>3, PlainStep DEF Leaves
<1>3. CASE Open(c)
  <2> DEFINE h == [handle EXCEPT ![c] = "closed"]
  <2>1. c \in Clients /\ handle \in [Clients -> {"free", "open", "closed", "dead"}]
    BY <1>1, <1>3 DEF Open, IInv, TypeOK
  <2>2. /\ h \in [Clients -> {"free", "open", "closed", "dead"}] /\ h[c] = "closed"
        /\ \A d \in Clients \ {c} : h[d] = handle[d]
    BY <2>1
  <2>3. Handles(h) /\ Go(t, "forget")
    BY <1>3 DEF Release
  <2>4. Leaves(t, "forget", None)
    BY <1>1, <2>3, GoLeaves DEF Places
  <2> HIDE DEF h
  <2>5. TypeOK'
    BY <1>1, <2>2, <2>3, <2>4, HandlesType DEF IInv, TypeOK, Leaves
  <2>6. \A d \in Clients : handle[d] # "free" => h[d] # "free"
    BY <2>2
  <2>7. \A u \in Threads : req'[u].using # None =>
            h[req'[u].using] # "free" /\ req'[u].pc \in {"release", "features", "assign", "read"}
    BY <1>1, <2>4, <2>6 DEF IInv, TypeOK, Requests, Referred, Leaves
  <2>8. kkClient' # None => h[kkClient'] # "free"
    BY <1>1, <2>6 DEF IInv, TypeOK, Referred
  <2>9. /\ Referred'
        /\ kkClient' # None => handle'[kkClient'] = h[kkClient']
        /\ \A u \in Threads : req'[u].using # None => handle'[req'[u].using] = h[req'[u].using]
    BY <2>2, <2>3, <2>5, <2>7, <2>8, HandlesKeep
  <2>10. NewIsPrivate'
    <3> SUFFICES ASSUME NEW u \in Threads, req'[u].pc \in {"features", "assign"}, req'[u].using # None
                 PROVE  /\ req'[u].using # kkClient' /\ handle'[req'[u].using] # "closed"
                        /\ \A v \in Threads \ {u} : req'[v].using # req'[u].using
      BY DEF NewIsPrivate
    <3>1. u # t /\ req[u].pc = req'[u].pc /\ req[u].using = req'[u].using
      BY <2>4 DEF Leaves
    <3>2. /\ req[u].using # kkClient /\ handle[req[u].using] # "closed"
          /\ \A v \in Threads \ {u} : req[v].using # req[u].using
      BY <3>1 DEF IInv, NewIsPrivate
    <3>3. req[u].using \in Clients \ {c}
      BY <1>1, <3>1, <3>2 DEF Requests
    <3> QED
      BY <1>1, <2>2, <2>4, <2>9, <3>1, <3>2, <3>3 DEF Leaves
  <2>11. ClosedIsForgotten'
    BY <2>4 DEF ClosedIsForgotten, Leaves
  <2> QED
    BY <2>5, <2>9, <2>10, <2>11 DEF IInv
<1> QED
  BY <1>2, <1>3

\* All that were open are dead; none is closed or dropped.
LEMMA UnplugInv == ASSUME IInv, Unplug PROVE IInv'
<1>1. /\ req \in [Threads -> Requests] /\ kkClient \in Clients \cup {None}
      /\ handle \in [Clients -> {"free", "open", "closed", "dead"}]
      /\ \A u \in Threads : req[u].using \in Clients \cup {None}
  BY DEF IInv, TypeOK, Requests
<1>2. /\ req' \in [Threads -> Requests]
      /\ \A u \in Threads : req'[u].pc = req[u].pc /\ req'[u].using = req[u].using
  BY <1>1, DisturbedType DEF Unplug
<1>3. /\ handle' \in [Clients -> {"free", "open", "closed", "dead"}]
      /\ \A c \in Clients : /\ handle'[c] = "free" <=> handle[c] = "free"
                            /\ handle'[c] = "closed" <=> handle[c] = "closed"
  BY <1>1 DEF Unplug
<1>4. kkClient' = kkClient
  BY DEF Unplug
<1>5. TypeOK'
  BY <1>1, <1>2, <1>3, <1>4 DEF TypeOK
<1>6. Referred'
  BY <1>1, <1>2, <1>3, <1>4 DEF IInv, Referred
<1>7. NewIsPrivate'
  BY <1>1, <1>2, <1>3, <1>4 DEF IInv, NewIsPrivate
<1>8. ClosedIsForgotten'
  BY <1>1, <1>2, <1>3, <1>4 DEF IInv, ClosedIsForgotten
<1> QED
  BY <1>5, <1>6, <1>7, <1>8 DEF IInv

LEMMA StepInv == IInv /\ [Next]_vars => IInv'
<1> SUFFICES ASSUME IInv, [Next]_vars PROVE IInv'
  OBVIOUS
<1>1. ASSUME NEW t \in Threads,
             \/ \E k \in Kinds : Begin(t, k)
             \/ Entry(t) \/ Test(t) \/ Close(t) \/ Release(t) \/ Forget(t)
             \/ Enumerate(t) \/ OpenDevice(t) \/ Assign(t)
             \/ Look(t) \/ Call(t) \/ Read(t) \/ ReadMixed(t) \/ Fault(t)
      PROVE  IInv'
  BY <1>1, BeginInv, EntryInv, TestInv, CloseInv, ReleaseInv, ForgetInv, EnumerateInv, OpenDeviceInv,
     AssignInv, LookInv, CallInv, ReadInv, ReadMixedInv, FaultInv
<1>2. CASE Plug \/ UNCHANGED vars
  BY <1>2 DEF Plug, vars, device, IInv, TypeOK, Referred, NewIsPrivate, ClosedIsForgotten
<1> QED
  BY <1>1, <1>2, UnplugInv DEF Next

\* Between requests nothing holds the interface of the device but the client
\* that the next request will use or close, and that one has not been closed
\* (DeviceNotKept), however many requests there were at a time.
THEOREM DeviceNeverKept == Spec => []DeviceNotKept
<1>1. IInv => DeviceNotKept
  <2> SUFFICES ASSUME IInv, Running = {}
               PROVE  /\ \A c \in Clients : handle[c] # "free" => c = kkClient
                      /\ kkClient # None => handle[kkClient] \in {"open", "dead"}
    BY DEF DeviceNotKept
  <2>1. \A t \in Threads : req[t].pc = "idle" /\ req[t].using = None
    BY DEF IInv, Referred, Running
  <2>2. kkClient # None => handle[kkClient] \in {"free", "open", "closed", "dead"}
    BY DEF IInv, TypeOK
  <2> QED
    BY <2>1, <2>2, ClientsAssumption DEF IInv, Referred, ClosedIsForgotten
<1> QED
  BY <1>1, InitInv, StepInv, PTL DEF Spec

-----------------------------------------------------------------------------
(* The request that runs alone *)

AnswersRead(k) == IF k = "get" THEN unread # <<>> ELSE unread = <<>>

\* Where a clean request is, and what it finds there.
Undisturbed(t) ==
    LET p == req[t].pc
        k == req[t].kind
        c == req[t].using
    IN  /\ plugged /\ req[t].stage = "opening"
        /\ \A u \in Threads \ {t} : req[u].pc = "idle"
        /\ p = "entry" => AnswersRead(k) /\ ((kkClient = None /\ k # "get") \/ Open(kkClient))
        /\ p \in {"look", "call"} => AnswersRead(k) /\ Open(kkClient)
        /\ p = "read" => unread # <<>> /\ Open(c)
        /\ p \in {"test", "close", "release", "forget", "enumerate", "open", "features", "assign"} => k # "get"
        /\ p \in {"test", "close", "release", "forget", "enumerate", "open", "assign"} => unread = <<>>
        /\ p = "test" => kkClient = None \/ Open(kkClient)
        /\ p = "close" => Open(kkClient)
        /\ p = "release" => Open(kkClient) /\ c = kkClient
        /\ p \in {"enumerate", "open"} => kkClient = None
        /\ p = "features" => unread = <<"features">>
        /\ p \in {"features", "assign"} => Open(c)

Quiet ==
    \A t \in Threads :
        /\ req[t].status \in {0, 200}
        /\ req[t].pc = "idle" => ~req[t].clean
        /\ req[t].clean => Undisturbed(t)

\* What Go, GoWith and End write, all of it.
Keeps(t, p, c) ==
    /\ req'[t].pc = p /\ req'[t].using = c
    /\ req'[t].kind = req[t].kind /\ req'[t].stage = req[t].stage
    /\ req'[t].clean = req[t].clean /\ req'[t].status = req[t].status
    /\ \A u \in Threads \ {t} : req'[u] = req[u]

LEMMA MovedKeeps ==
    ASSUME req \in [Threads -> Requests], NEW t \in Threads, NEW p \in Places, NEW c \in Clients \cup {None},
           GoWith(t, p, c)
    PROVE  Keeps(t, p, c)
<1> DEFINE r == [req[t] EXCEPT !.pc = p, !.using = c]
<1>1. /\ r.pc = p /\ r.using = c /\ r.kind = req[t].kind /\ r.stage = req[t].stage
      /\ r.clean = req[t].clean /\ r.status = req[t].status
  BY DEF Requests
<1>2. req' = [req EXCEPT ![t] = r]
  BY DEF GoWith
<1> HIDE DEF r
<1> QED
  BY <1>1, <1>2 DEF Keeps

LEMMA GoKeeps ==
    ASSUME req \in [Threads -> Requests], NEW t \in Threads, NEW p \in Places, Go(t, p)
    PROVE  Keeps(t, p, None)
BY MovedKeeps DEF Go, GoWith

Ends(t, s) ==
    /\ req'[t].pc = "idle" /\ ~req'[t].clean
    /\ req'[t].status = IF req[t].clean THEN s ELSE 0
    /\ \A u \in Threads \ {t} : req'[u] = req[u]

LEMMA EndEnds ==
    ASSUME req \in [Threads -> Requests], NEW t \in Threads, NEW s \in {200, 400, 404, 500}, End(t, s)
    PROVE  Ends(t, s)
BY DEF End, Ended, Ends

\* An exception says nothing of a request that is not clean.
LEMMA RaiseUnclean ==
    ASSUME req \in [Threads -> Requests], NEW t \in Threads, ~req[t].clean, req[t].status \in {0, 200}, Raise(t)
    PROVE  /\ ~req'[t].clean /\ req'[t].status \in {0, 200}
           /\ \A u \in Threads \ {t} : req'[u] = req[u]
<1> DEFINE r == Raised(req[t])
<1>1. ~r.clean /\ r.status \in {0, 200}
  <2>1. CASE req[t].pc \in {"call", "read"} /\ req[t].kind \in {"ping", "post"}
    BY <2>1 DEF Raised, Requests
  <2>2. CASE ~(req[t].pc \in {"call", "read"} /\ req[t].kind \in {"ping", "post"})
    BY <2>2 DEF Raised, Ended
  <2> QED
    BY <2>1, <2>2
<1>2. req' = [req EXCEPT ![t] = r]
  BY DEF Raise
<1> HIDE DEF r
<1> QED
  BY <1>1, <1>2

\* A step of a running thread is no concern of the others: they are not clean.
LEMMA QuietStep ==
    ASSUME Quiet, NEW t \in Threads, req[t].pc # "idle",
           \A u \in Threads \ {t} : req'[u] = req[u],
           req'[t].status \in {0, 200},
           req'[t].pc = "idle" => ~req'[t].clean,
           req'[t].clean => Undisturbed(t)'
    PROVE  Quiet'
<1>1. ASSUME NEW u \in Threads \ {t} PROVE ~req[u].clean
  BY DEF Quiet, Undisturbed
<1> QED
  BY <1>1 DEF Quiet

LEMMA MovedQuiet ==
    ASSUME Quiet, NEW t \in Threads, req[t].pc # "idle", NEW p, NEW c, p # "idle", Keeps(t, p, c),
           req[t].clean => Undisturbed(t)'
    PROVE  Quiet'
<1>1. req'[t].status \in {0, 200}
  BY DEF Quiet, Keeps
<1> QED
  BY <1>1, QuietStep DEF Keeps

LEMMA EndedQuiet ==
    ASSUME Quiet, NEW t \in Threads, req[t].pc # "idle", NEW s, Ends(t, s), req[t].clean => s = 200
    PROVE  Quiet'
BY QuietStep DEF Ends

LEMMA RaisedQuiet ==
    ASSUME Quiet, req \in [Threads -> Requests], NEW t \in Threads, req[t].pc # "idle", ~req[t].clean, Raise(t)
    PROVE  Quiet'
<1>1. req[t].status \in {0, 200}
  BY DEF Quiet
<1> QED
  BY <1>1, RaiseUnclean, QuietStep

\* A client that something still refers to stays as it is.
LEMMA HandlesReferred ==
    ASSUME NEW h, Handles(h), NEW c \in Clients, c = kkClient' \/ \E t \in Threads : req'[t].using = c
    PROVE  handle'[c] = h[c]
BY DEF Handles

LEMMA EntryQuiet == ASSUME IInv, Quiet, NEW t \in Threads, Entry(t) PROVE Quiet'
<1>1. req \in [Threads -> Requests] /\ req[t].pc = "entry"
  BY DEF IInv, TypeOK, Entry, At
<1> DEFINE p == IF kkClient = None THEN "test" ELSE "look"
<1>2. Keeps(t, p, None) /\ p # "idle"
  BY <1>1, GoKeeps DEF Entry, Places
<1>3. req[t].clean => Undisturbed(t)'
  BY <1>1, <1>2 DEF Quiet, Undisturbed, Keeps, Entry, device, AnswersRead, Open
<1> QED
  BY <1>1, <1>2, <1>3, MovedQuiet

LEMMA TestQuiet == ASSUME IInv, Quiet, NEW t \in Threads, Test(t) PROVE Quiet'
<1>1. req \in [Threads -> Requests] /\ req[t].pc = "test"
  BY DEF IInv, TypeOK, Test, At
<1> DEFINE p == IF kkClient = None THEN "enumerate" ELSE "close"
<1>2. Keeps(t, p, None) /\ p # "idle"
  BY <1>1, GoKeeps DEF Test, Places
<1>3. req[t].clean => Undisturbed(t)'
  BY <1>1, <1>2 DEF Quiet, Undisturbed, Keeps, Test, device, Open
<1> QED
  BY <1>1, <1>2, <1>3, MovedQuiet

LEMMA CloseQuiet == ASSUME IInv, Quiet, NEW t \in Threads, Close(t) PROVE Quiet'
<1>1. /\ req \in [Threads -> Requests] /\ req[t].pc = "close" /\ kkClient \in Clients \cup {None}
      /\ kkClient' = kkClient /\ unread' = unread /\ plugged' = plugged /\ Handles(handle)
  BY DEF IInv, TypeOK, Close, At, device
<1>2. req[t].clean => Open(kkClient) /\ GoWith(t, "release", kkClient)
  BY <1>1 DEF Quiet, Undisturbed, Close, Open
<1>3. CASE req[t].clean
  <2>1. Keeps(t, "release", kkClient)
    BY <1>1, <1>2, <1>3, MovedKeeps DEF Places
  <2>2. Open(kkClient)'
    BY <1>1, <1>2, <1>3, HandlesReferred DEF Open
  <2>3. Undisturbed(t)'
    BY <1>1, <1>3, <2>1, <2>2 DEF Quiet, Undisturbed, Keeps
  <2> QED
    BY <1>1, <2>1, <2>3, MovedQuiet
<1>4. CASE ~req[t].clean
  <2>1. CASE Raise(t)
    BY <1>1, <1>4, <2>1, RaisedQuiet
  <2>2. CASE Go(t, "forget")
    BY <1>1, <1>4, <2>2, GoKeeps, MovedQuiet DEF Places
  <2>3. CASE GoWith(t, "release", kkClient)
    BY <1>1, <1>4, <2>3, MovedKeeps, MovedQuiet DEF Places
  <2> QED
    BY <2>1, <2>2, <2>3 DEF Close
<1> QED
  BY <1>3, <1>4

LEMMA ReleaseQuiet == ASSUME IInv, Quiet, NEW t \in Threads, Release(t) PROVE Quiet'
<1>1. req \in [Threads -> Requests] /\ req[t].pc = "release" /\ unread' = unread /\ plugged' = plugged
  BY DEF IInv, TypeOK, Release, At, device
<1>2. CASE Go(t, "forget")
  <2>1. Keeps(t, "forget", None)
    BY <1>1, <1>2, GoKeeps DEF Places
  <2>2. req[t].clean => Undisturbed(t)'
    BY <1>1, <2>1 DEF Quiet, Undisturbed, Keeps
  <2> QED
    BY <1>1, <2>1, <2>2, MovedQuiet
<1>3. CASE ~Open(req[t].using) /\ Raise(t)
  <2>1. ~req[t].clean
    BY <1>1, <1>3 DEF Quiet, Undisturbed
  <2> QED
    BY <1>1, <1>3, <2>1, RaisedQuiet
<1> QED
  BY <1>2, <1>3 DEF Release

LEMMA ForgetQuiet == ASSUME IInv, Quiet, NEW t \in Threads, Forget(t) PROVE Quiet'
<1>1. /\ req \in [Threads -> Requests] /\ req[t].pc = "forget"
      /\ kkClient' = None /\ unread' = unread /\ plugged' = plugged
  BY DEF IInv, TypeOK, Forget, At, device
<1>2. CASE Go(t, "enumerate")
  <2>1. Keeps(t, "enumerate", None)
    BY <1>1, <1>2, GoKeeps DEF Places
  <2>2. req[t].clean => Undisturbed(t)'
    BY <1>1, <2>1 DEF Quiet, Undisturbed, Keeps
  <2> QED
    BY <1>1, <2>1, <2>2, MovedQuiet
<1>3. CASE req[t].stage = "failing"
  <2>1. ~req[t].clean
    BY <1>3 DEF Quiet, Undisturbed
  <2>2. CASE End(t, 404)
    BY <1>1, <2>1, <2>2, EndEnds, EndedQuiet
  <2>3. CASE req' = [req EXCEPT ![t].pc = "test", ![t].stage = "reopening"]
    <3>1. /\ req'[t].pc = "test" /\ req'[t].clean = req[t].clean /\ req'[t].status = req[t].status
          /\ \A u \in Threads \ {t} : req'[u] = req[u]
      BY <1>1, <2>3 DEF Requests
    <3>2. req'[t].status \in {0, 200}
      BY <3>1 DEF Quiet
    <3> QED
      BY <1>1, <2>1, <3>1, <3>2, QuietStep
  <2> QED
    BY <1>3, <2>2, <2>3 DEF Forget
<1> QED
  BY <1>2, <1>3 DEF Forget

LEMMA EnumerateQuiet == ASSUME IInv, Quiet, NEW t \in Threads, Enumerate(t) PROVE Quiet'
<1>1. req \in [Threads -> Requests] /\ req[t].pc = "enumerate"
  BY DEF IInv, TypeOK, Enumerate, At
<1> DEFINE p == IF plugged THEN "open" ELSE "assign"
<1>2. Keeps(t, p, None) /\ p # "idle"
  BY <1>1, GoKeeps DEF Enumerate, Places
<1>3. req[t].clean => Undisturbed(t)'
  BY <1>1, <1>2 DEF Quiet, Undisturbed, Keeps, Enumerate, device
<1> QED
  BY <1>1, <1>2, <1>3, MovedQuiet

\* Nothing holds the interface when a clean request opens the device.
LEMMA OpenDeviceQuiet == ASSUME IInv, Quiet, NEW t \in Threads, OpenDevice(t) PROVE Quiet'
<1>1. /\ req \in [Threads -> Requests] /\ req[t].pc = "open"
      /\ kkClient' = kkClient /\ plugged' = plugged
  BY DEF IInv, TypeOK, OpenDevice, At
<1>2. CASE plugged /\ ~\E c \in Clients : Open(c)
  <2>1. PICK c \in Free : /\ GoWith(t, "features", c) /\ unread' = Append(unread, "features")
                          /\ Handles([handle EXCEPT ![c] = "open"])
    BY <1>2 DEF OpenDevice
  <2>2. c \in Clients /\ c # None /\ handle \in [Clients -> {"free", "open", "closed", "dead"}]
    BY ClientsAssumption DEF Free, IInv, TypeOK
  <2>3. Keeps(t, "features", c)
    BY <1>1, <2>1, <2>2, MovedKeeps DEF Places
  <2>4. handle'[c] = "open"
    <3>1. handle'[c] = [handle EXCEPT ![c] = "open"][c]
      BY <2>1, <2>2, <2>3, HandlesReferred DEF Keeps
    <3> QED
      BY <2>2, <3>1
  <2>5. req[t].clean => unread' = <<"features">>
    <3>1. req[t].clean => unread = <<>>
      BY <1>1 DEF Quiet, Undisturbed
    <3>2. Append(<<>>, "features") = <<"features">>
      OBVIOUS
    <3> QED
      BY <2>1, <3>1, <3>2
  <2>6. req[t].clean => Undisturbed(t)'
    BY <1>1, <2>2, <2>3, <2>4, <2>5 DEF Quiet, Undisturbed, Keeps, Open
  <2> QED
    BY <1>1, <2>3, <2>6, MovedQuiet
<1>3. CASE ~(plugged /\ ~\E c \in Clients : Open(c))
  <2>1. Raise(t)
    BY <1>3 DEF OpenDevice
  <2>2. ~req[t].clean
    <3> SUFFICES ASSUME req[t].clean PROVE FALSE
      OBVIOUS
    <3>1. plugged /\ kkClient = None /\ \A u \in Threads : req[u].using = None
      BY <1>1 DEF Quiet, Undisturbed, IInv, Referred
    <3>2. PICK c \in Clients : Open(c)
      BY <1>3, <3>1
    <3> QED
      BY <3>1, <3>2 DEF Open, IInv, Referred
  <2> QED
    BY <1>1, <2>1, <2>2, RaisedQuiet
<1> QED
  BY <1>2, <1>3

LEMMA AssignQuiet == ASSUME IInv, Quiet, NEW t \in Threads, Assign(t) PROVE Quiet'
<1>1. /\ req \in [Threads -> Requests] /\ req[t].pc = "assign" /\ req[t].using \in Clients \cup {None}
      /\ kkClient' = req[t].using /\ unread' = unread /\ plugged' = plugged /\ Handles(handle)
  BY DEF IInv, TypeOK, Requests, Assign, At, device
<1>2. CASE Go(t, "look")
  <2>1. Keeps(t, "look", None)
    BY <1>1, <1>2, GoKeeps DEF Places
  <2>2. Open(req[t].using) => Open(kkClient)'
    BY <1>1, HandlesReferred DEF Open
  <2>3. req[t].clean => Undisturbed(t)'
    BY <1>1, <2>1, <2>2 DEF Quiet, Undisturbed, Keeps, AnswersRead
  <2> QED
    BY <1>1, <2>1, <2>3, MovedQuiet
<1>3. CASE req[t].stage = "reopening" /\ End(t, 404)
  <2>1. ~req[t].clean
    BY <1>3 DEF Quiet, Undisturbed
  <2> QED
    BY <1>1, <1>3, <2>1, EndEnds, EndedQuiet
<1> QED
  BY <1>2, <1>3 DEF Assign

LEMMA LookQuiet == ASSUME IInv, Quiet, NEW t \in Threads, Look(t) PROVE Quiet'
<1>1. /\ req \in [Threads -> Requests] /\ req[t].pc = "look" /\ kkClient \in Clients \cup {None}
      /\ kkClient' = kkClient /\ unread' = unread /\ plugged' = plugged /\ Handles(handle)
  BY DEF IInv, TypeOK, Look, At, device
<1>2. CASE Go(t, "call")
  <2>1. Keeps(t, "call", None)
    BY <1>1, <1>2, GoKeeps DEF Places
  <2>2. Open(kkClient) => Open(kkClient)'
    BY <1>1, HandlesReferred DEF Open
  <2>3. req[t].clean => Undisturbed(t)'
    BY <1>1, <2>1, <2>2 DEF Quiet, Undisturbed, Keeps, AnswersRead
  <2> QED
    BY <1>1, <2>1, <2>3, MovedQuiet
<1>3. CASE kkClient = None /\ End(t, IF req[t].kind = "init" THEN 400 ELSE 404)
  <2>1. ~req[t].clean
    BY <1>1, <1>3 DEF Quiet, Undisturbed, Open
  <2> QED
    BY <1>1, <1>3, <2>1, EndEnds, EndedQuiet
<1> QED
  BY <1>2, <1>3 DEF Look

LEMMA CallQuiet == ASSUME IInv, Quiet, NEW t \in Threads, Call(t) PROVE Quiet'
<1>1. /\ req \in [Threads -> Requests] /\ req[t].pc = "call" /\ kkClient \in Clients \cup {None}
      /\ kkClient' = kkClient /\ plugged' = plugged /\ Handles(handle)
  BY DEF IInv, TypeOK, Call, At
<1>2. CASE Raise(t) /\ (kkClient = None \/ ~Open(kkClient))
  <2>1. ~req[t].clean
    BY <1>1, <1>2 DEF Quiet, Undisturbed, Open
  <2> QED
    BY <1>1, <1>2, <2>1, RaisedQuiet
<1>3. CASE End(t, 200)
  BY <1>1, <1>3, EndEnds, EndedQuiet
<1>4. CASE /\ GoWith(t, "read", kkClient) /\ req[t].kind \in {"ping", "get"}
           /\ unread' = IF req[t].kind = "ping" THEN Append(unread, "ping") ELSE unread
  <2>1. Keeps(t, "read", kkClient)
    BY <1>1, <1>4, MovedKeeps DEF Places
  <2>2. Open(kkClient) => Open(kkClient)'
    BY <1>1, HandlesReferred DEF Open
  <2>3. req[t].clean => unread' # <<>>
    BY <1>1, <1>4 DEF Quiet, Undisturbed, AnswersRead
  <2>4. req[t].clean => Undisturbed(t)'
    BY <1>1, <2>1, <2>2, <2>3 DEF Quiet, Undisturbed, Keeps
  <2> QED
    BY <1>1, <2>1, <2>4, MovedQuiet
<1>5. req[t].kind \in {"init", "ping", "post", "get"}
  BY <1>1 DEF Requests, Kinds
<1> QED
  BY <1>2, <1>3, <1>4, <1>5 DEF Call

LEMMA ReadQuiet == ASSUME IInv, Quiet, NEW t \in Threads, Read(t) PROVE Quiet'
<1> DEFINE c == req[t].using
<1>1. /\ req \in [Threads -> Requests] /\ c \in Clients \cup {None}
      /\ req[t].pc \in {"read", "features"}
      /\ kkClient' = kkClient /\ plugged' = plugged /\ Handles(handle)
  BY DEF IInv, TypeOK, Requests, Read, Reading
<1>2. CASE End(t, 200)
  BY <1>1, <1>2, EndEnds, EndedQuiet
<1>3. CASE /\ GoWith(t, "assign", c) /\ Open(c) /\ unread' = Tail(unread) /\ req[t].pc = "features"
  <2>1. Keeps(t, "assign", c)
    BY <1>1, <1>3, MovedKeeps DEF Places
  <2>2. Open(c)'
    <3>1. c \in Clients /\ req'[t].using = c
      BY <1>1, <1>3, <2>1 DEF Open, Keeps
    <3>2. handle'[c] = handle[c]
      BY <1>1, <3>1, HandlesReferred
    <3> QED
      BY <1>3, <2>1, <3>2 DEF Open, Keeps
  <2>3. req[t].clean => unread' = <<>>
    <3>1. req[t].clean => unread = <<"features">>
      BY <1>3 DEF Quiet, Undisturbed
    <3>2. Tail(<<"features">>) = <<>>
      OBVIOUS
    <3> QED
      BY <1>3, <3>1, <3>2
  <2>4. req[t].clean => Undisturbed(t)'
    BY <1>1, <1>3, <2>1, <2>2, <2>3 DEF Quiet, Undisturbed, Keeps
  <2> QED
    BY <1>1, <2>1, <2>4, MovedQuiet
<1>4. CASE /\ Raise(t)
           /\ Open(c) /\ unread # <<>> => req[t].pc = "features" /\ Head(unread) # "features"
  <2>1. ~req[t].clean
    BY <1>1, <1>4 DEF Quiet, Undisturbed
  <2> QED
    BY <1>1, <1>4, <2>1, RaisedQuiet
<1> QED
  BY <1>1, <1>2, <1>3, <1>4 DEF Read, At

LEMMA ReadMixedQuiet == ASSUME IInv, Quiet, NEW t \in Threads, ReadMixed(t) PROVE Quiet'
<1>1. req \in [Threads -> Requests] /\ req[t].pc # "idle" /\ Raise(t)
  BY DEF IInv, TypeOK, ReadMixed, Reading
<1>2. ~req[t].clean
  BY DEF Quiet, Undisturbed, ReadMixed, Reading
<1> QED
  BY <1>1, <1>2, RaisedQuiet

-----------------------------------------------------------------------------
(* Requests that come, and what disturbs them *)

LEMMA BeginQuiet == ASSUME IInv, Quiet, NEW t \in Threads, NEW k \in Kinds, Begin(t, k) PROVE Quiet'
<1>1. /\ req \in [Threads -> Requests] /\ kkClient \in Clients \cup {None} /\ req[t].pc = "idle"
      /\ kkClient' = kkClient /\ handle' = handle /\ unread' = unread /\ plugged' = plugged
  BY DEF IInv, TypeOK, Begin, At, device
<1>2. /\ req'[t].pc = (IF k = "init" THEN "test" ELSE "entry") /\ req'[t].kind = k
      /\ req'[t].stage = "opening" /\ req'[t].status = 0 /\ req'[t].clean = InOrder(k)
  BY <1>1 DEF Begin
<1>3. \A u \in Threads \ {t} :
          req'[u] = IF req[u].pc = "idle" THEN req[u] ELSE [req[u] EXCEPT !.clean = FALSE]
  BY <1>1 DEF Begin, At
<1>4. ASSUME NEW u \in Threads \ {t}
      PROVE  req'[u].pc = req[u].pc /\ req'[u].status \in {0, 200} /\ ~req'[u].clean
  <2>1. req[u] \in Requests /\ req[u].status \in {0, 200}
    BY <1>1 DEF Quiet
  <2>2. CASE req[u].pc = "idle"
    BY <1>3, <2>1, <2>2 DEF Quiet
  <2>3. CASE req[u].pc # "idle"
    <3> DEFINE r == [req[u] EXCEPT !.clean = FALSE]
    <3>1. r.pc = req[u].pc /\ r.status = req[u].status /\ ~r.clean
      BY <2>1 DEF Requests
    <3> HIDE DEF r
    <3>2. req'[u] = r
      BY <1>3, <2>3 DEF r
    <3> QED
      BY <2>1, <3>1, <3>2
  <2> QED
    BY <2>2, <2>3
<1>5. ASSUME InOrder(k) PROVE Undisturbed(t)'
  <2>1. \A u \in Threads : req[u].pc = "idle"
    BY <1>5 DEF InOrder, Running
  <2>2. IF k = "get" THEN Open(kkClient) ELSE kkClient = None \/ Open(kkClient)
    <3>1. kkClient # None => handle[kkClient] \in {"open", "dead"}
      BY <1>1, <2>1 DEF IInv, TypeOK, Referred, ClosedIsForgotten
    <3> QED
      BY <1>5, <3>1 DEF InOrder, Open
  <2>3. plugged /\ AnswersRead(k)
    BY <1>5 DEF InOrder, AnswersRead
  <2> QED
    BY <1>1, <1>2, <1>4, <2>1, <2>2, <2>3 DEF Undisturbed, AnswersRead, Open
<1> QED
  BY <1>2, <1>4, <1>5 DEF Quiet

LEMMA DisturbedQuiet ==
    ASSUME Quiet, req \in [Threads -> Requests], NEW u \in Threads
    PROVE  /\ ~Disturbed[u].clean /\ Disturbed[u].status \in {0, 200}
           /\ Disturbed[u].pc = req[u].pc /\ Disturbed[u].kind = req[u].kind
           /\ Disturbed[u].stage = req[u].stage
<1>1. req[u] \in Requests /\ req[u].status \in {0, 200}
  BY DEF Quiet
<1>2. CASE req[u].pc = "idle"
  BY <1>1, <1>2 DEF Disturbed, At, Quiet
<1>3. CASE req[u].pc # "idle"
  BY <1>1, <1>3 DEF Disturbed, At, Requests
<1> QED
  BY <1>2, <1>3

LEMMA FaultQuiet == ASSUME IInv, Quiet, NEW t \in Threads, Fault(t) PROVE Quiet'
<1>1. req \in [Threads -> Requests]
  BY DEF IInv, TypeOK
<1> DEFINE r == Disturbed[t]
<1>2. r \in Requests /\ ~r.clean /\ r.status \in {0, 200}
  BY <1>1, DisturbedQuiet, DisturbedType
<1>3. ~Raised(r).clean /\ Raised(r).status \in {0, 200}
  <2> HIDE DEF r
  <2>1. CASE r.pc \in {"call", "read"} /\ r.kind \in {"ping", "post"}
    BY <1>2, <2>1 DEF Raised, Requests
  <2>2. CASE ~(r.pc \in {"call", "read"} /\ r.kind \in {"ping", "post"})
    BY <1>2, <2>2 DEF Raised, Ended
  <2> QED
    BY <2>1, <2>2
<1>4. req'[t] = Raised(r) /\ \A u \in Threads \ {t} : req'[u] = Disturbed[u]
  BY <1>1, DisturbedType DEF Fault
<1> QED
  BY <1>1, <1>3, <1>4, DisturbedQuiet DEF Quiet

LEMMA UnplugQuiet == ASSUME IInv, Quiet, Unplug PROVE Quiet'
<1>1. req \in [Threads -> Requests] /\ req' = Disturbed
  BY DEF IInv, TypeOK, Unplug
<1> QED
  BY <1>1, DisturbedQuiet DEF Quiet

LEMMA StepQuiet == IInv /\ Quiet /\ [Next]_vars => Quiet'
<1> SUFFICES ASSUME IInv, Quiet, [Next]_vars PROVE Quiet'
  OBVIOUS
<1>1. ASSUME NEW t \in Threads,
             \/ \E k \in Kinds : Begin(t, k)
             \/ Entry(t) \/ Test(t) \/ Close(t) \/ Release(t) \/ Forget(t)
             \/ Enumerate(t) \/ OpenDevice(t) \/ Assign(t)
             \/ Look(t) \/ Call(t) \/ Read(t) \/ ReadMixed(t) \/ Fault(t)
      PROVE  Quiet'
  BY <1>1, BeginQuiet, EntryQuiet, TestQuiet, CloseQuiet, ReleaseQuiet, ForgetQuiet, EnumerateQuiet,
     OpenDeviceQuiet, AssignQuiet, LookQuiet, CallQuiet, ReadQuiet, ReadMixedQuiet, FaultQuiet
<1>2. CASE Plug
  BY <1>2 DEF Plug, Quiet, Undisturbed
<1>3. CASE UNCHANGED vars
  BY <1>3 DEF vars, device, Quiet, Undisturbed, AnswersRead, Open
<1> QED
  BY <1>1, <1>2, <1>3, UnplugQuiet DEF Next

\* A request that runs alone, on a device that is there and whose answers have
\* all been read, is served (LoneRequestServed), whatever failed, was unplugged
\* or ran at the same time before it.
THEOREM LoneRequestsServed == Spec => []LoneRequestServed
<1>1. Init => Quiet
  BY DEF Init, Ended, Quiet
<1>2. Quiet => LoneRequestServed
  BY DEF Quiet, LoneRequestServed
<1> QED
  BY <1>1, <1>2, InitInv, StepInv, StepQuiet, PTL DEF Spec
=============================================================================
