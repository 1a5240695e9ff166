-------------------------------- MODULE Bridge --------------------------------
(* kkbridge.py: an HTTP server whose requests run in threads of their own and *)
(* share one global client, kkClient, which a request opens when there is     *)
(* none, /init opens anew, and a request that fails closes.  Only one handle  *)
(* at a time can claim the interface of the device.                           *)
EXTENDS FiniteSets, Integers, Sequences

CONSTANTS
    Threads,
    Clients,      \* identities of KeepKeyClient objects, used again when free
    MaxFaults,    \* bound: transfers that fail
    MaxUnplugs,   \* bound
    MaxUnread     \* bound: answers nobody has read, and requests

None == 0
ASSUME ClientsAssumption == None \notin Clients

Kinds == {"init", "ping", "post", "get"}

VARIABLES
    kkClient,    \* the global
    handle,      \* of each client: free | open | closed | dead (device unplugged)
    plugged,
    unread,      \* answers the device has sent and nobody has read
    req,         \* of each thread: its request, where it is, the client it uses,
                 \* whether it is clean: nothing has disturbed it
    faults, unplugs

vars == <<kkClient, handle, plugged, unread, req, faults, unplugs>>
device == <<plugged, unread, faults, unplugs>>

-----------------------------------------------------------------------------
Running == {t \in Threads : req[t].pc # "idle"}
Open(c) == c # None /\ handle[c] = "open"
Free == {c \in Clients : handle[c] = "free"}    \* enough identities: never empty
Reading(t) == req[t].pc \in {"read", "features"}

\* Python drops a client without references, and libusb1 its handle.
Handles(h) ==
    handle' = [c \in Clients |->
        IF c = kkClient' \/ \E t \in Threads : req'[t].using = c THEN h[c] ELSE "free"]

At(t) == req[t].pc

\* The answer is kept of a request that has been clean to its end.
Ended(r, s) ==
    [pc |-> "idle", kind |-> "init", stage |-> "opening", using |-> None, clean |-> FALSE,
     status |-> IF r.clean THEN s ELSE 0]
End(t, s) == req' = [req EXCEPT ![t] = Ended(@, s)]
Go(t, p) == req' = [req EXCEPT ![t].pc = p, ![t].using = None]
GoWith(t, p, c) == req' = [req EXCEPT ![t].pc = p, ![t].using = c]

\* An exception in the thread: ping and POST catch one of their own calls.
Raised(r) ==
    IF r.pc \in {"call", "read"} /\ r.kind \in {"ping", "post"}
    THEN [r EXCEPT !.pc = "close", !.using = None, !.stage = "failing"]
    ELSE Ended(r, 500)
Raise(t) == req' = [req EXCEPT ![t] = Raised(@)]

\* A lone request that finds the bridge in order: what it is promised.
InOrder(k) ==
    /\ Running = {} /\ plugged
    /\ IF k = "get" THEN unread # <<>> /\ Open(kkClient)
       ELSE unread = <<>> /\ (kkClient # None => handle[kkClient] # "dead")

Begin(t, k) ==
    /\ At(t) = "idle"
    /\ k # "get" => Len(unread) + Cardinality(Running) < MaxUnread
    /\ req' = [u \in Threads |->
          IF u = t THEN [pc |-> IF k = "init" THEN "test" ELSE "entry", kind |-> k, stage |-> "opening",
                         using |-> None, status |-> 0, clean |-> InOrder(k)]
          ELSE IF At(u) = "idle" THEN req[u] ELSE [req[u] EXCEPT !.clean = FALSE]]
    /\ UNCHANGED <<kkClient, handle, device>>

Entry(t) ==
    /\ At(t) = "entry"
    /\ Go(t, IF kkClient = None THEN "test" ELSE "look")
    /\ UNCHANGED <<kkClient, handle, device>>

-----------------------------------------------------------------------------
(* initDevice, and kkClient.close() wherever it stands *)

\* Mutant: initDevice leaves the old client to Python.
TestNot(t) ==
    /\ At(t) = "test"
    /\ Go(t, "enumerate")
    /\ UNCHANGED <<kkClient, handle, device>>

Test(t) ==
    /\ At(t) = "test"
    /\ Go(t, IF kkClient = None THEN "enumerate" ELSE "close")
    /\ UNCHANGED <<kkClient, handle, device>>

\* The global is read again: it may be None by now.
Close(t) ==
    /\ At(t) = "close"
    /\ IF kkClient = None THEN Raise(t)
       ELSE IF handle[kkClient] = "closed" THEN Go(t, "forget")
       ELSE GoWith(t, "release", kkClient)
    /\ UNCHANGED <<kkClient, device>> /\ Handles(handle)

\* libusb does not release the interface of a device that is gone, nor twice.
Release(t) ==
    LET c == req[t].using
    IN  /\ At(t) = "release"
        /\ IF Open(c) THEN Go(t, "forget") ELSE Raise(t)
        /\ UNCHANGED <<kkClient, device>>
        /\ Handles(IF Open(c) THEN [handle EXCEPT ![c] = "closed"] ELSE handle)

\* Mutant: ping closes the client and keeps it.
ForgetNotInPing(t) ==
    LET ping == req[t].stage = "failing" /\ req[t].kind = "ping"
    IN  /\ At(t) = "forget"
        /\ kkClient' = IF ping THEN kkClient ELSE None
        /\ IF req[t].stage # "failing" THEN Go(t, "enumerate")
           ELSE IF ping THEN End(t, 404)
           ELSE req' = [req EXCEPT ![t].pc = "test", ![t].stage = "reopening"]
        /\ UNCHANGED device /\ Handles(handle)

\* kkClient = None; a POST that has failed opens the device again.
Forget(t) ==
    /\ At(t) = "forget"
    /\ kkClient' = None
    /\ IF req[t].stage # "failing" THEN Go(t, "enumerate")
       ELSE IF req[t].kind = "ping" THEN End(t, 404)
       ELSE req' = [req EXCEPT ![t].pc = "test", ![t].stage = "reopening"]
    /\ UNCHANGED device /\ Handles(handle)

Enumerate(t) ==
    /\ At(t) = "enumerate"
    /\ Go(t, IF plugged THEN "open" ELSE "assign")
    /\ UNCHANGED <<kkClient, handle, device>>

\* WebUsbTransport() claims the interface, KeepKeyClient() writes Initialize.
OpenDevice(t) ==
    /\ At(t) = "open"
    /\ UNCHANGED <<kkClient, plugged, faults, unplugs>>
    /\ Free # {}
    /\ IF plugged /\ ~\E c \in Clients : Open(c)
       THEN LET c == CHOOSE d \in Free : TRUE
            IN  /\ GoWith(t, "features", c)
                /\ unread' = Append(unread, "features")
                /\ Handles([handle EXCEPT ![c] = "open"])
       ELSE Raise(t) /\ UNCHANGED <<handle, unread>>

Assign(t) ==
    /\ At(t) = "assign"
    /\ kkClient' = req[t].using
    /\ IF req[t].stage = "reopening" THEN End(t, 404) ELSE Go(t, "look")
    /\ UNCHANGED device /\ Handles(handle)

-----------------------------------------------------------------------------
(* The request itself *)

Look(t) ==
    /\ At(t) = "look"
    /\ IF kkClient = None THEN End(t, IF req[t].kind = "init" THEN 400 ELSE 404) ELSE Go(t, "call")
    /\ UNCHANGED <<kkClient, device>> /\ Handles(handle)

\* init shows the features, ping and POST write, GET only reads.
Call(t) ==
    /\ At(t) = "call"
    /\ LET k == req[t].kind
       IN  IF kkClient = None \/ (k # "init" /\ ~Open(kkClient))
           THEN Raise(t) /\ UNCHANGED unread
           ELSE /\ IF k \in {"init", "post"} THEN End(t, 200) ELSE GoWith(t, "read", kkClient)
                /\ unread' = IF k \in {"ping", "post"} THEN Append(unread, k) ELSE unread
    /\ UNCHANGED <<kkClient, plugged, faults, unplugs>> /\ Handles(handle)

\* A read waits, in GET for ever, until there is something to be read.
Read(t) ==
    LET whole == Open(req[t].using) /\ unread # <<>>
    IN  /\ Reading(t)
        /\ whole \/ ~Open(req[t].using)
        /\ IF ~whole THEN Raise(t)
           ELSE IF At(t) = "read" THEN End(t, 200)
           ELSE IF Head(unread) = "features" THEN GoWith(t, "assign", req[t].using)
           ELSE Raise(t)
        /\ unread' = IF whole THEN Tail(unread) ELSE unread
        /\ UNCHANGED <<kkClient, plugged, faults, unplugs>> /\ Handles(handle)

\* Two threads that read at once take reports of each other's messages.
ReadMixed(t) ==
    /\ Reading(t) /\ unread # <<>>
    /\ \E u \in Threads \ {t} : Reading(u)
    /\ Raise(t)
    /\ unread' = Tail(unread)
    /\ UNCHANGED <<kkClient, plugged, faults, unplugs>> /\ Handles(handle)

-----------------------------------------------------------------------------
(* The device and the USB *)

Disturbed == [t \in Threads |-> IF At(t) = "idle" THEN req[t] ELSE [req[t] EXCEPT !.clean = FALSE]]

\* A transfer fails: nothing is written, or an answer is not read.
Fault(t) ==
    /\ (At(t) = "call" /\ req[t].kind # "init") \/ Reading(t)
    /\ faults < MaxFaults
    /\ faults' = faults + 1
    /\ req' = [Disturbed EXCEPT ![t] = Raised(@)]
    /\ UNCHANGED <<kkClient, plugged, unread, unplugs>> /\ Handles(handle)

Unplug ==
    /\ plugged /\ unplugs < MaxUnplugs
    /\ unplugs' = unplugs + 1
    /\ plugged' = FALSE /\ unread' = <<>>
    /\ handle' = [c \in Clients |-> IF handle[c] = "open" THEN "dead" ELSE handle[c]]
    /\ req' = Disturbed
    /\ UNCHANGED <<kkClient, faults>>

Plug ==
    /\ ~plugged /\ plugged' = TRUE
    /\ UNCHANGED <<kkClient, handle, unread, req, faults, unplugs>>

Init ==
    /\ kkClient = None /\ handle = [c \in Clients |-> "free"]
    /\ plugged \in BOOLEAN /\ unread = <<>>
    /\ req = [t \in Threads |-> Ended([clean |-> FALSE], 0)]
    /\ faults = 0 /\ unplugs = 0

Next ==
    \/ \E t \in Threads :
          \/ \E k \in Kinds : Begin(t, k)
          \/ Entry(t) \/ Test(t) \/ Close(t) \/ Release(t) \/ Forget(t)
          \/ Enumerate(t) \/ OpenDevice(t) \/ Assign(t)
          \/ Look(t) \/ Call(t) \/ Read(t) \/ ReadMixed(t) \/ Fault(t)
    \/ Unplug \/ Plug

Spec == Init /\ [][Next]_vars

-----------------------------------------------------------------------------
(* Properties *)

\* Whatever requests came before, at the same time, failing or not: one that
\* runs alone, on a device that is there and whose answers have all been read,
\* is served.
LoneRequestServed ==
    \A t \in Threads : req[t].status \in {0, 200}

\* No client that has lost its place to another one keeps the device: between
\* requests only the global can hold the interface, and it is never a client
\* that was closed, with which every request would fail.
DeviceNotKept ==
    Running = {} =>
        /\ \A c \in Clients : handle[c] # "free" => c = kkClient
        /\ kkClient # None => handle[kkClient] \in {"open", "dead"}
===============================================================================
