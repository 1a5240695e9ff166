-------------------------- MODULE RemoteOperations -------------------------
(***************************************************************************)
(* What BaseClient promises to its callers: an operation is opened, the    *)
(* device carries it out or refuses it, and the operation returns the      *)
(* outcome of that very operation or raises.  One operation is open at a   *)
(* time.  Nothing is said of messages, prompts or sessions; Conversation   *)
(* implements it as long as no read is abandoned.                          *)
(***************************************************************************)
EXTENDS FiniteSets

CONSTANT Ops

VARIABLES status,     \* per operation: new, open, returned or raised
          executed    \* the operations the device has carried out

vars == <<status, executed>>

Status == {"new", "open", "returned", "raised"}

Init ==
    /\ status = [o \in Ops |-> "new"]
    /\ executed = {}

Open(o) ==
    /\ status[o] = "new"
    /\ \A p \in Ops : status[p] # "open"
    /\ status' = [status EXCEPT ![o] = "open"]
    /\ UNCHANGED executed

\* The device carries out an operation only while its caller waits for it.
Execute(o) ==
    /\ status[o] = "open"
    /\ o \notin executed
    /\ executed' = executed \cup {o}
    /\ UNCHANGED status

\* A caller gets a result only if the device has produced it.
Return(o) ==
    /\ status[o] = "open"
    /\ o \in executed
    /\ status' = [status EXCEPT ![o] = "returned"]
    /\ UNCHANGED executed

\* A refused operation was not carried out.
Raise(o) ==
    /\ status[o] = "open"
    /\ o \notin executed
    /\ status' = [status EXCEPT ![o] = "raised"]
    /\ UNCHANGED executed

Next == \E o \in Ops : Open(o) \/ Execute(o) \/ Return(o) \/ Raise(o)

\* What the device has carried out is always reported to the caller.
Spec == Init /\ [][Next]_vars /\ \A o \in Ops : WF_vars(Return(o))
=============================================================================
