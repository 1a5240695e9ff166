---------------------------- MODULE DeviceFeatures ----------------------------
(* The features that client.py caches, and the operations that change what    *)
(* they describe: init_device, wipe_device, load_device_by_mnemonic and       *)
(* _by_xprv, recovery_device, reset_device, test_recovery_seed,               *)
(* apply_settings, change_pin, apply_policy and clear_session.  The cached    *)
(* "initialized" decides which of them may start.  Each ends with a refresh   *)
(* of the cache, unless something is raised before, or it is clear_session.   *)
EXTENDS Integers

CONSTANT MaxFaults    \* bound: calls whose answer is lost

ASSUME FaultAssumption == MaxFaults \in Nat

Operations == {"init", "wipe", "load", "reset", "dry_run", "settings", "pin", "policy", "clear"}

\* What Features tells: AdvancedMode is a policy, and part of the session.
States == [initialized : BOOLEAN, pin : BOOLEAN, label : BOOLEAN, advanced : BOOLEAN]

VARIABLES
    dev,        \* the device's state
    features,   \* client.features
    pc,         \* idle | sent | entropy | answered
    op, flag,   \* the operation and its argument
    answer,     \* Success | Other
    outcome,    \* of the last operation: returned | raised
    doubt,      \* the last refresh is older than a call without answer
    cleared,    \* ... or than a clear_session
    faults

operation == <<op, flag>>
vars == <<dev, features, pc, operation, answer, outcome, doubt, cleared, faults>>

-----------------------------------------------------------------------------
(* The device, as the operations and their comments describe it *)

\* What the final message of the operation does when it succeeds.
Effect ==
    CASE op = "wipe" -> [initialized |-> FALSE, pin |-> FALSE, label |-> FALSE, advanced |-> FALSE]
      [] op \in {"load", "reset"} -> [dev EXCEPT !.initialized = TRUE, !.pin = flag]
      [] op = "settings" -> [dev EXCEPT !.label = flag]
      [] op = "pin" -> [dev EXCEPT !.pin = flag]
      [] op = "policy" -> [dev EXCEPT !.advanced = flag]
      [] op = "clear" -> [dev EXCEPT !.advanced = FALSE]
      [] OTHER -> dev

-----------------------------------------------------------------------------
(* The operations *)

\* Mutant: a recovery dry run is not kept off an empty device.
AllowedWithoutDryRun(o) == o \in {"load", "reset"} => ~features.initialized

\* "Device is initialized already. Call wipe_device() and try again."
Allowed(o) ==
    /\ o \in {"load", "reset"} => ~features.initialized
    /\ o = "dry_run" => features.initialized

End(result) ==
    /\ pc' = "idle" /\ outcome' = result
    /\ UNCHANGED <<operation, answer>>

Refuse(o) ==
    /\ pc = "idle" /\ ~Allowed(o)
    /\ End("raised")
    /\ UNCHANGED <<dev, features, doubt, cleared, faults>>

\* init_device is nothing but the refresh that ends the others.
Begin(o, f) ==
    /\ pc = "idle" /\ Allowed(o)
    /\ pc' = IF o = "init" THEN "answered" ELSE "sent"
    /\ op' = o /\ flag' = f
    /\ answer' = "Success"
    /\ UNCHANGED <<dev, features, outcome, doubt, cleared, faults>>

\* reset_device: EntropyRequest and EntropyAck before the end.
Entropy ==
    /\ pc = "sent" /\ op = "reset"
    /\ pc' = "entropy"
    /\ UNCHANGED <<dev, features, operation, answer, outcome, doubt, cleared, faults>>

LastMessage == pc = "entropy" \/ (pc = "sent" /\ op # "reset")

Execute(a) ==
    /\ LastMessage
    /\ dev' = Effect
    /\ pc' = "answered" /\ answer' = a
    /\ UNCHANGED <<features, operation, outcome, doubt, cleared, faults>>

\* A Failure, on which call() raises; or, from reset_device, "Invalid response".
Failure ==
    /\ pc \in {"sent", "entropy"}
    /\ End("raised")
    /\ UNCHANGED <<dev, features, doubt, cleared, faults>>

\* The transport raises, or Ctrl-C: nobody knows whether the device has acted.
Lost ==
    /\ pc \in {"sent", "entropy"} /\ faults < MaxFaults
    /\ dev' \in {dev} \cup {d \in {Effect} : LastMessage}
    /\ doubt' = TRUE
    /\ faults' = faults + 1
    /\ End("raised")
    /\ UNCHANGED <<features, cleared>>

\* Mutant: apply_policy does not refresh the cache.
RefreshingWithoutPolicy == op \notin {"clear", "policy"}

Refreshing == op # "clear"

\* @expect looks at the answer when the cache has been refreshed already.
Refresh ==
    /\ pc = "answered" /\ Refreshing
    /\ features' = dev
    /\ doubt' = FALSE /\ cleared' = FALSE
    /\ End(IF answer = "Other" THEN "raised" ELSE "returned")
    /\ UNCHANGED <<dev, faults>>

\* init_device or GetFeatures raises: the cache stays as it was.
RefreshLost ==
    /\ pc = "answered" /\ Refreshing /\ faults < MaxFaults
    /\ doubt' = TRUE
    /\ faults' = faults + 1
    /\ End("raised")
    /\ UNCHANGED <<dev, features, cleared>>

ReturnUnrefreshed ==
    /\ pc = "answered" /\ ~Refreshing
    /\ cleared' = (cleared \/ op = "clear")
    /\ End(IF answer = "Other" THEN "raised" ELSE "returned")
    /\ UNCHANGED <<dev, features, doubt, faults>>

Init ==
    /\ dev \in States /\ features = dev    \* the client's constructor calls init_device
    /\ pc = "idle" /\ op = "init" /\ flag = FALSE /\ answer = "Success" /\ outcome = "returned"
    /\ doubt = FALSE /\ cleared = FALSE /\ faults = 0

Next ==
    \/ \E o \in Operations : Refuse(o) \/ \E f \in BOOLEAN : Begin(o, f)
    \/ Entropy \/ \E a \in {"Success", "Other"} : Execute(a)
    \/ Failure \/ Lost \/ Refresh \/ RefreshLost \/ ReturnUnrefreshed

Spec == Init /\ [][Next]_vars

-----------------------------------------------------------------------------
(* Properties *)

TypeOK ==
    /\ dev \in States /\ features \in States
    /\ pc \in {"idle", "sent", "entropy", "answered"}
    /\ op \in Operations /\ flag \in BOOLEAN
    /\ answer \in {"Success", "Other"} /\ outcome \in {"returned", "raised"}
    /\ doubt \in BOOLEAN /\ cleared \in BOOLEAN /\ faults \in 0..MaxFaults

\* The cache is what the device is, between operations and however they ended
\* (refused, failed, with an answer of the wrong class), unless an answer was
\* lost after the last refresh; clear_session makes it wrong about AdvancedMode
\* and about nothing else.
CacheFresh ==
    pc = "idle" /\ ~doubt =>
        /\ features = [dev EXCEPT !.advanced = features.advanced]
        /\ ~cleared => features = dev

\* The guards of the operations are about the device and not about an old
\* picture of it: a seed is sent to an initialised device, or a dry run to an
\* empty one, only after a lost answer.
GuardsMeanTheDevice ==
    [][pc' = "sent" /\ ~doubt =>
          /\ op' \in {"load", "reset"} => ~dev.initialized
          /\ op' = "dry_run" => dev.initialized]_vars
=============================================================================
