--------------------------- MODULE MCDeviceFeatures ---------------------------
(* What a client keeps from one operation to the next: its features, and, by  *)
(* itself, the responses that a test expects.                                 *)
EXTENDS DeviceFeatures

CONSTANTS Responses, MaxLength, MaxDepth

\* Python's None is no list of responses.
ASSUME ScriptAssumption ==
    /\ "none" \notin Responses
    /\ MaxLength \in Nat /\ MaxDepth \in Nat

VARIABLES
    testing,     \* this behaviour is about the script of a test
    expected, depth, raising, script, got, nested, caught, passed

T == INSTANCE ExpectedResponses

ScriptVars == <<expected, depth, raising, script, got, nested, caught, passed>>
KeptVars == <<vars, ScriptVars, testing>>

\* The part that is not used stays where it is.
KeptInit ==
    /\ T!Init /\ testing \in BOOLEAN
    /\ Init /\ (testing => ~dev.initialized /\ ~dev.pin /\ ~dev.label /\ ~dev.advanced)

KeptNext ==
    /\ \/ testing /\ T!Next /\ UNCHANGED vars
       \/ ~testing /\ Next /\ UNCHANGED ScriptVars
    /\ UNCHANGED testing

KeptSpec == KeptInit /\ [][KeptNext]_KeptVars

\* A test that passes has seen the responses of its script.
ScriptRight == T!ScriptRight
===============================================================================
