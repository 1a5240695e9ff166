--------------------------- MODULE ExpectedResponses ---------------------------
(* The script of a test, DebugLinkMixin of client.py: inside "with client:" a *)
(* test lists the responses it expects, every response is taken off the list, *)
(* and the end of the block complains about those that did not come.          *)
EXTENDS Integers, Sequences

CONSTANTS Responses, MaxLength, MaxDepth    \* the last two are bounds

None == <<"none">>
Scripts == UNION {[1..n -> Responses] : n \in 0..MaxLength}

VARIABLES
    expected,    \* expected_responses: the rest of the list, or None
    depth,       \* in_with_statement
    raising,     \* an exception is on its way
    script,      \* the list as it was set, or None
    got,         \* the responses since
    nested,      \* a block inside this one has ended since
    caught,      \* since then the test has caught an exception
    passed       \* the outermost block has just ended, without exception

scriptVars == <<expected, depth, raising, script, got, nested, caught, passed>>

Enter ==
    /\ ~raising /\ depth < MaxDepth
    /\ depth' = depth + 1
    /\ passed' = FALSE
    /\ script' = IF depth = 0 THEN None ELSE script
    /\ UNCHANGED <<expected, raising, got, nested, caught>>

SetExpectedResponses(list) ==
    /\ ~raising /\ depth > 0
    /\ expected' = list /\ script' = list
    /\ got' = <<>> /\ nested' = FALSE /\ caught' = FALSE
    /\ UNCHANGED <<depth, raising, passed>>

SetOutsideBlock ==
    /\ ~raising /\ depth = 0
    /\ raising' = TRUE
    /\ UNCHANGED <<expected, depth, script, got, nested, caught, passed>>

\* Every response of call_raw: popped before it is compared.
CheckRequest(r) ==
    /\ ~raising /\ Len(got) <= MaxLength
    /\ expected' = IF expected \in {None, <<>>} THEN expected ELSE Tail(expected)
    /\ raising' = (expected # None /\ (expected = <<>> \/ Head(expected) # r))
    /\ got' = Append(got, r)
    /\ passed' = FALSE
    /\ UNCHANGED <<depth, script, nested, caught>>

\* A Failure of the device, an assertion of the test.
Fail ==
    /\ ~raising /\ raising' = TRUE
    /\ UNCHANGED <<expected, depth, script, got, nested, caught, passed>>

\* assertRaises, or except: in the block or around it.
Catch ==
    /\ raising /\ raising' = FALSE
    /\ caught' = TRUE
    /\ UNCHANGED <<expected, depth, script, got, nested, passed>>

\* Mutant: nobody asks what has not come.
ExitUnasked ==
    /\ ~raising /\ depth > 0
    /\ depth' = depth - 1
    /\ nested' = (nested \/ depth > 1)
    /\ expected' = None /\ passed' = (depth = 1)
    /\ UNCHANGED <<raising, script, got, caught>>

\* __exit__ at the end of the block: of an inner block, too, the list is dropped.
Exit ==
    /\ ~raising /\ depth > 0
    /\ depth' = depth - 1
    /\ nested' = (nested \/ depth > 1)
    /\ IF expected \in {None, <<>>}
       THEN expected' = None /\ passed' = (depth = 1) /\ UNCHANGED raising
       ELSE raising' = TRUE /\ UNCHANGED <<expected, passed>>
    /\ UNCHANGED <<script, got, caught>>

\* __exit__ with an exception returns before the list is looked at or dropped.
ExitRaising ==
    /\ raising /\ depth > 0
    /\ depth' = depth - 1
    /\ nested' = (nested \/ depth > 1)
    /\ UNCHANGED <<expected, raising, script, got, caught, passed>>

Init ==
    /\ expected = None /\ depth = 0 /\ raising = FALSE
    /\ script = None /\ got = <<>> /\ nested = FALSE /\ caught = FALSE /\ passed = FALSE

Next ==
    \/ Enter \/ SetOutsideBlock \/ Fail \/ Catch \/ Exit \/ ExitRaising
    \/ \E list \in Scripts : SetExpectedResponses(list)
    \/ \E r \in Responses : CheckRequest(r)

Spec == Init /\ [][Next]_scriptVars

-----------------------------------------------------------------------------
(* Properties *)

\* A test that passes has seen its script: a block that ends without an
\* exception, and in which none was caught and no other block has ended, got
\* exactly the listed responses.  And a list outlives its block, so that later
\* responses are compared with it, only when an exception has ended the block.
ScriptRight ==
    /\ passed /\ script # None /\ ~nested /\ ~caught => got = script
    /\ depth = 0 /\ ~raising /\ expected # None => caught
===============================================================================
