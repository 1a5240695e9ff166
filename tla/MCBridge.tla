------------------------------- MODULE MCBridge -------------------------------
(* Three requests at a time, each of any kind, one transfer that fails and    *)
(* one time that the device is unplugged.                                     *)
EXTENDS Bridge, TLC

CONSTANTS t1, t2, t3
SomeThreads == {t1, t2, t3}
ThreadSymmetry == Permutations(SomeThreads)
===============================================================================
