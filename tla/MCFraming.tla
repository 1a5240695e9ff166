----------------------------- MODULE MCFraming -----------------------------
(* Small instances of Framing: reports of 9 payload bytes and a header     *)
(* search of 10, which keep the code's relation 63 < 64.                   *)
EXTENDS Framing

\* Bodies that end inside, exactly at and just after a report, an empty one,
\* and bodies that themselves contain "##".
AnyBodies ==
    { [type |-> 17, body |-> b] : b \in { <<>>, <<7>>, <<35, 35>>, <<7, 35, 35, 0, 0, 0, 1, 0, 0, 0, 35>> } }

\* Bodies without '#', the last one longer than the header search.
PlainBodies ==
    { [type |-> 17, body |-> b] : b \in { <<>>, <<7>>, <<8, 8>>, <<9, 9, 9, 9, 9, 9, 9, 9, 9, 9, 9>> } }
=============================================================================
