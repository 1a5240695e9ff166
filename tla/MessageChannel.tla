-------------------------- MODULE MessageChannel --------------------------
(***************************************************************************)
(* What one direction of a KeepKey connection promises to the code above   *)
(* the transport: messages are handed to the reader one at a time, in the  *)
(* order in which they were written, none lost, none repeated, none        *)
(* altered.  It knows nothing of reports, headers or padding; the Framing  *)
(* module shows that the byte-level code implements it when no read fails. *)
(***************************************************************************)
EXTENDS Naturals, Sequences

CONSTANT Messages

VARIABLES sent,       \* every message written so far
          delivered   \* every message a read has returned so far

vars == <<sent, delivered>>

Init == sent = <<>> /\ delivered = <<>>

Send(m) ==
    /\ sent' = Append(sent, m)
    /\ UNCHANGED delivered

Deliver ==
    /\ Len(delivered) < Len(sent)
    /\ delivered' = Append(delivered, sent[Len(delivered) + 1])
    /\ UNCHANGED sent

Next == (\E m \in Messages : Send(m)) \/ Deliver

\* A reader that keeps reading gets everything that was written.
Spec == Init /\ [][Next]_vars /\ WF_vars(Deliver)
=============================================================================
