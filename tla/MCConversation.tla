--------------------------- MODULE MCConversation ---------------------------
(* Small instances of Conversation: one operation of each kind and a second *)
(* simple one, so that an answer can be taken for that of a later request.  *)
EXTENDS Conversation

CONSTANTS s1, s2, t1, i1

TwoSimple == {s1, s2}
OneStream == {t1}
OneInit == {i1}
=============================================================================
