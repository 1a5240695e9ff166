------------------------------ MODULE TypedData ------------------------------
(* Typed data (Eip712) in a specification of its own, under names that go    *)
(* with those of EthereumSignTx: the two are parts of one client and never   *)
(* at work together.                                                         *)
CONSTANTS Identifiers, Types, Documents, Values, Paths, MaxLeaf, MaxValue, MaxArray
VARIABLES doc, chunked, agenda, have, total, again, pieces, hashed, answer, docPc

D == INSTANCE Eip712 WITH pc <- docPc

ASSUME DocumentAssumption == D!WellTyped

DocumentSpec == D!Spec

\* The host answers with what stands at the path it is asked about, or raises.
AnswersTheQuestion == D!AnswersTheQuestion

\* A signature covers all bytes of all values of the document, each once.
DocumentSignedWhole == D!SignedWhole

\* What is signed is as its types have it; a walk that ends in an exception
\* ends where, or below where, something is not.
SignedAsTyped == D!SignedAsTyped
===============================================================================
