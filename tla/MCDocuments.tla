----------------------------- MODULE MCDocuments -----------------------------
(* The operations that stream a document to the device in one run: those of  *)
(* MCStreams and, by itself, typed data (MCEip712), which shares no state    *)
(* with them.                                                                *)
EXTENDS MCStreams, MCEip712

TypedVars == <<doc, chunked, agenda, have, total, again, pieces, hashed, answer, docPc>>

\* The part that is not used stays where it is: a walk with nothing to visit.
TypedOff ==
    /\ doc = Odd("Twice") /\ chunked = FALSE /\ agenda = <<>>
    /\ have = D!None /\ total = D!None /\ again = FALSE /\ pieces = <<>>
    /\ hashed = <<>> /\ answer = D!Error /\ docPc = "host"

DocumentsInit ==
    \/ StreamsInit /\ TypedOff
    \/ signer = "typed" /\ StreamOff /\ EosOff /\ D!Init

DocumentsNext ==
    \/ StreamsNext /\ UNCHANGED TypedVars
    \/ signer = "typed" /\ D!Next /\ UNCHANGED StreamsVars

DocumentsSpec ==
    DocumentsInit /\ [][DocumentsNext]_<<StreamsVars, TypedVars>>
    /\ WF_<<StreamsVars, TypedVars>>(DocumentsNext)

\* Exactly the typed documents that can be signed as they stand are signed.
TypedSucceeds == <>(signer = "typed" => D!EndsRight)
===============================================================================
