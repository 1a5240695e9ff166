------------------------------ MODULE MCStreams ------------------------------
(* Instances of the operations that hand a document over message by message: *)
(* the Cosmos family and Binance with any device or the honest one, and, by  *)
(* themselves, the two EOS operations, which share no state with the others. *)
EXTENDS MessageStream

CONSTANTS ChunkSize, MaxActions, MaxSize

\* parse_unknown cuts into chunks of 256 bytes.
ASSUME EosAssumption == ChunkSize \in Nat \ {0} /\ MaxActions \in Nat /\ MaxSize \in Nat

VARIABLES
    signer,      \* which of the three this behaviour is about: any | honest | eos
    eosRaw, eosDocument, eosAnnounced, eosPc, eosNext, eosChunks, eosResp, eosTrail,
    eosComplete, eosHave

E == INSTANCE EosSignTx WITH
        raw <- eosRaw, document <- eosDocument, announced <- eosAnnounced, pc <- eosPc,
        next <- eosNext, chunks <- eosChunks, resp <- eosResp, trail <- eosTrail,
        complete <- eosComplete, have <- eosHave

EosVars ==
    <<eosRaw, eosDocument, eosAnnounced, eosPc, eosNext, eosChunks, eosResp, eosTrail,
      eosComplete, eosHave>>
StreamsVars == <<vars, EosVars, signer>>

\* The part that is not used stays where it is.
StreamOff ==
    /\ chain = "cosmos" /\ version = V7_14_2 /\ document = <<>>
    /\ pc = "start" /\ resp = "other" /\ trail = <<>>
EosOff ==
    /\ eosRaw = FALSE /\ eosDocument = <<>> /\ eosAnnounced = 0 /\ eosPc = "start"
    /\ eosNext = 0 /\ eosChunks = <<>> /\ eosResp = "Request" /\ eosTrail = <<>>
    /\ eosComplete = 0 /\ eosHave = 0

StreamsInit ==
    \/ signer \in {"any", "honest"} /\ Init /\ EosOff
    \/ signer = "eos" /\ E!Init /\ StreamOff

StreamsNext ==
    /\ \/ signer = "any" /\ Next /\ UNCHANGED EosVars
       \/ signer = "honest" /\ HonestNext /\ UNCHANGED EosVars
       \/ signer = "eos" /\ E!Next /\ UNCHANGED vars
    /\ UNCHANGED signer

StreamsSpec == StreamsInit /\ [][StreamsNext]_StreamsVars /\ WF_StreamsVars(StreamsNext)

\* With an honest device exactly the supported documents are signed, the others
\* end in an exception.
HonestSucceeds == signer = "honest" => SigningSucceeds

\* Not even with an honest device: Binance cuts its documents, see NothingDropped.
HonestDropsNothing == signer = "honest" => NothingDropped

\* Neither EOS operation hands out a signature of less than the transaction.
EosSignedWhole == signer = "eos" => E!SignedWhole

\* An EOS transaction that can be sent is signed, any other one is refused.
EosSucceeds == signer = "eos" => E!SigningSucceeds
=============================================================================
