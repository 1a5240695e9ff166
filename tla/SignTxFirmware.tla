--------------------------- MODULE SignTxFirmware ---------------------------
(***************************************************************************)
(* sign_tx() against the requests a KeepKey really makes.  The firmware is *)
(* not in this repository; its order of requests is the one that the tests *)
(* list as expected responses (tests/test_msg_signtx.py, _segwit, _dash,   *)
(* _bgold): every input, with the transaction it spends unless the         *)
(* signature covers the amount; the outputs; then each input, for which    *)
(* the old way of signing needs all inputs and outputs again; the outputs  *)
(* to serialise; and once more the inputs that have a witness.             *)
(***************************************************************************)
EXTENDS SignTx, SequencesExt

\* A request of the script, and what the device has computed once it is
\* answered: a signature for an input, a part of the serialised transaction.
Ask(t, h, i) == [type |-> t, hash |-> h, index |-> i, sig |-> None, part |-> FALSE]

AllOf(t, h, n) == [k \in 1..n |-> Ask(t, h, k - 1)]

Yielding(s, sig) == [s EXCEPT ![Len(s)] = [@ EXCEPT !.sig = sig, !.part = TRUE]]

\* arg.inputs whose signature does not cover the amount they spend.
SignsOldWay(i) == ~arg.inputs[i].witness /\ ~arg.bip143

Previous(h) ==
    <<Ask("TXMETA", h, 0)>>
    \o AllOf("TXINPUT", h, Prev[h].ins)
    \o AllOf("TXOUTPUT", h, Prev[h].outs)
    \o (IF Prev[h].extra > 0 THEN <<Ask("TXEXTRADATA", h, 0)>> ELSE <<>>)

Check ==
    FlattenSeq([i \in 1..InputCount |->
        <<Ask("TXINPUT", Own, i - 1)>>
        \o (IF SignsOldWay(i) THEN Previous(arg.inputs[i].prev) ELSE <<>>)])
    \o AllOf("TXOUTPUT", Own, arg.outputs)

SignInput(i) ==
    CASE SignsOldWay(i) ->
           Yielding(AllOf("TXINPUT", Own, InputCount) \o AllOf("TXOUTPUT", Own, arg.outputs), i - 1)
      [] arg.inputs[i].witness -> Yielding(<<Ask("TXINPUT", Own, i - 1)>>, None)
      [] OTHER -> Yielding(<<Ask("TXINPUT", Own, i - 1)>>, i - 1)

SerializeOutput(j) == Yielding(<<Ask("TXOUTPUT", Own, j - 1)>>, None)

SignWitness(i) ==
    IF arg.inputs[i].witness THEN Yielding(<<Ask("TXINPUT", Own, i - 1)>>, i - 1) ELSE <<>>

Script ==
    Check
    \o FlattenSeq([i \in 1..InputCount |-> SignInput(i)])
    \o FlattenSeq([j \in 1..arg.outputs |-> SerializeOutput(j)])
    \o FlattenSeq([i \in 1..InputCount |-> SignWitness(i)])
    \o <<Ask("TXFINISHED", Own, 0)>>

\* The k-th request carries what the answer to the one before it yielded.
ScriptedRequest(k) ==
    [type |-> Script[k].type, hash |-> Script[k].hash, index |-> Script[k].index,
     sig |-> IF k = 1 THEN None ELSE Script[k - 1].sig,
     part |-> k > 1 /\ Script[k - 1].part]

\* The piece that answers a request of the script.
Wanted(q) ==
    Piece(q.hash,
          CASE q.type = "TXMETA" -> "meta"
            [] q.type = "TXINPUT" -> "inputs"
            [] q.type = "TXOUTPUT" -> IF q.hash = Own THEN "outputs" ELSE "bin_outputs"
            [] OTHER -> "extra_data",
          IF q.type = "TXMETA" THEN 0 ELSE q.index)

\* The device goes on only if the host's answer is the piece it asked for.
Satisfied == IF log = <<>> THEN ack = SignTxMsg ELSE ack = Wanted(res)

FirmwareRequest == Satisfied /\ Respond(ScriptedRequest(Len(log) + 1))

-----------------------------------------------------------------------------
(* Properties *)

\* Everything the device asks for is something the host has prepared: if the
\* transactions could be fetched, signing goes through to the end.
SigningSucceeds == <>(pc = "done" \/ (pc = "raised" /\ ~Prepared))

\* The result is the device's: the signatures it computed, and its serialised
\* transaction, which has a part per input, per output and per witness.
ResultIsTheDevices ==
    pc = "done" =>
        /\ \A i \in Slots : SignedFor(i)
        /\ Len(serialized) = InputCount + arg.outputs
               + Cardinality({i \in 1..InputCount : arg.inputs[i].witness})
=============================================================================
