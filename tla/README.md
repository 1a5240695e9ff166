# A verification of python-keepkey

python-keepkey (`keepkeylib`) is the host side of the KeepKey hardware wallet:
it finds a device, frames protobuf messages into 64-byte reports, runs the
request/answer conversations in which the device may stop to ask for a button,
a PIN or a passphrase, and drives the flows in which a transaction is streamed
to the device piece by piece.  This directory holds TLA+ models of that code,
the TLC configurations that check them and proofs of their main properties.

The device's firmware is not in the repository.  It is modelled as the code
under `src/` uses it, in one of two ways: as an *arbitrary* device that may send
anything at any time (what does the host guarantee whatever it is connected
to?), or as an *honest* one that follows the order of messages which the tests
list (do the two sides understand each other?).

## The system

| part | state it keeps | operations | what is hard |
|---|---|---|---|
| `transport.py` and the HID, WebUSB, UDP transports | receive buffer, `session_depth` | write, read, read_blocking, session_begin/end | the padding left between messages; reads that fail in the middle of a message |
| `transport_dylib.py` | one firmware instance per process, a lock, a buffer per channel | write, read, ready_to_read | reports that arrive between two reads; deadlines |
| `client.py`: BaseClient, session, expect | the recursion of `call()` | call, call_raw, cancel, close | exceptions anywhere; abandoned answers; sessions |
| TextUIMixin, DebugLinkMixin, `debuglink.py` | expected responses, button and PIN policy, the debug channel | the `callback_*` handlers, `with client:` | the press travels on another channel than the acknowledgement; a script that outlives its block |
| `sign_tx` | previous transactions, signatures, serialised parts | SignTx and TxAck until TXFINISHED | the device drives: any piece, any order, any signature index |
| `zcash_sign_pczt` | counters of outputs, inputs, the set of actions sent | ZcashSignPCZT and its acks | three streams in a row, compact signatures, a second message in one answer |
| `ethereum_sign_tx` with `erc7730.py` | remaining data; a catalog that serves several calls | preload, SignTx and TxAck | a device that asks for any place of any definition |
| `eip712_stream.py` | none (pure) | struct_members, value_ack | nested dimensions, boundaries of chunks |
| Cosmos family, Binance | the messages left | one request per message | which firmware signs which denomination |
| EOS | remaining actions and chunks | one request per action or chunk | a device that stops early or asks for too much |
| reset, recovery, load, wipe, settings | `features` | one or two calls, then init_device | the cached features, stale after an exception |
| `kkbridge.py` | one global client for all HTTP threads | init, ping, exchange | requests in parallel |
| `tx_api.py`, `filecache.py` | files | get_tx | offline mode |
| compilers for ERC-7730 and clear signing, `tools.py`, `mapping.py`, scripts | none or constant tables | data conversion | formats |

The parts interact by calls in one thread: an operation calls `call()`, which
writes to and reads from a transport and calls back into a UI mixin.  Real
concurrency is that of host and device (and the user who presses the device's
button), of the main and the debug channel, and of the bridge's HTTP threads.

`PROJECT.json` lists every part with its status, and under `hazards` the places
where this code is hard to test, with the properties that watch them.

## The modules

**Framing** (abstract: **MessageChannel**) is the byte level: `Write` builds the
reports of one message, `WriteReport` puts them on the wire, `ReadBlocking`
starts a read, `Receive` is one round of `_raw_read`, `Scan`, `Magic` and
`Header` are the stages of `_read_headers`, and `Body` completes `_read`.
`Stash` is the in-process transport, whose `ready_to_read` puts a report into the
buffer between two reads.  `Timeout` and `SocketError` are the two ways in which
`UDPTransport._read` can fail; neither puts back the bytes already consumed.  As
both ends use the same format the model connects the library's writer to its own
reader.

**Conversation** (abstract: **RemoteOperations**) is `BaseClient` with its
callbacks.  `pc`, `cur`, `msg` and `calls` are the call stack, `depth` is
`transport.session_depth`.  `Begin` starts an operation, `Send` and `Read` are
`call_raw`, the `Callback...` actions are the handlers, `CallAgain` is the
recursive `call()`, `ReturnToBody` unwinds it, `NextCall` is the next call of a
streaming operation, `Finish` and `Unexpected` are the two ends of `@expect`.
What goes wrong: a read is abandoned, a callback raises, `cancel()` leaves an
answer unread, the device crashes.  The device (`Dev...`) answers each message
once, shows prompts that wait for their acknowledgement, and understands
`Initialize` everywhere.  The debug channel carries the button presses.

**ExpectedResponses** is the script of a test in DebugLinkMixin: `Enter`, `Exit`
and `ExitRaising` are `__enter__` and the ends of `__exit__`, `CheckRequest` is
what `call_raw` does with every response.  `script` and `got` remember what the
test asked for and what came, so that the property can compare them.

**SignTx** is `sign_tx` and `_prepare_sign_tx`.  The variables are the local
variables of the function; every piece of a transaction is named by its
transaction, kind and index.  A signature and a serialised part are named by the
number of the request that brought them, so that the properties can tell which
ones ended up in the result.  The device is arbitrary.  **SignTxFirmware**
restricts it to the honest one.

**ZcashPczt** is `zcash_sign_pczt`.  `stage` is the loop the function is in,
`resp` the last message of the device, `sentOutputs`, `sentInputs`,
`sentActions` and `transparent` are its local variables; `trail` records what
was sent.  Each loop has an action that sends a piece, one that raises over a
wrong request (`Reject...`) and one that leaves the loop (`Leave...`).
`TakeTransparent` is the message that is followed by another one unasked,
`Return` the checks at the end.  **ZcashFirmware** is the honest device, which
knows only the pieces it has received.

**Erc7730Catalog** holds the data structure of `erc7730.py` as operators: a
catalog is a pair of dictionaries, `Add` is `Catalog.add` (`CanAdd` its
exceptions), `Find` and `Serve` are `resolve` and `chunk`.  **EthereumSignTx**
is `ethereum_sign_tx` with `preload`: `stage` says which of them reads the next
message, `left` and `offset` are their places in calldata and envelope, `catalog`
is an object of the caller that outlives the call, `own` the one made when the
caller passes none.  Bytes are named by their places, so that `trail` tells which
ones have gone out.  **EthereumFirmware** is the honest device: with a definition
it reads the calldata beyond the initial chunk `Passes` times, and looks for the
definition of an embedded call before it goes back to the outer one.

**Eip712** is `eip712_stream.py` with the device that walks the document.
`StructMembers` and `ValueAck` are the two functions of the host, `Dimension` the
order in which the brackets of a type are consumed.  A type is its base and its
brackets; a value is a leaf known by where it stands and by its length, or a list,
or a struct.  The device keeps an agenda of what is still to be visited, takes a
long value in chunks if its firmware can, and reads long strings twice; `pieces`
are those of the value in hand, `hashed` what has been read so far, each value
with its path and its pieces.  The host follows a member path with one cursor and a
count of the brackets it has used (`Descend`).  The properties compare that with
what a document means, read from the outside in: `Contents(d, path)` is what
stands at a path, `Called` whether the types want something there, and `Fits`
whether that can be signed.  Both walks along a path are recursive functions of
its prefixes.  **TypedData** gives the specification and its properties names of
their own (`DocumentSpec`, `DocumentSignedWhole`), for the run and for the proofs,
which stand beside those of EthereumSignTx.

**MessageStream** is the loop that the operations of the Cosmos family and
Binance share, with what each checks before it sends a message (`Sendable`), how
much of the message it sends (`Ack`: one coin) and what firmware makes of that
(`Signed`).  What the firmware does is taken from comments and tests and not from
the checks of the client: Osmosis before 7.14.2 and Thorchain before 7.15.0 have their
own denomination hardcoded (client.py:1164, 1328, `SignsItsOwn`), later ones sign the
one they are sent, and so does Binance from 6.6.0
(tests/test_msg_binance_sign_tx.py:101, `SignsWhatIsSent`).  Of Mayachain and of older
Binance firmware the repository shows only signatures of CACAO and BNB; with another
denomination the model lets them sign either (`Unsourced`).  **EosSignTx** is
`eos_sign_tx` and `eos_sign_tx_raw` with `parse_action` and `parse_unknown`.

**DeviceFeatures** is what a client keeps from one operation to the next: `dev` is
the device, `features` the copy.  `Begin` is the guard and the first message of an
operation, `Execute`, `Failure` and `Lost` are its end on the wire, `Refresh` and
`RefreshLost` are the `init_device()` after it.

**Bridge** is `kkbridge.py`: one action per statement that reads or writes the
global `kkClient` or touches the device, for any number of threads.  `handle`
tells which client has claimed the interface (libusb lets only one), and
`Handles` is CPython, which drops a client nobody refers to together with its
handle.

MC modules instantiate these.  Several put two things that do not interact into
one run, chosen in the initial state and never mixed: the arbitrary and the
honest device (`MCSignTx`, `MCZcashPczt`, `MCEthereumSignTx`), three ways to stream
a document message by message (`MCStreams`) and typed data (`MCEip712`) with them
(`MCDocuments`), the features and the script of a test
(`MCDeviceFeatures`).  **Framing_proofs**, **Conversation_proofs**,
**SignTx_proofs**, **ZcashPczt_proofs**, **Ethereum_proofs**, **MessageStream_proofs**,
**DeviceFeatures_proofs** and **Bridge_proofs** hold the theorems; those about
Eip712 are in the second half of **Ethereum_proofs**.

## What the runs check

| run | question | bounds |
|---|---|---|
| framing | Are messages of every alignment delivered once, in order and unaltered (`ChannelSpec`)? Does the header search ever give up (`ReaderInStep`)? | reports of 9 bytes and a search of 10 (63 and 64 in the code), 4 bodies (empty, one byte, `##`, 11 bytes that contain a whole false header), 3 messages |
| framing_faults | What does a read that fails in the middle cost (`FaultsOnlyLose`), and does the reader find its way back (`ReaderRecovers`)? | the same with bodies free of `#`, one longer than the search, 2 failures |
| conversation | Does the call loop implement "execute at most once, return the outcome" (`RemoteSpec`)? | 2 simple, 1 streaming, 1 init operation, 2 prompts each, the user at the button |
| conversation_faults | Sessions, confusion of answers, approvals, recovery after exceptions and crashes; does every operation end? | the same with the debug link, 1 prompt each and 2 faults of any kind |
| sign_tx | What does the host guarantee whatever the device sends? Do host and honest device get to the end, with the device's result? | arbitrary: 2 inputs, 2 previous transactions, 3 requests with any type, hash, signature and index 0..2 (2 is out of range); honest: every list of up to 3 inputs over 2 previous transactions, witness or not, 2 outputs, BIP-143 coin or not, with and without a transaction source |
| zcash_pczt | What is sent in which order, what does a result mean, can a device keep the host for ever? The same with the honest device | arbitrary: up to 2 outputs and inputs and 3 actions, any message with numbers 0..2 or none, up to 2 signatures, good and bad; honest: up to 3 outputs and inputs, 4 actions, in every order |
| ethereum | What does the host send in which order, and what does a catalog answer, over several calls? Does the honest device sign? | arbitrary: 2 calls with one catalog, 3 envelopes of 1 to 3 bytes, chunks of 2, calldata of up to 5 bytes of which 2 go first, 3 messages a call, requests with good and bad ids, scopes, offsets, lengths and depths; honest: calldata of up to 7 bytes, definitions with and without an embedded call that the catalog may not hold, 3 calls |
| ethereum_passes | Clear signing of calldata that does not fit into the first message (**violated**, see below) | honest device, a definition and 5 bytes of calldata |
| documents | Is only what the caller wrote signed, and is everything signed that can be? Typed data: Is every question answered from the right place (`AnswersTheQuestion`)? Is all of the document signed (`DocumentSignedWhole`), and only what is as its types have it (`SignedAsTyped`)? | Cosmos family and Binance: up to 2 messages of any type, 0 to 2 coins, native or not, 4 firmware versions, arbitrary and honest device; EOS: up to 3 actions, known, malformed and unknown ones of 0 to 4 bytes, chunks of 2, any parts for the raw operation; typed data: `uint[2][][1]` with every shape of up to 2 elements, right and wrong; structs in arrays; values of length 0 to 6 with chunks of 2 and a limit of 5; malformed types; with and without chunks |
| streams_dropped | Is a document signed whole or refused (**violated** for Binance, see below)? | as documents, without typed data |
| features | Is the cache what the device is? Do the guards mean the device? Has a test that passes seen its script? | all operations in any order, 2 lost answers; scripts of up to 3 of 2 responses, blocks nested twice |
| bridge | Is a request that runs alone served, whatever came before? Does a forgotten client keep the device? | 3 threads, 4 clients, 1 failing transfer, 1 unplug, 2 unread answers or requests |

The bounds of framing keep the relation that matters (the search is one longer
than a report's payload, a header fits into one report).  Bodies are shorter,
equal to and longer than what is left of a report.  Two faults are the least
with which a fault can hit the recovery from another one; the stale answer of
one abandoned call needs a second operation to be mistaken for another's, hence
two alike simple operations.  Three requests are the least in which a signature
can repeat after another one and TXFINISHED still follow.  Two outputs and inputs
and three actions are enough for a piece to be asked for early, late and twice,
and for the number of spends to differ from that of the actions.  Envelopes of one,
two and three bytes with chunks of two are shorter than a chunk, exactly one and
more than one; two calls are the least in which a definition can collide with
one of an earlier call.  Three levels of brackets with different numbers are the
least in which every wrong order of consuming them shows.  Three threads let one
thread close what a second one has opened while a third one uses it; as a handle
belongs to a client, four clients are the global and one for each thread.
Initial chunk and largest chunk are 1024 in the code, EOS chunks 256, the largest
EIP-712 value 1 MB.

`MaxSent`, `MaxFaults`, `MaxAsks`, `MaxRequests`, `MaxCalls`, `MaxLength`, `MaxDepth`,
`MaxActions`, `MaxSize`, `MaxUnplugs`, `MaxUnread`, `Requests`, `Lengths`, `Indices`,
`SignatureLists` and the `Few...` of the MC modules are bounds of the models only.

Some properties say less than one might expect, because the code does:

* `OutcomesAreReal` and `ApprovalMeetsItsPrompt` hold only while no answer has
  been left unread.  Messages carry no number: after an abandoned read or a bare
  `cancel()` the next `call()` takes the late answer for its own.
  `SessionDiscipline` bounds how far the client can fall behind.
* `FaultsOnlyLose` is checked with bodies that do not contain `#`.  After a read
  that failed half way, the rest of a body is searched for a header, and a body
  with a `##` in it can pass for one.  It counts failed reads, not failed
  searches: one message that was cut may end several searches in exceptions.
* `CalldataInOrder` lets a request beyond the end be answered with nothing, and
  nothing keeps an arbitrary device from asking so for ever.
* `CacheFresh` excepts the time after a lost answer, and AdvancedMode after
  `clear_session()`, which is the only one that does not refresh.
* `ScriptRight` excepts a test that catches an exception, or that ends an inner
  `with client:` block, which drops the list of the outer one.  A
  response that is not in the script raises the same `CallException` as a
  `Failure` of the device, so that an `assertRaises` around it hides it.
* `SignedAsAsked` compares what the firmware signs with what the caller wrote: all
  messages in order, the number of coins, the denomination.  It has two exceptions.
  Binance documents with more than one message or coin are cut (`Truncated`; that
  is the violated run), and `SigningSucceeds` calls no such result a success: it
  says only that the operation ends.  Where nobody says which denomination a
  firmware signs (`Unsourced`), the property says no more than that the caller's was
  sent: neither `mayachain_sign_tx` nor `binance.sign_tx` looks at the version.
* `EosSignedWhole` trusts the device: `eos_sign_tx` believes one that signs early.
* `SignedAsTyped` except structs without members (`NoEmptyStructs`).  Of such a
  struct the device asks nothing but its members, and `struct_members` does not
  look at the document, so that the walk ends well whatever the document has in its
  place, or if it has nothing.
* `LoneRequestServed` and `DeviceNotKept` except a bridge whose device was
  unplugged: `close()` raises in libusb before `kkClient = None`, in every request,
  so that the bridge has to be restarted (`handle[kkClient] # "dead"`).

Two runs end in a counterexample.

`ethereum_sign_tx` gives away the calldata as
it sends it (client.py:957), while the device reads calldata several times when it
has a definition (tests/test_msg_ethereum_erc7730_runtime.py:807: "Pass 1
validates and fixes the digest; passes 2-4 capture the outer fields").  The tests
of that feature use a loop of their own, which starts again at the front.  With
`ethereum_sign_tx`, calldata longer than the first message together with a
definition ends in an exception (`ClearSigningSucceeds`).  What the tests do not
show is where such a pass starts when part of the calldata came with the first
message; the model takes it to start behind that part.

`binance.sign_tx` drops what it does not send.  It takes `msgs[0]` (binance.py:38),
announces `msg_count=1` (45) and sends `inputs[0].coins[0]` and `outputs[0].coins[0]`
(57–72).  Further messages, inputs, outputs and coins are left out, nothing is
raised, and the caller gets the signature of another transaction than the document
says (`HonestDropsNothing`).  The operations of client.py that run the same loop
raise "Multiple amounts per msg not supported" (1145, 1249, 1318, 1355, 1425, 1441), and
binance.py:75 itself raises "msg type not supported", for the first message only.

## Met while modelling

Observations of the code that no run is about:

* client.py:139 says of `@field` that it raises when the field is missing; the
  result of `HasField` is ignored.
* client.py:348: `and` binds tighter than `or`, so that a backspace with code 8 is
  sent at the first character, too, and one with code 127 is not.
* client.py:1840: `len(xprv) < 100 and len(xprv) > 112` never holds.
* client.py:1880, 1891: `firmware_update` tests for a `Failure`, on which `call()`
  has already raised.
* binance.py:20, 28: `@expect` stands outside `@field` and gets the field, not the
  message, so that both operations always raise.
* binance.py: `sign_tx` sends any denomination to any firmware, while
  tests/test_msg_binance_sign_tx.py:101 asks for 6.6.0 before it signs another one than
  BNB; client.py:1427: `mayachain_sign_tx` does the same, and no test has another
  denomination than CACAO.  Its relatives refuse them on firmware that would sign
  its own instead.
* tx_api.py: `fetch_json` returns before the code that would write its cache.
* transport.py:48 promises that a session locks the device; no transport defines
  `_session_begin`, so that the depth is counted and nothing is locked.
* transport_dylib.py: `ready_to_read` is also true when only padding is left, after
  which `read` waits for its deadline and raises.  After a constructor that failed
  `get_or_init` calls the single-shot `kkemu_init` again.
* eip712_stream.py:46–48: `$` also matches before a final newline.
* kkbridge.py: a POST whose answer nobody GETs leaves the next ones one behind; a
  GET without an answer waits for ever and keeps what it uses.

## Fairness

Framing: a writer that has begun finishes its reports, a caller that wants a
message keeps calling read_blocking, and reading continues whenever bytes are
there.  Conversation: the client is one thread that never waits but for the
device, so its steps are weakly fair together; the same is assumed of a live
device and of a user who wants the operation to end.  No fairness is assumed of
faults and of the start of operations.  SignTx, ZcashPczt, EthereumSignTx,
MessageStream, EosSignTx and Eip712 are conversations of one host with one
device: both continue while they can; of an arbitrary device this says that it
answers, with whatever.  DeviceFeatures and Bridge have safety properties only: a
request of the bridge may wait for ever for an answer that nobody has asked for.
All the runs disable the deadlock check: when every operation, message or input
is used up the system stops.

## What is proved

For every value of the constants (any messages, operations, transactions and
documents, any number of prompts, faults, threads and requests):

* **Framing**: `ReaderStaysInStep`, `FailedReadsOnlyLose`, `ImplementsChannel`.  The
  proof puts every byte at its place in one endless stream: message i begins at
  offset `starts[i]`, the reader has consumed R bytes, and buffer, wire and outbox
  are the bytes that follow (`Stream`).  A position is a message p and a number f of
  messages lost: the reader is in front of p (`Ahead`), in it and in step
  (`InStep`), in the middle of it without knowing (`Astray`), and what it has
  delivered are messages before p, at most one missing per failed read (`Behind`).
  A reader in step finds the next message since what lies before it is zeros, and
  fewer of them than the search skips.
  `FailedReadsOnlyLose` has a hypothesis, `PlainMessages`: no second `##` in a
  message, and no `#` as its last byte before padding, which is what the run's
  bodies are made of; without it the property is false, as said above.
  `ImplementsChannel` assumes `MaxFaults = 0`, as the run does.
* **Conversation**: `Disciplined`, out of `TypeCorrect`, `SessionsMatchFrames`
  (session_depth equals the number of live frames, so none is held between
  operations) and `Alternation`.  The inductive invariant of the sessions adds to
  the property which `pc` allows how many frames: `calls = 0` when idle or in the
  body of a streaming operation, at least one otherwise.  It is needed since
  `Leave` forgets the frames and `EndSessions` subtracts them: that the
  subtraction cannot cut at zero must follow from the invariant.  That of the
  alternation adds how many messages each state of device and client can have in
  flight.
  `ApprovalsMeetTheirPrompts`, `InitializeRecovers` and `SessionsSpanConversations`
  share one more, `StepInv`.  While no answer has been left unread there is one
  message, one answer or one piece of work of the device at a time; `InStep` says
  for each of these places what it belongs to, `PressInStep` that a press on the
  debug channel is for the prompt being shown, `Told` that what the device has
  carried out was asked for.  None of these is inductive without the others.
  `OutcomesReal` adds `RealInv`, which holds after unread answers, too: every
  result on its way is of an operation the device has carried out.
  `ImplementsRemoteOperations` (for `MaxFaults = 0`) is the refinement step by step,
  with `FaultlessInv`, that without faults no answer is ever left unread.
* **SignTx**: `ResultCorrect` (out of `Complete`, `NoRepeatedSignature`,
  `SerializedRight`) and `ServiceCorrect` (out of `ServesOnly`, `PreparedFirst`).
  The inductive invariants relate the log of requests to the slots: the request in
  hand is the last of the log, and all earlier requests have been taken into
  account (a slot is filled exactly if some earlier request carried that index);
  the parts collected are exactly those of the earlier requests; and the
  transactions held are those of the inputs looked at so far.
  `HonestDeviceResult` is about the honest device with any transaction.  Its script
  is a concatenation of requests for inputs, outputs, signatures and witnesses;
  `ScriptParts` counts the parts they bring (one per input, output and witness), and
  `Walk` says that the log is the script up to now and that as many parts have been
  collected as its requests so far bring.  `HonestResults` is the same for the
  specification that the run checks.
* **ZcashPczt**: `StreamCorrect` (out of `InOrder`, `Last`) and `Complete`.  The
  inductive invariant counts the pieces: their number is that of the outputs,
  inputs and actions sent.  Its delicate part is the boundary of the first two
  loops.  The code does not look between them whether all outputs were sent; that
  the second loop sends nothing in that case holds since the first one then ended
  on a message that is no TransparentAck, and no message is read in between.
* **EthereumSignTx** (Ethereum_proofs): `CatalogCorrect` (out of `ConsistentCatalogs`, `Replayed`,
  `ChunksServed`), `Stable`, `Preloaded`, `CalldataOrder`.  The inductive invariant
  adds the place the function is in to the history: during the preload the trail is
  the envelope up to the next offset, afterwards `left` never exceeds the
  calldata; and the catalog in use holds the definition that is preloaded.
  `Stable` rests on a lemma that `Add`, where `CanAdd` allows it, changes no entry
  that was there.  `HonestDeviceSigns` and `HonestSignaturesWhole` are about the
  honest device: while it is spoken to it has received exactly what has been cut
  off of the calldata (`HonestInv`), so that it cannot have seen all its passes while
  something is left.  `Sums` stands for the fold that adds up what was received.
* **Eip712** (Ethereum_proofs): `HostAnswersTheQuestion`, `SignatureCoversTheDocument`
  and `SignedOnlyAsTyped`, for any types and documents, nested to any depth.
  `ContentsByStep` and `ResolveByStep` give the two walks along a path their values
  step by step; they are recursive functions of a number, so that induction shows
  that they exist.  `Located` relates the two: the host's type with some of its
  brackets used, from the end, is the type of the place with these brackets taken
  off.  Root and each step keep it (`RootLocated`, `StepLocated`), so the host finds
  what stands there (`HostFinds`).
  The invariant of the walk, `WalkInv`, is about all paths, not only those that a
  run looks at.  The agenda has the types that the document has (`AgendaRight`);
  hashed values and agenda are in the order of declaration (`Ordered`); every value
  has been hashed or lies below something on the agenda (`NoneForgotten`); the
  pieces in hand are the first bytes of the value (`InHand`); and the answer is the
  one to the question (`Answered`).  Order and completeness need each other's
  agenda: a visit replaces a place by the places below it, of which the next are
  still in front of all others.
  `SignedOnlyAsTyped` adds `FlawInv`: a place that is called for and does not fit
  lies below something on the agenda, or the walk is below it already, where
  nothing stands; and what is on the agenda is called for or below such a place, so
  that a walk which raises does so at a flaw or below one.  Its hypothesis
  `NoEmptyStructs` is the exception above; without it the theorem is false.
* **MessageStream**: `SignedCorrect`.  The inductive invariant says that the trail is
  the document as far as it has been sent and that every message of it has passed
  `Sendable`; a lemma on the chains, versions and denominations
  (`PassesSignedAsAsked`) shows that a message with one coin that passes is signed by
  this firmware as written, and in no other way unless the firmware is `Unsourced`.
  That the result is the whole document follows for the Cosmos family from the
  count, and for Binance only from the hypothesis of the property that there is
  one message; what it cuts otherwise, the run `streams_dropped` shows.
  `EosSignaturesWhole` is about the two EOS operations: `FlattenByParts` says that
  flattening the document is appending its actions one by one, `ListSent` that what
  was sent and what is left of the action in hand are the actions popped, and
  `DeviceKeepsUp` that the device cannot have counted an action which has not come.
* **DeviceFeatures**: `FreshCache`, `GuardsCorrect` (an action property).  The
  invariant exempts the time between the answer of an operation, when the device
  has acted, and the refresh; only after `clear_session` it does not.
  `ScriptsAreSeen` is about ExpectedResponses: while nothing has gone wrong in its
  block, a script is what has come and what is still expected (`Following`).
* **Bridge**: `DeviceNeverKept` and `LoneRequestsServed`.  The first needs to know
  who can refer to a client: a client exists as long as the global or a thread
  refers to it (`Referred`); one that is being opened is known to its thread only,
  so that nobody can have closed it (`NewIsPrivate`); and whoever has closed the
  global is about to forget it (`ClosedIsForgotten`).  The second rests on the
  first and on `Quiet`, which tells where an undisturbed request may stand and what
  it finds there.

The proofs assume of the constants what the modules declare of them and TLC
evaluates: `FramingAssumption` (magic and header fit into the payload of a report,
which is no longer than the search; a type fits into two bytes and a length into
four), and `ConversationAssumption`, `SignTxAssumption`, `ZcashAssumption`,
`CatalogAssumption`, `EthereumAssumption`, `PassesAssumption`, `BoundAssumption`,
`EosAssumption`, `FaultAssumption`, `ScriptAssumption`, `ClientsAssumption` and
`DocumentAssumption` (bounds are naturals, arguments have their types, `None` and
`NoOp` are no other value).  `DocumentAssumption` says that types are lists of
named members with a base and brackets, values are leaves, lists or dicts of
values, a path has an index at least, and the limit of a leaf is not above that of
a value, and the primary type is not called `string` or the like.  It does not say
that documents are as their types have them.  `MemberAssumption`, `NoEmptyStructs`
of the run, is the hypothesis of `SignedOnlyAsTyped` alone.  Where a proof needs
induction over a number (the fold of lengths, the parts of a flattened sequence,
the way along a path), it takes the least element of a set of counterexamples.
`StepInv`, `RealInv`, `ScriptInv`, `EosInv`, `WalkInv` and `FlawInv` (over a
finite set of paths) can be given to TLC as invariants of the runs, where they
hold; those of Framing and of the honest devices quantify over unbounded sequences
and cannot.

Every invariant and action property that a run checks is a theorem.  Only
model-checked:

* Liveness, which is out of the proof system's reach: `OperationEnds`,
  `ReaderRecovers`, `ConversationEnds`, `HonestSucceeds`, `SigningSucceeds`,
  `EosSucceeds`, `TypedSucceeds`, and the halves of `ChannelSpec` and
  `RemoteSpec` that say that a message is delivered and a result returned.

## Not modelled

* Generated protobuf code (`*_pb2.py`, more than half of the lines), the report
  generator and the other scripts, the command line and the widgets: no logic of
  their own, or printing.
* The compilers for ERC-7730 and for clear-signing catalogs, `tools.py`, key
  derivation, and the JSON conversion in `cosmos.py`, `eos.py` and others: pure
  conversion of data.  Of `eos.py` the splitting into chunks is modelled.
* The many operations of one call (addresses, public keys, messages, Solana, TON,
  TRON and others): each is the `simple` operation of Conversation.
* Device enumeration; the loading of the in-process firmware and its lock around
  single calls.
* `firmware_update`, the checks of arguments of load and recovery, and the keys of
  the recovery callback: two calls and conversions, without an order to get wrong.
* `tx_api.py` (two functions around HTTP and a file; what depends on it, a lookup
  that fails, is in SignTx) and `mapping.py` (a table built once).

## Possible extensions

1. Recovery by characters: the position the device reports against the keys that
   the callback accepts.
2. The compilers for ERC-7730, as operators that are compared with a reference.
