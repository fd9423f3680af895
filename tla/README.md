# WindRPC in TLA+

WindRPC turns a YAML specification of services into a small RPC protocol for
embedded devices: a C server engine, clients in JavaScript, Python and C#, the
`.proto` files and nanopb options behind them. This directory holds TLA+ models
of the parts that can go wrong in ways tests hardly reach, the TLC
configurations that check them on small instances, and TLAPS proofs for every
value of the constants. Paths below are relative to `src/`.

## The system

A frame is `[RPC_ID:2][SEQ_ID:2][PAYLOAD_LEN:2]` and a protobuf payload. A
client numbers its requests with a 16-bit sequence id and keeps a map from
sequence ids to the calls that wait. The server looks the RPC id up in a
generated table, decodes the payload, runs the application's callback and
answers with the same sequence id, or with an error frame (RPC id 0, a
`Status`). Notifications are pushed with sequence id 0 and bit 7 of the RPC id
set. Datagrams (UDP, BLE) carry frames as they are; on byte streams (UART,
USB-CDC) frames are COBS-encoded and end with a zero.

| part | state | operations | what is hard | what makes it correct |
|---|---|---|---|---|
| C engine, `windrpc/server/templates/windrpc.c` | the transaction: packet, transmit buffer, `bytes_written`, return value, `status_code` | `windrpc_handle`, `send_flat_error_response`, `windrpc_process_packet`, `windrpc_set_error` | eight ways through one function, a static buffer reused from packet to packet, buffers of any size | a frame answers the packet it came from, fits, and is a response only if the callback ran |
| server loop, `examples/udp_demo/c_server/main.c` with `windrpc_notify_*` of the generator | where the loop is; a receive buffer that keeps old bytes | receive, reply, push | the push goes into the transaction of the request; short datagrams leave old bytes in place | answers and pushes are not mixed up |
| JavaScript client, `windrpc/client/templates/WindRpcClient.js` | `seqId`, `_pendingRequests`, promises, timers, accumulator | `sendRequest`, the timer, `_dispatchFrame`, `resetAccumulator`, `receiveBytes` | callbacks in any order, late and duplicated answers, ids that come again, `sendFn` that throws | a promise is settled by its own answer, and by something, in the end |
| Python client, `windrpc/client/python.py` | `_next_seq_id`, `_pending_requests`, futures, coroutines, `_rx_buffer` | `send_request_async`, `receive_raw_datagram`, `receive_bytes` | an answer between deadline and resumption, cancellation, a send that raises | the same |
| network, serial line | what is under way | loss, reordering, duplication, truncation, damage | | external |
| ids and names, `utils/spec_validator.py`, `utils/spec.py`, `server/generator.py`, `proto/generator.py`, `client/js.py`, `client/csharp.py`, `client/python.py` | the specification | validate, combine ids, dispatch table, constants, service clients | each generator derives numbers and names on its own | all agree, ids coincide only where the author's do, what a generated method sends is served |
| enums, the same files and `utils/converter.py` | the specification | numbers, prefixes of names | values and prefixes may be left out | numbers and names coincide only in ways that are known |
| types, `utils/spec_validator.py`, `proto/generator.py`, `server/generator.py`, `client/*.py` | the specification | accept a reference, resolve it, import its file | five places look a name up, each by rules of its own | a reference that is spelled as declared leads somewhere, all find the same message, protoc loads the files |
| buffer sizing, `server/generator.py`, `proto/options_generator.py` | the specification | longest message, buffer size, nanopb's limits | two generators derive limits from one field, one of them with the author's defaults | a message whose fields both see alike fits the buffer |
| smart merge, `server/generator.py` | generated files, some of them edited by hand | a run of the generator, killed or not | repeated runs over code that is being edited | hand-written code survives, no run defines a handler twice, what the table calls is defined |
| client generator, `client/generator.py`, `proto/generator.py` | `.proto` files, data classes, SDK in one directory | a run in its steps, killed or not | the specification is read twice, earlier output stays, a run ends anywhere | the SDK has classes for its services, a run that comes through leaves files of one specification |
| protoc cache, `utils/protoc_resolver.py` | the archive, the extracted file, the binary, shared by all runs on a machine | look, download, extract, move, chmod | crashes and runs at the same time, with the same paths | who installed protoc can start it, and who finds it |
| argument parsing, loaders, legacy header generator, demos | | | | not modelled, see below |

The clients meet the server only over the network; within the server the
transport owns the `windrpc_transaction` and hands it to the engine; the
application is called back by the engine (`execute`) and by the clients
(promises, `onNotification`). All generators read one specification and
have to come to the same numbers, names and types; they share nothing but the
files of the output directory and the cache of protoc.

`PROJECT.json` lists, under `hazards`, what is hard to test in this code, each
at its line, with the properties that watch it.

## Modules

```
WindRpcWire ── WindRpcHandle ─┬─ ProcessPacket
     │                        └─ UdpServer ─┬─ JsSystem ── MCJsSystem
     ├─ JsClient ─┬─────────────────────────┘      │
     │            └─ JsClientOpen                  ├─ implements RpcContract
     └─ PyClient ─┬──── (with UdpServer) ── PySystem ── MCPySystem
                  └─ PyClientOpen
Cobs ─┬─ CobsBuffers ───────────┐
      └─ ByteLine ─┬─ JsStream ─┼─ ByteStream ── MCByteStream
                   └─ PyStream ─┘      │
                                       └─ implements FrameChannel
RpcIds ──────┐
EnumNumbers ─┤
EnumNames ───┼─ Specification ── MCSpecification
TypeNames ───┤
BufferSizes ─┘
SmartMerge ── MCSmartMerge
ProtocCache ── ClientGenerator ── MCClientGenerator

WindRpcHandle_proofs ─┬─ JsSystem_proofs        (JsSystem, JsClientOpen)
(and ProcessPacket)   └─ PySystem_proofs        (PySystem, PyClientOpen)
InductionLemmas ─┬─ ByteStream_proofs           (ByteStream, COBS)
                 ├─ SmartMerge_proofs           (SmartMerge)
                 └─ Specification_proofs        (Specification)
ClientGenerator_proofs                          (ClientGenerator, ProtocCache)
```

**WindRpcWire**: requests, server frames, and the network between. An RPC id is
a model value; what matters of it is whether it is a method, an event, the
reserved 0x0000, and whether bit 7 of its low byte is set (`HighBit`). A payload
is one that decodes (`good`), does not (`bad`), or lost bytes on the way
(`cut`): the engine takes `payload_len` from the header and reads the missing
bytes from the receive buffer, so a cut payload may decode or not. Every frame
carries the call it belongs to; this is history, no component reads it.
`ZigZag` is the number a client reads for the code the engine wrote. `Peer`
stands for a server that sends any frame at any time.

**WindRpcHandle**: `windrpc_handle()`, one operator per way through it:
`HandleRunt` (shorter than a header), `HandleUnknown` (not in the table),
`HandleUndecodable`, `HandleFailed` (callback error), `HandleRequestOnly`,
`HandleNoTx`, `HandleUnencodable`, `HandleReply`. `txn` is the
`windrpc_transaction`. `executed` counts callback runs (history). A transmit
buffer smaller than a header stands for a NULL one too: both end in the same
branch.

**UdpServer**: the loop of `main.c` in its three steps; a push writes into the
transaction of the request before it.

**ProcessPacket**: `windrpc_process_packet()`, a sequence of packets through the
static buffer and a caller's buffer of `MaxResp` bytes. Its specification is
`PacketSpec`, so that the proofs about systems can extend the module, too.

**JsClient**: one action per callback of Node.js, since JavaScript runs one at a
time: `SendRequest`, `SendFrame` (an application that sends a `buildXxxFrame()`
itself), `Timeout`, `Dispatch`, `ResetAccumulator`. `pending` is
`_pendingRequests`; `timer` tells whose `setTimeout` is outstanding.

**PyClient**: asyncio gives way at `wait_for()` only, so a call takes three
steps: `SendRequestAsync`; then the answer (`ReceiveRawDatagram`), the
`Deadline` or a `Cancel`; then one of the `Resume…` actions. Between the last
two, any other callback may run. Up to Python 3.11 `wait_for()` prefers a result
that is there when the deadline comes; from 3.12 on, the deadline wins. The model
has both outcomes.

**JsSystem**, **PySystem**: client, network and server. `LapSpec` restricts them
to one lap of the sequence counter.

**JsClientOpen**, **PyClientOpen**: the clients against `Peer`, with so few
sequence ids that every id is reused while its last call still waits, and with
fairness.

**RpcContract**: what a call promises, for both clients: callbacks run only for
calls that were made; a call ends once, and ends well only after its callback
ran. `JsSystem` and `PySystem` implement it; `outcome` is mapped from the state
of the promise or coroutine, `ran` from `executed`.

**Cobs**, **CobsBuffers**, **ByteLine**, **JsStream**, **PyStream**,
**ByteStream**: the COBS functions of both clients over a small byte (`Full` is
0xFF), and the receivers at the end of a line that loses or changes bytes and
hands them over in chunks of any size. `ByteStream` is either that, or one buffer
that an application hands to the COBS functions.

**FrameChannel**: what a line and its receiver promise, without bytes or chunks: packets
are sent, frames get unreadable, packets come out. It holds which may come out next
(`Follows`), that nothing is taken back, and that a frame gets unreadable only before it
or a later one has come out. `ByteStream` implements it; a frame is unreadable if a fault
or a reset spoilt it or if it is longer than the JavaScript accumulator (`Unreadable`).

**RpcIds**: an author writes services and RPCs with any ids; `Accepted` is what
the validator lets pass, `Table` and `Find` the generated dispatch, `Handler` the C
functions, `ProtoRpcId`, `JsRpcId`, `CsRpcId` and `PyRpcId` the ids that
`windrpc.proto` and the clients have under a name, of which `ProtocTakesIds` says
whether protoc compiles them.
`JsHelpers` and `CsHelpers` are the methods of the generated service clients:
what each sends and whether it waits. A name is the sequence of its words.

**EnumNumbers**: the members of an enum with and without a value, `AcceptedEnum`
the validator's rules, `ProtoNumber` the numbers of the `.proto` file.
**EnumNames**: their names, which get a prefix in the `.proto` files
(`ProtoName`), where the enums of a package share one scope.

**TypeNames**: messages and enums declared in services and in `types`, and the
references to them in fields and RPCs, with or without the part they name, spelled
as declared or not. `IsValidType` is the validator's rule and `Meant` what it
found; `Resolve` is what is written into a `.proto` file and `Found` what protoc
makes of it, `Imports` the files it loads; `ServerType`, `CsType` and `JsType` are
what the C server and the clients take the reference for.

**BufferSizes**: the fields of a message and the defaults of the author's `config`.
`Encoded` is the longest encoding nanopb can make of a field within the limits that
`options_generator.py` gives it: its number decides how long the tag is
(`TagBytes`), `Content` how long a text may be, by its own limit or by the
author's default. `BaseLen`, `CountOf`, `MaxPayload` and `BufferSize` are what the server
generator computes, which looks at no default. `Sized` names the fields for which the
two come to terms. `TxSize` and `PayloadLen` keep their 16 bits.

**Specification** lets the author write about one of these five topics.

**ProtocCache**: `~/.windrpc/bin`, one action per step of `_download_protoc()`
that touches a file. `zip`, `extracted` and `target` are sets of at most one file;
a file is whole or not, executable or not, and has a `writer` as long as a run has
it open: `urlretrieve()` and `extract()` create or truncate their file first
(`OpenZip`, `Unzip`) and finish later (`Fetched`, `Extract`). `reading` and `holes`
tell whose archive was truncated under their hands, whose extraction may then
fail. A step that needs a file which another run has taken away fails, as any
exception does, and leaves everything as it is; so does a kill. `overlapped` and
`brokenOff` are history.

**ClientGenerator**: `windrpc_gen client` in its steps: `Start` reads the
specification for the SDK, `ReadAgain` reads it for the `.proto` files, `WriteProto`
writes one, `WriteCore` the last ones; `Resolve` (steps of `ProtocCache`) and
`Compile` make the data classes of all `.proto` files in the directory, `WriteSdk`
ends the run. `Interrupt` breaks it off anywhere, also while a file is open or
protoc is half through. Of a service it matters whether it declares a type for
others, to whose types it refers, and whether its RPCs have ids: without, its file
is left truncated by KeyError. `Elsewhere` is any other run on the machine, which
meets this one in the cache only.

**SmartMerge**: `windrpc.c` (its table) and `windrpc_callbacks.c` (its blocks)
over several runs of the generator, between edits of the specification and the
developer's work. An RPC is its service, its name and whether it notifies: names are
unique in a service only, and `Handler` has no service in it. A block is how it
starts, the handler it defines and who wrote it; a merge skips blocks by their
beginning, as the code does (`Skipped`), and adds the others whose name does not occur
in the file.

Operators named `X_Y` next to an `X` and commented as *Mutant* are `X` with a
plausible bug. No model uses them; putting one in the place of `X` makes TLC
refute the property that `PROJECT.json` (`mutants`) names, which shows that the
property depends on the code.

## Runs

| run | configuration | what it shows |
|---|---|---|
| `js_lap` | 2 calls, 3 methods (one request-only, one unknown), 3 sequence ids, 1 duplicate, symmetry | one lap of the JavaScript client with network and server: frames answer their requests, promises are settled by their own answers, no timer outlives its entry, callbacks run once per copy, the contract is kept |
| `js_open` | 3 calls, 2 sequence ids, any peer | even when ids collide: who waits has a timer, no entry stays for ever, every call ends |
| `py_lap` | 2 calls, 2 methods, one of them with bit 7 of an event, 1 duplicate | the same for the Python client, with deadlines, cancellation and failing sends; events and the answers to that method reach `on_notification`, and nothing else |
| `py_open` | 2 calls, 1 usable sequence id, any peer | whose entries may stay behind (a failed send, a cancelled call), that id 0 is never used, that every call ends |
| `packet` | transmit buffers of 4 and 9 bytes, caller's buffer of 8 | no frame of an earlier packet, no response without its callback, what return value and length tell the caller |
| `stream` | 3 packets of two kinds, 1 fault, accumulator of 3, both clients; all buffers up to 6 bytes, `Full` = 3 | frames around a fault or an overrun arrive, in order, once; `FrameChannel` is implemented; COBS: overhead, round trip, both decoders agree on anything |
| `specification` | 2 RPCs of 2 services with ids below, at and above every limit, and names that come to one; or an enum of 4 members; or 3 members of 2 enums, with 3 prefixes; or 2 types beside `Empty` and 2 references among 2 services; or 2 fields under any config | accepted RPCs reach their handler, clients and server agree, generated methods are served and wait only for what is sent; which event ids, enum numbers and member names coincide; exact references lead somewhere, all find one message, the files load; buffers hold the messages whose fields are sized |
| `client_gen` | 2 services, 4 versions of the specification, 3 edits if protoc is on the PATH; a second run in the cache if it is not | an SDK has its classes, a run that comes through leaves files of one specification, what was written freshly compiles; who installs protoc alone can start it, and so can those who find it later |
| `merge` | 4 RPCs of 2 services, with 2 handlers between them, 3 runs, 4 edits | hand-written code survives, no run defines a handler twice, the table's handlers are there |
| `js_event_vs_manual` | 2 sequence ids, two laps | fails: an event settles a call (below) |
| `js_error_code_vs_test` | as `js_lap` | fails: a client reads another status code (below) |
| `merge_vs_generator` | as `merge` | fails: new RPCs are not merged (below) |

Type invariants. Every model that a run checks states `TypeOK`. All are
proved for every value of the constants (that of `PyClientOpen` as the part
`ClientOK` of `EntriesInv`); `stream` checks its own as well. Properties made of named parts:
`CobsHolds` is `Overhead`, `RoundTrip` and `DecodersAgree`; `ProtosLoad` is
`NothingDangles` and `ImportsLoad`.

Bounds. Two calls are enough for one to disturb another, and three for a timer
of the first to meet an id that the second has left to the third. `MaxDups`
bounds duplication: one copy is what makes a request run twice or an answer
arrive twice; loss, reordering and truncation are not bounded. Buffer lengths
are chosen on both sides of the header's 6 bytes, of a payload that fits and of
one that does not. `Full` = 3 makes buffers with several full blocks
short. In `stream` the header has 1 byte and the accumulator 3, so that what is left of a
frame of 6 after the overrun is dispatched as a packet. `EventBit` = 4 stands for
128, so that an id has three bits; the offered ids include a missing one, 0, the
reserved, those with the event bit and one too large. The names of `specification`
are such that RPCs of two services make one identifier, and a subscription one with
another RPC; types of RPCs are written in capitals or not. Nothing derived from ids
depends on enums, types or fields, nor the other way round, so the author writes
about one topic at a time. Two services and `types` are enough for a name to be
declared in the service at hand, in the one meant and in `types`; the spelled names
include one in lower case and a message with a scalar's name. `max_size` goes up to
a field for which the buffer's size leaves 16 bits, `max_count` beyond what a length
of one byte tells, numbers beyond a tag of one byte, and defaults lie below and
above those of the sizing. In `py_lap` one method has bit 7 and one has not. In
`client_gen` the versions of the specification are such that a service is removed, a
type that was referred to is gone, two services refer to each other, an id is
missing; edits and the cache are bounded apart (`MaxEdits`, by where protoc is),
since the cache does not look at the specification. Two runs in the cache are enough
for each step of one to meet each step of the other; ClientGenerator_proofs has any
number.

Deadlock is not checked where the system may stop: when all calls are made and
all frames delivered, or a bound is used up. `packet` has none and checks it.

Fairness. `js_open` assumes that Node.js runs a timer that is not cleared
(`WF(Timeout(c))`). `py_open` assumes that asyncio runs the timeout of a
`wait_for()` and resumes a task whose future is done (`WF(Deadline(c))`,
`WF(Resumes(c))`). Nothing is assumed of network or server, which may stay
silent for ever: that calls end does not depend on them.

Why a lap. Both clients match answers by sequence id alone, and a 16-bit counter
comes round: a response delayed for 65536 requests is taken for another call's.
This is inherent in the protocol, so `Correlated`, `WaitingHasEntry`, `TimerHasEntry` and the
contract are stated for the lap (`OneLap`) on which the code relies. What must
hold beyond it is in `js_open` and `py_open`.

## Proofs

Checked by TLAPS for any number of calls, methods, runs, services and fields, any
size of the counter, of buffers and of payloads, under the constants' ASSUMEs. What
a theorem needs beyond them is a hypothesis of the theorem and named here.

*JsSystem_proofs*. Against any peer (`Open`, an instance of `JsClientOpen`; ids may
collide): `OpenTypeCorrect`, `NeverStranded` (`WaitingHasTimer`), `EntriesEnd`
(`EntryHasTimer`). `TimersInv` adds `IdleHasNoTimer`: a send moves `seqOf` of an idle
call, which would break `EntryHasTimer` if that call could be in the map. With
it, the overwriting of an entry is harmless: the old call keeps its timer.

Of `JsSystem!LapSpec`: `TypeCorrect`, `PromisesCorrelate` (`Correlated`),
`WaitingIsPending` (`WaitingHasEntry`), `TimersAreTheirs` (`TimerHasEntry`), `ServerAnswersRequests`
(`AnswersTheRequest`). The invariant follows a call through the system:

- `OwnSeqs`, calls that were made have sequence ids of their own, between 1 and
  `seqId`: from the lap, and the reason why the id alone identifies a call;
- `OwnEntries`, `TimersOfMade`, entries and timers belong to such calls;
- `RequestsGood`, a request under way or in the server bears id and method of its
  call; truncation keeps it, since a cut below the header leaves a runt;
- `RunsOfMade`, `AnswersGood`, a frame in the transmit buffer or under way is a
  notification with id 0, or bears the id of its call, and if it is a response
  its callback has run;
- `ReplyIsThere`, what the loop is about to send has been written;
- `AnsweredIsOver`, a call that has its answer has ended.

A dispatched frame with entry *c* then bears the id of a call, and by `OwnSeqs`
that call is *c*; a notification bears 0, which no entry has.

`RunsArePaidFor` (`ExecutedPerCopy`) counts: the runs of a call's callback and its
requests under way are together at most one more than the copies made
(`CopiesCounted`). A request that is served leaves the network for the server, one
that is cut stays one request, and a call makes one. `SystemKeepsContract` is the
refinement: each step of `LapSpec` maps to a step of `RpcContract` or a stutter
(`StepRefines`); `Correlated` is what makes a resolved promise an `End` with its
callback run.

*WindRpcHandle_proofs*: `HandleEffect` states once what any path through
`windrpc_handle()` does to transaction, buffers and counters, so that the eight paths
are split in one module only, and the three proofs with a server in them cite it.
The third is here: of `PacketSpec`, `PacketTypeCorrect`, `AnswersItsPacket`
(`OutputAnswersThisPacket`), `RespondsAfterRun` (`ResponseMeansRun`) and `CallerCanTell`
(`ReturnTellsOutput`), the last two action properties. The first two are inductive
together: what is copied out has the length the engine set, in the step that wrote
the frame.

*PySystem_proofs*. Against any peer, however often the counter goes round:
`EntriesHaveOwners` (`EntryOwner`), `EventsFindNoCall` (`EventIdIsFree`). `EntriesInv`
adds that the counter itself is never 0 and that the future of an entry is pending
unless its wait was interrupted (`EntryUnanswered`): an answer takes the entry away in
the step that completes the future.

Of `PySystem!LapSpec`: `TypeCorrect`, `AwaitedIsPending` (`AwaitedHasEntry`),
`AnswersCorrelate`, `FramesReachTheirs` (`Correlated`), and the contract. `IInv` takes
`OwnSeqs`, `RequestsGood`, `RunsOfMade`, `AnswersGood` and `ReplyIsThere` from the
JavaScript proof and adds `ResultsGood`, since here an answer rests in a future until
the coroutine resumes, and what has been notified (`NotifiedGood`). `LapAssumption` asks for more than two
sequence ids: with two, the counter's only value but 0 is its own successor, and no
lap has room for a call. `Correlated` is `AnswersItsCall`, which `AnswersCorrelate`
proves by itself, `NotifiesItsFrames` and `HighBitNeverReturns`; methods may have any ids.

*ByteStream_proofs*. COBS first, for bytes of any size and buffers of any length:
`CobsCorrect` (`CobsHolds`). A decoder is the one function that gives each
place of its input what is read from there on (`Decodes`): built from the back, it
exists (`DecoderExists`), there is no other (`DecoderUnique`), and where no byte is zero
both clients' definitions are it (`DecodersAre`, `SameDecoding`). The encoder keeps, byte
by byte, that what it has written holds no zero but the open block's code byte
(`Encoder`) and is read as the data so far, whatever is written behind it
(`Represents`); its length is counted by `Grown`.

Then the streams: `StreamTypeCorrect` (`TypeOK`), `ReadableFramesArrive`
(`FramesArrive`), `PacketsDeliveredOnce` (`DeliveredOnce`), for any packets, any number
of faults, any cutting into chunks and any limit of the accumulator. Neither property is
inductive: a frame is delivered, or it is not, many steps after its bytes were sent and
its neighbours spoilt. `StreamInv` therefore speaks of what has not been dealt with yet,
the receiver's buffer with the line behind it, as of one piece (`Pending`):

- `NoneIsLost`, a frame that can be read was delivered or stands there whole, right at
  the beginning or behind a delimiter of the frame before it;
- `InOrder`, `WasSent`, frames stand in the order in which they were sent, with one
  delimiter each unless a fault made another;
- `Passed`, `Once`, what was delivered belongs to frames before those, in order;
- `NextBegins`, the next frame sent will stand behind a delimiter, unless a fault
  has taken that and the frame is counted as spoilt.

It does not matter to `Pending` how much of it is in the buffer, which is why chunks can
be cut anywhere: `Scanned` adds how far a receiver has looked, and each byte it looks
at keeps it (`ZeroScanned`, `OtherScanned`, and `OverrunScanned` where the accumulator
is given up). From that, induction over a chunk gives both loops (`JsReceived`,
`PyReceived`). A lost byte thins the line out (`Removed`), a changed one changes it
(`Changed`), a reset drops its beginning (`ThrownAway`); a frame such a step reaches is
among the damaged, and the others stand as they stood (`NotSpoilt`). TLC checked
`StreamInv` on the instance of `stream` (100 982 states) before it was proved.

`StreamIsChannel` (`ImplementsChannel`) takes the refinement of `FrameChannel` from
the same invariant. What may come out next is decided by it alone (`InTheirOrder`): a
readable frame that is not out stands on the line (`NoneIsLost`), so nothing behind it
is out (`Passed`). That delivered packets are only added to (`GrowsTo`) goes through the
induction over a chunk with the rest. A fault or a reset spoils frames of which a byte
is still to come, or the one behind such a frame, and none of these is out
(`StillToCome`).

*ClientGenerator_proofs*. Of `ProtocCache!CacheSpec`, any number of runs:
`TypeCorrect`, `RestHolds` (`RestIsUsable`), `InstallsAlone` (`AloneInstalls`).
Neither property is inductive. For the first, `RestInv` says that a file which is
open belongs to a run that extracts (`WritersExtract`), that a closed one is whole
(`ClosedIsWhole`) and that while the binary is not executable some run is still on
its way to the chmod (`ModeWillBeSet`). A kill or a failed extraction breaks this for ever,
so all three are stated for `~ brokenOff`. For the second, `AloneInv` gives the
run that is alone, for each of its steps, what it has achieved (`Achieved`: after
the fetch the archive is whole, after the extraction the file is, after the move
the binary, after the chmod it is executable), and says that while it is busy no
other is (`OnlyBusy`): a step of another can only be a look, which ends the
solitude, or a departure, which touches no file (`OthersWait`).

`ImplementsCache` says that the generator, interruptions included, does in the cache
only what `CacheSpec` allows; so both results hold of it, too. Of its output:
`ClassesAreThere` (`SdkHasClasses`), `DoneIsCurrent` (`DoneMeansCurrent`),
`ProtocTakesFresh` (`FreshFilesCompile`). `OutputInv` says what is done at each stage
(`Written`: the `.proto` files but those still to do are of the specification read for
them; `Compiled`; `SdkIsOfRun`) and that classes come from `.proto` files only, none
of which is ever removed (`ClassesHaveProtos`).

*SmartMerge_proofs*: `HandlersDefinedOnce` (`DefinedOnce`), `LinksAsLongAsCreated`
(`LinksAsCreated`), `KeepsDeveloperCode` (`DeveloperCodeKept`, an action property).
`IInv` is that the file begins with the skeleton it was created from and that every
block behind that has a name of its own (`BeginsAsCreated`). Every block of a skeleton
begins like one that a merge passes over, so that `Additions`, a recursion over the
generated text, is empty (`NothingAdded`, by induction).

*Specification_proofs*, all properties of `specification`, whatever the author writes.
What an author writes is kept as it is, so beyond `TypeOK` the invariants are few:
every member has a named enum, what a reference led to when it was accepted stays
declared (`TypesInv`), and fields are counted. The work is in the operators:

- `RpcsAreServed` (`EveryRpcIsServed`), `EventsAreApart` (`WireIdsDistinct`): two bytes
  make one number and no others make it; the generated `switch` finds the RPC's handler
  because no accepted RPC has the same two bytes. Which event ids coincide is a matter
  of one byte with or without its bit 7.
- `ClientsHaveTheIds` (`ClientsAgree`), `MethodsAreServed` (`HelpersAreServed`): names are
  sequences of words, and the constants of a client are the lists of all RPCs one after
  another. Under a name there is one id because no other RPC writes that name, where
  protoc takes the same names in `windrpc.proto` (`ProtocTakesIds`, a condition in the
  properties).
- `EnumClashesFound` (`ClashesAreImplicit`), by induction over the members, which are
  numbered by recursion; `MemberClashesKnown` (`MembersClashAsWritten`), from what is a
  prefix of what.
- `FilesLoad` (`ProtosLoad`), `GeneratorsAgree` (`TypesAgree`), case by case of how a
  reference is written and where its name is declared.
- `MessagesFit` (`SizedMessagesFit`), for up to eight fields: by induction, a message's
  encoding exceeds what the sizing counts by 7 bytes a field at most, and 58 bytes
  of the 64 to spare are left behind the header.

*InductionLemmas*. The library's induction theorems have an operator as a parameter,
which the installed provers cannot instantiate. The lemmas here state induction of a
set, prove it from the pigeonhole principle, and from it that a recursive
function over `0 .. n` exists and is what its definition says. What a recursion
computes can so be proved; the models use recursive functions and no
`RECURSIVE` operator.

Only model-checked: `EveryCallEnds`, which is liveness and out of the prover's
reach.

## Where code and statements disagree

Shown by a run:

- `js_event_vs_manual`: `getNextSeqId()` wraps to 0, the sequence id of
  notifications, and `_dispatchFrame()` looks at the sequence id only, so that an
  event resolves the request with id 0 (`WindRpcClient.js:77`, `:181`).
- `js_error_code_vs_test`: `send_flat_error_response()` writes the code of a
  `Status` zigzag-encoded (`windrpc.c:108`) and clients decode an `int32`:
  UNIMPLEMENTED arrives as 24. The test feeds the bytes a plain `int32` has.
- `merge_vs_generator`: in `write_smart_merge()` generated handlers begin with
  `/**` and are passed over as if they were file headers (`generator.py:639`):
  nothing is ever appended. `LinksAsCreated` is what remains true.

Met while modelling, without a run of its own:

- `windrpc_process_packet()` cuts a frame to `max_resp_len` and returns 0
  (`windrpc.c:233`; the header file promises success for a response frame).
- A request-only method is answered with an error frame when it fails
  (`windrpc.c:173`; the manual says "no server response"). `AnswersTheRequest`
  states what holds: it never gets a response.
- When a response cannot be encoded, `ctx->status_code` stays 0 while the client
  gets INTERNAL (`windrpc.c:200`).
- RPC ids from 128 on pass the validator, though an event id is the id with bit
  7 set: events 1 and 129 share an id, and the Python client takes responses of
  such methods for notifications (`spec_validator.py:420`, `python.py:198`).
  `WireIdsDistinct` says which ids coincide; `py_lap` has such a method, and
  `HighBitNeverReturns` says what becomes of its calls.
- Services and RPCs without an id pass the validator (`spec_validator.py:166`),
  and the generators that need it raise KeyError; hence `Sound` in `RpcIds`. The
  `.proto` file of such a service has been opened by then and stays empty
  (`proto/generator.py:440`).
- Two services may each have an RPC of one name, whose handlers are one C function
  (`spec_validator.py:407`, `generator.py:564`); and an RPC `subscribe_x` beside a
  notification `x` is one, too. The skeleton defines that function twice
  (`generator.py:710`); `DefinedOnce` says that nothing else does.
- Names of services and RPCs are put together without a mark between them: `led` with
  `fan_on` and `led_fan` with `on` are accepted and make one constant in
  `windrpc.proto`, which protoc refuses. `ProtocTakesIds` says which do not.
- A subscription is answered with a `Status` by the server (`generator.py:97`) and
  with `Empty` according to the `.proto` file (`proto/generator.py:322`).
- `buildXxxFrame()` of a notification builds a request with the id of the event
  (`client/js.py:198`), which the server does not know; the id for subscribing is
  a constant that no generated JavaScript method uses. `HelpersAreServed` states
  what holds of the others and of C#.
- An enum value left out may be numbered as one that is written: `spec_validator.py:276`
  compares written values only, and protoc refuses the file. `js.py:44` raises
  KeyError where a value is left out, though the validator allows it.
- A `type` in lower case is accepted; only the Python generator compares it as
  written (`python.py:40`), and leaves bit 7 out, as `ClientsAgree` says.
- Members of enums are compared as written (`spec_validator.py:218`): `PUMP_ON` and
  `ON` of an enum `Pump`, or `on` and `ON`, are accepted and become one name in the
  `.proto` file (`converter.py:40`), unless `strict`; so do `MODE_ON` of `Pump` and `ON`
  of `PumpMode`, also if `strict`. JavaScript keeps the names without a prefix.
- A reference in lower case is accepted (`spec_validator.py:150`; `core_spec.yml:34`
  says that a name "will be converted to pascal case"), and written as it is:
  protoc does not find the type. A message named like a scalar in another case,
  `Bool`, is taken for the scalar.
- A reference to another service's type is resolved to a local or shared one of the
  same name (`proto/generator.py:167`), while the C server takes it for what it says.
- `types.proto` imports itself if one of its messages refers to a type of `types`
  (`proto/generator.py:217`), and services that refer to each other import each
  other: protoc takes neither. `ImportsLoad` says what holds of the others.
- A reference in three parts is accepted (`spec_validator.py:135`), and the server
  and C# generators raise ValueError (`generator.py:53`, `csharp.py:101`). One to a
  type of `types` without its part is accepted; the C server and C# look for it in
  the service. C# has the package `Hlt` written in (`csharp.py:102`) and takes
  `types` for a service. In JavaScript all messages share one name space, and the
  enums of services are missing (`js.py:92`).
- The server's buffers are sized with 64 bytes for a text without a limit, whatever
  `default_string_max_size` and `default_bytes_max_size` say, and with one element where
  `max_count` is not given, while nanopb gets the author's default, or 16
  (`generator.py:873`, `:882`; `options_generator.py:27`): a default of 500 overruns the
  buffer. `max_length` of bytes goes first in the sizing and nanopb does not know it; nested
  messages count 64 bytes, oneofs nothing, and those of `types` get no nanopb limits
  either (`options_generator.py:76`). A negative `int32` takes 11 bytes and counts 5, a
  tag above 15 takes two bytes and more: many fields overrun the 64 spare bytes. A
  buffer of 65536 bytes and more does not fit `tx_size`. `Sized` in `BufferSizes`
  names what holds.
- The `result` of a REQUEST_ONLY RPC is not validated, and imported all the same
  (`spec_validator.py:435`, `proto/generator.py:263`).
- A run killed between the move and the chmod leaves a protoc that every later run
  finds and none can start (`protoc_resolver.py:87`). Of runs that install at the
  same time one may remove or truncate the other's files, and succeed with a protoc that
  cannot be started yet; if an extraction fails on the way, a torn one may stay for ever.
- `.proto` files of a removed service stay and are compiled (`client/generator.py:130`):
  if they refer to a type that is gone, or are truncated, no later run comes through.
- One run reads the specification twice (`client/generator.py:25`,
  `proto/generator.py:406`): after an edit between them the SDK has services without
  classes.

## Not modelled

The C# service client is modelled as far as ids, types and waiting go; the
`RpcHandler` it hands requests to is not in the repository. Argument parsing,
loaders, spelling rules and case conversion are text in, text out; so are the legacy
`header_generator.py`, `_generate_dispatch_table()` and
`_generate_get_command_tag_and_index_funcs()` of the server generator, which
nothing calls. The recommended stack size and version constants are read by no
code here. protoc, nanopb and the file system are external: protoc takes a set of
`.proto` files if their references and imports can be resolved, a file is written
by one run at a time or torn. The SDK file is written in one step, since nothing
reads it back. The fields of an error frame are not told apart: its length is modelled, and the
code where it is written. A torn `windrpc_callbacks.c`, a `result` that nobody asked for
(REQUEST_ONLY), and JavaScript's descriptor of enums, which has no value where the
author gave none, are not modelled. The demo applications are linear scripts over the clients. Logging,
the JavaScript protobuf helpers, the tests and the review script are left out.

## Plan

Done: server, both clients, network and line; ids, enums, types and buffer sizes;
smart merge, client generator and protoc cache; proofs of all safety properties and
of the refinements (`RpcContract` by both systems, `FrameChannel` by the streams,
the cache by the client generator).
