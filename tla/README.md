# A formal model of mqtt-wire

`mqtt-wire` is the server's side of one MQTT connection: bytes of the client go in, hooks of the
application are called, bytes for the client come out. This directory holds TLA+ models of the
library, TLC configurations that check them on small instances, and proofs that TLAPS checks for
instances of every size. Paths below are relative to the repository.

## The system

| part | source | state | operations |
|---|---|---|---|
| session, class `MqttWire` | `src/wire.ts` | connection state, protocol version, what CONNECT announced, keepalive timer, and one each of the four stateful parts below | `receive`, `publish`, `disconnect`, `reset`, the keepalive callback, a handler per packet type |
| keepalive | `src/wire.ts:780` | interval, time of the last activity | start, fire, stop; every packet in either direction is activity |
| packet ids, `PacketIdAllocator` | `src/state/packet-id.ts` | next id, set of ids in use | `allocate`, `release`, `restore`, `reset` |
| QoS flows, `QoSFlowTracker` | `src/state/qos-flow.ts` | a Map of the server's unacknowledged messages and a Map of the client's QoS 2 messages, both by packet id | start a flow, handle PUBACK, PUBREC, PUBREL, PUBCOMP, `clear`; retry and restore (for the application; nothing in the library calls them) |
| topic aliases, `TopicAliasManager` | `src/state/topic-alias.ts` | alias to topic in both directions, the reverse of one, next alias | `resolveInbound`, `getOrAssignOutbound`, `clear` |
| stream framing, `StreamFramer` | `src/codec/framing.ts` | list of chunks, merged buffer, offset | `push`, `read`, `clear` |
| numbers, strings, reader and writer | `src/codec` | position in a buffer, growing buffer | read and write bytes, integers, variable byte integers, UTF-8 strings, binary data |
| packets and properties | `src/packets` | none | encode and decode the fifteen packet types in MQTT 3.1.1 and 5.0 |
| topics | `src/topic.ts` | none | validate and match names and filters, shared subscriptions |

How they interact. The transport calls `receive(chunk)` once per chunk and does not wait for the
call before (`src/examples/node-tcp.ts`). `receive` pushes the chunk into the framer, reads
packets until there is none, decodes each and awaits its handler. The handlers await hooks of the
application: `onSend` for every packet that goes out, `onConnect`, `onPublish`, `onSubscribe`,
`onUnsubscribe`, `onDisconnect`; `onError` is called without waiting. Meanwhile the application
calls `publish`, `disconnect` and `reset`, and the keepalive interval fires. Nothing is locked:
whatever is called during an await sees and changes the same fields.

What is hard here:

* *Interleaving at awaits.* Several `receive` calls read one framer; `disconnect`, `reset` and the
  timer run between CONNECT and CONNACK, between PUBREL and the delivery it asks for, between the
  DISCONNECT of an error and the cleanup behind it.
* *Failure of one step of several.* Every hook may reject and `encodePacket` may throw, and what
  was done before is not undone.
* *The client's order.* The client may send acknowledgements twice, out of order, or for ids it
  was never given, and may reuse ids and aliases at any time.
* *Time.* The interval is half the keep alive and the timeout one and a half, the event loop may be
  late, and a closed connection may be opened again while its last send is still pending.
* *Crashes.* What an application saved of flows and ids may be older than what the peer knows.
* *Boundaries.* Ids wrap around at 65535, chunks end anywhere, lengths take one to four bytes,
  strings are UTF-16 in memory and UTF-8 on the wire, a length in a packet may point past its end.

What makes each part correct: a packet id belongs to one live message at a time, and comes back when
its exchange ends; a live flow is never overwritten; a QoS 2 message is delivered once; a PUBACK that
is sent after the delivery means it; both sides agree on what an alias stands for; the timer runs
while connected, and is neither early nor late; calls return and messages are read; packets are those
of the byte stream, however it is cut; what is decoded is what was encoded, and can be encoded again;
a message is routed to exactly the filters that MQTT says; nothing is lost in a crash. `PROJECT.json`
lists the hazards at their lines with the properties that watch them, and those nothing watches, with
the reason.

## Modules

    IdPool  <--implements--  PacketIdAllocatorSpec --> PacketIdAllocator <-------+
                             MCPacketIdAllocator         ^                       |
    PacketStream <--implements-- StreamFramer            |   QoSFlowTracker <----+
                              MCStreamFramer             |        ^              |
                                   |                     +--- MqttWire --> TopicAliasManager
                                   v                          MCMqttWire         |
                               PacketFrame --> VariableByteInteger               |
                                   ^                                             |
    Codec (MCCodec) ---------------+     MessageDelivery <--implements-- PersistentSession
      | |
      | +--> Topics                      KeepAlive (its timeouts are those of MqttWire)
      v
    PacketEncoder, PacketDecoder --> Properties --> BinaryWriter, BinaryReader --> Utf8

* **PacketIdAllocator**: the class as operators over `nextId` and `inUse`. The loop of `allocate`
  is the condition that it passes only ids in use (`Skipped`). **PacketIdAllocatorSpec** closes them
  into a specification of any sequence of calls, with arguments out of range too; **IdPool** is the
  abstract pool of ids the class promises; **MCPacketIdAllocator** adds a history of ids.
* **QoSFlowTracker** and **TopicAliasManager**: the two classes as operators over their Maps. A Map
  is a function with a value for "no entry".
* **MqttWire**: the session, composed of the three. JavaScript runs to completion between two
  awaits, so an action is the code from a call, or from the settling of a promise, to the next await.
  A suspended call is a *task* with a continuation: `at` says which await it is suspended at, `on`
  which hook's promise it waits for, the other fields are the locals used later. `Receive`, `Publish`,
  `Disconnect`, `Reset`, `KeepAliveTimeout` are the calls from outside; `Dispatch` is the loop of
  `receive` with `handlePacket`, and calls the handler of the packet up to its first await;
  `OnConnectSettles`, `Accept`, `Refuse`, `Deliver`, `Acknowledge`, `ReleaseMessage`, `Answer`,
  `FinishDisconnect`, `FinishProtocolError` are what follows each await; `Reject` and `EncodeFails`
  are the exceptions. The variables of the last group are history: what an observer has seen.
  `Teach` is the client's side of a PUBLISH that introduces an alias: it learns the alias, or the send
  fails, `publish` rejects and the alias is lost. `opening` is what became of the last opening of the
  connection: "open" until a closing is "reported", and "doomed" if it was made while an error handler of
  an earlier connection had its last cleanup still to do (`Closing`).
* **KeepAlive**: the timer of `startKeepalive` with a clock. A tick is half a second, so a keep alive
  of k seconds has an interval of k ticks and a timeout of 3k. `Tick` waits for a callback that is too
  late; `CheckActivity` and `KeepAliveTimeout` are the two outcomes of the callback. `Connect`, `Accept`,
  `Hear`, `SendPacket`, `Disconnect`, `ProtocolError`, their continuations and `Reset` are the places of
  `wire.ts` that set `lastActivity` or start or stop the timer, with as many calls pending as
  `MaxPending`. In `MqttWire` a timeout may come at any time while the timer runs; this module says when.
* **PersistentSession**: the server's and the client's tracker and the allocator through connections
  that break and sides that crash. The library exports `restore`, `incrementRetry` and
  `getFlowsNeedingRetry` and calls none of them, so the application around them is external and is as
  simple as their comments allow: it saves whenever it is about to send, restores when it starts, and
  sends again on a new connection what was sent on an earlier one. **MessageDelivery** is what it
  promises: a message is delivered before the server forgets it and never after, once at QoS 2.
* **VariableByteInteger**: encoding, decoding and completeness of lengths. **PacketFrame**: the header
  and the size limits of a packet. **StreamFramer**: the class over bytes, with the radix 128 and the
  limits as constants. **PacketStream** is what it promises: one queue of bytes, a packet taken from its
  head or nothing. In `MqttWire` the framer is a queue of frames; `StreamFramer` is why that is sound:
  packets come in the order and with the content of the stream, and a frame that is refused stays at the
  head. `MqttWire` leaves out the chunk that ends inside a packet, which `read` answers with
  "incomplete", as it does for an empty queue.
* **Utf8**, **BinaryReader**, **BinaryWriter**, **Properties**, **PacketEncoder**, **PacketDecoder**:
  `src/codec` and `src/packets` over bytes. A string is a sequence of UTF-16 code units, a packet a
  record with the fields of `src/packets/types.ts`, an exception a result of its own that the operator
  `Then` passes on. A reader is the buffer with a position and an end; as in the code, a sub-reader's end
  stops numbers and not strings. A 32-bit integer is a pair of 16-bit ones, since TLC's integers are
  smaller. **Topics** has `src/topic.ts`, and beside each loop the rule of MQTT it implements.
* **Codec** composes encoder, framer and decoder: a behaviour picks a packet, encodes it, lets something
  happen to the bytes on the way (`Send`: nothing, `Follow`: others stand behind them, `Truncate`,
  `Corrupt`: one byte is another) and decodes what arrives; or matches a topic with a filter.
  **MCCodec** has the sample packets.

Abstracted in `MqttWire`: payloads, client ids and properties that the session only passes on; decoding,
which is a frame with the fields the handlers read or a malformed one; time, which is in `KeepAlive`. A
packet id of 0, which the decoder lets through in acknowledgements and in PUBLISH, is in the model; ids of
16 bits are `0..MaxPacketId`. `publish` is one step up to the call of `onSend`: nothing follows its await.
A call of `publish` that throws before anything changed is no step. The topic validation of `publish` is
left out: the model's topics are valid.

## Runs

Every run of `MqttWire` bounds the calls from outside (`MaxInputs`) and the suspended calls
(`Tasks`); a behaviour that has used its calls comes to rest (`Rest`), so TLC's deadlock check means
that no call is left suspended for ever. Two tasks are what every race found needs; they are
interchangeable (symmetry), except in the temporal run.

| run | asks | bounds |
|---|---|---|
| `packet_ids` | Does the scan with wraparound implement the pool? Does a released id rest as long as possible (`LongestRest`)? | 4 ids, so that full, nearly full and wrapped scans all occur; restored sets of any ids, two out of range |
| `outbound` | Do ids, flows and aliases stay in step under any acknowledgements of a client that refuses nothing? | 2 ids, 2 topics for 1 alias, 7 calls: enough for publish, acknowledge, reset, reconnect, publish again |
| `session` | Is QoS 2 delivered at most once, does PUBACK follow the delivery, does the keepalive interval follow the state on every path, is every closing of an MQTT 5.0 connection reported (`CloseIsReported`)? | 1 id and id 0, 5 calls, pipelined and separate PUBRELs, every error path, `disconnect`, `reset` and timeouts between any two awaits, every hook and `encodePacket` failing |
| `liveness` | Do calls return, frames get read, released messages get delivered? | 5 calls, with `disconnect` and timeouts; hooks that settle |
| `framing` | Are the packets those of the stream however it is cut (`ImplementsStream`), is the buffered length exact? | lengths in base 2 with one or two digits: every header, valid and malformed, every packet size up to one more than accepted; six buffered bytes, chunks of one or two, so up to three packets, compaction and pushes on a half-consumed buffer |
| `codec` | Is what was encoded decoded (`RoundTrip`), do framer and decoder agree where a packet ends (`FramesAgree`), can what was decoded be encoded again (`Forwardable`)? Are topics routed and filters validated by the rules (`RoutedAsSpecified`, `FiltersAsSpecified`)? | radix 128, every packet type in both versions, with each property alone, none and all; characters of one to four bytes, lone surrogates; lengths around 127, the longest string set to 258 bytes so that both its bytes count, and a writer of 16 bytes so that it grows; packets of up to 300 bytes, so that the framer refuses some the decoder takes; packets of up to 20 bytes cut everywhere or damaged at every byte, with five values; every filter of up to four of five characters, every topic name of up to three |
| `keepalive` | Is silence noticed in time (`NoticedInTime`), is nobody who talks timed out (`NoEarlyTimeout`), is a dead connection closed (`DeadClientIsClosed`)? | keep alives of 0, 1 and 3 seconds, callbacks up to one second late, two pending calls of a kind, and times up to where no comparison changes any more (`Horizon`) |
| `persistence` | Do two sides that lose connections and crash keep the promise of `MessageDelivery`, do ids and flows match after a restore (`RestoredIdsMatchFlows`), does every exchange end? | 2 ids, one message of QoS 1 and two of QoS 2, so that ids are reused; 4 connections: three breaks, each with a crash of none, one or both sides |
| `receive_maximum` and the three below it | disagreements, below | the least that shows them |

The properties are defined, with a comment each, at the end of `MqttWire`, `StreamFramer`, `KeepAlive`,
`PersistentSession`, `Codec` and `PacketIdAllocatorSpec` and in `MCPacketIdAllocator`. Every property of a
passing run has a mutant in `PROJECT.json`: a definition changed as a bug would change it, with which TLC
finds the property violated. The mutated definitions stand in the modules, marked `mutated`.

Limits of the passing runs that are part of what they say. `outbound` has no refusing PUBREC, because
with one `IdsMatchFlows` fails (`refused_pubrec`). It has an `onSend` that may fail: `publish` records an
alias before it encodes and sends (`src/wire.ts:310`), and when either fails the client does not know the
alias. `AliasesAgree` says that this is the only way to disagree: an alias that the client does not know is
in `lostAliases`. `CloseIsReported` speaks of MQTT 5.0, see below, and counts each opening for itself. It
excepts one made while an error handler of an earlier connection waits for `onDisconnect`: a second CONNECT
that was pending, or one after `reset()`, opens the connection, and the cleanup at the end of that handler
(`src/wire.ts:759`) closes it in silence. The run reaches such a closing. `reset()` starts over. `RoundTrip` compares with what the wire can carry: a lone surrogate arrives as
U+FFFD, a leading byte order mark does not arrive, and 3.1.1 has no properties. `persistence` has no retry
while the connection stands and no write to storage that fails.

**Fairness.** `MqttWire` (`FairSpec`): weak fairness of `Settle(t)` for each task. The event loop runs
every continuation whose promise has settled, and a hook's promise is assumed to settle; nothing is
assumed of the client, the application or the timer. `liveness` keeps hooks from rejecting (a rejection
ends `receive` and may leave frames behind and messages undelivered, listed under the hazards) and makes
no `reset` (which forgets released messages on purpose). `KeepAlive`: time passes, the event loop runs the
interval's callbacks, and `onSend` of the DISCONNECT settles, so weak fairness of `Tick`, of the two
outcomes of the callback and of `FinishClosing`; none of the client and none of `Accept`.
`PersistentSession`: weak fairness of `Retry`, `Serve`, `Consume` and `Recover`: what arrives is read,
crashed sides come back, and the last connection stands; none of `Publish` and of the faults.

**Disagreements** with the repository's own words, each shown by a run that TLC finds violated:

* `receive_maximum`: the tracker is built with 65535 and "Will be reconfigured on CONNECT"
  (`src/wire.ts:176`); it is not, and the client's Receive Maximum limits nothing.
* `refused_pubrec`: a refusing PUBREC ends the flow and leaks its id, so the allocator throws the error
  that "should not happen with proper flow control" (`src/state/packet-id.ts:28`).
* `rebound_alias`: the topic of a QoS 2 message is resolved when PUBREL comes, not when PUBLISH did; the
  packet given to `onPublish` is said to be "already resolved" (`src/state/types.ts:185`).
* `reopened`: a connection closed while `onConnect` is pending is opened by its answer.

Others that the models contain and no run is about:

* Under MQTT 3.1.1 an error closes the connection without `onDisconnect` (`src/wire.ts:751`), which is
  "called when client disconnects or connection is lost" (`src/state/types.ts:210`); and it may be called
  twice for one connection (`src/wire.ts:737`).
* A 3.1.1 return code of 1 to 5 given by `onConnect` is below 0x80, and `handleConnect` takes the
  connection for accepted (`src/wire.ts:501`), while the encoder sends the refusal
  (`src/packets/encode.ts:155`).
* A sub-reader is to be "constrained" to the properties (`src/packets/decode.ts:1097`), but strings and
  binary data read on to the end of the buffer (`src/codec/reader.ts:131`), so a property may take bytes of
  the payload.
* What the server sends counts as activity of the client (`src/wire.ts:806`), so only a silent connection
  times out; `NoticedInTime` says it of the connection, `DeadClientIsClosed` of one the server is silent on.
* `retryInterval` and `maxRetries` (`src/state/types.ts:258`) are used by nothing.
* `MAX_PACKET_SIZE` (`src/constants.ts:268`) is the largest remaining length and one byte, and is compared
  with the whole packet (`src/codec/framing.ts:118`), whose header may have five bytes: packets of the
  largest four sizes that MQTT allows are refused. `FramesAgree`
  lets the framer refuse what is beyond its limit and nothing else.
* A `publish` that fails to send keeps the alias it assigned (`src/state/topic-alias.ts:246`), and the next
  one of that topic sends the alias alone, which the client has never seen.
* The last cleanup of an error handler closes a connection that was opened during its await, and
  `onDisconnect` is not called for it (`src/wire.ts:759`).
* `reset()` keeps the protocol version (`src/wire.ts:824`), and the framer's next packet is decoded in it.
* The decoder accepts QoS 3 of a will, and bytes that trail the fields of some packets.

## Proofs

All for every value of the constants that the named assumptions of each module allow: any width of ids
and aliases, any frames, hooks, failures, number of suspended calls, keep alives, lateness, messages.

* **PacketIdAllocatorProofs**. `AllocatorTypeCorrect` is inductive as it stands. It makes `inUse`
  finite and inside `Ids`, hence `ExhaustedMeansAllInUse`: when the size test refuses, the set *is*
  `Ids` (a subset with as many elements). With it `AllocatorImplementsPool` maps each step to its
  abstract one. `ReleasedIdsRestLongest` is about the history of free ids that `MCPacketIdAllocator` adds.
* **MqttWireProofs**. `WireTypeCorrect`: one lemma per handler and per continuation that the type
  invariant is preserved. It includes the shape of every continuation and of every stored packet,
  so it says that no handler finds a local it does not expect.

  `FlowsKeepTheirIds`, `FlowsAreNotReplaced` and `NoIdIsLost`: every step is one of four kinds seen from the tracker (`OutboundStep`): it leaves ids and flows alone,
  starts a flow with an id that was free, ends one (releasing at most its id) or advances one, or clears
  both. With `FlowIdsHeld` a free id has no flow, so a start replaces nothing. `NoIdIsLost` is
  `IdsMatchFlows` for clients that refuse nothing: it assumes `RefusesNothing` of every chunk, and then
  ending a flow releases exactly its id. The assumption is needed: `refused_pubrec` is the run without it.
  `QoS2MessagesDeliveredAtMostOnce`: the invariant counts deliveries done, tasks about to deliver, and the
  tracked message, against messages accepted; it is inductive because `handlePubrel` deletes the flow in
  the step that makes the task. It is the theorem behind "two `receive` calls cannot both deliver".

  About the rest of the session: `TimerRunsWhileConnected` (with the observation
  that `clientKeepAlive` changes only in the state `awaiting-connect`), `PubackStandsForDelivery`, and
  `AliasesAlwaysAgree`, for any hooks that fail. Its invariant adds that assigned aliases are below
  `nextOutboundAlias` (`AliasesGivenInOrder`), so a new one is never one the client already knows under
  another topic. `AliasesAreKnown` assumes that `encodePacket` and `onSend` do not fail: then no alias is
  lost, and the client knows them all. `ClosesAreReported` assumes that `onDisconnect` is given. Its
  invariant adds that while an error handler is at its last await the last opening is not "open" (it was
  reported, or it is that handler's to close), and that none has been made in the state
  `awaiting-connect`. A step that leaves `connected` under 5.0 passes `disconnect` or the handler of a
  DISCONNECT and reports, is a `reset()`, or is that last cleanup.
* **KeepAliveProofs**. `KeepAliveTypeCorrect`, `SilenceIsNoticedInTime`, `NoTimeoutIsEarly`. The interval
  runs exactly while a session with a keep alive is open, and while it runs the time since the last
  activity and the time to the next callback are together less than a timeout and an interval: a
  callback that finds less than a timeout begins an interval anew.
* **PersistentSessionProofs**. `RestoredIdsAlwaysMatch`: memory and storage may differ, but each holds an
  id for each of its flows and no other (`MemoryMatches`, `StorageMatches`); restoring is a union of both.
  `DeliveryIsImplemented`: the refinement needs to know of every exchange how far both sides and the books
  are, for what is in memory and for what a crash would bring back. The invariant (`DeliveryInv`) says of
  each flow, stored or in memory, which states of the other side go with it (`ServerInStep`,
  `ClientInStep`, `Exchanges`, `Books`), and that each packet in flight is the one its sender's flow asks
  for, at most one of an exchange (`InFlight`). `SessionTypeCorrect` follows with it: the bound of packets
  in flight is not inductive without knowing that each belongs to another id.
* **StreamFramerProofs**. `FramerTypeCorrect` and `LengthsAreExact`: the invariant adds to the types that
  the total length is that of the chunks (`Counted`), which matters only while there is no buffer, since
  `push` sets the total anew. `StreamIsImplemented`: a push appends to the unread bytes (`PushQueues`), a
  read takes a frame from their front or leaves them (`ReadTakes`); and what the parser finds is what the
  set of headers allows (`FrameIsRight`): a length ends where one header does and no other begins like it
  (`HeaderThere`, `HeaderUnique`), and digits times multipliers sum up to the number the digits write
  (`SumIsNumber`).
* **FramingLemmas** has what both this and the next modules rest on: sequences joined end to end, the
  number that bytes stand for, where a packet ends. They are recursive functions, proved about by
  induction on the natural numbers: as a statement of sets (`Induction`), since the prover cannot
  instantiate the library's with a predicate. `NumbersAreReadBack`: the encoder's digits are those of the
  number, the last one the first without a continuation bit, and their sum is the number again.
* **WireFormatProofs**. `WritesAll`: the array has room for what is written, and what was written stays in
  front of the position when it grows. `StringsAreReadBack`: what a character is encoded as (`Encoded`)
  stands in the bytes of the string one behind the other (`OffsetsExist`); the decoder reads one character
  at a time (`CharacterIsRead`, four cases by its width), and by induction from the end of the string it
  returns the units that are left (`StringDecodes`). `BinaryIsReadBack` is the same without characters.
  `LengthIsCountedRight`: `utf8ByteLength` sums over the code units, each counted for itself; a sum over a
  set does not depend on the order (`IsSummed`, `Total`), so it can be taken from the front, a pair of
  surrogates at once. `SizeIsWhatIsWritten` sums up in the same way what each entry of properties takes.
  `PropertiesAreReadBack`: a value is read as it was written, for each of the seven types (`ValueIsRead`),
  and so is an entry (`EntryIsRead`); one turn of the loop reads one value (`TurnTaken`), and by induction
  over the values of an identifier (`GroupIsRead`) and over the identifiers (`GroupsAreRead`) every entry
  gets all of its values. The size in front is right, so the loop ends there and the reader with it.
  The theorem is about any entries whose identifiers differ and whose values have their types.
* **CodecProofs**. `PacketsAreFrames` needs no invariant: for any bytes, framer and decoder read the same
  type and the same length, so what the one takes for a packet is a frame of as many bytes, or one the
  framer finds too large. `FramesAlwaysAgree` says it of the specification: what arrives are bytes, and
  what is received is what the decoder makes of them (`CodecInv`).
  The theorems about topics go from the characters up. `ParsedSplits`: the levels lie between the slashes
  (`Splits`), by induction over the characters; `ParsedJoins`: joining them gives the string back. From the
  first follows that a wildcard stands alone in its level if and only if its neighbours in the string are
  slashes or ends (`LevelPlaces`, `ValidIsWellFormed`), hence `FiltersAreAsSpecified`; from the second that
  two strings with equal levels are equal, hence a filter without wildcards matches itself alone.
  `MatchesAsSpecified` is the loop of `topicMatches` over levels of any kind, for filters with # at the end only, which is what
  validation lets through; `RoutingIsAsSpecified` puts both together.
  They assume `InputAssumption`: the inputs are typed as `src/packets/types.ts` has them, and what
  `EncodePacket` makes of each is bytes unless it throws. TLC evaluates it for the sample packets.

Only model-checked: `RoundTrip` and `Forwardable` (what they rest on is proved: numbers, strings, binary
data, lengths, the writer and sections of properties are read back; the fifteen packets put together of
them are not), and the liveness properties `CallsReturn`, `FramesAreRead`, `ReleasedIsDelivered`,
`DeadClientIsClosed`, `ExchangesEnd` (fairness and `ENABLED` are beyond the prover).

## Not modelled, and the plan

Done: allocator, tracker, aliases, session, framing; keepalive with time; persistent sessions with
crashes; the codec from bytes to packets; topics; proofs of their invariants.

Left, in this order:

1. Proofs about the codec: that `EncodePacket` makes bytes of every packet typed as in `types.ts`, which
   is assumed of the inputs so far; round trips of packets, from those of their fields and of sections of
   properties.
2. `PersistentSession`: a retry while the connection stands, a write to storage that fails.
3. `validateTopicName` in `publish`, which throws before anything has changed; the operator is in `Topics`.
4. Methods nothing in the library calls: `TopicAliasMap.has` and `delete`, `parsePacketFrame`, parts of
   the reader and writer, `PacketSizeCalculator`.

Left out for good: `src/testing`, `src/bench`, `src/examples`, `src/scripts`, CI: no protocol logic.
