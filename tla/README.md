# rs-netty: TLA+ models, checks and proofs

rs-netty runs typed TCP and UDP pipelines on tokio. This directory models its
run-time core in TLA+, checks the models with TLC and proves theorems about them
with TLAPS. Source paths below are relative to the crate's `src/`.

Run one check with `tlc -config conn_life.cfg MCStreamConnection.tla`, one proof
with `tlapm StreamConnectionProofs.tla`. `PROJECT.json` lists runs, properties,
mutations, the source lines of each definition, findings, hazards and theorems.

## 1. Inventory

| Component | State | Operations | Interacts with |
|---|---|---|---|
| TCP connection task, `transport/tcp/connection.rs` | socket, read and write buffers, receiver of the command queue, watch receiver, context, stats | opened hook, loop (check shutdown; select read / command / shutdown / idle), closed hook | channels (queue), handler (poll), server (watch, JoinSet), peer |
| Stream pipeline, `pipeline/stream/runtime.rs` | codec, stages, handler | decode, inbound stages, poll the handler, drain its outbox, encode, flush | the task that drives it |
| Context and outbox, `context/stream.rs` | deque behind a mutex, close flag | write, flush, write_and_flush, close, channel | handler and drain |
| Channel, `channel/stream.rs` | a sender of the bounded queue | write, write_and_flush (with a oneshot answer), close | any application task |
| Stats, `context/stats.rs` | four counters | add, read | connection task |
| TCP server, `transport/tcp/server.rs` | listener, JoinSet, watch channel | start, accept loop, shutdown, stop | connections, handle |
| TCP client, `transport/tcp/client.rs` | handle: channel and join handle | connect, write, wait | one connection task, without a watch receiver |
| UDP socket, `transport/udp/*` | one task for all peers: configuration, read buffer, one write buffer, queue, watch receiver | started hook, loop (check shutdown; select receive / command / shutdown), stopped hook | channels, handler, server handle |
| Datagram pipeline, context and channel, `pipeline/datagram/*`, `context/datagram.rs`, `channel/datagram.rs` | outbox with a destination per message, close flag, sender of the queue | decode, stages, poll, drain; write_to, flush, close | socket task, application tasks |
| Framing codecs, `codec/{line,fixed_length_frame,delimiter_based_frame,length_field_based_frame,byte_array}.rs` | limits, delimiters, field layout | decode, encode | connection task |
| MQTT codec, `codec/mqtt.rs` | packet limit | decode, encode of 15 packet types and 27 properties | connection task |
| HTTP codec, `codec/http.rs` | limits, chunked and trailer options | decode of requests, encode of responses | connection task, router |
| WebSocket codecs, `codec/websocket.rs` | protocol state, limit, mask option | decode, encode, handshake; the router that answers requests and frames | connection task, handler, channels |
| Builders, macros, JSON, errors, info | none at run time | - | - |

What is hard here, and what makes each part correct:

* **Connection task.** select! interleaves reads, commands, timer and signal;
  every await point can fail and the task may end while application tasks wait
  for queue space or an answer. Correct means: answers tell the truth, queue
  order is socket order, nothing taken over is held back, complete frames do
  not wait for more input, hooks pair up, the counters agree, every waiter is
  released, and shutdown is noticed promptly even by a late subscriber.
* **Handler and outbox.** The handler is polled again after each drain in the
  middle of it and may abandon a flush. Its messages must go out in order and
  without anything in between.
* **Server.** Accepts race shutdown, connections fail or panic, an accept
  error ends the loop. The stopped hook must come last, shutdown must reach
  every connection, and one connection must not end the server.
* **UDP socket.** One write buffer serves every peer, every command and every
  handler: what goes out must be one message per datagram, to its own address
  and in order. One bad datagram ends the socket for every peer; even then every
  waiter is released and the hooks pair up. The buffer and the maximum size are
  normalised by every setter, and what is cut by `recv_from` must not pass for a
  whole datagram.
* **Codecs.** What is decoded must not depend on how the bytes were cut into
  reads; what one side encodes the other must decode, item by item; a packet
  that was accepted must be one that can be sent on; limits must hold at their
  boundaries and bound the buffer of a decoder that waits for more.
* **WebSocket upgrade.** Both sides must change from HTTP to frames at the same
  message, although tasks write through the same queue and the answer to the
  upgrade may be given later than the next read.

## 2. Modules

| Module | What |
|---|---|
| `OutboundStream` | abstract: what a connection promises to those who write to it |
| `StreamConnection` | connection task, pipeline runtime, outbox, queue, with application tasks, peer, timer and signal |
| `MCStreamConnection` | its instances for TLC |
| `StreamConnectionProofs` | theorems about it: types, hooks, frames, prompt shutdown, its answers and what it may not lose |
| `StreamRefinementProofs` | theorems about the order of what it writes, what `frames_written` counts, and that it implements `OutboundStream` |
| `TcpServer` | start, accept loop, JoinSet, watch channel, handle; connections as the server sees them |
| `MCTcpServer` | its instances for TLC |
| `TcpServerProofs` | theorems about it |
| `UdpSocket` | socket task, datagram pipeline, outbox, queue, builder, with peers, application tasks and the handle |
| `MCUdpSocket` | its instances for TLC |
| `UdpSocketProofs` | theorems about it: types, whole datagrams, hooks, its answers, what it may not lose, and order |
| `CodecResults` | the answers of a decoder and an encoder |
| `FrameCodecs` | line, fixed-length, delimiter, length-field and byte-array codecs as operators |
| `MqttPackets` | the MQTT v5 codec as operators |
| `HttpFields` | the header fields the HTTP and WebSocket codecs look at |
| `HttpMessages` | HTTP/1.1 request decoding as operators |
| `WebSocketFrames` | WebSocket frames as operators |
| `DecodeLoop` | a peer's byte stream cut into reads, and the decode loop, for any decoder |
| `StreamDecoding` | `DecodeLoop` with the codecs above, and what their configurations may be |
| `MCStreamDecoding` | its codecs, byte strings and messages for TLC |
| `DecodeLoopProofs` | theorems about the loop, for any decoder that keeps to what it expects |
| `CodecProofs` | that the decoders of frames, MQTT and WebSocket do, and that a WebSocket message comes back |
| `StreamDecodingProofs` | that the decoder of HTTP does, and the theorems about `StreamDecoding` |
| `Upgrade` | the change from HTTP to WebSocket: codec state, handler, tasks and client |
| `UpgradeProofs` | theorems about it |

`DecodeLoop` is the trait's view of a codec: `Decode`, `PeerEncode` and what the
properties ask of it are operators among its constants, and `StreamDecoding`
gives them by the protocol of the codec's record. It is the `decode` step of
`StreamConnection` with the real codecs
in the place of its frame of `FrameLen` units; `CutIndependent` and `RoundTrip`
are what allows that abstraction.

### StreamConnection

An action is the code between two await points at which the task's shared state
changes. `pc` follows the code: `opening` is `tcp_connection_opened`, `top` the
check of `shutdown::requested`, `select` the `select!`, `encode` and `flush` the
two halves of `handle_command`, `decode` the loop of `handle_read`, `stages` and
`handler` `process_inbound_flushable` before and while the handler is polled,
`drain` `drain_stream_outbox`, `closing` the closed hook.

| Model | Code |
|---|---|
| `sent`, `taken`, `rxOpen`, `senders` | the tokio mpsc queue: `sent` keeps what was ever accepted, `taken` is the read index |
| `writer`, `count` | what an application task is doing in `Channel`: waiting for space (the kind of the command), awaiting its answer, or idle |
| `outbox`, `staged`, `waiting`, `result`, `closeRequested` | `StreamOutboxHandle`, the handler's future and `Context::close_requested` |
| `writeBuf`, `wire`, `framesWritten` | `write_buf`, the messages the socket took whole, `frames_written` |
| `unread`, `readBuf`, `frames` | bytes in the socket, `read_buf`, `frames_read` |
| `shutdown` | the watch receiver: `before` for a value already set at the subscription (`changed()` never fires), `signalled` for a change still to be seen |
| `stopped`, `confirmed`, `denied`, `arrived`, `late`, `hooks` | history: dropped by a stage, answered Ok, answered Err, sent by the peer, select branches served after the request, hooks run |

Abstractions. Bytes are counted in units: `FrameLen` units are a frame, and the
codec yields a frame whenever the buffer holds one, which is what the framing
codecs do for well-formed input; a decode error may come at any time. A message
is its source and its number there. A stage chain is one stage that passes,
stops (`Stops`) or fails (`Faults`). Channels: a client application has them
from the start, on a server the handler hands them out (`HandlerShares`). A
socket write takes everything or fails after some whole messages (one cut in
two is not on `wire`). Panics may come wherever user code runs.

External contracts, from how the code uses tokio: `send` waits for capacity and
then is atomic, or fails once the receiver is gone; dropping the receiver drops
the queued commands and with them their answer senders; `recv` returns None only
when every sender is gone; `changed` fires for changes after the subscription;
`select!` picks any ready branch and drops the other futures without effect.

### TcpServer

`pc` follows `start` (`starting`) and `run_tcp_server` (`spawned` for the
`local_addr()?` at its beginning, `top`, `select`, `stopping` for the final
send, `joining`, `stopped` for the hook, `done`; `refused` after a failed
started hook, `unwound` after a panic of the pipeline factory and after that
`local_addr()?` failed, which ends the task without a signal and without the
stopped hook). `conn` is the way of a connection from the kernel's backlog to
`joined`; while it runs it has the steps of the connection task that its server
can tell apart. `signal` and `unseen` are the watch channel, so that the two
ways of noticing it, value and change, are apart. `TcpServerHandle::shutdown` is
two steps, the read and the send.

### UdpSocket

| Model | Code |
|---|---|
| `pc` | `starting` the started hook, `top` and `select` the loop of `run_datagram_socket_with_life`, `stages`, `handler`, `drain`, `drainsend` the datagram on its way through `process_inbound` and the outbox, `encode` and `send` a command, `stopping` the stopped hook |
| `config`, `Built` | `UdpSocketConfig` after every order of builder calls; `normalize` runs in each |
| `queue`, `taken`, `rxOpen`, `writer` | the mpsc queue; the receiver lives until the task returns, later than in a connection |
| `received` | datagrams as the pipeline sees them: `size` on the network, `read` what `recv_from` left of it |
| `writeBuf`, `net` | `write_buf` and what `send_to` sent: a datagram holds every message that was in the buffer, so a rest left there would show |
| `shutdown` | `requested`, or `dropped` when the `UdpServerHandle` is gone: `shutdown::wait` returns for both |

A panic may come wherever user code runs (`UserCode`), and in `select` when the
decoder gets a datagram, since `decode_datagram` is called in that branch.

Loss, duplication and reordering by the network come before `recv_from` and show
as which datagram is received next; nothing in the code reacts to them.

### The codecs and StreamDecoding

An operator is one codec function and has its name. `Decode(c, buf)` is a pure
function of the codec's configuration and the buffer, as it is in the code (only
the upgrade keeps state). `DecodeLoop` reads 1 to all of the outstanding
bytes at a time and runs the loop of `handle_read`. A loop over the buffer is a
recursive function of a position (`Lines`, `Many`) or of a number of turns
(`decode_chunked_body`), which is what can be proved about.

`LimitRespected` is about each step that gives out an item and measures the item
and the bytes taken for it (`WithinLimit`): the line, the frame before its strip,
the bytes in front of a delimiter, the MQTT packet with its header, the payload of
a WebSocket message, head and body of a request. A byte array has no limit, and
of a request in chunks only the body is measured.

* Bytes of `FrameCodecs` are digits of a number base, so that with `Base = 2`
  all five field widths, and with eight digits the limits of a `usize`, are
  within reach of a few bytes. `checked_add_signed` and `checked_add` are
  comparisons with `UsizeMax`. A length field of no bytes at all, with which the
  decoder refuses every read, is left out (`LengthField`).
* MQTT packets and properties are lists of field kinds (`PacketFormat`,
  `PropertyFormat`), read and written by `Fields` and `WriteAll`, as the code
  does with its reader and writer functions; a `Scalar` is a field without parts
  of its own. Bytes are real bytes.
* In `HttpMessages` a line is one token, except for CR, LF and body bytes; the
  codec looks at the text only after it found the boundaries.
* `WebSocketFrames` has real bytes, with masking as the exclusive or.
* A peer encodes with the codec itself where the repository has the encoder, and
  otherwise as a client would (masked frames, HTTP requests, length fields with
  offset or adjustment).

### Upgrade

`state` is the protocol state of `HttpWsCodec` (`Http`, `Frames`) or
`WebSocketCodec` (`Handshake`, `Frames`). `Decode`, with `Handle` in it, is one
turn of the decode loop: the handler runs inside of it. `router` is
`HttpWsRouter`, which answers at once; `deferring` is a handler that hands the
request to a task, which answers through the channel (`TaskAnswers`, `Command`).
`eager` clients send frames without waiting for the 101 response; `careless`
tasks send frames before it. A request may have a head above
`max_http_header_len` (`long`) or one that is not UTF-8 or cannot be parsed
(`garbled`): `HeadFails`. `Read` may end within a message; `DecodePart` is what the
decoders make of a part, wait or fail because it is already too long.

## 3. Runs

| Run | Instance | Question |
|---|---|---|
| `commands` | client, 2 tasks with 2 operations each, queue of 1, outbound stops and faults | answers true? queue order kept? |
| `handler` | 2 frames, 2 messages and 2 outbox entries per invocation, 1 task, outbound stops and faults | nothing held back, invocations not mixed, implements `OutboundStream`? |
| `life` | server, frames of 2 units, 5 units, limit 4, idle timer, every fault, inbound and outbound stops | frames, hooks, reasons, counters, prompt shutdown |
| `progress` | server, fair, write faults | every waiter released, shutdown and end of stream end the task |
| `server` | 2 connections, 2 threads on the handle, every fault, fair | stopped hook last, late connections idle; shutdown and accept errors end the server, connections do not |
| `udp` | client, 2 peers, 2 tasks, queue of 2, 2 datagrams, 2 staged messages, stages and sends that fail | datagrams unmixed, answers true, queue order and a handler's order kept, nothing held back |
| `udp_life` | server, 1 task with 2 operations, 2 datagrams, four configurations, every fault, fair | whole datagrams, hooks; shutdown or a dropped handle ends the task, every answer comes |
| `decoding` | every codec, byte strings of up to 9 bytes, damaged encodings, one or two messages, every cut | cuts do not matter, round trips, forwarding, limits |
| `upgrade` | both codecs, both handlers, 5 client messages, 2 pushed frames | both sides switch at the same message, answers match requests |
| `pipelined`, `udp_truncated`, `upgrade_early` | as `life`, `udp_life` and `upgrade` | section 4 |

Deadlock is not checked: a closed connection, a stopped server or socket and a
decoded stream do nothing.

Bounds. A queue of 1 is where senders block and a second one overtakes if
anything does. Two operations of two tasks are the least that can be reordered;
two frames with two messages the least that can be mixed between and within
invocations. In `life`, with frames of 2 units, 5 units in all and a limit of 4,
reads end in the middle, at the end and beyond a frame, the buffer can hold two
whole frames at once, and one unit more is a frame too large. Two connections
let one be accepted late while another runs or is joined. `MaxOps`, `MaxUnits`,
`MaxStaged` and `MaxOutbox` bound unbounded counters and nothing else.
`commands` and `udp` use symmetry of tasks and peers; the runs with liveness do
not.

In `udp` two tasks have a command each in the queue, the least whose order can
change, and handlers of two datagrams with two messages each work in between;
two datagrams let what one handler leaves behind meet the next, two peers let it
reach the wrong one. In `udp_life` datagrams of 3 bytes meet buffers and maxima
of 2/2 (cut), 3/3 and 4/3 (whole) and 4/2 (refused). In `decoding` the framing
codecs get every byte string over three or four bytes that matter to them, long
enough for two boundaries and for a cut inside each; MQTT gets every packet type
and property, bodies of 127 and 128 bytes and of just the maximum, and, of each
encoding, every byte changed, every truncation and a byte too many; WebSocket
the payload lengths 125, 126 and 127 around the length forms, and HTTP up to
five chunks or pieces of them. In `upgrade` five messages are a request before
the upgrade, the upgrade and frames after it, with one to spare, and two pushes
are one on either side of the response.

Each property has a mutation of the model, the change a plausible bug would make
(a short write, a buffer not cleared, a missing check of the signal, one frame
per read, a forgotten final flush, answers dropped with the queue...), under
which TLC finds it violated.

### Fairness

`FairSpec` assumes weak fairness of the task: tokio polls what can move. Of this
follows no more than that something happens, so there is strong fairness of
`SelectRead` and `SelectCommand`, since `select!` starts at a random branch and a
branch that is ready again and again is taken; of `HandlerReturns`: a handler
that never returns holds its connection, and a user's handler is assumed to
return; and of `Enqueue`: tokio's semaphore is first come, first served. A
socket write is assumed to complete or to fail: a peer that stops reading blocks
`write_all`, and with it shutdown and the idle timer (a hazard, listed). No
fairness of peer, timer, application or signal is assumed. In `TcpServer` the
same holds of the server's select branches; a connection is only assumed to make
its own steps and to notice the signal, which `progress` shows of the task.
`UdpSocket` assumes the same of its task, with strong fairness of the command and
the shutdown branch; none of datagrams, tasks or the handle.

## 4. Divergences from what the repository says

Three are runs that TLC finds violated.

| Run | The repository says | The code does |
|---|---|---|
| `pipelined` | `transport/tcp/config.rs:11`: closed if buffered data exceeds the limit before the codec can produce a frame | the whole buffer is measured before the codec is asked |
| `udp_truncated` | `transport/udp/config.rs:13`: oversized datagrams are rejected before the datagram pipeline runs | with a buffer of just the maximum size, which `normalize` allows, `recv_from` cuts the datagram and its head passes the check (at the default of 64 KiB no IPv4 datagram is large enough for that) |
| `upgrade_early` | `websocket.rs:76`: after a valid upgrade request was emitted, the codec decodes frames for the rest of the connection | the state of `HttpWsCodec` changes when the 101 response is encoded: a frame that is read before a deferred answer is taken for a request |

Others were met while modelling. The models follow the code in each.

* `channel/stream.rs:100` and `channel/datagram.rs:77` tie the acknowledgement to
  the write; it is also Ok when an outbound stage stopped the message.
* `context/stats.rs:59` calls `frames_written` the total of encoded frames;
  `handle_command` also counts a message that an outbound stage stopped, the
  handler path does not. `StatsAgree` states the exact count, with stages that
  stop messages of both kinds in its run.
* `life.rs:63`: the closed hook runs when a connection is closing; not when user
  code panics. `life.rs:37`: a hook failure preserves the original result; it
  replaces an Ok. `life.rs:12`: `ChannelClosed` is never reported, since the
  task's own context holds a sender.

Not contradicted by any text, but worth knowing:

* An MQTT property identifier is cut to its low byte: 292 is accepted as 36.
* Only the first Transfer-Encoding header is looked at. Chunk lines and trailers
  are under no limit of the codec, only under that of the read buffer.
* At its very limit, a delimiter frame or an HTTP head is accepted or refused
  depending on where the read ended inside the boundary (`CutAtLimit`); of two
  delimiters, one inside the other, the inner one can win (`Nested`).
* `WebSocketCodec` writes frames before the 101 response when tasks send them.
* Dropping the `UdpServerHandle` ends the socket (`shutdown.rs:17`).

## 5. Proofs

All theorems hold for every value of the constants, under the named assumptions
of the modules: sizes are naturals, capacity and frame length positive; the
server's receiver is no connection; of `UdpSocket`, that there is a peer and
that tasks are not numbers (numbers name handlers as sources of messages); of
`Upgrade`, which codecs and handlers there are; of `StreamDecoding`, that the
number base is at least 2, that codecs are configured as their constructors
allow, and that streams are made of what the protocol is made of. Every safety
property that a run checks of the connection, the server, the socket and the
upgrade is proved, and so is the refinement; of the codecs, all but `RoundTrip`
of three of them and `Forwardable` of MQTT.

Each theorem follows from an invariant that is inductive; what it adds to the
property is why the code is right, and is the part worth reading.

**StreamConnectionProofs**

* `TypeCorrect`: `TypeOK` is inductive with `CommandInHand`: while a command is
  encoded or flushed, the queue has handed one out. Without it `Current` is no
  command and nothing is known of what is written.
* `ShutdownPrompt`: `ShutdownIsPrompt`, from `PromptInv`: a task with a late
  branch behind it is not in `select`, for only `CheckShutdown` leads there and
  it sees the request.
* `HooksPairUp`: `LifePaired`, from `HooksInv`: which hooks have run follows from
  `pc`, the receiver lives just as long as the task runs, an ended task left no
  call waiting, and Ok comes with a reason that is no failure.
* `FramesDecoded`: `NoFrameLeftBehind`, from `FramesInv`: every unit that arrived
  is in the socket, in the read buffer or in a frame, and outside the decode loop
  the buffer holds less than a frame.

In the same module, what becomes of a message. `StepKinds` sorts every step by
what it does to the queue and the callers; five invariants build on it.

* `QueueInv`: operations are numbered, so no two commands carry one message, and
  whoever awaits an answer has its command in the queue or in the task's hands.
* `BufferShape`, `OutboxFrom`: where the write buffer and the outbox may be
  non-empty, and whose messages they hold.
* `CommandsKept`, `StagedKept`: every command taken and every message staged is
  on the wire, stopped, or in a place still to be worked off.
* `FlushPending`: a handler that waits for its flush has that flush in its outbox.
* `WireFrom`, `DenialsInv`: a writer's message on the wire is that of a command
  dealt with, and an operation is denied only while its command is not.

`AnswersTruthful` (`AnswersAreTruthful`) and `NothingLost` (`NothingHeldBack`)
follow. The second needs that a graceful end does not leave the loop with a
non-empty buffer, which is the code's final flush.

**StreamRefinementProofs**: `CommandOrder` (`ChannelOrder`) and `InvocationsAtomic`
(`HandlersAreAtomic`). The order of the wire alone is not inductive: a message
gets its place when it is encoded. The invariants are about `Out`, wire and write
buffer of a running task: during an invocation its messages come last
(`CurrentLast`), in the order of staging and before those in the outbox
(`SentFirst`, `OutboxOrder`), and no message is from a frame not yet handled
(`FromPast`).

`StatsCorrect` (`StatsAgree`) is the exact count of `frames_written`, whatever
stages stop. It needs more than the counter: that a command a stage stops was not
stopped before (`StoppedFrom`, and `GivenOnce`: no two commands carry one message),
so that counter and set grow together. `StatsInv` adds that a running task has no
close reason and that a graceful reason comes from a balanced state; a failed write
is the only step that breaks the balance, and it leads to a failure.

`Refines` is the refinement of `OutboundStream`. The
abstract stream accepts a message, vetoes it, delivers a prefix of what is due in
order, and refuses; the connection does so in steps that are far apart.
`OutInOrder`: at any time `Out` is just what the abstract stream calls in order,
the accepted messages without the vetoed ones. It rests on `StoppedFrom`, `Apart`
and `Increasing`: only what went through the stages was stopped, nothing is both
stopped and sent, and the queue holds a task's commands by their numbers.
`StepRefines` maps each step: a command that enters the queue and a message that a
handler stages are accepted; a stage that stops a message at its encoding vetoes
it; a flush delivers; a flush that fails after a part of the buffer
(`PrefixInOrder`), and any other end of the task, ends the stream; a caller
refused after that is a refusal; the rest stutters.

**TcpServerProofs**

* `TypeCorrect`: `TypeOK`, with its bound of one branch served after the signal,
  is inductive with `WorkedOnce`: a connection that served it is not in `select`.
* `StoppedLast`: `StoppedAfterJoined`. `StopInv` says that after `JoinRest` found
  the JoinSet empty no task is spawned any more, and that a finished task has
  settled its hooks.
* `LateServesNothing`: `LateIsIdle`. `LateInv` says that after a late accept
  neither the server nor that connection is in a `select` again.

**UdpSocketProofs**

* `TypeCorrect`: `TypeOK` with `InHand`: while a command is handled the queue has
  handed one out, and while a staged message is sent it is still at the head of
  the outbox. It includes that every order of builder calls ends in a normalised
  configuration (`BuiltType`).
* `DatagramsAreWhole`: `OneDatagramPerMessage`. `BufferShape`: the write buffer
  is empty except between an encode and its send, where it holds just the message
  in hand. Without it a send says nothing about its datagram.
* `PipelineSeesWholeDatagrams`: `WholeDatagrams`, from `CutAndChecked`: what was
  received has been cut to the capacity and then compared with the maximum.
* `HooksPairUp`: `LifePaired`; here the receiver outlives the stopped hook.

`AnswersTruthful`, `NothingLost` and `DatagramOrder`
(`SendOrder`) go along the same lines as for the connection, with two differences: a
message without a byte counts as dropped (`EmptyIsDropped`), since it is answered
and never sent; and the order is that of the datagrams themselves, for there is
no buffer that outlives a send.

**UpgradeProofs**: `WellFormedWire`, `DecodedRight` and `AnsweredOnce`, for any
number of messages. `DecodeCases` and `HandledCases` reduce a turn of the decode
loop to what can happen; the invariant then says

* what `state` means: with `HttpWsCodec` that the 101 response is on the wire,
  with `WebSocketCodec` that the upgrade was decoded (`StateInv`). Between the two
  lies the time in which a frame can be misread, and `NeverConfused` shows that a
  router, a patient client or `WebSocketCodec` leaves no such time;
* that every answer, wherever it is, is that of a decoded request (`SourceInv`),
  is in one place only, and moves from there to the next (`PlaceInv`,
  `MoveCases`), so that none is lost or doubled;
* that a careful task's frame is queued behind the 101 (`CarefulPushes`), which is
  what makes the wire of `WebSocketCodec` well-formed; `HttpWsCodec` needs no such
  care, since it refuses what does not fit its state.

**DecodeLoopProofs**: the loop of `handle_read` with any decoder that is
`Lawful`: it asks for more, fails or takes bytes off the front (`Answers`), and
what it has answered, bytes that come later do not change (`Stable`), or, without
frames, it takes whatever is there (`TakesAll`).

* `LoopInvariance`: the inductive invariant. `LoopInv` says that as many turns as
  there are items so far, over the whole stream at once, give just these items and
  leave the buffer with all that is still to come; `CountInv`, that every item
  took a byte, so that the whole stream needs no more turns than it has bytes;
  `PhaseInv`, why the loop reads again or has failed.
* `CutIndependence`, `BoundedBuffer` and `RespectedLimit` follow, the last two for
  decoders whose answers keep to the bound or to the limit.
* `RoundTripping`: a codec that `Agrees` with its encoder about each message by
  itself gives back every list of messages. `MatchInv` says that what is in the
  buffer and still to come is the encoding of just the messages not yet decoded.

**CodecProofs** and **StreamDecodingProofs**: that every codec of the repository
is `Lawful`, in every configuration and for buffers of any length. `Steady` is
what is shown of each (`LineSteady`, `FixedSteady`, `LengthSteady`,
`DelimiterSteady`, `MqttSteady`, `WsSteady`, `HttpSteady`), together with how much
it holds back and, in `Allowed`, that what it gives out keeps to its limits:

* boundaries. A boundary that is found stays the first one (`FirstHit`), although
  later bytes bring more of them (`HitsLater`); a delimiter frame is the first by
  place and then by length (`Firsts`);
* headers. What says how long a frame is lies in front and is complete before it
  is used: the length field (`AdjustedLater`), the remaining length of an MQTT
  packet (`HeaderLater`), the two length forms and the mask of a WebSocket frame
  (`WsShape`);
* loops. The body of an HTTP request in chunks is decoded again from its start
  at every read. `ChunkSteady` does it for one chunk and `ChunkedSteady` for the
  loop: as long as the loop goes on, every turn takes bytes off (`Visits`), so it
  ends within as many turns as there are bytes, and a longer buffer passes
  through the same chunks (`VisitSteps`).

Induction over the number of turns or bytes is `SetInduction`, over a set of
naturals instead of a predicate, which needs no operator as a parameter. The
packets of MQTT and the fields of HTTP stay what they are: that the decoder
applies the same function to the same bytes is all that is needed of them.

`CutIndependence` (`CutIndependent`), `BufferBounded` (`BufferIsBounded`) and
`LimitsRespected` (`LimitRespected`) are then the theorems of the loop, of which
`StreamDecoding` is an instance (`SameLoop`). For the limits `LimitsKept`
collects `Allowed` of each codec; of WebSocket it follows from `WsKept` below.
`MessagesReturn` is `RoundTrip` for the line, fixed-length, delimiter and
byte-array codecs, and for WebSocket with a limit below 2^30 bytes (`Compared`):
the encoding of a message decodes, all by itself, to that message (`Alone`), and
no proper part of it does (`AloneAgrees`).

For WebSocket that is `WsReturns`, in `CodecProofs`, from the bits up. A byte is
eight bits (`BitsExist`, `BitsOfValue`), so masking twice with the same key changes
nothing (`MaskedTwice`); a length or a close code comes back from its bytes
(`TwoDigits`, `EightDigits`); a frame is taken apart where the parts were put
together, in all three length forms, masked or not (`WireParts`, `WireDecoded`).
The bound of 2^30 is the model's: from 127 * 2^24 bytes on all lengths are one
(`Huge`).

`MessagesEchoed` is `Forwardable` for the same WebSocket codecs. An item of the
loop is what some bytes decode to (`Items`, in `LoopInvariance`); the decoder gives
out only what the encoder takes (`WsKept`: close codes, text and the 125 bytes of a
control frame are checked alike on both sides), and that comes back (`WsReturns`).

### Only model-checked

* Liveness: `AnswerComes`, `SendCompletes`, `ShutdownEnds`, `PeerCloseEnds`,
  `ServerEnds` and `OthersAreAccepted` are about fairness, and so about ENABLED,
  which the prover does not reason about.
* `RoundTrip` of the length-field, MQTT and HTTP codecs, and `Forwardable` of MQTT.
  They compare what an encoder writes with what a decoder reads, field by field:
  the digits of a number base that is a constant, and 42 lists of fields of MQTT.

## 6. Not modelled

* Byte counters of the stats, the cancellation of a pending channel call, the
  connecting half of `TcpClient`, binding of sockets.
* Builders and macros: type-level, checked by the compiler.
* JSON and the datagram string codecs: wrappers of library conversions.
* Of HTTP the text inside a line (methods, targets, header syntax) and the
  writing of responses; of WebSocket the accept key; of MQTT and WebSocket text
  beyond ASCII.
* Logging and error texts.

## 7. Plan

Modelled: connection, server, UDP socket, all stream codecs, the upgrade. Proved:
all their safety properties but the round trip of three codecs and the forwarding
of MQTT packets, and the refinement. Left, in this order:

1. That the encoders of length fields, of HTTP requests and of MQTT fields are
   undone by the decoders (`Alone`), field kind by field kind.
2. A handler that awaits its own channel (a deadlock), the cancellation of
   channel calls, the handle of the client.
3. The writing of HTTP responses, and the byte counters.
