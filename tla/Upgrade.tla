------------------------------- MODULE Upgrade -------------------------------
(***************************************************************************)
(* The change from HTTP to WebSocket on one connection: the protocol       *)
(* states of HttpWsCodec and WebSocketCodec in codec/websocket.rs, with    *)
(* the handler that answers and the tasks that write through a Channel.    *)
(*                                                                         *)
(* HttpWsCodec changes its state when the 101 response is ENCODED,         *)
(* WebSocketCodec already when the request is DECODED.  What happens in    *)
(* between depends on whether the handler answers at once, as HttpWsRouter *)
(* does, or leaves the answer to a task that writes it later.              *)
(*                                                                         *)
(* The connection is that of StreamConnection with what matters here: the  *)
(* decode loop after a read, and commands between reads.  A handler runs   *)
(* inside the loop, so decoding, handling and encoding its answer is one   *)
(* step: meanwhile other tasks only queue what they send.  A read brings   *)
(* whole messages and perhaps the first bytes of the next.                 *)
(***************************************************************************)
EXTENDS Integers, Sequences, SequencesExt, FiniteSetsExt

CONSTANTS
  Codecs,       (* The codecs under test: "HttpWs", "WebSocket".           *)
  Handlers,     (* "router" answers at once, "deferring" through a task.   *)
  MaxMessages,  (* Bound: messages the client sends.                       *)
  MaxPushes     (* Bound: frames that tasks send on their own.             *)

ASSUME CodecsAssumption   == Codecs \subseteq {"HttpWs", "WebSocket"}
ASSUME HandlersAssumption == Handlers \subseteq {"router", "deferring"}
ASSUME BoundsAssumption   == MaxMessages \in Nat /\ MaxPushes \in Nat

Http == INSTANCE HttpFields

VARIABLES
  kind,         (* Which codec the pipeline has.                           *)
  state,        (* Its state: "Http", "Handshake", or "Frames".            *)
  handler,      (* Which handler the pipeline has.                         *)
  eager,        (* The client does not wait for the 101 response.          *)
  careless,     (* Tasks send frames before the 101 response was sent.     *)
  sent,         (* Messages the client sent.                               *)
  arrived,      (* How many of them have been read.                        *)
  decoded,      (* How many of them have been decoded.                     *)
  pending,      (* Requests whose answer is left to a task.                *)
  commands,     (* The connection's command queue.                         *)
  wire,         (* What the server has written.                            *)
  pc,           (* "select", "decode" or "ended".                          *)
  failure       (* Why the connection ended, or "none".                    *)

input == <<sent, eager, careless>>
vars  == <<kind, state, handler, input, arrived, decoded, pending, commands,
           wire, pc, failure>>

-----------------------------------------------------------------------------
(***************************************************************************)
(* Messages of the client: frames, and requests by their header fields.    *)
(* The head of a long one is above max_http_header_len; that of a garbled  *)
(* one is not UTF-8 or cannot be parsed.                                   *)
(***************************************************************************)
Types == {"plain", "upgrade", "incomplete", "long", "garbled", "frame"}

FieldsOf(type) ==
  CASE type \in {"plain", "long", "garbled"} -> <<"other">>
    [] type = "incomplete" -> <<"Upgrade: websocket", "Connection: Upgrade">>
    [] type = "upgrade"    -> <<"Upgrade: websocket", "Connection: Upgrade",
                                "Sec-WebSocket-Version: 13", "Sec-WebSocket-Key">>

Request(m) == [method |-> "GET", fields |-> FieldsOf(m.type)]

\* What TryFrom<&HttpRequest> and parse_handshake ask of an upgrade request
ValidHandshake(request) == Http!UpgradeHeaders \subseteq ToSet(request.fields)

IsFrame(m) == m.type = "frame"
Asked      == {i \in DOMAIN sent : sent[i].type = "upgrade"}
Switched   == \E i \in DOMAIN wire : wire[i].type = "101"

-----------------------------------------------------------------------------
Start(k) == IF k = "HttpWs" THEN "Http" ELSE "Handshake"

Init ==
  /\ kind \in Codecs /\ state = Start(kind) /\ handler \in Handlers
  /\ eager \in BOOLEAN /\ careless \in BOOLEAN
  /\ sent = <<>> /\ arrived = 0 /\ decoded = 0
  /\ pending = {} /\ commands = <<>> /\ wire = <<>>
  /\ pc = "select" /\ failure = "none"

(***************************************************************************)
(* A client asks once for the upgrade, sends nothing but frames after it,  *)
(* and frames only after it; a patient one waits for the 101 response.     *)
(***************************************************************************)
ClientSends ==
  /\ Len(sent) < MaxMessages
  /\ \E type \in Types :
       /\ IF type = "frame" THEN Asked # {} /\ (eager \/ Switched) ELSE Asked = {}
       /\ sent' = Append(sent, [type |-> type, id |-> Len(sent) + 1])
  /\ UNCHANGED <<kind, state, handler, eager, careless, arrived, decoded,
                 pending, commands, wire, pc, failure>>

\* A task answers a request that the handler left to it
TaskAnswers ==
  /\ \E m \in pending :
       /\ pending' = pending \ {m}
       /\ commands' = Append(commands,
            [type |-> IF m.type = "upgrade" THEN "101" ELSE "response", id |-> m.id])
  /\ UNCHANGED <<kind, state, handler, input, arrived, decoded, wire, pc, failure>>

Frames(s) == {i \in DOMAIN s : s[i].type = "push"}

\* A careful task sends frames once the 101 response is written or queued
TaskPushes ==
  /\ Cardinality(Frames(commands) \cup Frames(wire)) < MaxPushes
  /\ careless \/ \E m \in ToSet(commands) \cup ToSet(wire) : m.type = "101"
  /\ commands' = Append(commands, [type |-> "push", id |-> 0])
  /\ UNCHANGED <<kind, state, handler, input, arrived, decoded, pending, wire,
                 pc, failure>>

-----------------------------------------------------------------------------
(***************************************************************************)
(* Encoder::encode of both codecs, when their state is st.  HttpWsCodec    *)
(* refuses a frame before the 101 response and a response after it, and an *)
(* error ends the connection.                                              *)
(***************************************************************************)
\* Mutation: a frame is written in any state
RefusedHttp(message, st) ==
  kind = "HttpWs" /\ message.type \in {"101", "response"} /\ st = "Frames"

Refused(message, st) ==
  kind = "HttpWs" /\ (message.type \in {"101", "response"} <=> st = "Frames")

\* Mutation: the codec does not change its state with the response
WrittenHttp(message, st) ==
  /\ ~Refused(message, st)
  /\ wire' = Append(wire, message)
  /\ state' = st
  /\ UNCHANGED <<pc, failure>>

Written(message, st) ==
  /\ ~Refused(message, st)
  /\ wire' = Append(wire, message)
  /\ state' = IF message.type = "101" THEN "Frames" ELSE st
  /\ UNCHANGED <<pc, failure>>

\* Mutation: a message that cannot be encoded is passed over
encode_lenient(message, st) ==
  \/ Written(message, st)
  \/ Refused(message, st) /\ state' = st /\ UNCHANGED <<wire, pc, failure>>

encode(message, st) ==
  \/ Written(message, st)
  \/ /\ Refused(message, st)
     /\ pc' = "ended" /\ failure' = "Encode" /\ state' = st
     /\ UNCHANGED wire

\* handle_command: the task takes a command between two reads
Command ==
  /\ pc = "select" /\ commands # <<>>
  /\ commands' = Tail(commands)
  /\ encode(Head(commands), state)
  /\ UNCHANGED <<kind, handler, input, arrived, decoded, pending>>

Fail(error) ==
  /\ pc' = "ended" /\ failure' = error
  /\ UNCHANGED <<state, decoded, pending, wire>>

NeedMore ==
  /\ pc' = "select"
  /\ UNCHANGED <<state, decoded, pending, wire, failure>>

\* HttpWsRouter: a service answers or fails; a frame need not be answered
Route(m, st) ==
  /\ UNCHANGED pending
  /\ \/ encode([type |-> CASE m.type = "plain"   -> "response"
                            [] m.type = "upgrade" -> "101"
                            [] m.type = "frame"   -> "answer",
                 id   |-> m.id], st)
     \/ IsFrame(m) /\ state' = st /\ UNCHANGED <<wire, pc, failure>>
     \/ pc' = "ended" /\ failure' = "Service" /\ state' = st /\ UNCHANGED wire

\* A handler that leaves requests to a task and frames unanswered
Defer(m, st) ==
  /\ pending' = IF IsFrame(m) THEN pending ELSE pending \cup {m}
  /\ state' = st
  /\ UNCHANGED <<wire, pc, failure>>

\* The handler gets a message that left the codec in state st
Handle(m, st) ==
  /\ decoded' = decoded + 1
  /\ \/ handler = "router" /\ Route(m, st)
     \/ handler = "deferring" /\ Defer(m, st)

\* Bytes of the other protocol: more are awaited, or they are found malformed
Misread ==
  \/ NeedMore
  \/ Fail("Misread")

\* Both decoders find the end of the head, measure it and decode it
HeadFails(m) ==
  \/ m.type = "long" /\ Fail("FrameTooLarge")
  \/ m.type = "garbled" /\ Fail("Decode")

ReadableHead(m) == m.type \in {"plain", "upgrade", "incomplete"}

\* Decoder::decode of HttpWsCodec in its HTTP state
DecodeHttp(m) ==
  \/ IsFrame(m) /\ Misread
  \/ HeadFails(m)
  \/ /\ ReadableHead(m)
     /\ IF Http!is_websocket_upgrade(Request(m)) => ValidHandshake(Request(m))
          THEN Handle(m, state)
          ELSE Fail("Decode")

\* decode_handshake of WebSocketCodec
DecodeHandshake(m) ==
  \/ IsFrame(m) /\ Misread
  \/ HeadFails(m)
  \/ ReadableHead(m) /\ ~ValidHandshake(Request(m)) /\ Fail("Decode")
  \/ ReadableHead(m) /\ ValidHandshake(Request(m)) /\ Handle(m, "Frames")

DecodeFrames(m) == IF IsFrame(m) THEN Handle(m, state) ELSE Misread

\* Without a whole message the decoders await more, unless there is already
\* more than a head may have: m is the message that has arrived in part
DecodePart(m) ==
  \/ NeedMore
  \/ state # "Frames" /\ m.type = "long" /\ Fail("FrameTooLarge")
  \/ state # "Frames" /\ IsFrame(m) /\ Fail("Misread")

\* arrived stays when all that comes is a part of the next message
Read ==
  /\ pc = "select" /\ arrived < Len(sent)
  /\ arrived' \in arrived..Len(sent)
  /\ pc' = "decode"
  /\ UNCHANGED <<kind, state, handler, input, decoded, pending, commands, wire,
                 failure>>

\* One turn of the decode loop of handle_read
Decode ==
  /\ pc = "decode"
  /\ IF decoded = Len(sent) THEN NeedMore
     ELSE IF decoded = arrived THEN DecodePart(sent[decoded + 1])
     ELSE CASE state = "Http"      -> DecodeHttp(sent[decoded + 1])
            [] state = "Frames"    -> DecodeFrames(sent[decoded + 1])
            [] state = "Handshake" -> DecodeHandshake(sent[decoded + 1])
  /\ UNCHANGED <<kind, handler, input, arrived, commands>>

Next == \/ ClientSends \/ TaskAnswers \/ TaskPushes
        \/ Command \/ Read \/ Decode

Spec == Init /\ [][Next]_vars

-----------------------------------------------------------------------------
IsAnswer(message) == message.type \in {"101", "response"}

\* The requests that were decoded, and where the answers are on the wire
RequestAt == {i \in 1..decoded : ~IsFrame(sent[i])}
AnswerAt  == {i \in DOMAIN wire : IsAnswer(wire[i])}

AllAnswered == \A i \in RequestAt : \E j \in AnswerAt : wire[j].id = sent[i].id

\* What the client reads is HTTP responses, one 101 response and then frames,
\* whenever tasks write.  WebSocketCodec has no guard against a frame before
\* the 101 response: there the tasks must take care themselves.
WireWellFormed ==
  kind = "HttpWs" \/ ~careless =>
    \A i \in DOMAIN wire :
      IF IsAnswer(wire[i]) THEN \A j \in 1..(i - 1) : wire[j].type = "response"
      ELSE \E j \in 1..(i - 1) : wire[j].type = "101"

\* Every message is decoded in the state the client meant it for, and none is
\* left in the buffer.  With HttpWsCodec that takes a handler that answers at
\* once or a client that waits: otherwise a frame can be read as a request.
RightReader ==
  kind = "WebSocket" \/ handler = "router" \/ ~eager =>
    /\ failure # "Misread"
    /\ pc = "select" => decoded = arrived

\* After a valid upgrade request HttpWsCodec decodes frames for the rest of the
\* connection, as its documentation says (codec/websocket.rs:76-79).
FramesAfterUpgrade ==
  kind = "HttpWs" /\ (\E i \in 1..decoded : sent[i].type = "upgrade") =>
    failure # "Misread"

\* No answer is lost or given twice while the connection lives, and a router
\* answers in the order of the requests.
AnswersMatch ==
  /\ \A i, j \in AnswerAt : wire[i].id = wire[j].id => i = j
  /\ \A j \in AnswerAt : \E i \in RequestAt : sent[i].id = wire[j].id
  /\ pc = "select" /\ commands = <<>> /\ pending = {} => AllAnswered
  /\ pc = "select" /\ handler = "router" =>
       /\ AllAnswered
       /\ \A i, j \in AnswerAt : i < j => wire[i].id < wire[j].id
=============================================================================
