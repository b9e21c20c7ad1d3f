--------------------------- MODULE StreamDecoding ---------------------------
(***************************************************************************)
(* DecodeLoop with the codecs of the repository.  The record of a codec    *)
(* names its protocol, that is the module its operators come from.         *)
(***************************************************************************)
EXTENDS Integers, Sequences, SequencesExt, FiniteSetsExt

CONSTANTS
  Base,        (* Radix of a length field's bytes, see FrameCodecs.        *)
  RawStreams,  (* Bound: bytes a peer sends, as sets of [codec, bytes],    *)
               (* one set for each family of codecs.                       *)
  Dialogues    (* Bound: messages a peer sends, as sets of [codec, items]. *)

ASSUME BaseAssumption == Base \in Nat \ {0, 1}

VARIABLES codec, sent, input, arrived, buf, items, pc, failure

Frames == INSTANCE FrameCodecs
Mqtt   == INSTANCE MqttPackets
Ws     == INSTANCE WebSocketFrames
Http   == INSTANCE HttpMessages

-----------------------------------------------------------------------------
Decode(c, buffer) ==
  CASE c.protocol = "frames"    -> Frames!DecodeFrame(c, buffer)
    [] c.protocol = "mqtt"      -> Mqtt!Decode(c, buffer)
    [] c.protocol = "websocket" -> Ws!Decode(c, buffer)
    [] c.protocol = "http"      -> Http!Decode(c, buffer)

PeerEncode(c, m) ==
  CASE c.protocol = "frames"    -> Frames!PeerEncode(c, m).bytes
    [] c.protocol = "mqtt"      -> Mqtt!Encode(c, m).bytes
    [] c.protocol = "websocket" -> Ws!AsClient(c, Ws!Encode(c, m).bytes)
    [] c.protocol = "http"      -> Http!PeerEncode(c, m)

Received(c, m) ==
  CASE c.protocol = "frames" -> Frames!Received(c, m)
    [] c.protocol = "http"   -> Http!Received(c, m)
    [] OTHER -> m

\* Of MQTT, whatever the encoder accepts
Carries(c, m) ==
  CASE c.protocol = "frames"    -> Frames!Carries(c, m)
    [] c.protocol = "mqtt"      -> Mqtt!Encode(c, m).ok
    [] c.protocol = "websocket" -> Ws!Carries(c, m)
    [] c.protocol = "http"      -> Http!Carries(c, m)

\* A byte array has no frames
Framed(c) == c.protocol = "frames" => c.kind # "bytes"

Nested(c) == c.protocol = "frames" /\ Frames!Nested(c)

CutAtLimit(c, buffer) ==
  CASE c.protocol = "frames" -> Frames!CutAtLimit(c, buffer)
    [] c.protocol = "http"   -> Http!CutAtLimit(c, buffer)
    [] OTHER -> FALSE

HasBound(c) == c.protocol = "http" => Http!HasBound(c)

Held(c) ==
  CASE c.protocol = "frames"    -> Frames!Held(c)
    [] c.protocol = "mqtt"      -> Mqtt!Held(c)
    [] c.protocol = "websocket" -> Ws!Held(c)
    [] c.protocol = "http"      -> Http!Held(c)

WithinLimit(c, item, taken) ==
  CASE c.protocol = "frames"    -> Frames!WithinLimit(c, item, taken)
    [] c.protocol = "mqtt"      -> Mqtt!WithinLimit(c, taken)
    [] c.protocol = "websocket" -> Ws!WithinLimit(c, item)
    [] c.protocol = "http"      -> Http!WithinLimit(c, item, taken)

\* A broker sends packets on, an echo server its messages
Forwards(c) == c.protocol \in {"mqtt", "websocket"}

INSTANCE DecodeLoop

-----------------------------------------------------------------------------
(***************************************************************************)
(* What the constants may be: codecs as their constructors allow them,     *)
(* with streams of what their protocol is made of.  (The length field of   *)
(* no bytes at all is left out: its decoder refuses every read.)           *)
(***************************************************************************)
LineCodec      == [protocol : {"frames"}, kind : {"line"}, max : Nat]
FixedLength    == [protocol : {"frames"}, kind : {"fixed"}, length : Nat \ {0}]
DelimiterBased == [protocol : {"frames"}, kind : {"delimiter"}, max : Nat,
                   strip : BOOLEAN,
                   delimiters : Seq(Seq(Nat) \ {<<>>}) \ {<<>>}]
LengthField    == [protocol : {"frames"}, kind : {"length"}, max : Nat, offset : Nat,
                   width : Nat \ {0}, adjust : Int, strip : Nat,
                   order : {"big", "little"}, prepender : BOOLEAN]
ByteArray      == [protocol : {"frames"}, kind : {"bytes"}]
MqttV5         == [protocol : {"mqtt"}, max : Nat]
WebSocket      == [protocol : {"websocket"}, max : Nat, mask : BOOLEAN]
Http11         == [protocol : {"http"}, max_header : Nat, max_body : Nat,
                   chunked : BOOLEAN, trailers : BOOLEAN]

Codec == LineCodec \cup FixedLength \cup DelimiterBased \cup LengthField
           \cup ByteArray \cup MqttV5 \cup WebSocket \cup Http11

\* HTTP is made of tokens, the bytes of a frame are digits of any base
Alphabet(c) == IF c.protocol = "http" THEN STRING
               ELSE IF c.protocol = "frames" THEN Nat ELSE 0..255

ASSUME StreamsAssumption ==
  \A f \in DOMAIN RawStreams : \A r \in RawStreams[f] :
    r.codec \in Codec /\ r.bytes \in Seq(Alphabet(r.codec))

\* What a codec sends are bytes; to a framing codec the message is bytes too,
\* and a WebSocket codec sends what its type of messages allows
ASSUME DialoguesAssumption ==
  \A f \in DOMAIN Dialogues : \A d \in Dialogues[f] :
    /\ d.codec \in Codec
    /\ d.items \in Seq(ToSet(d.items))
    /\ \A i \in DOMAIN d.items :
         /\ d.codec.protocol = "frames" => d.items[i] \in Seq(Nat)
         /\ d.codec.protocol = "websocket" => Ws!WebSocketMessage(d.items[i])
         /\ Carries(d.codec, d.items[i]) =>
              PeerEncode(d.codec, d.items[i]) \in Seq(Alphabet(d.codec))
=============================================================================
