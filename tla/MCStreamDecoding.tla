-------------------------- MODULE MCStreamDecoding --------------------------
(***************************************************************************)
(* Model-checking instance of StreamDecoding: every codec with byte        *)
(* strings up to a bound or damaged encodings, and messages it can carry.  *)
(***************************************************************************)
EXTENDS StreamDecoding

\* Every byte string of at most n bytes
Raw(c, bytes, n) == {[codec |-> c, bytes |-> s] : s \in BoundedSeq(bytes, n)}

\* Every message of at most n + 2 bytes, and every two of at most n; Init takes
\* those that the codec carries
Talk(c, bytes, n) ==
  {[codec |-> c, items |-> <<m>>] : m \in BoundedSeq(bytes, n + 2)}
    \cup {[codec |-> c, items |-> <<m, k>>] : m, k \in BoundedSeq(bytes, n)}

\* The members of a sequence as families of their own, first alone and then
\* followed by another
Each(c, messages, after) ==
  [i \in DOMAIN messages |-> {[codec |-> c, items |-> <<messages[i]>>],
                              [codec |-> c, items |-> <<messages[i], after>>]}]

\* Encodings with one byte changed, cut short, or with a byte too many
Damaged(bytes, values) ==
  {[bytes EXCEPT ![i] = v] : i \in DOMAIN bytes, v \in values}
    \cup {SubSeq(bytes, 1, n) : n \in DOMAIN bytes}
    \cup {bytes \o <<v>> : v \in values}

-----------------------------------------------------------------------------
\* The framing codecs, with every byte string over a few bytes

a == 0
b == 1

Line(max) == [protocol |-> "frames", kind |-> "line", max |-> max]
Fixed(n)  == [protocol |-> "frames", kind |-> "fixed", length |-> n]
Bytes     == [protocol |-> "frames", kind |-> "bytes"]
Delimiter(max, strip, delimiters) ==
  [protocol |-> "frames", kind |-> "delimiter", max |-> max, strip |-> strip,
   delimiters |-> delimiters]
Length(max, offset, width, adjust, strip, order, prepender) ==
  [protocol |-> "frames", kind |-> "length", max |-> max, offset |-> offset,
   width |-> width, adjust |-> adjust, strip |-> strip, order |-> order,
   prepender |-> prepender]

Text    == {a, Frames!CR, Frames!LF, Frames!Invalid}
Lines   == {Line(0), Line(2)}
Marks   == {a, b, 2}
Crlf    == <<<<Frames!CR, Frames!LF>>, <<Frames!LF>>>>
Marked  == {Delimiter(2, TRUE,  <<<<a, b>>, <<b>>>>),
            Delimiter(3, FALSE, <<<<a, b, a>>>>),
            Delimiter(1, TRUE,  <<<<a, b, b>>, <<a, b>>>>),
            Delimiter(2, TRUE,  <<<<a, b, a>>, <<b>>>>)}
Counted == {Length(6, 0, 1, 0, 1, "big", FALSE),
            Length(6, 1, 2, -1, 0, "little", FALSE),
            Length(7, 0, 2, 2, 1, "big", FALSE),
            Length(9, 0, 3, 0, 3, "little", TRUE),
            Length(9, 0, 4, 0, 4, "big", FALSE),
            Length(6, 0, 1, -2, 4, "big", FALSE),
            Length(7, 0, 5, 0, 5, "big", TRUE)}
Wide    == {Length(10, 0, 8, 0, 8, "big", FALSE),
            Length(300, 0, 8, 0, 8, "little", TRUE),
            Length(300, 0, 8, 250, 0, "big", FALSE)}

RawFrames == <<
  UNION {Raw(c, Text, 5) : c \in Lines},
  Raw(Fixed(2), {a, b}, 5),
  UNION {Raw(c, Marks, 5) : c \in Marked},
  Raw(Delimiter(2, TRUE, Crlf), Text, 5),
  UNION {Raw(c, {a, b}, 6) : c \in Counted},
  UNION {Raw(c, {a, b}, 9) : c \in Wide},
  Raw(Bytes, {a, b}, 4) >>

FrameTalk == <<
  UNION {Talk(c, Text, 2) : c \in Lines},
  Talk(Fixed(2), {a, b}, 2),
  UNION {Talk(c, Marks, 2) : c \in Marked},
  Talk(Delimiter(2, TRUE, Crlf), Text, 2),
  UNION {Talk(c, {a, b}, 4) : c \in Counted},
  UNION {Talk(c, {a, b}, 1) : c \in Wide},
  Talk(Bytes, {a, b}, 2) >>

-----------------------------------------------------------------------------
\* MQTT: packets of every type, with every property, and their damaged forms

MqttCodec(max) == [protocol |-> "mqtt", max |-> max]

PropertyIds == SelectSeq([i \in 1..42 |-> i],
                         LAMBDA id : Mqtt!PropertyFormat(id) # <<"unknown">>)

Sample == [u8 |-> 1, u16 |-> 300, u32 |-> <<0, 1, 127, 255>>, varint |-> 200,
           string |-> <<65>>, binary |-> <<0, 255>>]
Property(id) ==
  [id |-> id, values |-> [i \in DOMAIN Mqtt!PropertyFormat(id) |->
                            Sample[Mqtt!PropertyFormat(id)[i]]]]
Plain(t, fields) == [type |-> t, fields |-> fields]
Connect(clean, properties, will, username, password) ==
  [type |-> "Connect", clean_start |-> clean, keep_alive |-> 300,
   properties |-> properties, client_id |-> <<67>>, will |-> will,
   username |-> username, password |-> password]
Publish(dup, qos, id, properties, payload) ==
  [type |-> "Publish", dup |-> dup, qos |-> qos, retain |-> ~dup,
   topic_name |-> <<84>>, packet_id |-> id, properties |-> properties,
   payload |-> payload]
SubscribeTo(qos, flag, handling) ==
  [topic_filter |-> <<84>>, maximum_qos |-> qos, no_local |-> flag,
   retain_as_published |-> ~flag, retain_handling |-> handling]
Will(qos, retain) == <<[qos |-> qos, retain |-> retain, properties |-> <<>>,
                        topic |-> <<87>>, payload |-> <<0>>]>>

P          == Property(36)
WithProperty == [i \in DOMAIN PropertyIds |->
                   Plain("ConnAck", <<1, 0, <<Property(PropertyIds[i])>>>>)]
Packets == <<
  Connect(TRUE, <<>>, <<>>, <<>>, <<>>),
  Connect(FALSE, <<P>>, Will(1, TRUE), <<<<85>>>>, <<<<80>>>>),
  Connect(TRUE, <<>>, Will(2, FALSE), <<<<85>>>>, <<>>),
  Plain("ConnAck", <<0, 0, <<P, P>>>>),
  Publish(FALSE, 0, <<>>, <<>>, <<>>),
  Publish(TRUE, 1, <<7>>, <<P>>, <<1, 2>>),
  Publish(FALSE, 2, <<700>>, <<>>, <<9>>),
  Plain("PubAck", <<1, 0, <<>>>>),  Plain("PubRec", <<1, 16, <<>>>>),
  Plain("PubRel", <<1, 0, <<P>>>>), Plain("PubComp", <<1, 5, <<P>>>>),
  Plain("Subscribe", <<1, <<>>, <<SubscribeTo(1, TRUE, 2)>>>>),
  Plain("Subscribe", <<1, <<P>>, <<SubscribeTo(0, TRUE, 0),
                                   SubscribeTo(2, FALSE, 1)>>>>),
  Plain("SubAck", <<1, <<>>, <<0, 1>>>>),
  Plain("Unsubscribe", <<1, <<>>, <<<<84>>, <<>>>>>>),
  Plain("UnsubAck", <<1, <<P>>, <<17>>>>),
  Plain("PingReq", <<>>), Plain("PingResp", <<>>),
  Plain("Disconnect", <<0, <<>>>>), Plain("Disconnect", <<4, <<>>>>),
  Plain("Disconnect", <<0, <<P>>>>), Plain("Auth", <<24, <<P>>>>),
  Plain("Auth", <<0, <<>>>>) >>

\* What the encoder refuses, or only just accepts
Edge == <<
  Connect(TRUE, <<>>, <<>>, <<>>, <<<<80>>>>),
  Publish(FALSE, 0, <<7>>, <<>>, <<>>), Publish(FALSE, 1, <<>>, <<>>, <<>>),
  Publish(FALSE, 2, <<0>>, <<>>, <<>>),
  Publish(FALSE, 0, <<>>, <<>>, [i \in 1..123 |-> i]),
  Publish(FALSE, 0, <<>>, <<>>, [i \in 1..124 |-> i]),
  Publish(FALSE, 0, <<>>, <<>>, [i \in 1..196 |-> 0]),   \* body of 200
  Publish(FALSE, 0, <<>>, <<>>, [i \in 1..197 |-> 0]),
  Plain("PubAck", <<0, 0, <<>>>>),
  Plain("Subscribe", <<1, <<>>, <<>>>>),
  Plain("Subscribe", <<1, <<>>, <<SubscribeTo(1, TRUE, 3)>>>>),
  Plain("SubAck", <<1, <<>>, <<>>>>), Plain("Unsubscribe", <<1, <<>>, <<>>>>),
  Plain("UnsubAck", <<0, <<>>, <<1>>>>) >>

MqttBytes(p) == Mqtt!Encode(MqttCodec(200), p).bytes
RawMqtt == <<
  [codec : {MqttCodec(12)},
   bytes : UNION {Damaged(MqttBytes(Packets[i]), {0, 1, 3, 48, 66, 127, 128, 192}) :
                    i \in DOMAIN Packets}],
  [codec : {MqttCodec(200)},
   bytes : UNION {Damaged(MqttBytes(WithProperty[i]), {129, 2}) :
                    i \in DOMAIN WithProperty}],
  [codec : {MqttCodec(200)},
   bytes : {<<32, 6, 0, 0, 3, 164, 2, 1>>, <<32, 6, 0, 0, 3, 164, 0, 1>>}
             \cup {<<t>> \o s : t \in {0, 192},
                                s \in BoundedSeq({0, 1, 127, 128, 255}, 5)}] >>

-----------------------------------------------------------------------------
\* WebSocket frames

WsCodec(max, mask) == [protocol |-> "websocket", max |-> max, mask |-> mask]
Filled(n, v) == [i \in 1..n |-> v]
Close(close) == [type |-> "Close", close |-> close]
Closed(code) == Close(<<[code |-> code, reason |-> <<66, 89>>]>>)

Messages == <<
  Ws!Message("Text", <<>>), Ws!Message("Text", <<72, 105, 0, 1, 2, 3>>),
  Ws!Message("Binary", <<255, 0>>), Ws!Message("Ping", <<1>>),
  Ws!Message("Pong", <<>>), Close(<<>>), Closed(1000), Closed(4999) >>
Long == <<
  Ws!Message("Binary", Filled(125, 7)), Ws!Message("Text", Filled(126, 7)),
  Ws!Message("Binary", Filled(127, 200)) >>
Ends == Ws!Message("Text", <<65>>)

ClientBytes(m) == LET c == WsCodec(200, TRUE) IN Ws!AsClient(c, Ws!Encode(c, m).bytes)
RawWs == <<
  [codec : {WsCodec(4, TRUE), WsCodec(200, FALSE)},
   bytes : UNION {Damaged(ClientBytes(Messages[i]), {0, 1, 3, 127, 129, 130, 137}) :
                    i \in DOMAIN Messages}],
  [codec : {WsCodec(200, FALSE)},
   bytes : {<<130, 126, 0, 125>> \o Filled(125, 7), <<137, 126, 0, 126>> \o Filled(126, 7),
            <<136, 2, 3, 238>>, <<136, 2, 3, 232>>, <<136, 2, 19, 136>>, <<136, 1, 3>>}
             \cup {<<130, 127, x, 0, 0, 0, y, z, 255, 255>> :
                     x \in {0, 127, 128}, y \in {0, 1}, z \in {0, 1}}] >>

-----------------------------------------------------------------------------
\* HTTP requests

HttpCodec(header, body, chunked, trailers) ==
  [protocol |-> "http", max_header |-> header, max_body |-> body,
   chunked |-> chunked, trailers |-> trailers]
Strict == HttpCodec(4, 2, FALSE, FALSE)
Loose  == HttpCodec(16, 3, TRUE, TRUE)

Written(lines, rest) == Http!WrittenLines(lines) \o Http!CRLF \o FlattenSeq(rest)
BodyPieces == {<<"data">>, <<"CR">>, Http!CRLF} \cup
              {Http!Line(t) : t \in {"size0", "size1", "size2_ext", "other"}}
WholeChunks == {Http!Chunks(Filled(n, "data"), n) : n \in {1, 2}}
                 \cup {Http!Line("size0"), Http!CRLF}
FieldLists == BoundedSeq(Http!HeaderFields \ Http!UpgradeHeaders, 1)
                \cup [1..2 -> {"length0", "length1", "chunked", "identity", "gzip"}]

RawHttp == <<
  [codec : {Strict, Loose},
   bytes : {Written(<<"GET">> \o f, rest) :
              f \in FieldLists, rest \in BoundedSeq({<<"data">>, Http!CRLF}, 2)}],
  [codec : {Loose, HttpCodec(7, 2, TRUE, FALSE)},
   bytes : {Written(<<"POST", "chunked">>, rest) :
              rest \in BoundedSeq(BodyPieces, 4) \cup BoundedSeq(WholeChunks, 5)}],
  [codec : {Strict},
   bytes : {Http!CRLF, <<"CR">>, <<"data", "CR", "LF", "CR", "LF">>,
            Written(<<"other">>, <<>>), Written(<<"GET">>, <<<<"GET">>>>)}] >>

Asked(method, fields, body, trailers) ==
  [method |-> method, fields |-> fields, body |-> body, trailers |-> trailers]
Requests ==
  {Asked("POST", f, body, t) :
     f \in FieldLists \cup {<<"other", "gzip_chunked">>},
     body \in BoundedSeq({"data", "CR", "LF"}, 3), t \in {<<>>, <<"other">>}}
Plainest == Asked("GET", <<>>, <<>>, <<>>)
HttpTalk == <<
  {[codec |-> Loose, items |-> <<r, Plainest>>] : r \in Requests},
  {[codec |-> HttpCodec(12, 3, TRUE, FALSE), items |-> <<Plainest, r>>] :
     r \in Requests} >>

-----------------------------------------------------------------------------
AllRaw  == RawFrames \o RawMqtt \o RawWs \o RawHttp
AllTalk ==
  FrameTalk
    \o Each(MqttCodec(200), Packets \o WithProperty \o Edge,
            Plain("PingReq", <<>>))
    \o Each(WsCodec(200, TRUE), Messages \o Long, Ends)
    \o Each(WsCodec(2, FALSE), Messages, Ends)
    \o HttpTalk
=============================================================================
