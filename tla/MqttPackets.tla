----------------------------- MODULE MqttPackets -----------------------------
(***************************************************************************)
(* The MQTT v5 codec of rs-netty as operators: codec/mqtt.rs.              *)
(*                                                                         *)
(* Packets are records with the fields of the structs; an Option is a      *)
(* sequence of at most one value, a four-byte integer the sequence of its  *)
(* bytes.  The readers and writers of the code walk over a list of fields, *)
(* so a packet and a property have a format here: the list of the kinds of *)
(* their fields.  Text is valid when it has no byte above 127: instances   *)
(* use no others.                                                          *)
(***************************************************************************)
EXTENDS Integers, Sequences, SequencesExt, FiniteSetsExt, CodecResults

Drop(s, n) == SubSeq(s, n + 1, Len(s))
Bit(n, b)  == (n \div b) % 2 = 1
Flag(b, n) == IF b THEN n ELSE 0
Maybe(b, v) == IF b THEN <<v>> ELSE <<>>

Types == <<"Connect", "ConnAck", "Publish", "PubAck", "PubRec", "PubRel",
           "PubComp", "Subscribe", "SubAck", "Unsubscribe", "UnsubAck",
           "PingReq", "PingResp", "Disconnect", "Auth">>
Acks  == {"PubAck", "PubRec", "PubRel", "PubComp"}

TypeNumber(t) == CHOOSE n \in DOMAIN Types : Types[n] = t

\* the flags of every packet but PUBLISH
expect_flags(t) == IF t \in {"PubRel", "Subscribe", "Unsubscribe"} THEN 2 ELSE 0

PropertyFormat(id) ==
  CASE id \in {1, 23, 25, 36, 37, 40, 41, 42}   -> <<"u8">>
    [] id \in {19, 33, 34, 35}                  -> <<"u16">>
    [] id \in {2, 17, 24, 39}                   -> <<"u32">>
    [] id \in {3, 8, 18, 21, 26, 28, 31}        -> <<"string">>
    [] id \in {9, 22}                           -> <<"binary">>
    [] id = 11                                  -> <<"varint">>
    [] id = 38                                  -> <<"string", "string">>
    [] OTHER                                    -> <<"unknown">>

MaxVarint == 128 * 128 * 128 * 128 - 1      \* MAX_REMAINING_LENGTH
MQTT      == <<77, 81, 84, 84>>

-----------------------------------------------------------------------------
(***************************************************************************)
(* Reader: a field is read from the front of the bytes, or the packet is   *)
(* malformed.                                                              *)
(***************************************************************************)
Bad       == [ok |-> FALSE]
Got(n, v) == [ok |-> TRUE, used |-> n, value |-> v]

\* The ? of the code: what comes next, unless the packet is malformed
Then(r, Next(_)) == IF r.ok THEN Next(r) ELSE Bad

remaining_length_len(n) ==
  IF n < 128 THEN 1 ELSE IF n < 128 * 128 THEN 2
  ELSE IF n < 128 * 128 * 128 THEN 3 ELSE 4

\* Where a variable-length integer may end: a byte without its high bit
VarintEnds(s) == {k \in 1..Min({4, Len(s)}) : s[k] < 128}

\* Only the shortest form of a value is one
Shortest(n, value) == IF remaining_length_len(value) = n THEN Got(n, value) ELSE Bad

VarintValue(digits) ==
  LET count == Len(digits)
      last[n \in 0..count] ==
        IF n = 0 THEN 0 ELSE (last[n - 1] * 128) + (digits[count + 1 - n] % 128)
  IN Shortest(count, last[count])

read_variable_integer(s) ==
  IF VarintEnds(s) = {} THEN Bad
                        ELSE VarintValue(SubSeq(s, 1, Min(VarintEnds(s))))

read_exact(s, n, value) == IF Len(s) < n THEN Bad ELSE Got(n, value)

read_u16(s) == read_exact(s, 2, (s[1] * 256) + s[2])

Counted(s) ==
  Then(read_u16(s), LAMBDA n :
    read_exact(s, n.value + 2, SubSeq(s, 3, n.value + 2)))

NonEmpty(r) == IF r.ok /\ r.value = <<>> THEN Bad ELSE r

Text(r) ==
  Then(r, LAMBDA text :
    IF \E i \in DOMAIN text.value : text.value[i] > 127 THEN Bad ELSE text)

\* The fields without a structure of their own
Scalar(kind, s) ==
  CASE kind = "u8"            -> read_exact(s, 1, s[1])
    [] kind = "u16"           -> read_u16(s)
    [] kind = "u32"           -> read_exact(s, 4, SubSeq(s, 1, 4))
    [] kind = "binary"        -> Counted(s)
    [] kind = "string"        -> Text(Counted(s))
    [] kind = "varint"        -> read_variable_integer(s)
    [] kind = "rest"          -> Got(Len(s), s)
    [] kind = "codes"         -> NonEmpty(Got(Len(s), s))
    [] kind = "unknown"       -> Bad
    [] kind = "id" ->
         Then(read_u16(s), LAMBDA id : IF id.value = 0 THEN Bad ELSE id)

\* The fields of a format, one after the other
FieldsBy(Reads(_, _), format, s) ==
  FoldLeft(LAMBDA r, kind :
             Then(r, LAMBDA done :
               Then(Reads(kind, Drop(s, done.used)), LAMBDA f :
                 Got(done.used + f.used, Append(done.value, f.value)))),
           Got(0, <<>>), format)

\* As many values as the bytes hold
Many(Reads(_), s) ==
  LET from[n \in 0..Len(s)] ==
        IF n = Len(s) THEN Got(0, <<>>)
        ELSE Then(Reads(Drop(s, n)), LAMBDA first :
               Then(from[n + first.used], LAMBDA more :
                 Got(Len(s) - n, <<first.value>> \o more.value)))
  IN from[0]

\* The identifier of a property is cut to its low byte
decode_property(s) ==
  Then(read_variable_integer(s), LAMBDA id :
    Then(FieldsBy(Scalar, PropertyFormat(id.value % 256), Drop(s, id.used)), LAMBDA f :
      Got(id.used + f.used, [id |-> id.value % 256, values |-> f.value])))

read_properties(s) ==
  Then(read_variable_integer(s), LAMBDA length :
    LET end == length.used + length.value
    IN IF end > Len(s) THEN Bad
       ELSE Then(Many(decode_property, SubSeq(s, length.used + 1, end)),
                 LAMBDA list : Got(end, list.value)))

SubscriptionOf(f) ==
  LET options == f.value[2]
  IN Got(f.used,
         [topic_filter |-> f.value[1], maximum_qos |-> options % 4,
          no_local |-> Bit(options, 4), retain_as_published |-> Bit(options, 8),
          retain_handling |-> (options \div 16) % 4])

\* Mutation: only the reserved bits of the options are refused
SubscriptionReserved(s) ==
  Then(FieldsBy(Scalar, <<"string", "u8">>, s), LAMBDA f :
    IF f.value[2] >= 64 THEN Bad ELSE SubscriptionOf(f))

SubscriptionOptions(s) ==
  Then(FieldsBy(Scalar, <<"string", "u8">>, s), LAMBDA f :
    IF \/ f.value[2] >= 64
       \/ (f.value[2] \div 16) % 4 = 3
       \/ f.value[2] % 4 = 3
      THEN Bad ELSE SubscriptionOf(f))

Topic(s) == Scalar("string", s)

Field(kind, s) ==
  CASE kind = "props"         -> read_properties(s)
    [] kind = "subscriptions" -> NonEmpty(Many(SubscriptionOptions, s))
    [] kind = "topics"        -> NonEmpty(Many(Topic, s))
    [] OTHER                  -> Scalar(kind, s)

Fields(format, s) == FieldsBy(Field, format, s)

-----------------------------------------------------------------------------
(***************************************************************************)
(* Packets and their formats.  All but CONNECT and PUBLISH have the fields *)
(* of one list; the tail of some is left out when it says nothing.         *)
(***************************************************************************)
PacketFormat(t) ==
  CASE t = "ConnAck"                 -> <<"u8", "u8", "props">>
    [] t \in Acks                    -> <<"id", "u8", "props">>
    [] t = "Subscribe"               -> <<"id", "props", "subscriptions">>
    [] t \in {"SubAck", "UnsubAck"}  -> <<"id", "props", "codes">>
    [] t = "Unsubscribe"             -> <<"id", "props", "topics">>
    [] t \in {"Disconnect", "Auth"}  -> <<"u8", "props">>
    [] t \in {"PingReq", "PingResp"} -> <<>>

HasShortForm(t) == t \in Acks \cup {"Disconnect", "Auth"}

ConnectTail(will, username, password) ==
  (IF will THEN <<"props", "string", "binary">> ELSE <<>>)
    \o Maybe(username, "string") \o Maybe(password, "binary")

\* The flags of CONNECT
HasWill(v)     == Bit(v[3], 4)
WillQos(v)     == (v[3] \div 8) % 4
WillRetain(v)  == Bit(v[3], 32)
HasUsername(v) == Bit(v[3], 128)
HasPassword(v) == Bit(v[3], 64)

ValidConnect(v) ==
  /\ v[1] = MQTT
  /\ v[2] = 5
  /\ ~Bit(v[3], 1)
  /\ WillQos(v) # 3
  /\ ~HasWill(v) => ~WillRetain(v) /\ WillQos(v) = 0
  /\ HasPassword(v) => HasUsername(v)

ConnectPacket(v, w) ==
  [type |-> "Connect", clean_start |-> Bit(v[3], 2),
   keep_alive |-> v[4], properties |-> v[5], client_id |-> v[6],
   will |-> Maybe(HasWill(v), [qos |-> WillQos(v), retain |-> WillRetain(v),
                               properties |-> w[1], topic |-> w[2],
                               payload |-> w[3]]),
   username |-> Maybe(HasUsername(v), w[IF HasWill(v) THEN 4 ELSE 1]),
   password |-> Maybe(HasPassword(v), w[Len(w)])]

decode_connect(s) ==
  Then(Fields(<<"string", "u8", "u8", "u16", "props", "string">>, s), LAMBDA head :
    LET v == head.value
    IN IF ~ValidConnect(v) THEN Bad
       ELSE Then(Fields(ConnectTail(HasWill(v), HasUsername(v), HasPassword(v)),
                        Drop(s, head.used)), LAMBDA tail :
              Got(head.used + tail.used, ConnectPacket(v, tail.value))))

decode_publish(flags, s) ==
  LET qos == (flags \div 2) % 4
  IN IF qos = 3 THEN Bad
     ELSE Then(Fields(<<"string">> \o Maybe(qos > 0, "id") \o <<"props", "rest">>, s),
               LAMBDA f :
                 LET n == Len(f.value)
                 IN Got(f.used,
                        [type |-> "Publish", dup |-> Bit(flags, 8), qos |-> qos,
                         retain |-> Bit(flags, 1), topic_name |-> f.value[1],
                         packet_id |-> Maybe(qos > 0, f.value[2]),
                         properties |-> f.value[n - 1], payload |-> f.value[n]]))

\* decode_ack, decode_disconnect and decode_auth stop where the bytes end
Exhausts(r, s)       == r.ok /\ r.used = Len(s)
ShortForms(format, s) ==
  {k \in (Len(format) - 2)..(Len(format) - 1) :
     Exhausts(Fields(SubSeq(format, 1, k), s), s)}
LeastOr(lengths, n)  == IF lengths = {} THEN n ELSE Min(lengths)

Read(format, t, s) ==
  IF HasShortForm(t)
    THEN SubSeq(format, 1, LeastOr(ShortForms(format, s), Len(format)))
    ELSE format

\* What is left out is no reason and no properties
Padded(format, values) ==
  [i \in DOMAIN format |-> IF i \in DOMAIN values THEN values[i]
                           ELSE IF format[i] = "u8" THEN 0 ELSE <<>>]

decode_short(t, s) ==
  Then(Fields(Read(PacketFormat(t), t, s), s), LAMBDA f :
    IF t = "ConnAck" /\ f.value[1] > 1 THEN Bad
    ELSE Got(f.used, [type |-> t, fields |-> Padded(PacketFormat(t), f.value)]))

decode_packet(t, flags, s) ==
  CASE t = "Publish" -> decode_publish(flags, s)
    [] t # "Publish" /\ flags # expect_flags(t) -> Bad
    [] t = "Connect" /\ flags = 0 -> decode_connect(s)
    [] OTHER -> decode_short(t, s)

\* A packet fills its remaining length
Whole(body, length, rest) ==
  IF body.ok /\ body.used = length THEN Item(body.value, rest)
                                   ELSE Failed("Decode")

decode_frame(c, buf, length) ==
  LET header == 1 + length.used
      end    == header + length.value
      type   == buf[1] \div 16
  IN IF ~length.ok THEN Failed("Decode")
     ELSE IF length.value > c.max THEN Failed("FrameTooLarge")
     ELSE IF Len(buf) < end THEN NeedMore
     ELSE IF type = 0 THEN Failed("Decode")
     ELSE Whole(decode_packet(Types[type], buf[1] % 16, SubSeq(buf, header + 1, end)),
                length.value, Drop(buf, end))

Decode(c, buf) ==
  IF Len(buf) < 5 /\ VarintEnds(Drop(buf, 1)) = {} THEN NeedMore
  ELSE decode_frame(c, buf, read_variable_integer(Drop(buf, 1)))

-----------------------------------------------------------------------------
(***************************************************************************)
(* The writers.  A list of <<kind, value>> pairs is written in order.      *)
(***************************************************************************)
write_u16(n) == Ok(<<n \div 256, n % 256>>)

\* Base-128 digits, the lowest first, all but the last with their high bit
write_variable_integer(n) ==
  LET len == remaining_length_len(n)
  IN IF n > MaxVarint THEN Refused
     ELSE Ok([i \in 1..len |-> ((n \div 128 ^ (i - 1)) % 128)
                                 + Flag(i < len, 128)])

write_counted(bytes) ==
  IF Len(bytes) > 65535 THEN Refused
                        ELSE Ok(write_u16(Len(bytes)).bytes \o bytes)

WriteScalar(kind, value) ==
  CASE kind = "u8"                    -> Ok(<<value>>)
    [] kind = "u16"                   -> write_u16(value)
    [] kind \in {"u32", "rest"}       -> Ok(value)
    [] kind \in {"string", "binary"}  -> write_counted(value)
    [] kind = "varint"                -> write_variable_integer(value)
    [] kind = "id"       -> IF value = 0 THEN Refused ELSE write_u16(value)
    [] kind = "codes"    -> IF value = <<>> THEN Refused ELSE Ok(value)

Join(done, w) == IF done.ok /\ w.ok THEN Ok(done.bytes \o w.bytes) ELSE Refused

\* What has been written of each value, one after the other
Joined(written) == FoldLeft(Join, Ok(<<>>), written)

Pairs(format, values) == [i \in DOMAIN values |-> <<format[i], values[i]>>]

WriteScalars(pairs) ==
  Joined([i \in DOMAIN pairs |-> WriteScalar(pairs[i][1], pairs[i][2])])

encode_property(p) ==
  WriteScalars(<<<<"varint", p.id>>>> \o Pairs(PropertyFormat(p.id), p.values))

Measured(body) == IF body.ok THEN Join(write_variable_integer(Len(body.bytes)), body)
                             ELSE Refused

write_properties(list) ==
  Measured(Joined([i \in DOMAIN list |-> encode_property(list[i])]))

WriteSubscription(s) ==
  IF s.retain_handling > 2 THEN Refused
  ELSE WriteScalars(<<<<"string", s.topic_filter>>,
                      <<"u8", s.maximum_qos + Flag(s.no_local, 4)
                                + Flag(s.retain_as_published, 8)
                                + (s.retain_handling * 16)>>>>)

Write(kind, value) ==
  CASE kind = "props" -> write_properties(value)
    [] kind = "subscriptions" ->
         IF value = <<>> THEN Refused
         ELSE Joined([i \in DOMAIN value |-> WriteSubscription(value[i])])
    [] kind = "topics" ->
         IF value = <<>> THEN Refused
         ELSE Joined([i \in DOMAIN value |-> write_counted(value[i])])
    [] OTHER -> WriteScalar(kind, value)

WriteAll(pairs) == Joined([i \in DOMAIN pairs |-> Write(pairs[i][1], pairs[i][2])])

encode_connect(p) ==
  LET will == p.will # <<>>
      w    == p.will[1]
      user == p.username # <<>>
      pass == p.password # <<>>
      flags == Flag(user, 128) + Flag(pass, 64) + Flag(p.clean_start, 2)
                 + (IF will THEN 4 + (w.qos * 8) + Flag(w.retain, 32) ELSE 0)
  IN IF pass /\ ~user THEN Refused
     ELSE WriteAll(<<<<"string", MQTT>>, <<"u8", 5>>, <<"u8", flags>>,
                     <<"u16", p.keep_alive>>, <<"props", p.properties>>,
                     <<"string", p.client_id>>>>
            \o Pairs(ConnectTail(will, user, pass),
                     (IF will THEN <<w.properties, w.topic, w.payload>>
                              ELSE <<>>) \o p.username \o p.password))

encode_publish(p) ==
  IF (p.qos = 0) # (p.packet_id = <<>>) THEN Refused
  ELSE WriteAll(<<<<"string", p.topic_name>>>>
                  \o Pairs(<<"id">>, p.packet_id)
                  \o <<<<"props", p.properties>>, <<"rest", p.payload>>>>)

\* Mutation: a reason code is left out whenever there are no properties
encode_short_reasonless(t, values) ==
  LET n == Len(values)
      k == IF ~HasShortForm(t) \/ values[n] # <<>> THEN n ELSE n - 2
  IN WriteAll(SubSeq(Pairs(PacketFormat(t), values), 1, k))

\* encode_ack, encode_disconnect and encode_auth leave an empty tail out
encode_short(t, values) ==
  LET n == Len(values)
      k == IF ~HasShortForm(t) \/ values[n] # <<>> THEN n
           ELSE IF values[n - 1] # 0 THEN n - 1
           ELSE n - 2
  IN WriteAll(SubSeq(Pairs(PacketFormat(t), values), 1, k))

encode_packet(p) ==
  CASE p.type = "Connect" -> encode_connect(p)
    [] p.type = "Publish" -> encode_publish(p)
    [] OTHER -> encode_short(p.type, p.fields)

encode_frame(c, first, body) ==
  IF body.ok /\ Len(body.bytes) <= c.max
    THEN Join(Ok(<<first>>), Measured(body))
    ELSE Refused

Encode(c, p) ==
  LET flags == IF p.type = "Publish"
                 THEN (p.qos * 2) + Flag(p.dup, 8) + Flag(p.retain, 1)
                 ELSE expect_flags(p.type)
  IN encode_frame(c, (TypeNumber(p.type) * 16) + flags, encode_packet(p))

\* What a decoder that asks for more may hold: a header and a body within max
Held(c) == Max({4, remaining_length_len(c.max) + c.max})

\* What a packet may take: its first byte, its remaining length, and its body
WithinLimit(c, taken) == taken <= 1 + remaining_length_len(c.max) + c.max
=============================================================================
