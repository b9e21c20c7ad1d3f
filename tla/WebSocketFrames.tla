-------------------------- MODULE WebSocketFrames --------------------------
(***************************************************************************)
(* The WebSocket frames of rs-netty as operators: the frame part of        *)
(* codec/websocket.rs (the opening handshake is in Upgrade).  A frame is a *)
(* sequence of bytes, a message a record with the variant of               *)
(* WebSocketMessage as its type.  Text is valid when it has no byte above  *)
(* 127: instances use no others.                                           *)
(***************************************************************************)
EXTENDS Integers, Sequences, SequencesExt, FiniteSetsExt, CodecResults

Piece(s, from, to) == SubSeq(s, from + 1, to)
Bit(n, b)          == (n \div b) % 2 = 1
ValidUtf8(s)       == \A i \in DOMAIN s : s[i] < 128

\* Lengths of 127 * 2^24 bytes and more count as one, above every limit
Huge == 2147483647

Number(digits) ==
  LET first[n \in 0..Len(digits)] ==
        IF n = 0 THEN 0 ELSE (first[n - 1] * 256) + digits[n]
      long == \E i \in DOMAIN digits :
                \/ i < Len(digits) - 3 /\ digits[i] > 0
                \/ i = Len(digits) - 3 /\ digits[i] > 126
  IN IF long THEN Huge ELSE first[Len(digits)]

\* Exclusive or of two bytes
Xor(x, y) ==
  LET One(b) == IF Bit(x, b) # Bit(y, b) THEN b ELSE 0
  IN One(1) + One(2) + One(4) + One(8) + One(16) + One(32) + One(64) + One(128)

Masked(mask, payload) ==
  [i \in DOMAIN payload |-> Xor(payload[i], mask[((i - 1) % 4) + 1])]

-----------------------------------------------------------------------------
validate_close_code(code) ==
  code \in (1000..1003) \cup (1007..1014) \cup (3000..4999)

decode_close(payload) ==
  LET code   == (payload[1] * 256) + payload[2]
      reason == Piece(payload, 2, Len(payload))
  IN IF payload = <<>> THEN Ok(<<>>)
     ELSE IF Len(payload) = 1 THEN Refused
     ELSE IF ~validate_close_code(code) \/ ~ValidUtf8(reason) THEN Refused
     ELSE Ok(<<[code |-> code, reason |-> reason]>>)

U16 == 0..((256 * 256) - 1)

CloseFrames == [code : U16, reason : Seq(0..127)]

\* The types that the program gives its messages
WebSocketMessage(m) ==
  \/ m \in [type : {"Text"}, payload : Seq(0..127)]
  \/ m \in [type : {"Binary", "Ping", "Pong"}, payload : Seq(0..255)]
  \/ m \in [type : {"Close"}, close : Seq(CloseFrames)] /\ Len(m.close) <= 1

Message(type, payload) == [type |-> type, payload |-> payload]

decode_payload(opcode, payload, rest) ==
  CASE opcode = 1 /\ ValidUtf8(payload) -> Item(Message("Text", payload), rest)
    [] opcode = 2  -> Item(Message("Binary", payload), rest)
    [] opcode = 9  -> Item(Message("Ping", payload), rest)
    [] opcode = 10 -> Item(Message("Pong", payload), rest)
    [] opcode = 8 /\ decode_close(payload).ok ->
         Item([type |-> "Close", close |-> decode_close(payload).bytes], rest)
    [] OTHER -> Failed("Decode")

\* The shortest form is the only one, and the top bit of 64 is reserved
validate_payload_len_encoding(kind, digits) ==
  CASE kind = 126 -> Number(digits) >= 126
    [] kind = 127 -> Number(digits) > 65535 /\ digits[1] < 128
    [] OTHER -> TRUE

validate_frame_header(c, first, masked, length) ==
  /\ c.mask => masked
  /\ (first \div 16) % 8 = 0                               \* rsv
  /\ first % 16 \in 8..10 => Bit(first, 128) /\ length <= 125
  /\ Bit(first, 128)                                       \* fin

Decode(c, buf) ==
  LET kind    == buf[2] % 128
      masked  == buf[2] >= 128
      ext     == CASE kind = 126 -> 2 [] kind = 127 -> 8 [] OTHER -> 0
      digits  == Piece(buf, 2, 2 + ext)
      length  == IF ext = 0 THEN kind ELSE Number(digits)
      start   == 2 + ext + (IF masked THEN 4 ELSE 0)
      end     == start + length
      payload == Piece(buf, start, end)
  IN IF Len(buf) < 2 THEN NeedMore
     ELSE IF Len(buf) < 2 + ext THEN NeedMore
     ELSE IF ~validate_payload_len_encoding(kind, digits) THEN Failed("Decode")
     ELSE IF length > c.max THEN Failed("FrameTooLarge")
     ELSE IF Len(buf) < end THEN NeedMore
     ELSE IF ~validate_frame_header(c, buf[1], masked, length)
       THEN Failed("Decode")
     ELSE decode_payload(buf[1] % 16,
                         IF masked THEN Masked(Piece(buf, start - 4, start), payload)
                                   ELSE payload,
                         Piece(buf, end, Len(buf)))

-----------------------------------------------------------------------------
\* The places of a length, which has four bytes at most: see Huge
Places == <<1, 256, 256 * 256, 256 * 256 * 256>>

Digits(n, len) ==
  [i \in 1..len |-> IF len - i > 3 THEN 0
                    ELSE (n \div Places[(len - i) + 1]) % 256]

encode_frame(opcode, payload) ==
  LET n == Len(payload)
  IN Ok(<<128 + opcode>>
          \o (IF n <= 125 THEN <<n>>
              ELSE IF n <= 65535 THEN <<126>> \o Digits(n, 2)
              ELSE <<127>> \o Digits(n, 8))
          \o payload)

encode_control_frame(opcode, payload) ==
  IF Len(payload) > 125 THEN Refused ELSE encode_frame(opcode, payload)

encode_close(close) ==
  IF close = <<>> THEN encode_control_frame(8, <<>>)
  ELSE IF ~validate_close_code(close[1].code) THEN Refused
  ELSE encode_control_frame(8, Digits(close[1].code, 2) \o close[1].reason)

Encode(c, m) ==
  CASE m.type = "Text"   -> encode_frame(1, m.payload)
    [] m.type = "Binary" -> encode_frame(2, m.payload)
    [] m.type = "Close"  -> encode_close(m.close)
    [] m.type = "Ping"   -> encode_control_frame(9, m.payload)
    [] m.type = "Pong"   -> encode_control_frame(10, m.payload)

-----------------------------------------------------------------------------
\* A client (not part of this code) masks the frames it sends
ClientMask == <<1, 130, 0, 255>>

AsClient(c, frame) ==
  LET header == CASE frame[2] = 126 -> 4 [] frame[2] = 127 -> 10 [] OTHER -> 2
  IN IF ~c.mask THEN frame
     ELSE <<frame[1], frame[2] + 128>> \o Piece(frame, 2, header) \o ClientMask
            \o Masked(ClientMask, Piece(frame, header, Len(frame)))

PayloadLength(m) ==
  CASE m.type # "Close" -> Len(m.payload)
    [] m.type = "Close" /\ m.close = <<>> -> 0
    [] m.type = "Close" /\ m.close # <<>> -> 2 + Len(m.close[1].reason)

Carries(c, m) == Encode(c, m).ok /\ PayloadLength(m) <= c.max

\* What a decoder that asks for more may hold: a header and a payload
Held(c) == LET ext == IF c.max > 65535 THEN 8 ELSE IF c.max > 125 THEN 2 ELSE 0
           IN Max({9, 2 + ext + 4 + c.max - 1})

WithinLimit(c, m) == PayloadLength(m) <= c.max
=============================================================================
