----------------------------- MODULE FrameCodecs -----------------------------
(***************************************************************************)
(* The framing codecs of rs-netty as operators: codec/line.rs,             *)
(* fixed_length_frame.rs, delimiter_based_frame.rs,                        *)
(* length_field_based_frame.rs and byte_array.rs.                          *)
(*                                                                         *)
(* A codec is a record whose kind names the type and whose other fields    *)
(* are the fields of the struct.  Decoding a buffer answers NeedMore       *)
(* (Ok(None)), an Item with the bytes that stay in the buffer, or Failed.  *)
(*                                                                         *)
(* Bytes are digits 0..Base-1 of the length fields.  The code has Base     *)
(* 256; a small Base brings the limits of every field width within reach.  *)
(* A usize is eight digits wide.                                           *)
(***************************************************************************)
EXTENDS Integers, Sequences, SequencesExt, FiniteSetsExt, CodecResults

CONSTANT Base    (* At least 2. *)

UsizeMax == Base ^ 8 - 1
CR       == 13
LF       == 10
Invalid  == 255          \* a byte that no UTF-8 text contains

Take(s, n) == SubSeq(s, 1, n)
Drop(s, n) == SubSeq(s, n + 1, Len(s))

\* window position of a pattern in the buffer, as the code counts them: from 0
Positions(s, pattern) ==
  {p \in 0..(Len(s) - Len(pattern)) :
     SubSeq(s, p + 1, p + Len(pattern)) = pattern}

ValidUtf8(s) == \A i \in DOMAIN s : s[i] # Invalid

-----------------------------------------------------------------------------
\* LineCodec: a line ends at the first LF; a CR before it is dropped too

\* Mutation: a partial line may grow without limit
DecodeLineUnbounded(c, buf) ==
  LET ends == Positions(buf, <<LF>>)
      pos  == Min(ends)
  IN IF ends = {} THEN NeedMore
     ELSE IF pos > c.max THEN Failed("FrameTooLarge")
     ELSE Item(Take(buf, pos), Drop(buf, pos + 1))

DecodeLine(c, buf) ==
  LET ends == Positions(buf, <<LF>>)
      pos  == Min(ends)
      line == IF pos > 0 /\ buf[pos] = CR THEN Take(buf, pos - 1)
                                          ELSE Take(buf, pos)
  IN IF ends = {} THEN IF Len(buf) > c.max THEN Failed("FrameTooLarge")
                                           ELSE NeedMore
     ELSE IF pos > c.max THEN Failed("FrameTooLarge")
     ELSE IF ~ValidUtf8(line) THEN Failed("Decode")
     ELSE Item(line, Drop(buf, pos + 1))

EncodeLine(c, item) == Ok(item \o <<LF>>)

-----------------------------------------------------------------------------
\* FixedLengthFrameDecoder

DecodeFixed(c, buf) ==
  IF Len(buf) < c.length THEN NeedMore
                         ELSE Item(Take(buf, c.length), Drop(buf, c.length))

EncodeFixed(c, item) == IF Len(item) = c.length THEN Ok(item) ELSE Refused

-----------------------------------------------------------------------------
\* DelimiterBasedFrameDecoder: the earliest delimiter, of those the shortest

\* Mutation: the delimiter that comes first in the list is preferred
find_delimiter_listed(c, buf) ==
  LET hit == {i \in DOMAIN c.delimiters : Positions(buf, c.delimiters[i]) # {}}
      d   == c.delimiters[Min(hit)]
  IN IF hit = {} THEN {} ELSE {<<Min(Positions(buf, d)), Len(d)>>}

find_delimiter(c, buf) ==
  LET found == UNION {{<<p, Len(d)>> : p \in Positions(buf, d)} :
                        d \in ToSet(c.delimiters)}
  IN {f \in found : \A g \in found : \/ f[1] < g[1]
                                     \/ f[1] = g[1] /\ f[2] <= g[2]}

DecodeDelimiter(c, buf) ==
  LET found == find_delimiter(c, buf)
      hit   == CHOOSE f \in found : TRUE
  IN IF found = {}
       THEN IF Len(buf) > c.max THEN Failed("FrameTooLarge") ELSE NeedMore
     ELSE IF hit[1] > c.max THEN Failed("FrameTooLarge")
     ELSE Item(Take(buf, IF c.strip THEN hit[1] ELSE hit[1] + hit[2]),
               Drop(buf, hit[1] + hit[2]))

EncodeDelimiter(c, item) == Ok(item \o c.delimiters[1])

-----------------------------------------------------------------------------
\* LengthFieldBasedFrameDecoder and LengthFieldPrepender

Widths == {1, 2, 3, 4, 8}

Ordered(c, digits) == IF c.order = "big" THEN digits ELSE Reverse(digits)

read_frame_length(c, buf) ==
  FoldLeft(LAMBDA value, digit : value * Base + digit, 0,
           Ordered(c, SubSeq(buf, c.offset + 1, c.offset + c.width)))

DecodeLength(c, buf) ==
  LET field_end == c.offset + c.width
      adjusted  == read_frame_length(c, buf) + c.adjust
      frame_end == field_end + adjusted
  IN IF Len(buf) < field_end THEN NeedMore
     ELSE IF \/ c.width \notin Widths
             \/ adjusted \notin 0..UsizeMax       \* checked_add_signed
             \/ frame_end > UsizeMax              \* checked_add
       THEN Failed("Decode")
     ELSE IF frame_end > c.max THEN Failed("FrameTooLarge")
     ELSE IF Len(buf) < frame_end THEN NeedMore
     ELSE IF c.strip > frame_end THEN Failed("Decode")
     ELSE Item(SubSeq(buf, c.strip + 1, frame_end), Drop(buf, frame_end))

write_length(c, len) ==
  IF c.width \notin Widths \/ len >= Base ^ c.width
    THEN Refused
    ELSE Ok(Ordered(c, [i \in 1..c.width |->
                          (len \div Base ^ (c.width - i)) % Base]))

\* write_frame_length refuses an offset or adjustment, the prepender has none
EncodeLength(c, item) ==
  LET field == write_length(c, Len(item))
  IN IF \/ ~c.prepender /\ (c.offset # 0 \/ c.adjust # 0)
        \/ ~field.ok
       THEN Refused
       ELSE Ok(field.bytes \o item)

-----------------------------------------------------------------------------
\* ByteArrayDecoder: whatever has arrived is one item

DecodeBytes(c, buf) == IF buf = <<>> THEN NeedMore ELSE Item(buf, <<>>)

EncodeBytes(c, item) == Ok(item)

-----------------------------------------------------------------------------
\* Decoder::decode and Encoder::encode of a codec

DecodeFrame(c, buf) ==
  CASE c.kind = "line"      -> DecodeLine(c, buf)
    [] c.kind = "fixed"     -> DecodeFixed(c, buf)
    [] c.kind = "delimiter" -> DecodeDelimiter(c, buf)
    [] c.kind = "length"    -> DecodeLength(c, buf)
    [] c.kind = "bytes"     -> DecodeBytes(c, buf)

EncodeFrame(c, item) ==
  CASE c.kind = "line"      -> EncodeLine(c, item)
    [] c.kind = "fixed"     -> EncodeFixed(c, item)
    [] c.kind = "delimiter" -> EncodeDelimiter(c, item)
    [] c.kind = "length"    -> EncodeLength(c, item)
    [] c.kind = "bytes"     -> EncodeBytes(c, item)

-----------------------------------------------------------------------------
(***************************************************************************)
(* The other side of the stream.  A peer writes what the encoder writes,   *)
(* except for a length field with an offset or an adjustment, which the    *)
(* encoder refuses and a foreign peer uses.                                *)
(***************************************************************************)
ForeignFrame(c, item) ==
  [write_length(c, Len(item) - c.adjust) EXCEPT
     !.bytes = [i \in 1..c.offset |-> 1] \o @ \o item]

PeerEncode(c, item) ==
  IF c.kind = "length" /\ (c.offset # 0 \/ c.adjust # 0)
    THEN ForeignFrame(c, item)
    ELSE EncodeFrame(c, item)

\* The item that stands for a message sent
Received(c, m) ==
  LET bytes == PeerEncode(c, m).bytes
  IN CASE c.kind = "delimiter" /\ ~c.strip -> bytes
       [] c.kind = "length" -> Drop(bytes, c.strip)
       [] OTHER -> m

(***************************************************************************)
(* Two things a delimiter codec does depend on where the stream is cut: a  *)
(* read that ends inside a delimiter of several bytes can make the buffer  *)
(* longer than the limit although the frame is not; and of two delimiters, *)
(* one inside the other, the inner one is complete before the outer one.   *)
(***************************************************************************)
Nested(c) ==
  /\ c.kind = "delimiter"
  /\ \E d, e \in ToSet(c.delimiters) :
       \E p \in Positions(d, e) : p > 0 /\ p + Len(e) < Len(d)

CutAtLimit(c, buf) ==
  /\ c.kind = "delimiter"
  /\ \E d \in ToSet(c.delimiters) : Len(buf) \in (c.max + 1)..(c.max + Len(d) - 1)

\* Messages the codec can carry: none holds its own boundary or is too long
Carries(c, m) ==
  /\ c.kind = "length" => Len(m) >= c.adjust
  /\ PeerEncode(c, m).ok
  /\ LET bytes == PeerEncode(c, m).bytes
     IN CASE c.kind = "line" ->
               /\ ValidUtf8(m)
               /\ ~Contains(m, LF)
               /\ m # <<>> => m[Len(m)] # CR
               /\ Len(m) <= c.max
          [] c.kind = "delimiter" ->
               /\ ~Nested(c)
               /\ find_delimiter(c, bytes) = {<<Len(m), Len(c.delimiters[1])>>}
               /\ Len(bytes) - 1 <= c.max
          [] c.kind = "length" ->
               /\ Len(bytes) <= c.max
               /\ Len(bytes) >= c.strip
          [] OTHER -> TRUE

\* What a decoder that asks for more may hold
Held(c) ==
  CASE c.kind \in {"line", "delimiter"} -> c.max
    [] c.kind = "fixed"  -> c.length - 1
    [] c.kind = "length" -> Max({c.offset + c.width, c.max}) - 1
    [] c.kind = "bytes"  -> 0

\* An item that took so many bytes; a delimiter does not count
WithinLimit(c, item, taken) ==
  CASE c.kind = "line" -> Len(item) <= c.max
    [] c.kind = "length" -> Len(item) + c.strip <= c.max
    [] c.kind = "fixed" -> Len(item) = c.length
    [] c.kind = "delimiter" -> \E d \in ToSet(c.delimiters) : taken - Len(d) <= c.max
    [] c.kind = "bytes" -> TRUE
=============================================================================
