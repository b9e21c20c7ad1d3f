---------------------------- MODULE HttpMessages ----------------------------
(***************************************************************************)
(* The HTTP/1.1 codec of rs-netty as operators: codec/http.rs.             *)
(*                                                                         *)
(* The codec looks at a head only once it is complete, so the text of a    *)
(* line is one token here and counts as one byte: only CR, LF and the      *)
(* bytes of a body are tokens of their own.  Every text token is followed  *)
(* by CR LF wherever it is sent.  A request line, a header and a chunk     *)
(* size are tokens of the sets below; "data" is a byte that no text        *)
(* contains.                                                               *)
(***************************************************************************)
EXTENDS Integers, Sequences, SequencesExt, FiniteSetsExt, CodecResults, HttpFields

CRLF == <<"CR", "LF">>

RequestLines == {"GET", "POST"}

\* Chunk sizes by their value, with and without an extension
ChunkSizes == [size0 |-> 0, size1 |-> 1, size2 |-> 2, size2_ext |-> 2]

-----------------------------------------------------------------------------
\* Where the pattern begins at or after position start, counted from 0
Found(s, pattern, start) ==
  {p \in start..(Len(s) - Len(pattern)) :
     SubSeq(s, p + 1, p + Len(pattern)) = pattern}

Piece(s, from, to) == SubSeq(s, from + 1, to)

\* Lines between the CR LFs, without the white space around their text
Lines(s) ==
  LET from[n \in 0..Len(s)] ==
        IF Found(s, CRLF, n) = {} THEN <<Piece(s, n, Len(s))>>
        ELSE <<Piece(s, n, Min(Found(s, CRLF, n)))>>
               \o from[Min(Found(s, CRLF, n)) + 2]
  IN from[0]

Words(line) == SelectSeq(line, LAMBDA t : t \notin {"CR", "LF"})

\* parse_header_fields: empty lines are passed over, others are fields
FieldLines(lines) == SelectSeq(lines, LAMBDA line : line # <<>>)

IsField(line) == Len(Words(line)) = 1 /\ Words(line)[1] \in HeaderFields

Fields(lines) ==
  [i \in DOMAIN FieldLines(lines) |-> Words(FieldLines(lines)[i])[1]]

ValidFields(lines) == \A i \in DOMAIN FieldLines(lines) : IsField(FieldLines(lines)[i])

\* The first field of a name: header() of the code
header(fields, name) == SelectInSeq(fields, LAMBDA f : f \in name)

-----------------------------------------------------------------------------
(***************************************************************************)
(* request_body_kind and content_length                                    *)
(***************************************************************************)
BodyError   == [kind |-> "error"]
NoBody      == [kind |-> "none"]
Sized(n)    == [kind |-> "length", length |-> n]
ChunkedBody == [kind |-> "chunked"]

content_length(fields) ==
  LET given == SelectSeq(fields, LAMBDA f : f \in DOMAIN ContentLengths \cup {"length?"})
  IN IF given = <<>> THEN NoBody
     ELSE IF Len(given) > 1 \/ given[1] \notin DOMAIN ContentLengths THEN BodyError
     ELSE Sized(ContentLengths[given[1]])

request_body_kind(c, fields) ==
  LET length  == content_length(fields)
      i       == header(fields, DOMAIN TransferCodings)
      codings == TransferCodings[fields[i]]
  IN IF length.kind = "error" \/ i = 0 THEN length
     ELSE IF "chunked" \in ToSet(codings)
       THEN IF \/ length.kind # "none"
               \/ ~c.chunked
               \/ Last(codings) # "chunked"
            THEN BodyError ELSE ChunkedBody
     ELSE IF ToSet(codings) # {"identity"} THEN BodyError
     ELSE length

-----------------------------------------------------------------------------
(***************************************************************************)
(* decode_chunked_body: a loop over the chunks, from a position of the     *)
(* buffer with the body read so far.  Its item is the body with the        *)
(* trailers.                                                               *)
(***************************************************************************)
\* Mutation: each chunk is measured against the limit on its own
TooLargeAlone(c, body, size) == size > c.max_body

TooLarge(c, body, size) == Len(body) + size > c.max_body

LastChunk(c, s, pos, body) ==
  LET ends == Found(s, CRLF \o CRLF, pos)
      end  == Min(ends)
      rows == Lines(Piece(s, pos, end))
  IN IF pos \in Found(s, CRLF, pos)
       THEN Item([body |-> body, trailers |-> <<>>], Piece(s, pos + 2, Len(s)))
     ELSE IF ends = {} THEN NeedMore
     ELSE IF ~ValidFields(rows) THEN Failed("Decode")
     ELSE Item([body |-> body,
                trailers |-> IF c.trailers THEN Fields(rows) ELSE <<>>],
               Piece(s, end + 4, Len(s)))

At(pos, body) == [kind |-> "chunk", pos |-> pos, body |-> body]

\* One turn of the loop
Chunk(c, s, start, body) ==
  LET ends == Found(s, CRLF, start)
      pos  == Min(ends) + 2
      line == Words(Piece(s, start, pos - 2))
      size == ChunkSizes[line[1]]
      end  == pos + size
  IN IF ends = {} THEN NeedMore
     ELSE IF Len(line) # 1 THEN Failed("Decode")
     ELSE IF line[1] \notin DOMAIN ChunkSizes THEN Failed("Decode")
     ELSE IF size = 0 THEN LastChunk(c, s, pos, body)
     ELSE IF TooLarge(c, body, size) THEN Failed("FrameTooLarge")
     ELSE IF Len(s) < end + 2 THEN NeedMore
     ELSE IF Piece(s, end, end + 2) # CRLF THEN Failed("Decode")
     ELSE At(end + 2, body \o Piece(s, pos, end))

Onward(c, s, at) == IF at.kind = "chunk" THEN Chunk(c, s, at.pos, at.body) ELSE at

\* A turn takes some bytes, so there are fewer turns than bytes
decode_chunked_body(c, s, start) ==
  LET turn[n \in 0..Len(s)] ==
        IF n = 0 THEN At(start, <<>>) ELSE Onward(c, s, turn[n - 1])
  IN turn[Len(s)]

-----------------------------------------------------------------------------
(***************************************************************************)
(* parse_http_head and decode_http_request                                 *)
(***************************************************************************)
ValidHead(lines) ==
  /\ Len(Words(lines[1])) = 1
  /\ Words(lines[1])[1] \in RequestLines
  /\ ValidFields(Tail(lines))

Request(lines, body, trailers) ==
  [method |-> Words(lines[1])[1], fields |-> Fields(Tail(lines)),
   body |-> body, trailers |-> trailers]

Decode(c, buf) ==
  LET ends  == Found(buf, CRLF \o CRLF, 0)
      end   == Min(ends)
      start == end + 4
      lines == Lines(Piece(buf, 0, end))
      kind  == request_body_kind(c, Fields(Tail(lines)))
      whole == decode_chunked_body(c, buf, start)
  IN IF ends = {} THEN IF Len(buf) > c.max_header THEN Failed("FrameTooLarge")
                                                  ELSE NeedMore
     ELSE IF end > c.max_header THEN Failed("FrameTooLarge")
     ELSE IF ~ValidHead(lines) THEN Failed("Decode")
     ELSE IF kind.kind = "error" THEN Failed("Decode")
     ELSE IF kind.kind = "none"
       THEN Item(Request(lines, <<>>, <<>>), Piece(buf, start, Len(buf)))
     ELSE IF kind.kind = "length"
       THEN IF kind.length > c.max_body THEN Failed("FrameTooLarge")
            ELSE IF Len(buf) < start + kind.length THEN NeedMore
            ELSE Item(Request(lines, Piece(buf, start, start + kind.length), <<>>),
                      Piece(buf, start + kind.length, Len(buf)))
     ELSE IF whole.kind # "item" THEN whole
     ELSE Item(Request(lines, whole.item.body, whole.item.trailers), whole.rest)

-----------------------------------------------------------------------------
(***************************************************************************)
(* A client (not part of this code) that writes a request: its line, its   *)
(* fields, and the body as it is or in chunks.                             *)
(***************************************************************************)
Line(token) == <<token>> \o CRLF

WrittenLines(tokens) == FlattenSeq([i \in DOMAIN tokens |-> Line(tokens[i])])

SizeLine(n) == CHOOSE t \in DOMAIN ChunkSizes : ChunkSizes[t] = n

Chunks(body, size) ==
  FlattenSeq([i \in 1..((Len(body) + size - 1) \div size) |->
     LET chunk == Piece(body, (i - 1) * size, Min({i * size, Len(body)}))
     IN Line(SizeLine(Len(chunk))) \o chunk \o CRLF])

IsChunked(c, request) == request_body_kind(c, request.fields).kind = "chunked"

PeerEncode(c, request) ==
  WrittenLines(<<request.method>> \o request.fields) \o CRLF
    \o (IF IsChunked(c, request)
          THEN Chunks(request.body, 2) \o Line("size0")
                 \o WrittenLines(request.trailers) \o CRLF
          ELSE request.body)

Received(c, request) ==
  [request EXCEPT !.trailers = IF c.trailers THEN @ ELSE <<>>]

HeadLength(request) == Len(WrittenLines(<<request.method>> \o request.fields)) - 2

Carries(c, request) ==
  LET kind == request_body_kind(c, request.fields)
  IN /\ HeadLength(request) + 3 <= c.max_header
     /\ Len(request.body) <= c.max_body
     /\ CASE kind.kind = "none"    -> request.body = <<>> /\ request.trailers = <<>>
          [] kind.kind = "length"  -> Len(request.body) = kind.length
                                        /\ request.trailers = <<>>
          [] kind.kind = "chunked" -> TRUE
          [] kind.kind = "error"   -> FALSE

\* The head is complete only with the four bytes after it: a read that ends
\* among them can make a head of the very limit too large
CutAtLimit(c, buf) == Len(buf) \in (c.max_header + 1)..(c.max_header + 3)

\* What a decoder that asks for more may hold.  Chunk lines and trailers have
\* no limit in the codec, only that of the connection's read buffer.
HasBound(c) == ~c.chunked
Held(c)     == c.max_header + 3 + c.max_body

\* The body, and with a plain body the head: all that was taken but the body
\* and the empty line
WithinLimit(c, request, taken) ==
  /\ Len(request.body) <= c.max_body
  /\ IsChunked(c, request) \/ taken - 4 - Len(request.body) <= c.max_header
=============================================================================
