------------------------ MODULE StreamDecodingProofs ------------------------
(***************************************************************************)
(* Theorems about StreamDecoding, for every codec of the repository in     *)
(* every configuration and every stream of bytes.  The decoder of HTTP     *)
(* comes first, then what all decoders have in common, by which the loop   *)
(* of DecodeLoopProofs is that of StreamDecoding; at the end encoders and  *)
(* decoders are compared.                                                  *)
(***************************************************************************)
EXTENDS CodecProofs

-----------------------------------------------------------------------------
\* HttpCodec
Token == STRING
Mark == {"CR", "LF"}
Ends1 == Http!CRLF
Ends2 == Http!CRLF \o Http!CRLF

LEMMA EndsType ==
  /\ Ends1 \in Seq(Mark) /\ Len(Ends1) = 2
  /\ Ends2 \in Seq(Mark) /\ Len(Ends2) = 4
<1>1. Ends1 \in Seq(Mark) /\ Len(Ends1) = 2
  <2>1. "CR" \in Mark /\ "LF" \in Mark BY DEF Mark
  <2>2. \A x, y \in Mark : <<x, y>> \in Seq(Mark) /\ Len(<<x, y>>) = 2 OBVIOUS
  <2> QED BY <2>1, <2>2 DEF Ends1, Http!CRLF
<1> HIDE DEF Ends1
<1>2. Ends1 \o Ends1 \in Seq(Mark) /\ Len(Ends1 \o Ends1) = Len(Ends1) + Len(Ends1)
  BY <1>1, ConcatProperties
<1> QED BY <1>1, <1>2 DEF Ends1, Ends2

LEMMA FoundHits ==
  ASSUME NEW s, NEW start
  PROVE  /\ Http!Found(s, Http!CRLF, start) = Hits(s, Ends1, start)
         /\ Http!Found(s, Http!CRLF \o Http!CRLF, start) = Hits(s, Ends2, start)
BY DEF Http!Found, Hits, Ends1, Ends2

\* What a turn over the chunks of b answers for every longer buffer
ChunkGoesOn(c, b, start, body, p, longer) ==
  /\ p \in (start + 1)..Len(b)
  /\ longer \in Seq(Token) /\ Len(longer) <= c.max_body
  /\ \A more \in Seq(Token) : Http!Chunk(c, b \o more, start, body) = Http!At(p, longer)

ChunkFails(c, b, start, body, e) ==
  /\ e # "none"
  /\ \A more \in Seq(Token) : Http!Chunk(c, b \o more, start, body) = Failed(e)

ChunkEnds(c, b, start, body, n, x) ==
  /\ n \in (start + 1)..Len(b) /\ Len(x.body) <= c.max_body
  /\ \A more \in Seq(Token) :
       Http!Chunk(c, b \o more, start, body)
         = Item(x, SubSeq(b \o more, n + 1, Len(b \o more)))

ChunkAnswers(c, b, start, body) ==
  \/ Http!Chunk(c, b, start, body) = NeedMore
  \/ \E e : ChunkFails(c, b, start, body, e)
  \/ \E n : \E x : ChunkEnds(c, b, start, body, n, x)
  \/ \E p : \E longer : ChunkGoesOn(c, b, start, body, p, longer)

LEMMA LastChunkAnswers ==
  ASSUME NEW c, NEW b \in Seq(Token), NEW pos \in Nat, pos <= Len(b), NEW body
  PROVE  \/ Http!LastChunk(c, b, pos, body) = NeedMore
         \/ \A more \in Seq(Token) :
              Http!LastChunk(c, b \o more, pos, body) = Failed("Decode")
         \/ \E n \in (pos + 1)..Len(b) : \E x : x.body = body /\
              \A more \in Seq(Token) :
                Http!LastChunk(c, b \o more, pos, body)
                  = Item(x, SubSeq(b \o more, n + 1, Len(b \o more)))
<1> DEFINE one == Hits(b, Ends1, pos)
           two == Hits(b, Ends2, pos)
           end == Min(two)
           rows == Http!Lines(SubSeq(b, pos + 1, end))
<1>1. /\ Ends1 \in Seq(Mark) /\ Len(Ends1) = 2
      /\ Ends2 \in Seq(Mark) /\ Len(Ends2) = 4
  BY EndsType
<1>2. Len(b) \in Nat /\ <<>> \in Seq(Token) /\ b \o <<>> = b
  BY LenProperties, EmptySeq, ConcatEmptySeq
<1>3. ASSUME NEW s
      PROVE  Http!LastChunk(c, s, pos, body)
               = IF pos \in Hits(s, Ends1, pos)
                   THEN Item([body |-> body, trailers |-> <<>>],
                             SubSeq(s, (pos + 2) + 1, Len(s)))
                 ELSE IF Hits(s, Ends2, pos) = {} THEN NeedMore
                 ELSE IF ~Http!ValidFields(Http!Lines(
                           SubSeq(s, pos + 1, Http!Min(Hits(s, Ends2, pos)))))
                   THEN Failed("Decode")
                 ELSE Item([body |-> body,
                            trailers |-> IF c.trailers
                              THEN Http!Fields(Http!Lines(
                                     SubSeq(s, pos + 1, Http!Min(Hits(s, Ends2, pos)))))
                              ELSE <<>>],
                           SubSeq(s, (Http!Min(Hits(s, Ends2, pos)) + 4) + 1, Len(s)))
  BY FoundHits, Zenon DEF Http!LastChunk, Http!Piece, Http!Item, Item, Http!Failed, Failed,
     Http!NeedMore, NeedMore
<1>4. /\ \A more \in Seq(Token) : pos \in one => pos \in Hits(b \o more, Ends1, pos)
      /\ \A more \in Seq(Token) : pos + 2 <= Len(b) =>
           (pos \in Hits(b \o more, Ends1, pos) => pos \in one)
      /\ pos \in one => pos + 2 <= Len(b)
  BY <1>1, <1>2, HitsLater
<1>5. CASE pos \in one
  <2> DEFINE x == [body |-> body, trailers |-> <<>>]
             n == pos + 2
  <2>1. \A more \in Seq(Token) :
          Http!LastChunk(c, b \o more, pos, body)
            = Item(x, SubSeq(b \o more, n + 1, Len(b \o more)))
    BY <1>3, <1>4, <1>5
  <2>2. n \in (pos + 1)..Len(b) /\ x.body = body BY <1>2, <1>4, <1>5
  <2> QED BY <2>1, <2>2
<1>6. CASE pos \notin one /\ two = {}
  <2>1. Http!LastChunk(c, b, pos, body) = NeedMore BY <1>3, <1>6
  <2> QED BY <2>1
<1>7. CASE pos \notin one /\ two # {}
  <2>1. /\ end \in Nat /\ pos <= end /\ end + 4 <= Len(b)
        /\ \A more \in Seq(Token) :
             Hits(b \o more, Ends2, pos) # {} /\ Min(Hits(b \o more, Ends2, pos)) = end
    <3>1. end \in Nat /\ pos <= end /\ end + 4 <= Len(b)
      BY <1>1, <1>2, <1>7, FirstHit
    <3> QED BY <1>1, <1>7, <3>1, FirstHit
  <2>2. \A more \in Seq(Token) : Http!Min(Hits(b \o more, Ends2, pos)) = end
    <3> SUFFICES ASSUME NEW more \in Seq(Token)
                 PROVE  Http!Min(Hits(b \o more, Ends2, pos)) = end
      OBVIOUS
    <3> DEFINE T == Hits(b \o more, Ends2, pos)
    <3>1. T # {} /\ Min(T) = end BY <2>1
    <3>2. T \in SUBSET Nat BY <1>1, HitsLater
    <3> HIDE DEF T
    <3>3. Http!Min(T) = Min(T) BY <3>1, <3>2, MinOfNat
    <3> QED BY <3>1, <3>3 DEF T
  <2> HIDE DEF end
  <2>3. \A more \in Seq(Token) : SubSeq(b \o more, pos + 1, end) = SubSeq(b, pos + 1, end)
    <3>1. pos + 1 \in Nat \ {0} /\ end \in Nat /\ end <= Len(b) BY <1>2, <2>1
    <3> QED BY <3>1, LongerPart
  <2>4. pos + 2 <= Len(b) BY <1>2, <2>1
  <2> DEFINE x == [body |-> body,
                   trailers |-> IF c.trailers THEN Http!Fields(rows) ELSE <<>>]
             n == end + 4
  <2>5. \A more \in Seq(Token) :
          Http!LastChunk(c, b \o more, pos, body)
            = IF ~Http!ValidFields(rows) THEN Failed("Decode")
              ELSE Item(x, SubSeq(b \o more, n + 1, Len(b \o more)))
    <3> SUFFICES ASSUME NEW more \in Seq(Token)
                 PROVE  Http!LastChunk(c, b \o more, pos, body)
                          = IF ~Http!ValidFields(rows) THEN Failed("Decode")
                            ELSE Item(x, SubSeq(b \o more, n + 1, Len(b \o more)))
      OBVIOUS
    <3> DEFINE s == b \o more
    <3>1. /\ pos \notin Hits(s, Ends1, pos) /\ Hits(s, Ends2, pos) # {}
          /\ Http!Min(Hits(s, Ends2, pos)) = end
          /\ Http!Lines(SubSeq(s, pos + 1, end)) = rows
      BY <1>4, <1>7, <2>1, <2>2, <2>3, <2>4
    <3> HIDE DEF s, rows
    <3> QED BY <1>3, <3>1 DEF s
  <2> HIDE DEF rows
  <2>6. CASE ~Http!ValidFields(rows) BY <2>5, <2>6
  <2>7. CASE Http!ValidFields(rows)
    <3>1. \A more \in Seq(Token) :
            Http!LastChunk(c, b \o more, pos, body)
              = Item(x, SubSeq(b \o more, n + 1, Len(b \o more)))
      BY <2>5, <2>7
    <3>2. n \in (pos + 1)..Len(b) /\ x.body = body BY <1>2, <2>1
    <3> HIDE DEF n, x
    <3> QED BY <3>1, <3>2
  <2> QED BY <2>6, <2>7
<1> QED BY <1>5, <1>6, <1>7

ChunkLine(s, start, pos) == Http!Words(SubSeq(s, start + 1, pos - 2))
ChunkSize(line) == Http!ChunkSizes[line[1]]

ChunkAt(c, s, pos, body, line) ==
  IF Len(line) # 1 THEN Failed("Decode")
  ELSE IF line[1] \notin DOMAIN Http!ChunkSizes THEN Failed("Decode")
  ELSE IF ChunkSize(line) = 0 THEN Http!LastChunk(c, s, pos, body)
  ELSE IF Http!TooLarge(c, body, ChunkSize(line)) THEN Failed("FrameTooLarge")
  ELSE IF Len(s) < (pos + ChunkSize(line)) + 2 THEN NeedMore
  ELSE IF SubSeq(s, (pos + ChunkSize(line)) + 1, (pos + ChunkSize(line)) + 2) # Http!CRLF
    THEN Failed("Decode")
  ELSE Http!At((pos + ChunkSize(line)) + 2,
               body \o SubSeq(s, pos + 1, pos + ChunkSize(line)))

LEMMA ChunkByLine ==
  ASSUME NEW c, NEW s, NEW start \in Nat, NEW body,
         Hits(s, Ends1, start) \in SUBSET Nat
  PROVE  Http!Chunk(c, s, start, body)
           = IF Hits(s, Ends1, start) = {} THEN NeedMore
             ELSE ChunkAt(c, s, Min(Hits(s, Ends1, start)) + 2, body,
                          ChunkLine(s, start, Min(Hits(s, Ends1, start)) + 2))
<1> DEFINE S == Hits(s, Ends1, start)
<1>1. Http!Found(s, Http!CRLF, start) = S BY FoundHits
<1>2. S \in SUBSET Nat OBVIOUS
<1> HIDE DEF S
<1>3. CASE S = {}
  BY <1>1, <1>3 DEF Http!Chunk, Http!NeedMore, NeedMore, S
<1>4. CASE S # {}
  <2> DEFINE pos == Min(S) + 2
             line == ChunkLine(s, start, pos)
  <2>1. Http!Min(S) + 2 = pos BY <1>2, <1>4, MinOfNat
  <2> HIDE DEF pos
  <2>2. Http!Words(Http!Piece(s, start, pos - 2)) = line BY DEF Http!Piece, ChunkLine
  <2> HIDE DEF line
  <2>3. Http!Chunk(c, s, start, body) = ChunkAt(c, s, pos, body, line)
    BY <1>1, <1>4, <2>1, <2>2, Zenon DEF Http!Chunk, ChunkAt, ChunkSize, Http!Piece,
       Http!Failed, Failed, Http!NeedMore, NeedMore
  <2> QED BY <1>4, <2>3 DEF S, pos, line
<1> QED BY <1>3, <1>4

LEMMA ChunkSizeType ==
  ASSUME NEW t \in DOMAIN Http!ChunkSizes
  PROVE  Http!ChunkSizes[t] \in Nat
BY DEF Http!ChunkSizes

LEMMA ChunkSteady ==
  ASSUME NEW c, c.max_body \in Nat, NEW b \in Seq(Token), NEW start \in Nat,
         start <= Len(b), NEW body \in Seq(Token), Len(body) <= c.max_body
  PROVE  ChunkAnswers(c, b, start, body)
<1> DEFINE S == Hits(b, Ends1, start)
           pos == Min(S) + 2
           line == ChunkLine(b, start, pos)
           size == ChunkSize(line)
           end == pos + size
           next == SubSeq(b, end + 1, end + 2)
           data == SubSeq(b, pos + 1, end)
<1>1. Ends1 \in Seq(Mark) /\ Len(Ends1) = 2 BY EndsType
<1>2. Len(b) \in Nat /\ <<>> \in Seq(Token) /\ b \o <<>> = b /\ Len(body) \in Nat
  BY LenProperties, EmptySeq, ConcatEmptySeq
<1>3. \A more \in Seq(Token) : Hits(b \o more, Ends1, start) \in SUBSET Nat
  BY <1>1, HitsLater
<1>4. S \in SUBSET Nat BY <1>1, <1>2, HitsLater
<1>5. CASE S = {}
  <2>1. Http!Chunk(c, b, start, body) = NeedMore BY <1>4, <1>5, ChunkByLine
  <2> QED BY <2>1 DEF ChunkAnswers
<1>6. CASE S # {}
  <2>1. /\ pos - 2 \in Nat /\ pos \in Nat /\ start + 2 <= pos /\ pos <= Len(b)
    <3>1. Min(S) \in Nat /\ start <= Min(S) /\ Min(S) + 2 <= Len(b)
      BY <1>1, <1>2, <1>6, FirstHit
    <3> HIDE DEF S
    <3> QED BY <1>2, <3>1
  <2>2. \A more \in Seq(Token) :
          /\ Hits(b \o more, Ends1, start) # {}
          /\ Min(Hits(b \o more, Ends1, start)) + 2 = pos
    <3> SUFFICES ASSUME NEW more \in Seq(Token)
                 PROVE  /\ Hits(b \o more, Ends1, start) # {}
                        /\ Min(Hits(b \o more, Ends1, start)) + 2 = pos
      OBVIOUS
    <3>1. /\ Hits(b \o more, Ends1, start) # {}
          /\ Min(Hits(b \o more, Ends1, start)) = Min(Hits(b, Ends1, start))
      BY <1>1, <1>6, FirstHit
    <3> QED BY <3>1
  <2> HIDE DEF pos
  <2>3. \A more \in Seq(Token) : ChunkLine(b \o more, start, pos) = line
    <3>1. start + 1 \in Nat \ {0} /\ pos - 2 \in Nat /\ pos - 2 <= Len(b) BY <1>2, <2>1
    <3>2. \A more \in Seq(Token) :
            SubSeq(b \o more, start + 1, pos - 2) = SubSeq(b, start + 1, pos - 2)
      BY <3>1, LongerPart
    <3> QED BY <3>2 DEF ChunkLine
  <2> HIDE DEF line, S
  <2>4. \A more \in Seq(Token) :
          Http!Chunk(c, b \o more, start, body) = ChunkAt(c, b \o more, pos, body, line)
    <3> SUFFICES ASSUME NEW more \in Seq(Token)
                 PROVE  Http!Chunk(c, b \o more, start, body)
                          = ChunkAt(c, b \o more, pos, body, line)
      OBVIOUS
    <3> DEFINE s == b \o more
    <3>1. /\ Hits(s, Ends1, start) \in SUBSET Nat /\ Hits(s, Ends1, start) # {}
          /\ Min(Hits(s, Ends1, start)) + 2 = pos
          /\ ChunkLine(s, start, pos) = line
      BY <1>3, <2>2, <2>3
    <3> HIDE DEF s
    <3>2. Http!Chunk(c, s, start, body) = ChunkAt(c, s, pos, body, line)
      BY <3>1, ChunkByLine
    <3> QED BY <3>2 DEF s
  <2>5. Http!Chunk(c, b, start, body) = ChunkAt(c, b, pos, body, line)
    BY <1>2, <2>4
  <2>6. ASSUME NEW e, e # "none",
               \A more \in Seq(Token) :
                 ChunkAt(c, b \o more, pos, body, line) = Failed(e)
        PROVE  ChunkAnswers(c, b, start, body)
    <3>1. ChunkFails(c, b, start, body, e) BY <2>4, <2>6 DEF ChunkFails
    <3> QED BY <3>1 DEF ChunkAnswers
  <2>7. CASE Len(line) # 1 \/ line[1] \notin DOMAIN Http!ChunkSizes
    <3>1. \A s : ChunkAt(c, s, pos, body, line) = Failed("Decode")
      BY <2>7 DEF ChunkAt
    <3> QED BY <2>6, <3>1
  <2>8. CASE Len(line) = 1 /\ line[1] \in DOMAIN Http!ChunkSizes
    <3>1. size \in Nat BY <2>8, ChunkSizeType DEF ChunkSize
    <3>2. CASE size = 0
      <4>1. \A s : ChunkAt(c, s, pos, body, line) = Http!LastChunk(c, s, pos, body)
        BY <2>8, <3>2 DEF ChunkAt
      <4>2. CASE Http!LastChunk(c, b, pos, body) = NeedMore
        BY <2>5, <4>1, <4>2 DEF ChunkAnswers
      <4>3. CASE \A more \in Seq(Token) :
                   Http!LastChunk(c, b \o more, pos, body) = Failed("Decode")
        BY <2>6, <4>1, <4>3
      <4>4. CASE \E n \in (pos + 1)..Len(b) : \E x : x.body = body /\
                   \A more \in Seq(Token) :
                     Http!LastChunk(c, b \o more, pos, body)
                       = Item(x, SubSeq(b \o more, n + 1, Len(b \o more)))
        <5>1. PICK n \in (pos + 1)..Len(b) : \E x : x.body = body /\
                   \A more \in Seq(Token) :
                     Http!LastChunk(c, b \o more, pos, body)
                       = Item(x, SubSeq(b \o more, n + 1, Len(b \o more)))
          BY <4>4
        <5>2. PICK x : x.body = body /\
                   \A more \in Seq(Token) :
                     Http!LastChunk(c, b \o more, pos, body)
                       = Item(x, SubSeq(b \o more, n + 1, Len(b \o more)))
          BY <5>1
        <5>3. n \in (start + 1)..Len(b) BY <1>2, <2>1
        <5>4. ChunkEnds(c, b, start, body, n, x) BY <2>4, <4>1, <5>2, <5>3 DEF ChunkEnds
        <5> QED BY <5>4 DEF ChunkAnswers
      <4> QED BY <2>1, <4>2, <4>3, <4>4, LastChunkAnswers
    <3>3. CASE size # 0 /\ Http!TooLarge(c, body, size)
      <4>1. \A s : ChunkAt(c, s, pos, body, line) = Failed("FrameTooLarge")
        BY <2>8, <3>3 DEF ChunkAt
      <4> QED BY <2>6, <4>1
    <3>4. CASE size # 0 /\ ~Http!TooLarge(c, body, size)
      <4>1. end \in Nat /\ pos <= end BY <2>1, <3>1
      <4>2. \A s : ChunkAt(c, s, pos, body, line)
                     = IF Len(s) < end + 2 THEN NeedMore
                       ELSE IF SubSeq(s, end + 1, end + 2) # Http!CRLF THEN Failed("Decode")
                       ELSE Http!At(end + 2, body \o SubSeq(s, pos + 1, end))
        BY <2>8, <3>4, Zenon DEF ChunkAt
      <4>a. Len(body) + size <= c.max_body BY <1>2, <3>1, <3>4 DEF Http!TooLarge
      <4>b. end = pos + size OBVIOUS
      <4> HIDE DEF end, size
      <4>3. CASE Len(b) < end + 2
        BY <2>5, <4>2, <4>3 DEF ChunkAnswers
      <4>4. CASE ~(Len(b) < end + 2)
        <5>1. end + 2 \in Nat /\ end + 2 <= Len(b) /\ end + 1 \in Nat \ {0}
              /\ pos + 1 \in Nat \ {0} /\ end <= Len(b)
          BY <1>2, <2>1, <4>1, <4>4
        <5>2. \A more \in Seq(Token) :
                /\ SubSeq(b \o more, end + 1, end + 2) = next
                /\ SubSeq(b \o more, pos + 1, end) = data
          <6>1. /\ end + 1 \in Nat \ {0} /\ end + 2 \in Nat /\ end + 2 <= Len(b)
                /\ pos + 1 \in Nat \ {0} /\ end \in Nat /\ end <= Len(b)
            BY <4>1, <5>1
          <6>4. b \in Seq(Token) BY <1>2
          <6>2. ASSUME NEW more \in Seq(Token)
                PROVE  SubSeq(b \o more, end + 1, end + 2) = next
            <7> DEFINE k == end + 1
                       l == end + 2
            <7>1. k \in Nat \ {0} /\ l \in Nat /\ l <= Len(b) BY <6>1
            <7> HIDE DEF k, l
            <7>2. SubSeq(b \o more, k, l) = SubSeq(b, k, l) BY <6>4, <7>1, LongerPart
            <7> QED BY ONLY <7>2 DEF k, l, next
          <6>3. ASSUME NEW more \in Seq(Token)
                PROVE  SubSeq(b \o more, pos + 1, end) = data
            <7> DEFINE k == pos + 1
            <7>1. k \in Nat \ {0} /\ end \in Nat /\ end <= Len(b) BY <6>1
            <7> HIDE DEF k
            <7>2. SubSeq(b \o more, k, end) = SubSeq(b, k, end) BY <6>4, <7>1, LongerPart
            <7> QED BY ONLY <7>2 DEF k, data
          <6> QED BY <6>2, <6>3
        <5>3. \A more \in Seq(Token) : ~(Len(b \o more) < end + 2)
          <6> SUFFICES ASSUME NEW more \in Seq(Token) PROVE ~(Len(b \o more) < end + 2)
            OBVIOUS
          <6>1. Len(b \o more) = Len(b) + Len(more) /\ Len(more) \in Nat BY LongerHead
          <6> QED BY <1>2, <4>1, <4>4, <6>1
        <5>4. data \in Seq(Token) /\ Len(data) = size
          <6>1. /\ data \in Seq(Token)
                /\ Len(data) = IF pos + 1 <= end THEN (end - (pos + 1)) + 1 ELSE 0
            BY <4>1, <5>1, PartType
          <6> QED BY <2>1, <3>1, <4>b, <6>1
        <5>5. body \o data \in Seq(Token) /\ Len(body \o data) = Len(body) + size
          BY <5>4, ConcatProperties
        <5> HIDE DEF next, data
        <5>6. \A more \in Seq(Token) :
                ChunkAt(c, b \o more, pos, body, line)
                  = IF next # Http!CRLF THEN Failed("Decode")
                    ELSE Http!At(end + 2, body \o data)
          BY <4>2, <5>2, <5>3
        <5>7. CASE next # Http!CRLF BY <2>6, <5>6, <5>7
        <5>8. CASE next = Http!CRLF
          <6>1. end + 2 \in (start + 1)..Len(b) BY <1>2, <2>1, <4>1, <5>1
          <6>2. Len(body \o data) <= c.max_body BY <4>a, <5>5
          <6>3. ChunkGoesOn(c, b, start, body, end + 2, body \o data)
            BY <2>4, <5>5, <5>6, <5>8, <6>1, <6>2 DEF ChunkGoesOn
          <6> QED BY <6>3 DEF ChunkAnswers
        <5> QED BY <5>7, <5>8
      <4> QED BY <4>3, <4>4
    <3> QED BY <3>2, <3>3, <3>4
  <2> QED BY <2>7, <2>8
<1> QED BY <1>5, <1>6

-----------------------------------------------------------------------------
\* The loop over the chunks, turn by turn
IsTurns(c, s, start, m, f) ==
  f = [n \in 0..m |-> IF n = 0 THEN Http!At(start, <<>>) ELSE Http!Onward(c, s, f[n - 1])]

LEMMA ChunkTurnsExist ==
  ASSUME NEW c, NEW s, NEW start, NEW m \in Nat
  PROVE  \E f : IsTurns(c, s, start, m, f)
<1> DEFINE S == {k \in Nat : \E f : IsTurns(c, s, start, k, f)}
<1>1. 0 \in S
  <2> DEFINE f == [n \in 0..0 |-> Http!At(start, <<>>)]
  <2>1. IsTurns(c, s, start, 0, f) BY DEF IsTurns
  <2> QED BY <2>1
<1>2. ASSUME NEW k \in S PROVE k + 1 \in S
  <2>1. PICK f : IsTurns(c, s, start, k, f) OBVIOUS
  <2> DEFINE g == [n \in 0..k + 1 |-> IF n = k + 1 THEN Http!Onward(c, s, f[k]) ELSE f[n]]
  <2>2. \A n \in 0..k + 1 :
          g[n] = IF n = 0 THEN Http!At(start, <<>>) ELSE Http!Onward(c, s, g[n - 1])
    BY <2>1 DEF IsTurns
  <2>3. IsTurns(c, s, start, k + 1, g) BY <2>2 DEF IsTurns
  <2> QED BY <2>3
<1> HIDE DEF S
<1>3. S = Nat BY <1>1, <1>2, Loop!SetInduction DEF S
<1> QED BY <1>3 DEF S

Visits(c, s, start) == CHOOSE f : IsTurns(c, s, start, Len(s), f)
Visit(c, s, start, k) == Visits(c, s, start)[k]

LEMMA VisitSteps ==
  ASSUME NEW c, NEW s, NEW start, Len(s) \in Nat
  PROVE  /\ Visit(c, s, start, 0) = Http!At(start, <<>>)
         /\ \A k \in 0..Len(s) - 1 :
              Visit(c, s, start, k + 1) = Http!Onward(c, s, Visit(c, s, start, k))
         /\ Http!decode_chunked_body(c, s, start) = Visit(c, s, start, Len(s))
<1> DEFINE f == Visits(c, s, start)
<1>1. IsTurns(c, s, start, Len(s), f) BY ChunkTurnsExist, Zenon DEF Visits
<1>2. Http!decode_chunked_body(c, s, start) = f[Len(s)]
  BY Zenon DEF Http!decode_chunked_body, Visits, IsTurns
<1> HIDE DEF f
<1>3. f[0] = Http!At(start, <<>>) BY <1>1 DEF IsTurns
<1>4. \A k \in 0..Len(s) - 1 : f[k + 1] = Http!Onward(c, s, f[k]) BY <1>1 DEF IsTurns
<1> QED BY <1>2, <1>3, <1>4 DEF f, Visit

\* Once the loop has its answer it keeps it
LEMMA AnswerKept ==
  ASSUME NEW c, NEW s, NEW start, Len(s) \in Nat, NEW j \in 0..Len(s),
         Visit(c, s, start, j).kind # "chunk"
  PROVE  Http!decode_chunked_body(c, s, start) = Visit(c, s, start, j)
<1> DEFINE V(k) == Visit(c, s, start, k)
<1>1. \A k \in 0..Len(s) - 1 : V(k + 1) = Http!Onward(c, s, V(k)) BY VisitSteps
<1>2. Http!decode_chunked_body(c, s, start) = V(Len(s)) BY VisitSteps
<1>3. V(j).kind # "chunk" OBVIOUS
<1> HIDE DEF V
<1> DEFINE S == {k \in Nat : j + k <= Len(s) => V(j + k) = V(j)}
<1>4. 0 \in S OBVIOUS
<1>5. ASSUME NEW k \in S PROVE k + 1 \in S
  <2> SUFFICES ASSUME j + (k + 1) <= Len(s) PROVE V(j + (k + 1)) = V(j)
    OBVIOUS
  <2>1. V(j + k) = V(j) OBVIOUS
  <2>2. j + k \in 0..Len(s) - 1 /\ j + (k + 1) = (j + k) + 1 OBVIOUS
  <2>3. V((j + k) + 1) = Http!Onward(c, s, V(j + k)) BY <1>1, <2>2
  <2>4. Http!Onward(c, s, V(j)) = V(j) BY <1>3 DEF Http!Onward
  <2> QED BY <2>1, <2>2, <2>3, <2>4
<1> HIDE DEF S
<1>6. S = Nat BY <1>4, <1>5, Loop!SetInduction DEF S
<1>7. Len(s) - j \in S /\ j + (Len(s) - j) = Len(s) BY <1>6
<1>8. V(Len(s)) = V(j) BY <1>7 DEF S
<1> QED BY <1>2, <1>8 DEF V

\* What the loop over the chunks of b answers for every longer buffer
BodyFails(c, b, start, e) ==
  /\ e # "none"
  /\ \A more \in Seq(Token) : Http!decode_chunked_body(c, b \o more, start) = Failed(e)

BodyEnds(c, b, start, n, x) ==
  /\ n \in 1..Len(b) /\ Len(x.body) <= c.max_body
  /\ \A more \in Seq(Token) :
       Http!decode_chunked_body(c, b \o more, start)
         = Item(x, SubSeq(b \o more, n + 1, Len(b \o more)))

LEMMA ChunkedSteady ==
  ASSUME NEW c, c.max_body \in Nat, NEW b \in Seq(Token), NEW start \in Nat \ {0},
         start <= Len(b)
  PROVE  \/ Http!decode_chunked_body(c, b, start) = NeedMore
         \/ \E e : BodyFails(c, b, start, e)
         \/ \E n : \E x : BodyEnds(c, b, start, n, x)
<1> DEFINE V(more, k) == Visit(c, b \o more, start, k)
           Asks(k) == V(<<>>, k) = NeedMore
           Fls(k, e) == e # "none" /\ \A more \in Seq(Token) : V(more, k) = Failed(e)
           Ends(k, n, x) == /\ n \in 1..Len(b) /\ Len(x.body) <= c.max_body
                            /\ \A more \in Seq(Token) :
                                 V(more, k) = Item(x, SubSeq(b \o more, n + 1, Len(b \o more)))
           Goes(k, p, body) == /\ p \in (start + k)..Len(b)
                               /\ body \in Seq(Token) /\ Len(body) <= c.max_body
                               /\ \A more \in Seq(Token) : V(more, k) = Http!At(p, body)
           Place(k) == \/ Asks(k)
                       \/ \E e : Fls(k, e)
                       \/ \E n : \E x : Ends(k, n, x)
                       \/ \E p : \E body : Goes(k, p, body)
<1>1. Len(b) \in Nat /\ <<>> \in Seq(Token) /\ b \o <<>> = b
  BY LenProperties, EmptySeq, ConcatEmptySeq
<1>2. ASSUME NEW more \in Seq(Token)
      PROVE  Len(b \o more) \in Nat /\ Len(b) <= Len(b \o more)
  <2>1. Len(b \o more) = Len(b) + Len(more) /\ Len(more) \in Nat BY LongerHead
  <2> QED BY <1>1, <2>1
<1>3. ASSUME NEW more \in Seq(Token)
      PROVE  /\ V(more, 0) = Http!At(start, <<>>)
             /\ \A k \in 0..Len(b) - 1 :
                  V(more, k + 1) = Http!Onward(c, b \o more, V(more, k))
  <2> DEFINE s == b \o more
  <2>1. Len(s) \in Nat /\ Len(b) <= Len(s) BY <1>2
  <2> HIDE DEF s
  <2>2. /\ Visit(c, s, start, 0) = Http!At(start, <<>>)
        /\ \A k \in 0..Len(s) - 1 :
              Visit(c, s, start, k + 1) = Http!Onward(c, s, Visit(c, s, start, k))
    BY <2>1, VisitSteps
  <2>3. \A k \in 0..Len(b) - 1 : k \in 0..Len(s) - 1 BY <1>1, <2>1
  <2> QED BY <2>2, <2>3 DEF s
<1>4. ASSUME NEW more \in Seq(Token), NEW k \in 0..Len(b), V(more, k).kind # "chunk"
      PROVE  Http!decode_chunked_body(c, b \o more, start) = V(more, k)
  <2> DEFINE s == b \o more
  <2>1. Len(s) \in Nat /\ k \in 0..Len(s) BY <1>1, <1>2
  <2>2. Visit(c, s, start, k).kind # "chunk" BY <1>4
  <2> HIDE DEF s
  <2>3. Http!decode_chunked_body(c, s, start) = Visit(c, s, start, k)
    BY <2>1, <2>2, AnswerKept
  <2> QED BY <2>3 DEF s
<1> HIDE DEF V
<1> DEFINE S == {k \in Nat : k <= Len(b) => Place(k)}
<1>5. 0 \in S
  <2>1. start \in (start + 0)..Len(b) BY <1>1
  <2>2. Len(<<>>) <= c.max_body BY <1>1
  <2>3. Goes(0, start, <<>>) BY <1>1, <1>3, <2>1, <2>2
  <2>4. Place(0) BY <2>3
  <2> HIDE DEF Place
  <2> QED BY <2>4
<1>6. ASSUME NEW k \in S PROVE k + 1 \in S
  <2> SUFFICES ASSUME k + 1 <= Len(b) PROVE Place(k + 1) OBVIOUS
  <2>1. k \in 0..Len(b) - 1 /\ k <= Len(b) BY <1>1
  <2>2. Place(k) BY <2>1
  <2>3. CASE Asks(k)
    <3>1. V(<<>>, k + 1) = Http!Onward(c, b \o <<>>, NeedMore) BY <1>1, <1>3, <2>1, <2>3
    <3>2. Asks(k + 1) BY <3>1 DEF Http!Onward, NeedMore
    <3> QED BY <3>2
  <2>4. ASSUME NEW e, Fls(k, e) PROVE Place(k + 1)
    <3>1. Fls(k + 1, e) BY <1>3, <2>1, <2>4 DEF Http!Onward, Failed
    <3> QED BY <3>1
  <2>5. ASSUME NEW n, NEW x, Ends(k, n, x) PROVE Place(k + 1)
    <3>1. \A more \in Seq(Token) : V(more, k).kind # "chunk" BY <2>5 DEF Item
    <3>2. \A more \in Seq(Token) : V(more, k + 1) = V(more, k)
      BY <1>3, <2>1, <3>1 DEF Http!Onward
    <3>3. Ends(k + 1, n, x) BY <2>5, <3>2
    <3> QED BY <3>3
  <2>6. ASSUME NEW p, NEW body, Goes(k, p, body) PROVE Place(k + 1)
    <3>1. p \in Nat /\ p <= Len(b) /\ body \in Seq(Token) /\ Len(body) <= c.max_body
          /\ start + k <= p
      BY <1>1, <2>1, <2>6
    <3>2. \A more \in Seq(Token) : V(more, k + 1) = Http!Chunk(c, b \o more, p, body)
      BY <1>3, <2>1, <2>6 DEF Http!Onward, Http!At
    <3>3. ChunkAnswers(c, b, p, body) BY <3>1, ChunkSteady
    <3>4. CASE Http!Chunk(c, b, p, body) = NeedMore
      <4>1. Asks(k + 1) BY <1>1, <3>2, <3>4
      <4> QED BY <4>1
    <3>5. ASSUME NEW e, ChunkFails(c, b, p, body, e) PROVE Place(k + 1)
      <4>1. Fls(k + 1, e) BY <3>2, <3>5 DEF ChunkFails
      <4> QED BY <4>1
    <3>6. ASSUME NEW n, NEW x, ChunkEnds(c, b, p, body, n, x) PROVE Place(k + 1)
      <4>1. n \in 1..Len(b) BY <1>1, <3>1, <3>6 DEF ChunkEnds
      <4>2. Ends(k + 1, n, x) BY <3>2, <3>6, <4>1 DEF ChunkEnds
      <4> QED BY <4>2
    <3>7. ASSUME NEW q, NEW longer, ChunkGoesOn(c, b, p, body, q, longer) PROVE Place(k + 1)
      <4>1. q \in (start + (k + 1))..Len(b) BY <1>1, <2>1, <3>1, <3>7 DEF ChunkGoesOn
      <4>2. Goes(k + 1, q, longer) BY <3>2, <3>7, <4>1 DEF ChunkGoesOn
      <4> QED BY <4>2
    <3> HIDE DEF Place
    <3> QED BY <3>3, <3>4, <3>5, <3>6, <3>7 DEF ChunkAnswers
  <2> QED BY <2>2, <2>3, <2>4, <2>5, <2>6
<1> HIDE DEF S
<1>7. S = Nat BY <1>5, <1>6, Loop!SetInduction DEF S
<1>8. Place(Len(b)) BY <1>1, <1>7 DEF S
<1> DEFINE last == Len(b)
<1>9. last \in 0..Len(b) /\ last = Len(b) BY <1>1
<1> HIDE DEF last
<1>10. CASE Asks(last)
  <2>1. V(<<>>, last).kind # "chunk" BY <1>10 DEF NeedMore
  <2>2. Http!decode_chunked_body(c, b, start) = NeedMore BY <1>1, <1>4, <1>9, <1>10, <2>1
  <2> QED BY <2>2
<1>11. ASSUME NEW e, Fls(last, e) PROVE BodyFails(c, b, start, e)
  <2>1. \A more \in Seq(Token) : V(more, last).kind # "chunk" BY <1>11 DEF Failed
  <2> QED BY <1>4, <1>9, <1>11, <2>1 DEF BodyFails
<1>12. ASSUME NEW n, NEW x, Ends(last, n, x) PROVE BodyEnds(c, b, start, n, x)
  <2>1. \A more \in Seq(Token) : V(more, last).kind # "chunk" BY <1>12 DEF Item
  <2> QED BY <1>4, <1>9, <1>12, <2>1 DEF BodyEnds
<1>13. ASSUME NEW p, NEW body, Goes(last, p, body) PROVE FALSE
  BY <1>1, <1>9, <1>13
<1> QED BY <1>8, <1>9, <1>10, <1>11, <1>12, <1>13

-----------------------------------------------------------------------------
HttpKind(c, lines) == Http!request_body_kind(c, Http!Fields(Tail(lines)))

HttpFound(c, s, end, lines, kind, whole) ==
  IF end > c.max_header THEN Failed("FrameTooLarge")
  ELSE IF ~Http!ValidHead(lines) THEN Failed("Decode")
  ELSE IF kind.kind = "error" THEN Failed("Decode")
  ELSE IF kind.kind = "none"
    THEN Item(Http!Request(lines, <<>>, <<>>), SubSeq(s, (end + 4) + 1, Len(s)))
  ELSE IF kind.kind = "length"
    THEN IF kind.length > c.max_body THEN Failed("FrameTooLarge")
         ELSE IF Len(s) < (end + 4) + kind.length THEN NeedMore
         ELSE Item(Http!Request(lines, SubSeq(s, (end + 4) + 1, (end + 4) + kind.length),
                                <<>>),
                   SubSeq(s, ((end + 4) + kind.length) + 1, Len(s)))
  ELSE IF whole.kind # "item" THEN whole
  ELSE Item(Http!Request(lines, whole.item.body, whole.item.trailers), whole.rest)

LEMMA DecodeOfHttp ==
  ASSUME NEW c \in Http11, NEW s, Hits(s, Ends2, 0) \in SUBSET Nat
  PROVE  Decode(c, s)
           = IF Hits(s, Ends2, 0) = {}
               THEN IF Len(s) > c.max_header THEN Failed("FrameTooLarge") ELSE NeedMore
             ELSE HttpFound(c, s, Min(Hits(s, Ends2, 0)),
                            Http!Lines(SubSeq(s, 1, Min(Hits(s, Ends2, 0)))),
                            HttpKind(c, Http!Lines(SubSeq(s, 1, Min(Hits(s, Ends2, 0))))),
                            Http!decode_chunked_body(c, s, Min(Hits(s, Ends2, 0)) + 4))
<1> DEFINE S == Hits(s, Ends2, 0)
<1>1. Decode(c, s) = Http!Decode(c, s) BY DEF Decode, Http11
<1>2. Http!Found(s, Http!CRLF \o Http!CRLF, 0) = S BY FoundHits
<1>3. S \in SUBSET Nat OBVIOUS
<1> HIDE DEF S
<1>4. CASE S = {}
  BY <1>1, <1>2, <1>4, Zenon DEF Http!Decode, Http!NeedMore, NeedMore, Http!Failed, Failed, S
<1>5. CASE S # {}
  <2> DEFINE end == Min(S)
             lines == Http!Lines(SubSeq(s, 1, end))
             kind == HttpKind(c, lines)
             whole == Http!decode_chunked_body(c, s, end + 4)
  <2>1. Http!Min(S) = end BY <1>3, <1>5, MinOfNat
  <2> HIDE DEF end
  <2>2. Http!Lines(Http!Piece(s, 0, end)) = lines
    <3>1. 0 + 1 = 1 OBVIOUS
    <3> QED BY <3>1, Zenon DEF Http!Piece
  <2> HIDE DEF lines
  <2>3. Http!request_body_kind(c, Http!Fields(Tail(lines))) = kind BY DEF HttpKind
  <2> HIDE DEF kind, whole
  <2>4. Http!decode_chunked_body(c, s, end + 4) = whole BY DEF whole
  <2>5. Http!Decode(c, s) = HttpFound(c, s, end, lines, kind, whole)
    BY <1>2, <1>5, <2>1, <2>2, <2>3, <2>4, Zenon DEF Http!Decode, HttpFound, Http!Piece,
       Http!Failed, Failed, Http!NeedMore, NeedMore, Http!Item, Item
  <2> QED BY <1>1, <1>5, <2>5 DEF S, end, lines, kind, whole
<1> QED BY <1>4, <1>5

LEMMA KindType ==
  ASSUME NEW c, NEW fields
  PROVE  /\ Http!request_body_kind(c, fields).kind \in {"error", "none", "length", "chunked"}
         /\ Http!request_body_kind(c, fields).kind = "length" =>
              Http!request_body_kind(c, fields).length \in Nat
         /\ Http!request_body_kind(c, fields).kind = "chunked" => c.chunked
<1> DEFINE given == Http!SelectSeq(fields,
                      LAMBDA f : f \in DOMAIN Http!ContentLengths \cup {"length?"})
           length == Http!content_length(fields)
           kind == Http!request_body_kind(c, fields)
<1>1. \A t \in DOMAIN Http!ContentLengths : Http!ContentLengths[t] \in Nat
  BY DEF Http!ContentLengths
<1>2. \/ length = Http!NoBody \/ length = Http!BodyError
      \/ \E t \in DOMAIN Http!ContentLengths : length = Http!Sized(Http!ContentLengths[t])
  BY Zenon DEF Http!content_length
<1>3. \/ kind = length
      \/ kind = Http!BodyError
      \/ kind = Http!ChunkedBody /\ c.chunked
  BY Zenon DEF Http!request_body_kind
<1> HIDE DEF length, kind
<1>4. /\ length.kind \in {"error", "none", "length"}
      /\ length.kind = "length" => length.length \in Nat
  BY <1>1, <1>2 DEF Http!NoBody, Http!BodyError, Http!Sized
<1>5. /\ kind.kind \in {"error", "none", "length", "chunked"}
      /\ kind.kind = "length" => kind.length \in Nat
      /\ kind.kind = "chunked" => c.chunked
  <2>1. CASE kind = length BY <1>4, <2>1
  <2>2. CASE kind = Http!BodyError BY <2>2 DEF Http!BodyError
  <2>3. CASE kind = Http!ChunkedBody /\ c.chunked BY <2>3 DEF Http!ChunkedBody
  <2> QED BY <1>3, <2>1, <2>2, <2>3
<1> QED BY <1>5 DEF kind

-----------------------------------------------------------------------------
\* The head without its end
LEMMA HeadAwaited ==
  ASSUME NEW c \in Http11, NEW b \in Seq(Token), Hits(b, Ends2, 0) = {}
  PROVE  /\ Len(b) <= c.max_header => Decode(c, b) = NeedMore
         /\ Len(b) > c.max_header => Decode(c, b) = Failed("FrameTooLarge")
         /\ Len(b) > c.max_header + 3 =>
              \A more \in Seq(Token) : Decode(c, b \o more) = Failed("FrameTooLarge")
<1>1. Ends2 \in Seq(Mark) /\ Len(Ends2) = 4 BY EndsType
<1>2. Len(b) \in Nat /\ c.max_header \in Nat BY LenProperties DEF Http11
<1>3. Decode(c, b) = IF Len(b) > c.max_header THEN Failed("FrameTooLarge") ELSE NeedMore
  BY DecodeOfHttp
<1>4. ASSUME NEW more \in Seq(Token), Len(b) > c.max_header + 3
      PROVE  Decode(c, b \o more) = Failed("FrameTooLarge")
  <2> DEFINE s == b \o more
             S == Hits(s, Ends2, 0)
             end == Min(S)
             lines == Http!Lines(SubSeq(s, 1, end))
             kind == HttpKind(c, lines)
             whole == Http!decode_chunked_body(c, s, end + 4)
  <2>1. Len(s) = Len(b) + Len(more) /\ Len(more) \in Nat BY LongerHead
  <2>2. /\ S \in SUBSET Nat
        /\ \A p \in S : p + 4 <= Len(b) => p \in Hits(b, Ends2, 0)
    BY <1>1, HitsLater
  <2>3. Decode(c, s) = IF S = {}
               THEN IF Len(s) > c.max_header THEN Failed("FrameTooLarge") ELSE NeedMore
             ELSE HttpFound(c, s, end, lines, kind, whole)
    BY <2>2, DecodeOfHttp
  <2> HIDE DEF S
  <2>4. CASE S = {}
    <3> HIDE DEF s
    <3>1. Len(s) > c.max_header BY <1>2, <1>4, <2>1
    <3> QED BY <2>3, <2>4, <3>1 DEF s
  <2>5. CASE S # {}
    <3>1. end \in S BY <2>2, <2>5, MinOfNat
    <3> HIDE DEF end
    <3>2. end > c.max_header BY <1>2, <1>4, <2>2, <3>1
    <3> HIDE DEF s, lines, kind, whole
    <3>3. Decode(c, s) = Failed("FrameTooLarge") BY <2>3, <2>5, <3>2 DEF HttpFound
    <3> QED BY <3>3 DEF s
  <2> QED BY <2>4, <2>5
<1> QED BY <1>2, <1>3, <1>4

LEMMA HttpSteady ==
  ASSUME NEW c \in Http11, NEW b \in Bytes(c)
  PROVE  /\ Steady(c, b)
         /\ HasBound(c) /\ Decode(c, b) = NeedMore => Len(b) <= Held(c)
         /\ Allowed(c, b)
<1> DEFINE S == Hits(b, Ends2, 0)
           end == Min(S)
           lines == Http!Lines(SubSeq(b, 1, end))
           kind == HttpKind(c, lines)
           whole(s) == Http!decode_chunked_body(c, s, end + 4)
<1>1. /\ c.protocol = "http" /\ c.max_header \in Nat /\ c.max_body \in Nat
      /\ c.chunked \in BOOLEAN
  BY DEF Http11
<1>2. Bytes(c) = Seq(Token) BY <1>1 DEF Bytes, Alphabet, Token
<1>3. b \in Seq(Token) /\ Len(b) \in Nat BY <1>2, LenProperties
<1>4. Ends2 \in Seq(Mark) /\ Len(Ends2) = 4 BY EndsType
<1>5. /\ HasBound(c) = ~c.chunked
      /\ Held(c) = c.max_header + 3 + c.max_body
      /\ CutAtLimit(c, b) = (Len(b) \in (c.max_header + 1)..(c.max_header + 3))
  BY <1>1 DEF HasBound, Http!HasBound, Held, Http!Held, CutAtLimit, Http!CutAtLimit
<1>6. <<>> \in Seq(Token) /\ b \o <<>> = b BY <1>3, EmptySeq, ConcatEmptySeq
\* What the rest of the proof owes in each case
<1>7. ASSUME Decode(c, b) = NeedMore, HasBound(c) => Len(b) <= Held(c)
      PROVE  /\ Steady(c, b)
             /\ HasBound(c) /\ Decode(c, b) = NeedMore => Len(b) <= Held(c)
             /\ Allowed(c, b)
  BY <1>7, NoItem DEF Steady
<1>8. ASSUME NEW e, e # "none",
             \A more \in Seq(Token) : Decode(c, b \o more) = Failed(e)
      PROVE  /\ Steady(c, b)
             /\ HasBound(c) /\ Decode(c, b) = NeedMore => Len(b) <= Held(c)
             /\ Allowed(c, b)
  <2>1. Fails(c, b, e) BY <1>2, <1>8 DEF Fails
  <2>2. Decode(c, b) = Failed(e) BY <1>6, <1>8
  <2>3. Allowed(c, b) BY <2>2, NoItem
  <2> QED BY <1>8, <2>1, <2>2, <2>3 DEF Steady, Failed, NeedMore
<1>9. ASSUME NEW n \in 1..Len(b), NEW x, Http!WithinLimit(c, x, n),
             \A more \in Seq(Token) :
               Decode(c, b \o more) = Item(x, SubSeq(b \o more, n + 1, Len(b \o more)))
      PROVE  /\ Steady(c, b)
             /\ HasBound(c) /\ Decode(c, b) = NeedMore => Len(b) <= Held(c)
             /\ Allowed(c, b)
  <2>1. Yields(c, b, n, x) BY <1>2, <1>9 DEF Yields
  <2>2. Decode(c, b) = Item(x, SubSeq(b, n + 1, Len(b)))
    <3>1. Decode(c, b \o <<>>) = Item(x, SubSeq(b \o <<>>, n + 1, Len(b \o <<>>)))
      BY <1>6, <1>9
    <3> QED BY <1>6, <3>1
  <2>3. Decode(c, b) # NeedMore BY <2>2 DEF Item, NeedMore
  <2>4. WithinLimit(c, x, n) BY <1>1, <1>9 DEF WithinLimit
  <2>5. Allowed(c, b) BY <2>2, <2>4, ItemAllowed
  <2> QED BY <2>1, <2>3, <2>5 DEF Steady
<1> DEFINE Goal == /\ Steady(c, b)
                   /\ HasBound(c) /\ Decode(c, b) = NeedMore => Len(b) <= Held(c)
                   /\ Allowed(c, b)
<1>10. CASE S = {}
  <2>1. CASE Len(b) <= c.max_header
    <3>1. Decode(c, b) = NeedMore BY <1>3, <1>10, <2>1, HeadAwaited
    <3>2. Len(b) <= Held(c) BY <1>1, <1>3, <1>5, <2>1
    <3> QED BY <1>7, <3>1, <3>2
  <2>2. CASE Len(b) > c.max_header + 3
    <3>1. \A more \in Seq(Token) : Decode(c, b \o more) = Failed("FrameTooLarge")
      BY <1>3, <1>10, <2>2, HeadAwaited
    <3> QED BY <1>8, <3>1
  <2>3. CASE Len(b) > c.max_header /\ ~(Len(b) > c.max_header + 3)
    <3>1. Decode(c, b) = Failed("FrameTooLarge") BY <1>3, <1>10, <2>3, HeadAwaited
    <3>2. CutAtLimit(c, b)
      <4>1. Len(b) \in (c.max_header + 1)..(c.max_header + 3) BY <1>1, <1>3, <2>3
      <4> QED BY <1>5, <4>1, Zenon
    <3>3. Allowed(c, b) BY <3>1, NoItem
    <3> QED BY <3>1, <3>2, <3>3 DEF Steady, Failed, NeedMore
  <2> QED BY <1>1, <1>3, <2>1, <2>2, <2>3
<1>11. CASE S # {}
  <2>1. end \in Nat /\ end + 4 <= Len(b)
    <3>1. 0 \in Nat OBVIOUS
    <3> QED BY <1>3, <1>4, <1>6, <1>11, <3>1, FirstHit
  <2>2. ASSUME NEW more \in Seq(Token)
        PROVE  Decode(c, b \o more)
                 = HttpFound(c, b \o more, end, lines, kind, whole(b \o more))
    <3> DEFINE s == b \o more
               T == Hits(s, Ends2, 0)
    <3>1. T # {} /\ Min(T) = end
      <4>1. 0 \in Nat /\ Hits(b, Ends2, 0) # {} BY <1>11
      <4>2. /\ Hits(b \o more, Ends2, 0) # {}
            /\ Min(Hits(b \o more, Ends2, 0)) = Min(Hits(b, Ends2, 0))
        BY <1>3, <1>4, <4>1, FirstHit
      <4> QED BY <4>2
    <3>2. T \in SUBSET Nat
      <4>1. 0 \in Nat OBVIOUS
      <4> QED BY <1>3, <1>4, <4>1, HitsLater
    <3>3. SubSeq(s, 1, end) = SubSeq(b, 1, end)
      <4>1. 1 \in Nat \ {0} /\ end \in Nat /\ end <= Len(b) BY <1>3, <2>1
      <4> QED BY <1>3, <4>1, LongerPart
    <3> HIDE DEF s, S, end
    <3>4. Decode(c, s) = HttpFound(c, s, Min(T), Http!Lines(SubSeq(s, 1, Min(T))),
                            HttpKind(c, Http!Lines(SubSeq(s, 1, Min(T)))),
                            Http!decode_chunked_body(c, s, Min(T) + 4))
      BY <3>1, <3>2, DecodeOfHttp
    <3> HIDE DEF T
    <3>5. Decode(c, s) = HttpFound(c, s, end, lines, kind, whole(s))
      BY <3>1, <3>3, <3>4
    <3> QED BY <3>5 DEF s
  <2>3. /\ kind.kind \in {"error", "none", "length", "chunked"}
        /\ kind.kind = "length" => kind.length \in Nat
        /\ kind.kind = "chunked" => c.chunked
    BY KindType DEF HttpKind
  <2>4. Decode(c, b) = HttpFound(c, b, end, lines, kind, whole(b)) BY <1>6, <2>2
  <2> DEFINE start == end + 4
  <2>5. start \in Nat \ {0} /\ start <= Len(b) /\ start \in 1..Len(b) BY <1>3, <2>1
  <2> HIDE DEF lines, kind, S, end
  <2>6. CASE end > c.max_header
    <3>1. \A s, w : HttpFound(c, s, end, lines, kind, w) = Failed("FrameTooLarge")
      BY <2>6 DEF HttpFound
    <3>2. \A more \in Seq(Token) : Decode(c, b \o more) = Failed("FrameTooLarge")
      BY <2>2, <3>1
    <3> QED BY <1>8, <3>2
  <2>7. CASE ~(end > c.max_header) /\ (~Http!ValidHead(lines) \/ kind.kind = "error")
    <3>1. \A s, w : HttpFound(c, s, end, lines, kind, w) = Failed("Decode")
      BY <2>7 DEF HttpFound
    <3>2. \A more \in Seq(Token) : Decode(c, b \o more) = Failed("Decode")
      BY <2>2, <3>1
    <3> QED BY <1>8, <3>2
  <2>8. CASE ~(end > c.max_header) /\ Http!ValidHead(lines) /\ kind.kind = "none"
    <3> DEFINE x == Http!Request(lines, <<>>, <<>>)
    <3>1. \A s, w : HttpFound(c, s, end, lines, kind, w) = Item(x, SubSeq(s, start + 1, Len(s)))
      BY <2>8 DEF HttpFound
    <3>2. Http!WithinLimit(c, x, start)
      <4>1. x.body = <<>> /\ Len(<<>>) = 0 BY EmptySeq DEF Http!Request
      <4>2. start - 4 - Len(x.body) = end BY <2>1, <4>1
      <4>3. Len(x.body) <= c.max_body /\ end <= c.max_header BY <1>1, <2>1, <2>8, <4>1
      <4> HIDE DEF x, start
      <4> QED BY <4>2, <4>3 DEF Http!WithinLimit
    <3> HIDE DEF x, start
    <3>3. \A more \in Seq(Token) :
            Decode(c, b \o more) = Item(x, SubSeq(b \o more, start + 1, Len(b \o more)))
      BY <2>2, <3>1
    <3> QED BY <1>9, <2>5, <3>2, <3>3
  <2>9. CASE ~(end > c.max_header) /\ Http!ValidHead(lines) /\ kind.kind = "length"
    <3> DEFINE n == start + kind.length
               Body(s) == SubSeq(s, start + 1, n)
    <3>1. kind.length \in Nat /\ n \in Nat /\ start <= n BY <2>3, <2>5, <2>9
    <3>2. \A s, w : HttpFound(c, s, end, lines, kind, w)
            = IF kind.length > c.max_body THEN Failed("FrameTooLarge")
              ELSE IF Len(s) < n THEN NeedMore
              ELSE Item(Http!Request(lines, Body(s), <<>>), SubSeq(s, n + 1, Len(s)))
      BY <2>9, Zenon DEF HttpFound
    <3>a. n = start + kind.length /\ start = end + 4 OBVIOUS
    <3> HIDE DEF n, start
    <3>3. CASE kind.length > c.max_body
      <4>1. \A more \in Seq(Token) : Decode(c, b \o more) = Failed("FrameTooLarge")
        BY <2>2, <3>2, <3>3
      <4> QED BY <1>8, <4>1
    <3>4. CASE ~(kind.length > c.max_body) /\ Len(b) < n
      <4>1. Decode(c, b) = NeedMore BY <2>4, <3>2, <3>4
      <4>2. Len(b) <= Held(c) BY <1>1, <1>3, <1>5, <2>1, <2>9, <3>1, <3>4, <3>a
      <4> QED BY <1>7, <4>1, <4>2
    <3>5. CASE ~(kind.length > c.max_body) /\ ~(Len(b) < n)
      <4> DEFINE data == Body(b)
                 x == Http!Request(lines, data, <<>>)
      <4>1. n \in 1..Len(b) /\ n <= Len(b) BY <1>3, <2>5, <3>1, <3>5
      <4>2. start + 1 \in Nat \ {0} /\ n \in Nat /\ n <= Len(b) BY <2>5, <3>1, <4>1
      <4>3. \A more \in Seq(Token) : Body(b \o more) = data
        BY <1>3, <4>2, LongerPart
      <4>4. Len(data) = kind.length
        <5>1. Len(data) = IF start + 1 <= n THEN (n - (start + 1)) + 1 ELSE 0
          BY <1>3, <4>2, PartType
        <5> QED BY <2>5, <3>1, <3>a, <5>1
      <4> HIDE DEF Body, data
      <4>5. Http!WithinLimit(c, x, n)
        <5>1. x.body = data BY DEF Http!Request
        <5>2. Len(x.body) <= c.max_body BY <1>1, <3>1, <3>5, <4>4, <5>1
        <5>3. n - 4 - Len(x.body) = end
          <6> DEFINE k == kind.length
                     l == Len(x.body)
          <6>1. l = k BY <4>4, <5>1
          <6>2. end \in Nat /\ k \in Nat /\ n = start + k /\ start = end + 4
            BY <2>1, <3>1, <3>a
          <6> HIDE DEF x, k, l
          <6>3. n - 4 - l = end BY ONLY <6>1, <6>2
          <6> QED BY <6>3 DEF l
        <5>4. end <= c.max_header BY <1>1, <2>1, <2>9
        <5> HIDE DEF x
        <5> QED BY <5>2, <5>3, <5>4 DEF Http!WithinLimit
      <4>6. ASSUME NEW more \in Seq(Token)
            PROVE  Decode(c, b \o more) = Item(x, SubSeq(b \o more, n + 1, Len(b \o more)))
        <5>1. Len(b \o more) = Len(b) + Len(more) /\ Len(more) \in Nat BY <1>3, LongerHead
        <5>2. ~(Len(b \o more) < n) BY <1>3, <3>1, <4>1, <5>1
        <5> QED BY <2>2, <3>2, <3>5, <4>3, <5>2
      <4> HIDE DEF x
      <4> QED BY <1>9, <4>1, <4>5, <4>6
    <3> QED BY <3>3, <3>4, <3>5
  <2>10. CASE ~(end > c.max_header) /\ Http!ValidHead(lines) /\ kind.kind = "chunked"
    <3>1. ~HasBound(c) BY <1>1, <1>5, <2>3, <2>10
    <3>2. \A s, w : HttpFound(c, s, end, lines, kind, w)
            = IF w.kind # "item" THEN w
              ELSE Item(Http!Request(lines, w.item.body, w.item.trailers), w.rest)
      BY <2>10 DEF HttpFound
    <3>3. \/ whole(b) = NeedMore
          \/ \E e : BodyFails(c, b, start, e)
          \/ \E n : \E x : BodyEnds(c, b, start, n, x)
      BY <1>1, <1>3, <2>5, ChunkedSteady
    <3>4. CASE whole(b) = NeedMore
      <4>1. Decode(c, b) = NeedMore BY <2>4, <3>2, <3>4 DEF NeedMore
      <4> QED BY <1>7, <3>1, <4>1
    <3>5. ASSUME NEW e, BodyFails(c, b, start, e) PROVE Goal
      <4>1. e # "none" /\ \A more \in Seq(Token) : whole(b \o more) = Failed(e)
        BY <3>5 DEF BodyFails
      <4>2. \A more \in Seq(Token) : Decode(c, b \o more) = Failed(e)
        BY <2>2, <3>2, <4>1 DEF Failed
      <4> QED BY <1>8, <4>1, <4>2
    <3>6. ASSUME NEW n, NEW x, BodyEnds(c, b, start, n, x) PROVE Goal
      <4> DEFINE y == Http!Request(lines, x.body, x.trailers)
      <4>1. /\ n \in 1..Len(b) /\ Len(x.body) <= c.max_body
            /\ \A more \in Seq(Token) :
                 whole(b \o more) = Item(x, SubSeq(b \o more, n + 1, Len(b \o more)))
        BY <3>6 DEF BodyEnds
      <4>2. Http!WithinLimit(c, y, n)
        <5>1. y.body = x.body /\ y.fields = Http!Fields(Tail(lines)) BY DEF Http!Request
        <5> HIDE DEF y
        <5>2. Http!IsChunked(c, y) BY <2>10, <5>1 DEF Http!IsChunked, HttpKind, kind
        <5> QED BY <4>1, <5>1, <5>2 DEF Http!WithinLimit
      <4> HIDE DEF whole
      <4>3. ASSUME NEW more \in Seq(Token)
            PROVE  Decode(c, b \o more) = Item(y, SubSeq(b \o more, n + 1, Len(b \o more)))
        <5> DEFINE w == whole(b \o more)
                   rest == SubSeq(b \o more, n + 1, Len(b \o more))
        <5>1. w = Item(x, rest) BY <4>1
        <5>2. Decode(c, b \o more) = IF w.kind # "item" THEN w
              ELSE Item(Http!Request(lines, w.item.body, w.item.trailers), w.rest)
          BY <2>2, <3>2
        <5> HIDE DEF w, rest
        <5>3. w.kind = "item" /\ w.item = x /\ w.rest = rest BY <5>1 DEF Item
        <5>4. Decode(c, b \o more) = Item(y, rest) BY <5>2, <5>3
        <5> QED BY <5>4 DEF rest
      <4> HIDE DEF y
      <4> QED BY <1>9, <4>1, <4>2, <4>3
    <3> QED BY <3>3, <3>4, <3>5, <3>6
  <2> QED BY <2>3, <2>6, <2>7, <2>8, <2>9, <2>10
<1> QED BY <1>10, <1>11

-----------------------------------------------------------------------------
\* Of nothing there is nothing to decode
LEMMA NothingYet ==
  ASSUME NEW c \in Codec
  PROVE  Decode(c, <<>>) = NeedMore
<1> DEFINE b == <<>>
<1>1. /\ b \in Seq(Nat) /\ b \in Seq(Byte) /\ b \in Seq(Token) /\ b \in Bytes(c)
      /\ Len(b) = 0
  BY EmptySeq DEF Bytes
<1>a. \A A : \A p \in Seq(A) : Len(p) \in Nat \ {0} => Hits(b, p, 0) = {}
  <2> SUFFICES ASSUME NEW A, NEW p \in Seq(A), Len(p) \in Nat \ {0}, NEW q \in Hits(b, p, 0)
               PROVE  FALSE
    OBVIOUS
  <2>1. q \in 0..(Len(b) - Len(p)) BY DEF Hits
  <2> HIDE DEF b
  <2> QED BY <1>1, <2>1
<1> HIDE DEF b
<1>2. CASE c \in LineCodec
  <2>1. LF \in Seq(Nat) /\ Len(LF) = 1 BY DEF LF
  <2>2. LF \in Seq(Nat) /\ Len(LF) \in Nat \ {0} BY <2>1
  <2>3. c.max \in Nat BY <1>2 DEF LineCodec
  <2> HIDE DEF LF
  <2>4. Hits(b, LF, 0) = {} BY <1>a, <2>2
  <2>5. ~(Len(b) > c.max) BY <1>1, <2>3
  <2>6. Decode(c, b) = NeedMore BY <1>1, <1>2, <2>4, <2>5, DecodeOfLine
  <2> QED BY <2>6 DEF b
<1>3. CASE c \in FixedLength
  <2>1. c.protocol = "frames" /\ c.kind = "fixed" /\ c.length \in Nat \ {0}
    BY <1>3 DEF FixedLength
  <2>2. Len(b) < c.length BY <1>1, <2>1
  <2> QED BY <2>1, <2>2 DEF Decode, Frames!DecodeFrame, Frames!DecodeFixed,
     Frames!NeedMore, NeedMore, b
<1>4. CASE c \in DelimiterBased
  <2>1. /\ c.max \in Nat
        /\ \A d \in Delims(c) : d \in Seq(Nat) /\ Len(d) \in Nat \ {0}
    BY <1>4, DelimiterType
  <2>2. FoundIn(c, b) = {}
    <3>1. \A d \in Delims(c) : Hits(b, d, 0) = {} BY <1>a, <2>1
    <3> QED BY <3>1 DEF FoundIn
  <2>3. ~(Len(b) > c.max) BY <1>1, <2>1
  <2> QED BY <1>1, <1>4, <2>2, <2>3, DecodeOfDelimiter DEF b
<1>5. CASE c \in LengthField
  <2>1. FieldEnd(c) \in Nat \ {0} BY <1>5 DEF LengthField, FieldEnd
  <2>2. Len(b) < FieldEnd(c) BY <1>1, <2>1
  <2> QED BY <1>5, <2>2, DecodeOfLength DEF b
<1>6. CASE c \in ByteArray BY <1>1, <1>6, BytesTaken DEF b
<1>7. CASE c \in MqttV5
  <2>1. Mqtt!VarintEnds(Mqtt!Drop(b, 1)) = {}
    <3> DEFINE s == Mqtt!Drop(b, 1)
    <3>1. 2 \in Nat \ {0} /\ 0 \in Nat /\ 0 <= Len(b) /\ 1 + 1 = 2 BY <1>1
    <3>2. SubSeq(b, 2, 0) \in Seq(Byte) /\ Len(SubSeq(b, 2, 0)) = 0 BY <1>1, <3>1, PartType
    <3>3. s = SubSeq(b, 2, 0) BY <1>1, <3>1 DEF Mqtt!Drop
    <3>4. s \in Seq(Byte) /\ Len(s) = 0 BY <3>2, <3>3
    <3>5. <<>> \in Seq(Byte) BY EmptySeq
    <3> HIDE DEF s
    <3>6. /\ Mqtt!VarintEnds(s) \in SUBSET (1..4)
          /\ \A k \in Mqtt!VarintEnds(s) : k <= Len(s)
      BY <3>4, <3>5, EndsLater
    <3>7. Mqtt!VarintEnds(s) = {} BY <3>4, <3>6
    <3> QED BY <3>7 DEF s
  <2>2. ~HeaderThere(b) BY <1>1, <2>1 DEF HeaderThere
  <2> QED BY <1>1, <1>7, <2>2, DecodeOfMqtt DEF b
<1>8. CASE c \in WebSocket
  <2>1. Len(b) < 2 BY <1>1
  <2> QED BY <1>1, <1>8, <2>1, DecodeOfWs DEF b
<1>9. CASE c \in Http11
  <2>1. Ends2 \in Seq(Mark) /\ Len(Ends2) = 4 BY EndsType
  <2>2. Hits(b, Ends2, 0) = {} BY <1>a, <2>1
  <2>3. c.max_header \in Nat BY <1>9 DEF Http11
  <2>4. Len(b) <= c.max_header BY <1>1, <2>3
  <2> QED BY <1>1, <1>9, <2>2, <2>4, HeadAwaited DEF b
<1> QED BY <1>2, <1>3, <1>4, <1>5, <1>6, <1>7, <1>8, <1>9 DEF Codec

\* What a codec of the repository answers, by kind
LEMMA Answered ==
  ASSUME NEW c \in Codec, NEW b \in Bytes(c)
  PROVE  /\ Definite(c, b)
         /\ Framed(c) /\ ~Nested(c) => Steady(c, b)
         /\ HasBound(c) /\ Decode(c, b) = NeedMore => Len(b) <= Held(c)
<1>1. CASE c \in LineCodec
  <2>1. Steady(c, b) BY <1>1, LineSteady
  <2> QED BY <1>1, <2>1, SteadyDefinite, LineFrugal
<1>2. CASE c \in FixedLength BY <1>2, FixedSteady, SteadyDefinite
<1>3. CASE c \in DelimiterBased BY <1>3, DelimiterSteady, DelimiterDefinite
<1>4. CASE c \in LengthField BY <1>4, LengthSteady, SteadyDefinite
<1>5. CASE c \in ByteArray
  <2>1. Decode(c, b) = IF b = <<>> THEN NeedMore ELSE Item(b, <<>>) BY <1>5, BytesTaken
  <2>2. Definite(c, b)
    <3>1. CASE b = <<>> BY <2>1, <3>1 DEF Definite
    <3>2. CASE b # <<>>
      <4> DEFINE n == Len(b)
      <4>1. n \in Nat /\ n \in 1..Len(b)
        BY <3>2, LenProperties, EmptySeq DEF Bytes
      <4>2. SubSeq(b, n + 1, n) = <<>> BY <4>1, SubSeqEmpty DEF Bytes
      <4>3. Decode(c, b) = Item(b, SubSeq(b, n + 1, Len(b))) BY <2>1, <3>2, <4>2
      <4> HIDE DEF n
      <4> QED BY <4>1, <4>3 DEF Definite
    <3> QED BY <3>1, <3>2
  <2>3. ~Framed(c) BY <1>5 DEF Framed, ByteArray
  <2> QED BY <1>5, <2>2, <2>3, BytesTaken
<1>6. CASE c \in MqttV5 BY <1>6, MqttSteady, SteadyDefinite
<1>7. CASE c \in WebSocket BY <1>7, WsSteady, SteadyDefinite
<1>8. CASE c \in Http11 BY <1>8, HttpSteady, SteadyDefinite
<1> QED BY <1>1, <1>2, <1>3, <1>4, <1>5, <1>6, <1>7, <1>8 DEF Codec

LEMMA CodecsLawful ==
  ASSUME NEW c \in Codec
  PROVE  Loop!Lawful(c)
<1>1. \A b \in Bytes(c) : Definite(c, b) BY Answered
<1>2. Loop!Answers(c) BY <1>1, NothingYet, DefiniteAnswers
<1>3. ASSUME Framed(c), ~Nested(c) PROVE Loop!Stable(c)
  <2>1. \A b \in Bytes(c) : Steady(c, b) BY <1>3, Answered
  <2> QED BY <2>1, SteadyStable
<1>4. ASSUME ~Framed(c) PROVE Loop!TakesAll(c)
  <2>1. c.protocol = "frames" /\ c.kind = "bytes" BY <1>4 DEF Framed
  <2>2. c \in ByteArray
    BY <2>1 DEF Codec, LineCodec, FixedLength, DelimiterBased, LengthField, ByteArray,
       MqttV5, WebSocket, Http11
  <2>3. \A b \in Bytes(c) : b # <<>> => Decode(c, b) = Item(b, <<>>)
    BY <2>2, BytesTaken
  <2> QED BY <2>3 DEF Loop!TakesAll, Loop!Bytes, Bytes, Loop!Item, Item
<1> QED BY <1>2, <1>3, <1>4 DEF Loop!Lawful

LEMMA DialogueMessages ==
  ASSUME NEW f \in DOMAIN Dialogues, NEW d \in Dialogues[f]
  PROVE  ToSet(d.items) \subseteq Messages(d.codec)
BY DEF Messages

LEMMA InputsAreBytes == Loop!Inputs
<1>1. ASSUME NEW f \in DOMAIN RawStreams, NEW r \in RawStreams[f]
      PROVE  r.codec \in Codec /\ r.bytes \in Loop!Bytes(r.codec)
  BY StreamsAssumption DEF Loop!Bytes
<1>2. ASSUME NEW f \in DOMAIN Dialogues, NEW d \in Dialogues[f]
      PROVE  /\ d.codec \in Codec
             /\ d.items \in Seq(Messages(d.codec))
  <2>1. d.codec \in Codec /\ d.items \in Seq(ToSet(d.items)) BY DialoguesAssumption
  <2>2. ToSet(d.items) \subseteq Messages(d.codec) BY DialogueMessages
  <2> QED BY <2>1, <2>2, SequencesOfMore
<1>3. ASSUME NEW c, NEW m \in Messages(c), Carries(c, m)
      PROVE  PeerEncode(c, m) \in Loop!Bytes(c)
  <2>1. PICK f \in DOMAIN Dialogues :
          m \in UNION {ToSet(d.items) : d \in {d \in Dialogues[f] : d.codec = c}}
    BY DEF Messages
  <2>2. PICK d \in Dialogues[f] : d.codec = c /\ m \in ToSet(d.items) BY <2>1
  <2>3. PICK i \in DOMAIN d.items : m = d.items[i] BY <2>2 DEF ToSet
  <2> QED BY <1>3, <2>2, <2>3, DialoguesAssumption DEF Loop!Bytes
<1> QED BY <1>1, <1>2, <1>3, CodecsLawful DEF Loop!Inputs

-----------------------------------------------------------------------------
\* The loop of DecodeLoopProofs, with these codecs, is that of StreamDecoding
LEMMA SameStream ==
  ASSUME NEW c, NEW messages
  PROVE  Loop!Stream(c, messages) = Stream(c, messages)
BY DEF Loop!Stream, Stream

LEMMA SameLoop ==
  /\ Init => Loop!Init
  /\ [Next]_vars => [Loop!Next]_(Loop!vars)
<1>1. Init => Loop!Init
  BY SameStream DEF Init, Loop!Init, Start, Loop!Start
<1>2. Next => Loop!Next
  BY DEF Next, Loop!Next, Read, Loop!Read, DecodeStep, Loop!DecodeStep
<1>3. [Next]_vars => [Loop!Next]_(Loop!vars) BY <1>2 DEF vars, Loop!vars
<1> QED BY <1>1, <1>3

LEMMA SameContent ==
  ASSUME NEW c, NEW s
  PROVE  Loop!Content(c, s) = Content(c, s)
BY DEF Loop!Content, Content, Loop!FlattenSeq, FlattenSeq

LEMMA SameTurns ==
  ASSUME NEW c, NEW bytes
  PROVE  Loop!DecodeAll(c, bytes) = DecodeAll(c, bytes)
BY DEF Loop!DecodeAll, DecodeAll, Loop!Turns, Turns, Loop!Turn, Turn

LEMMA SameProperties ==
  /\ Loop!CutIndependent => CutIndependent
  /\ Loop!BufferIsBounded => BufferIsBounded
<1>1. Loop!Finished = Finished BY DEF Loop!Finished, Finished
<1>2. ASSUME NEW whole, Loop!SameOutcome(whole) PROVE SameOutcome(whole)
  BY <1>2, SameContent DEF Loop!SameOutcome, SameOutcome, Loop!IsPrefix, IsPrefix
<1>3. Loop!CutIndependent => CutIndependent
  BY <1>1, <1>2, SameTurns DEF Loop!CutIndependent, CutIndependent
<1>4. Loop!BufferIsBounded => BufferIsBounded
  BY DEF Loop!BufferIsBounded, BufferIsBounded
<1> QED BY <1>3, <1>4

\* What a connection makes of the bytes of a peer is the same however the
\* network cuts them into reads, for every codec of the repository in every
\* configuration: the loop of handle_read with each Decoder::decode.
THEOREM CutIndependence == Spec => []CutIndependent
<1>1. Loop!Spec => []Loop!CutIndependent BY InputsAreBytes, Loop!CutIndependence
<1>2. Loop!CutIndependent => CutIndependent BY SameProperties
<1> QED BY <1>1, <1>2, SameLoop, PTL DEF Spec, Loop!Spec

\* A peer that sends no boundary cannot make the read buffer grow: whenever a
\* Decoder::decode with a limit (max_frame_length, max_packet_size, the header
\* and body limits of HTTP) answers Ok(None), what it leaves in the buffer is
\* within that limit.
THEOREM BufferBounded == Spec => []BufferIsBounded
<1>1. ASSUME NEW c \in Codec PROVE Loop!Frugal(c)
  BY Answered DEF Loop!Frugal, Loop!Bytes, Bytes, Loop!NeedMore, NeedMore
<1>2. Loop!Spec => []Loop!BufferIsBounded
  BY <1>1, InputsAreBytes, Loop!BoundedBuffer
<1>3. Loop!BufferIsBounded => BufferIsBounded BY SameProperties
<1> QED BY <1>2, <1>3, SameLoop, PTL DEF Spec, Loop!Spec

-----------------------------------------------------------------------------
\* A message whose encoding, all by itself, decodes to what stands for it
Alone(c, m) ==
  /\ Decode(c, PeerEncode(c, m)) = Item(Received(c, m), <<>>)
  /\ \A part \in Bytes(c) :
       CutAtLimit(c, part) => Len(part) >= Len(PeerEncode(c, m))

\* ... decodes to it also among other messages, and only when it is complete
LEMMA AloneAgrees ==
  ASSUME NEW c \in Codec, Framed(c), ~Nested(c), NEW m,
         PeerEncode(c, m) \in Bytes(c), Alone(c, m)
  PROVE  Loop!AgreesAbout(c, m)
<1> DEFINE bytes == PeerEncode(c, m)
           x == Received(c, m)
<1>1. bytes \in Bytes(c) /\ Decode(c, bytes) = Item(x, <<>>) BY DEF Alone
<1>2. /\ \A part \in Bytes(c) : CutAtLimit(c, part) => Len(part) >= Len(bytes)
  BY DEF Alone
<1>3. Loop!Stable(c) /\ Loop!Answers(c) BY CodecsLawful DEF Loop!Lawful
<1> HIDE DEF bytes, x
<1>4. bytes # <<>> BY <1>1, NothingYet DEF Item, NeedMore
<1>5. ASSUME NEW b \in Bytes(c), NEW more \in Bytes(c)
      PROVE  /\ Decode(c, b).kind = "item" =>
                  Decode(c, b \o more)
                    = Item(Decode(c, b).item, Decode(c, b).rest \o more)
             /\ Decode(c, b).kind = "error" =>
                  Decode(c, b \o more) = Decode(c, b) \/ CutAtLimit(c, b)
  BY <1>3 DEF Loop!Stable, Loop!Bytes, Bytes, Loop!Item, Item
<1>6. ASSUME NEW more \in Bytes(c)
      PROVE  Decode(c, bytes \o more) = Item(x, more)
  <2>1. /\ Decode(c, bytes).kind = "item" /\ Decode(c, bytes).item = x
        /\ Decode(c, bytes).rest = <<>>
    BY <1>1 DEF Item
  <2>2. <<>> \o more = more BY ConcatEmptySeq DEF Bytes
  <2>3. Decode(c, bytes \o more) = Item(Decode(c, bytes).item, Decode(c, bytes).rest \o more)
    BY <1>1, <1>5, <2>1
  <2> QED BY ONLY <2>1, <2>2, <2>3
<1>7. ASSUME NEW part \in Bytes(c), NEW left \in Bytes(c), bytes = part \o left,
             left # <<>>
      PROVE  Decode(c, part) = NeedMore
  <2>1. /\ Len(part) \in Nat /\ Len(left) \in Nat \ {0}
        /\ Len(bytes) = Len(part) + Len(left)
    BY <1>7, LenProperties, EmptySeq, ConcatProperties DEF Bytes
  <2>2. ~CutAtLimit(c, part) BY <1>2, <2>1
  <2>3. Definite(c, part) BY Answered
  <2>4. ASSUME NEW e, Decode(c, part) = Failed(e) PROVE FALSE
    <3>1. Decode(c, part).kind = "error" BY <2>4 DEF Failed
    <3>2. Decode(c, bytes) = Failed(e) BY <1>5, <1>7, <2>2, <2>4, <3>1
    <3> QED BY <1>1, <3>2 DEF Item, Failed
  <2>5. ASSUME NEW n \in 1..Len(part), NEW y,
               Decode(c, part) = Item(y, SubSeq(part, n + 1, Len(part)))
        PROVE  FALSE
    <3> DEFINE rest == SubSeq(part, n + 1, Len(part))
    <3>1. n + 1 \in Nat \ {0} /\ Len(part) \in Nat /\ Len(part) <= Len(part) BY <2>1
    <3>2. rest \in Bytes(c) BY <3>1, PartType DEF Bytes
    <3> HIDE DEF rest
    <3>3. Decode(c, part).kind = "item" /\ Decode(c, part).rest = rest
      BY <2>5 DEF Item, rest
    <3>4. Decode(c, bytes) = Item(Decode(c, part).item, rest \o left)
      BY <1>5, <1>7, <3>3
    <3>5. rest \o left = <<>> BY <1>1, <3>4 DEF Item
    <3>6. Len(rest \o left) = Len(rest) + Len(left) /\ Len(rest) \in Nat
      BY <3>2, ConcatProperties, LenProperties DEF Bytes
    <3>7. Len(rest \o left) = 0 BY <3>5, EmptySeq
    <3> QED BY <2>1, <3>6, <3>7
  <2> QED BY <2>3, <2>4, <2>5 DEF Definite
<1> QED BY <1>4, <1>6, <1>7 DEF Loop!AgreesAbout, Loop!Bytes, Bytes, Loop!Item, Item,
  Loop!NeedMore, NeedMore, bytes, x

LEMMA MessageBytes ==
  ASSUME NEW c, c.protocol = "frames", NEW m \in Messages(c)
  PROVE  m \in Seq(Nat) /\ Len(m) \in Nat
<1>1. PICK f \in DOMAIN Dialogues :
        m \in UNION {ToSet(d.items) : d \in {d \in Dialogues[f] : d.codec = c}}
  BY DEF Messages
<1>2. PICK d \in Dialogues[f] : d.codec = c /\ m \in ToSet(d.items) BY <1>1
<1>3. PICK i \in DOMAIN d.items : m = d.items[i] BY <1>2 DEF ToSet
<1>4. m \in Seq(Nat) BY <1>2, <1>3, DialoguesAssumption
<1> QED BY <1>4, LenProperties

LEMMA LineAlone ==
  ASSUME NEW c \in LineCodec, NEW m \in Messages(c), Carries(c, m)
  PROVE  Alone(c, m)
<1> DEFINE n == Len(m)
           bytes == PeerEncode(c, m)
<1>1. c.protocol = "frames" /\ c.kind = "line" /\ c.max \in Nat BY DEF LineCodec
<1>2. m \in Seq(Nat) /\ n \in Nat BY <1>1, MessageBytes
<1>3. bytes = m \o LF
  BY <1>1 DEF PeerEncode, Frames!PeerEncode, Frames!EncodeFrame, Frames!EncodeLine,
     Frames!Ok, Frames!LF, LF
<1>4. /\ Frames!ValidUtf8(m) /\ ~Frames!Contains(m, 10)
      /\ m # <<>> => m[Len(m)] # 13
      /\ Len(m) <= c.max
  BY <1>1 DEF Carries, Frames!Carries, Frames!LF, Frames!CR
<1>5. Received(c, m) = m BY <1>1, Zenon DEF Received, Frames!Received
<1>6. \A part : ~CutAtLimit(c, part) BY <1>1 DEF CutAtLimit, Frames!CutAtLimit
<1>7. LF \in Seq(Nat) /\ Len(LF) = 1 /\ LF[1] = 10 BY DEF LF
<1> HIDE DEF LF
<1>8. /\ bytes \in Seq(Nat) /\ Len(bytes) = n + 1
      /\ \A i \in 1..n : bytes[i] = m[i]
      /\ bytes[n + 1] = 10
  <2>1. /\ m \o LF \in Seq(Nat) /\ Len(m \o LF) = Len(m) + Len(LF)
        /\ \A i \in 1..Len(m) + Len(LF) :
             (m \o LF)[i] = IF i <= Len(m) THEN m[i] ELSE LF[i - Len(m)]
    BY <1>2, <1>7, ConcatProperties
  <2> HIDE DEF bytes, n
  <2>2. n = Len(m) BY DEF n
  <2>3. /\ bytes \in Seq(Nat) /\ Len(bytes) = n + 1
        /\ \A i \in 1..n + 1 : bytes[i] = IF i <= n THEN m[i] ELSE LF[i - n]
    BY <1>3, <1>7, <2>1, <2>2
  <2>4. n + 1 \in 1..n + 1 /\ ~(n + 1 <= n) /\ (n + 1) - n = 1 BY <1>2
  <2>5. bytes[n + 1] = LF[(n + 1) - n] BY <2>3, <2>4
  <2>6. \A i \in 1..n : i \in 1..n + 1 /\ i <= n BY <1>2
  <2> QED BY <1>7, <2>3, <2>4, <2>5, <2>6
<1>9. \A i \in 1..n : m[i] # 10
  <2>1. \A i \in DOMAIN m : m[i] # 10 BY <1>4 DEF Frames!Contains
  <2>2. DOMAIN m = 1..n BY <1>2, LenProperties
  <2> QED BY <2>1, <2>2
<1>10. SubSeq(bytes, 1, n) = m
  <2>1. 1 \in Nat \ {0} /\ n \in Nat /\ n <= Len(m) BY <1>2
  <2>2. SubSeq(m \o LF, 1, n) = SubSeq(m, 1, n) BY <1>2, <1>7, <2>1, LongerPart
  <2>3. SubSeq(m, 1, Len(m)) = m BY <1>2, SubSeqFull
  <2> QED BY <1>3, <2>2, <2>3
<1> HIDE DEF bytes, n
<1>11. \A p \in 0..n : /\ Len(SubSeq(bytes, p + 1, p + 1)) = 1
                       /\ SubSeq(bytes, p + 1, p + 1)[1] = bytes[p + 1]
  <2> SUFFICES ASSUME NEW p \in 0..n
               PROVE  /\ Len(SubSeq(bytes, p + 1, p + 1)) = 1
                      /\ SubSeq(bytes, p + 1, p + 1)[1] = bytes[p + 1]
    OBVIOUS
  <2> DEFINE k == p + 1
  <2>1. k \in Nat \ {0} /\ k \in Nat /\ k <= Len(bytes) BY <1>2, <1>8
  <2> HIDE DEF k
  <2>2. /\ Len(SubSeq(bytes, k, k)) = IF k <= k THEN (k - k) + 1 ELSE 0
        /\ \A i \in 1..(k - k) + 1 : SubSeq(bytes, k, k)[i] = bytes[(k + i) - 1]
    BY <1>8, <2>1, PartType
  <2>3. (k - k) + 1 = 1 /\ k <= k /\ (k + 1) - 1 = k /\ 1 \in 1..1 BY <2>1
  <2>4. SubSeq(bytes, k, k)[1] = bytes[(k + 1) - 1] BY <2>2, <2>3
  <2> QED BY <2>2, <2>3, <2>4 DEF k
<1>12. Hits(bytes, LF, 0) = {n}
  <2>1. \A p \in 0..n : SubSeq(bytes, p + 1, p + Len(LF)) = SubSeq(bytes, p + 1, p + 1)
    BY <1>7
  <2>2. SubSeq(bytes, n + 1, n + 1) = LF
    <3> DEFINE last == SubSeq(bytes, n + 1, n + 1)
    <3>1. n + 1 \in Nat \ {0} /\ n + 1 \in Nat /\ n + 1 <= Len(bytes) BY <1>2, <1>8
    <3>2. last \in Seq(Nat) BY <1>8, <3>1, PartType
    <3>3. n \in 0..n BY <1>2
    <3>4. Len(last) = 1 /\ last[1] = 10 BY <1>8, <1>11, <3>3
    <3> HIDE DEF last
    <3>5. \A i \in 1..Len(last) : last[i] = LF[i] BY <1>7, <3>4
    <3>6. last = LF BY <1>7, <3>2, <3>4, <3>5, SeqEqual
    <3> QED BY <3>6 DEF last
  <2>3. ASSUME NEW p \in 0..n, p # n PROVE SubSeq(bytes, p + 1, p + 1) # LF
    <3>1. SubSeq(bytes, p + 1, p + 1)[1] = bytes[p + 1] BY <1>11
    <3>2. p + 1 \in 1..n BY <1>2, <2>3
    <3>3. bytes[p + 1] # 10 BY <1>8, <1>9, <3>2
    <3>4. LF[1] = 10 BY <1>7
    <3> QED BY ONLY <3>1, <3>3, <3>4
  <2>4. 0..(Len(bytes) - Len(LF)) = 0..n BY <1>2, <1>7, <1>8
  <2>5. n \in 0..n BY <1>2
  <2>6. Hits(bytes, LF, 0) = {p \in 0..n : SubSeq(bytes, p + 1, p + 1) = LF}
    BY <2>1, <2>4 DEF Hits
  <2> QED BY <2>2, <2>3, <2>5, <2>6
<1>13. Min({n}) = n /\ Hits(bytes, LF, 0) # {}
  <2> DEFINE S == {n}
  <2>1. S \in SUBSET Nat /\ S # {} BY <1>2
  <2> HIDE DEF S
  <2>2. Min(S) \in S BY <2>1, MinOfNat
  <2> QED BY <1>12, <2>2 DEF S
<1>14. LineOf(bytes, n) = m
  <2>1. ASSUME n > 0 PROVE bytes[n] = m[n] /\ m[n] # 13
    <3>1. n \in 1..n BY <1>2, <2>1
    <3>2. bytes[n] = m[n] BY <1>8, <3>1
    <3>3. m # <<>> BY <1>2, <2>1, EmptySeq DEF n
    <3>4. m[Len(m)] # 13 BY <1>4, <3>3
    <3> QED BY <3>2, <3>4 DEF n
  <2> QED BY <1>2, <1>10, <2>1 DEF LineOf
<1>15. SubSeq(bytes, n + 2, Len(bytes)) = <<>>
  <2>1. n + 2 > Len(bytes) /\ n + 2 \in Nat /\ Len(bytes) \in Nat BY <1>2, <1>8
  <2> QED BY <1>8, <2>1, SubSeqEmpty
<1>16. Decode(c, bytes) = Item(m, <<>>)
  <2>1. Decode(c, bytes) = LineFound(c, bytes, n) BY <1>8, <1>12, <1>13, DecodeOfLine
  <2>2. ~(n > c.max) BY <1>1, <1>2, <1>4 DEF n
  <2> QED BY <1>4, <1>14, <1>15, <2>1, <2>2 DEF LineFound
<1> QED BY <1>5, <1>6, <1>16 DEF Alone, bytes

LEMMA FixedAlone ==
  ASSUME NEW c \in FixedLength, NEW m \in Messages(c), Carries(c, m)
  PROVE  Alone(c, m)
<1>1. c.protocol = "frames" /\ c.kind = "fixed" /\ c.length \in Nat \ {0}
  BY DEF FixedLength
<1>2. m \in Seq(Nat) /\ Len(m) \in Nat BY <1>1, MessageBytes
<1>3. Frames!PeerEncode(c, m) = IF Len(m) = c.length THEN Frames!Ok(m) ELSE Frames!Refused
  BY <1>1 DEF Frames!PeerEncode, Frames!EncodeFrame, Frames!EncodeFixed
<1>4. Frames!PeerEncode(c, m).ok BY <1>1 DEF Carries, Frames!Carries
<1>5. Len(m) = c.length BY <1>3, <1>4 DEF Frames!Refused
<1>6. PeerEncode(c, m) = m BY <1>1, <1>3, <1>5 DEF PeerEncode, Frames!Ok
<1>7. Received(c, m) = m BY <1>1, Zenon DEF Received, Frames!Received
<1>8. \A part : ~CutAtLimit(c, part) BY <1>1 DEF CutAtLimit, Frames!CutAtLimit
<1>9. SubSeq(m, 1, Len(m)) = m BY <1>2, SubSeqFull
<1>10. SubSeq(m, Len(m) + 1, Len(m)) = <<>> BY <1>2, SubSeqEmpty
<1>11. Decode(c, m) = Item(m, <<>>)
  <2>1. Decode(c, m) = Frames!DecodeFixed(c, m) BY <1>1 DEF Decode, Frames!DecodeFrame
  <2>2. ~(Len(m) < c.length) BY <1>1, <1>5
  <2> QED BY <1>5, <1>9, <1>10, <2>1, <2>2 DEF Frames!DecodeFixed, Frames!Take,
    Frames!Drop, Frames!Item, Item
<1> QED BY <1>6, <1>7, <1>8, <1>11 DEF Alone

LEMMA DelimiterAlone ==
  ASSUME NEW c \in DelimiterBased, NEW m \in Messages(c), Carries(c, m)
  PROVE  Alone(c, m) /\ ~Nested(c)
<1> DEFINE n == Len(m)
           d == c.delimiters[1]
           l == Len(d)
           bytes == PeerEncode(c, m)
<1>1. /\ c.protocol = "frames" /\ c.kind = "delimiter" /\ c.max \in Nat
      /\ \A e \in Delims(c) : e \in Seq(Nat) /\ Len(e) \in Nat \ {0}
  BY DelimiterType
<1>2. m \in Seq(Nat) /\ n \in Nat BY <1>1, MessageBytes
<1>3. d \in Seq(Nat) /\ l \in Nat \ {0}
  <2>1. c.delimiters \in Seq(Seq(Nat) \ {<<>>}) /\ c.delimiters # <<>>
    BY DEF DelimiterBased
  <2>2. 1 \in DOMAIN c.delimiters BY <2>1, EmptySeq, LenProperties
  <2>3. d \in Delims(c) BY <2>2 DEF Delims, ToSet
  <2> QED BY <1>1, <2>3
<1>4. bytes = m \o d /\ Frames!PeerEncode(c, m).bytes = bytes
  BY <1>1 DEF PeerEncode, Frames!PeerEncode, Frames!EncodeFrame, Frames!EncodeDelimiter,
     Frames!Ok
<1>5. bytes \in Seq(Nat) /\ Len(bytes) = n + l
  BY <1>2, <1>3, <1>4, ConcatProperties
<1>6. /\ ~Frames!Nested(c)
      /\ Frames!find_delimiter(c, bytes) = {<<n, l>>}
      /\ Len(bytes) - 1 <= c.max
  BY <1>1, <1>4, Zenon DEF Carries, Frames!Carries
<1>7. ~Nested(c) BY <1>6 DEF Nested
<1> HIDE DEF bytes
<1>8. Firsts(c, bytes) = {<<n, l>>}
  <2>1. FoundIn(c, bytes) = UNION {{<<p, Len(e)>> : p \in Frames!Positions(bytes, e)} :
                              e \in ToSet(c.delimiters)}
    BY DEF FoundIn, Delims, Hits, Frames!Positions
  <2>2. Frames!find_delimiter(c, bytes) = Firsts(c, bytes)
    BY <2>1 DEF Frames!find_delimiter, Firsts, Before, Frames!ToSet, ToSet
  <2> QED BY <1>6, <2>2
<1>9. Decode(c, bytes) = DelimiterFound(c, bytes, n, l)
  BY <1>5, <1>8, DecodeOfDelimiter
<1>10. SubSeq(bytes, 1, n) = m
  <2>1. 1 \in Nat \ {0} /\ n \in Nat /\ n <= Len(m) BY <1>2
  <2>2. SubSeq(m \o d, 1, n) = SubSeq(m, 1, n) BY <1>2, <1>3, <2>1, LongerPart
  <2>3. SubSeq(m, 1, Len(m)) = m BY <1>2, SubSeqFull
  <2> QED BY <1>4, <2>2, <2>3
<1>11. SubSeq(bytes, 1, n + l) = bytes BY <1>5, SubSeqFull
<1>12. SubSeq(bytes, (n + l) + 1, Len(bytes)) = <<>>
  <2>1. Len(bytes) \in Nat BY <1>2, <1>3, <1>5
  <2>2. SubSeq(bytes, Len(bytes) + 1, Len(bytes)) = <<>> BY <1>5, <2>1, SubSeqEmpty
  <2> QED BY <1>5, <2>2
<1>13. ~(n > c.max) BY <1>1, <1>2, <1>3, <1>5, <1>6
<1>14. Received(c, m) = IF c.strip THEN m ELSE bytes
  <2>1. Received(c, m) = Frames!Received(c, m) BY <1>1 DEF Received
  <2>2. CASE c.strip BY <1>1, <2>1, <2>2, Zenon DEF Frames!Received
  <2>3. CASE ~c.strip BY <1>1, <1>4, <2>1, <2>3 DEF Frames!Received
  <2> QED BY <2>2, <2>3
<1>15. Decode(c, bytes) = Item(Received(c, m), <<>>)
  <2>1. CASE c.strip
    <3>1. Decode(c, bytes) = Item(SubSeq(bytes, 1, n), <<>>)
      BY <1>9, <1>12, <1>13, <2>1 DEF DelimiterFound
    <3> QED BY <1>10, <1>14, <2>1, <3>1
  <2>2. CASE ~c.strip
    <3>1. Decode(c, bytes) = Item(SubSeq(bytes, 1, n + l), <<>>)
      BY <1>9, <1>12, <1>13, <2>2 DEF DelimiterFound
    <3> QED BY <1>11, <1>14, <2>2, <3>1
  <2> QED BY <2>1, <2>2
<1>16. ASSUME NEW part \in Bytes(c), CutAtLimit(c, part)
       PROVE  Len(part) >= Len(bytes)
  <2>1. Len(part) \in Nat BY LenProperties DEF Bytes
  <2>2. PICK e \in ToSet(c.delimiters) : Len(part) \in (c.max + 1)..(c.max + Len(e) - 1)
    <3>1. CutAtLimit(c, part) = Frames!CutAtLimit(c, part) BY <1>1 DEF CutAtLimit
    <3> QED BY <1>16, <3>1 DEF Frames!CutAtLimit, Frames!ToSet, ToSet
  <2>3. Len(e) \in Nat BY <1>1 DEF Delims
  <2> QED BY <1>1, <1>2, <1>3, <1>5, <1>6, <2>1, <2>2, <2>3
<1> QED BY <1>7, <1>15, <1>16 DEF Alone, bytes

LEMMA WsMessage ==
  ASSUME NEW c \in WebSocket, NEW m \in Messages(c)
  PROVE  Ws!WebSocketMessage(m)
<1>1. PICK f \in DOMAIN Dialogues :
        m \in UNION {ToSet(d.items) : d \in {d \in Dialogues[f] : d.codec = c}}
  BY DEF Messages
<1>2. PICK d \in Dialogues[f] : d.codec = c /\ m \in ToSet(d.items) BY <1>1
<1>3. PICK i \in DOMAIN d.items : m = d.items[i] BY <1>2 DEF ToSet
<1>4. d.codec.protocol = "websocket" BY <1>2 DEF WebSocket
<1> QED BY <1>2, <1>3, <1>4, DialoguesAssumption

LEMMA WsAlone ==
  ASSUME NEW c \in WebSocketSized, NEW m \in Messages(c), Carries(c, m)
  PROVE  Alone(c, m)
<1>1. c \in WebSocket /\ c.protocol = "websocket" BY DEF WebSocketSized, WebSocket
<1>2. Ws!WebSocketMessage(m) BY <1>1, WsMessage
<1>3. Ws!Carries(c, m) BY <1>1 DEF Carries
<1>4. Decode(c, PeerEncode(c, m)) = Item(m, <<>>) BY <1>2, <1>3, WsReturns
<1>5. Received(c, m) = m BY <1>1 DEF Received
<1>6. \A part : ~CutAtLimit(c, part) BY <1>1 DEF CutAtLimit
<1> QED BY <1>4, <1>5, <1>6 DEF Alone

-----------------------------------------------------------------------------
LEMMA SameRoundTrip == Loop!RoundTrip => RoundTrip
<1>1. Loop!Finished = Finished BY DEF Loop!Finished, Finished
<1> QED BY <1>1, SameContent DEF Loop!RoundTrip, RoundTrip

LEMMA CodecMessages ==
  ASSUME NEW c \in Codec
  PROVE  Loop!Texts(c)
<1> SUFFICES ASSUME ~Framed(c), NEW m \in Messages(c) PROVE m \in Bytes(c)
  BY DEF Loop!Texts, Loop!Bytes, Bytes
<1>1. c.protocol = "frames" BY DEF Framed
<1> QED BY <1>1, MessageBytes DEF Bytes, Alphabet

\* What the codec makes of each message by itself decides what it makes of all
LEMMA MessagesAgree ==
  ASSUME NEW c \in Codec,
         \A m \in Messages(c) : Framed(c) /\ Carries(c, m) => Alone(c, m) /\ ~Nested(c)
  PROVE  Loop!Agrees(c)
<1> SUFFICES ASSUME NEW m \in Messages(c), Carries(c, m), PeerEncode(c, m) \in Bytes(c)
             PROVE  Loop!AgreesAbout(c, m)
  BY DEF Loop!Agrees, Loop!Bytes, Bytes
<1>1. CASE Framed(c) BY <1>1, AloneAgrees
<1>2. CASE ~Framed(c)
  <2>1. c.protocol = "frames" /\ c.kind = "bytes" BY <1>2 DEF Framed
  <2>2. PeerEncode(c, m) = m
    BY <2>1 DEF PeerEncode, Frames!PeerEncode, Frames!EncodeFrame, Frames!EncodeBytes,
       Frames!Ok
  <2>3. Received(c, m) = m BY <2>1, Zenon DEF Received, Frames!Received
  <2> QED BY <1>2, <2>2, <2>3 DEF Loop!AgreesAbout
<1> QED BY <1>1, <1>2

\* The codecs whose encoder and decoder these proofs compare
Compared == LineCodec \cup FixedLength \cup DelimiterBased \cup ByteArray
              \cup WebSocketSized

LEMMA ComparedAgree ==
  ASSUME NEW c \in Compared
  PROVE  c \in Codec /\ Loop!Agrees(c)
<1>1. c \in Codec BY DEF Compared, Codec, WebSocketSized
<1>2. ASSUME NEW m \in Messages(c), Framed(c), Carries(c, m)
      PROVE  Alone(c, m) /\ ~Nested(c)
  <2>1. CASE c \in LineCodec
    BY <1>2, <2>1, LineAlone DEF Nested, Frames!Nested, LineCodec
  <2>2. CASE c \in FixedLength
    BY <1>2, <2>2, FixedAlone DEF Nested, Frames!Nested, FixedLength
  <2>3. CASE c \in DelimiterBased BY <1>2, <2>3, DelimiterAlone
  <2>4. CASE c \in ByteArray BY <1>2, <2>4 DEF Framed, ByteArray
  <2>5. CASE c \in WebSocketSized
    <3>1. ~Nested(c) BY <2>5 DEF Nested, WebSocketSized, WebSocket
    <3> QED BY <1>2, <2>5, <3>1, WsAlone
  <2> QED BY <2>1, <2>2, <2>3, <2>4, <2>5 DEF Compared
<1> QED BY <1>1, <1>2, MessagesAgree

\* Messages come out as they went in: an encoder of line.rs,
\* fixed_length_frame.rs, delimiter_based_frame.rs, byte_array.rs or (behind a
\* client that masks) websocket.rs and the decoder beside it agree about every
\* boundary, for every message that the codec can carry, every list of them
\* and every way to cut their bytes.
THEOREM MessagesReturn == Spec => [](codec \in Compared => RoundTrip)
<1>1. ASSUME NEW c \in Codec PROVE Loop!Texts(c) BY CodecMessages
<1>2. Loop!Spec => [](Loop!Agrees(codec) => Loop!RoundTrip)
  BY <1>1, InputsAreBytes, Loop!RoundTripping
<1>3. (Loop!Agrees(codec) => Loop!RoundTrip) => (codec \in Compared => RoundTrip)
  BY ComparedAgree, SameRoundTrip
<1> QED BY <1>2, <1>3, SameLoop, PTL DEF Spec, Loop!Spec

-----------------------------------------------------------------------------
\* What an echo server can send back
Sendable(c, x) == Ws!WebSocketMessage(x) /\ Ws!Carries(c, x)

LEMMA FrameOk == \A opcode, payload : Ws!encode_frame(opcode, payload).ok
BY DEF Ws!encode_frame, Ws!Ok

LEMMA ControlOk ==
  ASSUME NEW opcode, NEW payload, Len(payload) \in Nat, Len(payload) <= 125
  PROVE  Ws!encode_control_frame(opcode, payload).ok
<1>1. ~(Len(payload) > 125) OBVIOUS
<1>2. Ws!encode_control_frame(opcode, payload) = Ws!encode_frame(opcode, payload)
  BY <1>1 DEF Ws!encode_control_frame
<1> QED BY <1>2, FrameOk

LEMMA Ascii ==
  ASSUME NEW p \in Seq(Byte), Ws!ValidUtf8(p)
  PROVE  p \in Seq(0..127)
<1>1. Len(p) \in Nat /\ DOMAIN p = 1..Len(p) BY LenProperties
<1>2. \A i \in 1..Len(p) : p[i] \in Byte /\ p[i] < 128
  BY <1>1, ElementOfSeq DEF Ws!ValidUtf8
<1>3. \A k \in Byte : k < 128 => k \in 0..127 BY DEF Byte
<1>4. \A i \in 1..Len(p) : p[i] \in 0..127 BY <1>2, <1>3
<1>5. p = [i \in 1..Len(p) |-> p[i]] BY LenProperties
<1> DEFINE A == 0..127
<1>6. \A i \in 1..Len(p) : p[i] \in A BY <1>4
<1> HIDE DEF A
<1>7. p \in Seq(A) BY <1>1, <1>5, <1>6, IsASeq
<1> QED BY <1>7 DEF A

LEMMA PairType ==
  ASSUME NEW x \in Byte, NEW y \in Byte
  PROVE  (x * 256) + y \in Ws!U16
<1>1. x \in Nat /\ x <= 255 /\ y \in Nat /\ y <= 255 BY DEF Byte
<1>2. (x * 256) + y \in Nat /\ (x * 256) + y < T16
  <2>1. x * 256 = 256 * x BY <1>1
  <2> QED BY <1>1, <2>1, SMT DEF T16
<1>3. (x * 256) + y \in 0..(T16 - 1)
  <2>1. T16 \in Nat BY DEF T16
  <2> DEFINE z == (x * 256) + y
  <2>2. z \in Nat /\ z < T16 BY <1>2
  <2> HIDE DEF z
  <2>3. z \in 0..(T16 - 1) BY <2>1, <2>2
  <2> QED BY <2>3 DEF z
<1>4. Ws!U16 = 0..(T16 - 1) BY SMT DEF T16, Ws!U16
<1> QED BY ONLY <1>3, <1>4

\* A close frame as it was decoded
LEMMA CloseKept ==
  ASSUME NEW p \in Seq(Byte), Ws!decode_close(p).ok, p # <<>>
  PROVE  \E code \in Ws!U16 : \E reason \in Seq(0..127) :
           /\ Ws!validate_close_code(code)
           /\ Len(p) = 2 + Len(reason)
           /\ Ws!decode_close(p).bytes = <<[code |-> code, reason |-> reason]>>
<1> DEFINE code == (p[1] * 256) + p[2]
           reason == SubSeq(p, 3, Len(p))
           n == Len(p)
           close == [code |-> code, reason |-> reason]
           good == Ws!validate_close_code(code) /\ Ws!ValidUtf8(reason)
<1> HIDE DEF code, reason, n, close, good
<1>1. n \in Nat /\ n # 0 BY LenProperties, EmptySeq DEF n
<1>2. Ws!Piece(p, 2, n) = reason
  <2>1. 2 + 1 = 3 OBVIOUS
  <2> QED BY <2>1 DEF Ws!Piece, reason, n
<1>3. Ws!decode_close(p) = IF n = 1 THEN Ws!Refused
                           ELSE IF ~good THEN Ws!Refused ELSE Ws!Ok(<<close>>)
  <2>1. good <=> ~(~Ws!validate_close_code(code) \/ ~Ws!ValidUtf8(reason))
    BY DEF good
  <2> QED BY <1>2, <2>1, Zenon DEF Ws!decode_close, code, n, close
<1>4. ~Ws!Refused.ok BY DEF Ws!Refused
<1>5. n # 1 BY <1>3, <1>4, Zenon
<1>6. good BY <1>3, <1>4, <1>5, Zenon
<1>7. Ws!decode_close(p).bytes = <<close>>
  <2>1. Ws!decode_close(p) = Ws!Ok(<<close>>) BY <1>3, <1>5, <1>6, Zenon
  <2> QED BY <2>1 DEF Ws!Ok
<1>8. n >= 2 BY ONLY <1>1, <1>5
<1>9. code \in Ws!U16
  <2>1. 1 \in 1..n /\ 2 \in 1..n BY ONLY <1>1, <1>8
  <2>2. p[1] \in Byte /\ p[2] \in Byte BY <2>1, ElementOfSeq DEF n
  <2> QED BY ONLY <2>2, PairType DEF code
<1>10. reason \in Seq(Byte) /\ n = 2 + Len(reason)
  <2>1. 3 \in Nat \ {0} /\ n \in Nat /\ n <= n BY <1>1
  <2>2. SubSeq(p, 3, n) \in Seq(Byte)
        /\ Len(SubSeq(p, 3, n)) = IF 3 <= n THEN (n - 3) + 1 ELSE 0
    BY <2>1, PartType DEF n
  <2>3. reason = SubSeq(p, 3, n) BY DEF reason, n
  <2> QED BY ONLY <1>1, <1>8, <2>2, <2>3
<1>11. reason \in Seq(0..127) BY <1>6, <1>10, Ascii DEF good
<1> QED BY <1>6, <1>7, <1>9, <1>10, <1>11 DEF good, close, n

-----------------------------------------------------------------------------
\* What the decoder makes of a payload can be encoded again
LEMMA PayloadKept ==
  ASSUME NEW c \in WebSocket, NEW opcode, NEW p \in Seq(Byte), NEW rest,
         Len(p) <= c.max, opcode \in {8, 9, 10} => Len(p) <= 125,
         Ws!decode_payload(opcode, p, rest).kind = "item"
  PROVE  Sendable(c, Ws!decode_payload(opcode, p, rest).item)
<1> DEFINE D == Ws!decode_payload(opcode, p, rest)
<1> SUFFICES Sendable(c, D.item) OBVIOUS
<1>0. Len(p) \in Nat BY LenProperties
<1>1. ASSUME NEW type \in {"Text", "Binary", "Ping", "Pong"},
             NEW x, x = Ws!Message(type, p), Ws!WebSocketMessage(x), Ws!Encode(c, x).ok
      PROVE  Sendable(c, x)
  <2>1. Ws!PayloadLength(x) = Len(p) BY <1>1 DEF Ws!PayloadLength, Ws!Message
  <2> QED BY <1>1, <2>1 DEF Sendable, Ws!Carries
<1>2. CASE opcode = 1 /\ Ws!ValidUtf8(p)
  <2> DEFINE x == Ws!Message("Text", p)
  <2>1. D.item = x BY <1>2 DEF Ws!decode_payload, Ws!Item
  <2>2. p \in Seq(0..127) BY <1>2, Ascii
  <2>3. Ws!WebSocketMessage(x) BY <2>2 DEF Ws!WebSocketMessage, Ws!Message
  <2>4. Ws!Encode(c, x).ok
    <3>1. Ws!Encode(c, x) = Ws!encode_frame(1, p) BY DEF Ws!Encode, Ws!Message
    <3> QED BY <3>1, FrameOk
  <2> HIDE DEF D
  <2> QED BY <1>1, <2>1, <2>3, <2>4
<1>3. CASE opcode \in {2, 9, 10}
  <2> DEFINE type == IF opcode = 2 THEN "Binary" ELSE IF opcode = 9 THEN "Ping" ELSE "Pong"
             x == Ws!Message(type, p)
  <2>1. D.item = x BY <1>3 DEF Ws!decode_payload, Ws!Item
  <2>2. p \in Seq(0..255) BY DEF Byte
  <2>3. Ws!WebSocketMessage(x) BY <2>2 DEF Ws!WebSocketMessage, Ws!Message
  <2>4. Ws!Encode(c, x).ok
    <3>1. Ws!Encode(c, x) = IF opcode = 2 THEN Ws!encode_frame(2, p)
                            ELSE Ws!encode_control_frame(opcode, p)
      BY <1>3 DEF Ws!Encode, Ws!Message
    <3>2. CASE opcode = 2 BY <3>1, <3>2, FrameOk
    <3>3. CASE opcode # 2
      <4>1. Len(p) <= 125 BY <1>3, <3>3
      <4>2. Ws!encode_control_frame(opcode, p).ok BY <1>0, <4>1, ControlOk
      <4> QED BY <3>1, <3>3, <4>2
    <3> QED BY <3>2, <3>3
  <2>5. type \in {"Text", "Binary", "Ping", "Pong"} OBVIOUS
  <2> HIDE DEF D, type
  <2> QED BY <1>1, <2>1, <2>3, <2>4, <2>5
<1>4. CASE opcode = 8 /\ Ws!decode_close(p).ok
  <2> DEFINE close == Ws!decode_close(p).bytes
             x == [type |-> "Close", close |-> close]
  <2>1. D.item = x BY <1>4 DEF Ws!decode_payload, Ws!Item
  <2>2. Len(p) <= 125 BY <1>4
  <2> HIDE DEF D
  <2>3. ASSUME close \in Seq(Ws!CloseFrames), Len(close) <= 1,
               Ws!encode_close(close).ok, Ws!PayloadLength(x) = Len(p)
        PROVE  Sendable(c, x)
    <3> HIDE DEF close
    <3>1. Ws!WebSocketMessage(x) BY <2>3 DEF Ws!WebSocketMessage
    <3>2. Ws!Encode(c, x) = Ws!encode_close(close) BY DEF Ws!Encode
    <3> QED BY <2>3, <3>1, <3>2 DEF Sendable, Ws!Carries
  <2>4. CASE p = <<>>
    <3>1. <<>> \in Seq(Ws!CloseFrames) /\ Len(<<>>) = 0 BY EmptySeq
    <3>2. close = <<>> BY <2>4 DEF Ws!decode_close, Ws!Ok
    <3> HIDE DEF close
    <3>3. Ws!encode_close(close) = Ws!encode_control_frame(8, <<>>)
      BY <3>2 DEF Ws!encode_close
    <3>4. Ws!encode_control_frame(8, <<>>).ok
      <4>1. Len(<<>>) \in Nat /\ Len(<<>>) <= 125 BY <3>1
      <4> QED BY <4>1, ControlOk
    <3>5. Ws!PayloadLength(x) = 0 BY <3>2 DEF Ws!PayloadLength
    <3>6. Len(p) = 0 BY <2>4, <3>1
    <3>7. Sendable(c, x) BY <2>3, <3>1, <3>2, <3>3, <3>4, <3>5, <3>6
    <3> QED BY <2>1, <3>7
  <2>5. CASE p # <<>>
    <3>1. PICK code \in Ws!U16 : \E reason \in Seq(0..127) :
            /\ Ws!validate_close_code(code)
            /\ Len(p) = 2 + Len(reason)
            /\ close = <<[code |-> code, reason |-> reason]>>
      BY <1>4, <2>5, CloseKept
    <3>2. PICK reason \in Seq(0..127) :
            /\ Ws!validate_close_code(code)
            /\ Len(p) = 2 + Len(reason)
            /\ close = <<[code |-> code, reason |-> reason]>>
      BY <3>1
    <3> DEFINE f == [code |-> code, reason |-> reason]
               q == Ws!Digits(code, 2) \o reason
    <3> HIDE DEF close
    <3>3. f \in Ws!CloseFrames BY DEF Ws!CloseFrames
    <3>4. close = <<f>> BY <3>2
    <3>5. f.code = code /\ f.reason = reason OBVIOUS
    <3> HIDE DEF f
    <3>6. close \in Seq(Ws!CloseFrames) /\ Len(close) = 1 /\ close[1] = f /\ close # <<>>
      BY <3>3, <3>4
    <3>7. Len(q) = 2 + Len(reason) BY <3>2, CloseReturns
    <3> HIDE DEF q
    <3>8. Ws!encode_close(close) = Ws!encode_control_frame(8, q)
      BY <3>2, <3>5, <3>6 DEF Ws!encode_close, q
    <3>9. Ws!encode_control_frame(8, q).ok
      <4>1. Len(q) \in Nat /\ Len(q) <= 125 BY <1>0, <2>2, <3>2, <3>7
      <4> QED BY <4>1, ControlOk
    <3>10. Ws!PayloadLength(x) = Len(p)
      BY <3>2, <3>5, <3>6 DEF Ws!PayloadLength
    <3>11. Sendable(c, x) BY <2>3, <3>6, <3>8, <3>9, <3>10
    <3> QED BY <2>1, <3>11
  <2> QED BY <2>4, <2>5
<1>5. \/ opcode = 1 /\ Ws!ValidUtf8(p)
      \/ opcode \in {2, 9, 10}
      \/ opcode = 8 /\ Ws!decode_close(p).ok
  <2> SUFFICES ASSUME ~(opcode = 1 /\ Ws!ValidUtf8(p)), opcode \notin {2, 9, 10},
                      ~(opcode = 8 /\ Ws!decode_close(p).ok)
               PROVE  FALSE
    OBVIOUS
  <2>1. D = Ws!Failed("Decode") BY DEF Ws!decode_payload
  <2> QED BY <2>1 DEF Ws!Failed
<1> QED BY <1>2, <1>3, <1>4, <1>5

LEMMA PayloadType ==
  ASSUME NEW b \in Seq(Byte), Len(b) >= 2, Len(b) >= 2 + ExtLen(b), Len(b) >= WsEnd(b)
  PROVE  WsPayload(b) \in Seq(Byte) /\ Len(WsPayload(b)) = WsLength(b)
<1> DEFINE from == WsStart(b)
           to == WsEnd(b)
           data == SubSeq(b, from + 1, to)
           mask == SubSeq(b, (from - 4) + 1, from)
<1>1. /\ from \in {2 + ExtLen(b), 2 + ExtLen(b) + 4} /\ ExtLen(b) \in {0, 2, 8}
      /\ to \in Nat /\ from <= to /\ WsLength(b) \in Nat
      /\ to = from + WsLength(b)
  <2>1. <<>> \in Seq(Byte) BY EmptySeq
  <2> QED BY <2>1, WsShape
<1>2. Len(b) \in Nat BY LenProperties
<1>3. b[2] >= 128 => from = 2 + ExtLen(b) + 4 BY DEF WsStart
<1>4. WsPayload(b) = IF b[2] >= 128 THEN Ws!Masked(mask, data) ELSE data
  BY Zenon DEF WsPayload
<1>5. to <= Len(b) BY <1>1, <1>2
<1> HIDE DEF from, to
<1>6. data \in Seq(Byte) /\ Len(data) = WsLength(b)
  <2>1. from \in Nat BY <1>1
  <2>2. from + 1 \in Nat \ {0} BY <2>1
  <2>3. data \in Seq(Byte)
        /\ Len(data) = IF from + 1 <= to THEN (to - (from + 1)) + 1 ELSE 0
    BY <1>1, <1>5, <2>2, PartType
  <2> QED BY <1>1, <2>1, <2>3
<1>7. b[2] >= 128 => mask \in Seq(Byte) /\ Len(mask) = 4
  <2> SUFFICES ASSUME b[2] >= 128 PROVE mask \in Seq(Byte) /\ Len(mask) = 4 OBVIOUS
  <2>1. from \in Nat /\ from >= 6 BY <1>1, <1>3
  <2>2. (from - 4) + 1 \in Nat \ {0} /\ from <= Len(b) BY <1>1, <1>2, <1>5, <2>1
  <2>3. mask \in Seq(Byte)
        /\ Len(mask) = IF (from - 4) + 1 <= from THEN (from - ((from - 4) + 1)) + 1 ELSE 0
    BY <2>1, <2>2, PartType
  <2> QED BY <2>1, <2>3
<1> HIDE DEF data, mask
<1>8. CASE b[2] >= 128 BY <1>4, <1>6, <1>7, <1>8, MaskedTwice
<1>9. CASE ~(b[2] >= 128) BY <1>4, <1>6, <1>9
<1> QED BY <1>8, <1>9

\* What a WebSocket codec decoded, it can encode
LEMMA WsKept ==
  ASSUME NEW c \in WebSocket, NEW b \in Seq(Byte), Decode(c, b).kind = "item"
  PROVE  Sendable(c, Decode(c, b).item)
<1> DEFINE opcode == b[1] % 16
           p == WsPayload(b)
           rest == SubSeq(b, WsEnd(b) + 1, Len(b))
           valid == Ws!validate_payload_len_encoding(LenKind(b), ExtBytes(b))
           good == Ws!validate_frame_header(c, b[1], b[2] >= 128, WsLength(b))
<1>1. Decode(c, b) = IF Len(b) < 2 THEN NeedMore
                     ELSE IF Len(b) < 2 + ExtLen(b) THEN NeedMore
                     ELSE IF ~valid THEN Failed("Decode")
                     ELSE IF WsLength(b) > c.max THEN Failed("FrameTooLarge")
                     ELSE IF Len(b) < WsEnd(b) THEN NeedMore
                     ELSE IF ~good THEN Failed("Decode")
                     ELSE Ws!decode_payload(opcode, p, rest)
  BY DecodeOfWs
<1> HIDE DEF opcode, p, rest, valid, good
<1>2. /\ ~(Len(b) < 2) /\ ~(Len(b) < 2 + ExtLen(b)) /\ ~(WsLength(b) > c.max)
      /\ ~(Len(b) < WsEnd(b)) /\ good
      /\ Decode(c, b) = Ws!decode_payload(opcode, p, rest)
  BY <1>1 DEF NeedMore, Failed
<1>3. c.max \in Nat /\ Len(b) \in Nat BY LenProperties DEF WebSocket
<1>4. Len(b) >= 2 BY <1>2, <1>3
<1>5. /\ ExtLen(b) \in {0, 2, 8}
      /\ Len(b) >= 2 + ExtLen(b) => WsLength(b) \in Nat /\ WsEnd(b) \in Nat
  <2>1. <<>> \in Seq(Byte) BY EmptySeq
  <2> QED BY <1>4, <2>1, WsShape
<1>6. Len(b) >= 2 + ExtLen(b) BY <1>2, <1>3, <1>5
<1>7. Len(b) >= WsEnd(b) /\ WsLength(b) <= c.max BY <1>2, <1>3, <1>5, <1>6
<1>8. p \in Seq(Byte) /\ Len(p) = WsLength(b)
  BY <1>4, <1>6, <1>7, PayloadType DEF p
<1>9. opcode \in {8, 9, 10} => Len(p) <= 125
  <2>1. b[1] % 16 \in 8..10 => WsLength(b) <= 125
    BY <1>2 DEF good, Ws!validate_frame_header
  <2> QED BY <1>8, <2>1 DEF opcode
<1>10. Ws!decode_payload(opcode, p, rest).kind = "item" BY <1>2
<1>11. Len(p) <= c.max BY <1>7, <1>8
<1> QED BY <1>2, <1>8, <1>9, <1>10, <1>11, PayloadKept

-----------------------------------------------------------------------------
\* What a codec of the repository gives out keeps to its limits, by kind
LEMMA LimitsKept ==
  ASSUME NEW c \in Codec, NEW b \in Bytes(c)
  PROVE  Allowed(c, b)
<1>1. CASE c \in WebSocket
  <2> SUFFICES ASSUME Decode(c, b).kind = "item"
               PROVE  WithinLimit(c, Decode(c, b).item, Len(b) - Len(Decode(c, b).rest))
    BY DEF Allowed
  <2>1. c.protocol = "websocket" BY <1>1 DEF WebSocket
  <2>2. b \in Seq(Byte) BY <2>1 DEF Bytes, Alphabet, Byte
  <2>3. Ws!Carries(c, Decode(c, b).item) BY <1>1, <2>2, WsKept DEF Sendable
  <2> QED BY <2>1, <2>3 DEF WithinLimit, Ws!WithinLimit, Ws!Carries
<1>2. CASE c \in LineCodec BY <1>2, LineLimits
<1>3. CASE c \in FixedLength BY <1>3, FixedSteady
<1>4. CASE c \in DelimiterBased BY <1>4, DelimiterDefinite
<1>5. CASE c \in LengthField BY <1>5, LengthSteady
<1>6. CASE c \in ByteArray BY <1>6, BytesTaken
<1>7. CASE c \in MqttV5 BY <1>7, MqttSteady
<1>8. CASE c \in Http11 BY <1>8, HttpSteady
<1> QED BY <1>1, <1>2, <1>3, <1>4, <1>5, <1>6, <1>7, <1>8 DEF Codec

\* Nothing above its limits gets through a codec of the repository, in any
\* configuration: a frame, a packet, a message, or a head and a body, is
\* measured by Decoder::decode before it is given out.
THEOREM LimitsRespected == Spec => LimitRespected
<1>1. ASSUME NEW c \in Codec PROVE Loop!Limits(c)
  BY LimitsKept DEF Allowed, Loop!Limits, Loop!Bytes, Bytes
<1>2. Loop!Spec => Loop!LimitRespected
  BY <1>1, InputsAreBytes, Loop!RespectedLimit
<1>3. Loop!LimitRespected => LimitRespected
  BY DEF Loop!LimitRespected, LimitRespected, Loop!vars, vars
<1> QED BY <1>2, <1>3, SameLoop, PTL DEF Spec, Loop!Spec

-----------------------------------------------------------------------------
\* A WebSocket echo server can send back whatever it was sent: websocket.rs
\* encodes every message it decoded, and whoever decodes the frame gets the
\* same message, for every stream of bytes and every way to cut it.
THEOREM MessagesEchoed == Spec => [](codec \in WebSocketSized => Forwardable)
<1>1. Loop!LoopIndInv => (codec \in WebSocketSized => Forwardable)
  <2> SUFFICES ASSUME Loop!LoopIndInv, codec \in WebSocketSized, NEW i \in DOMAIN items
               PROVE  /\ Carries(codec, items[i])
                      /\ Decode(codec, PeerEncode(codec, items[i])) = Item(items[i], <<>>)
    BY DEF Forwardable, Item
  <2>1. codec \in WebSocket /\ codec.protocol = "websocket"
    BY DEF WebSocketSized, WebSocket
  <2>2. items[i] \in Loop!Items(codec)
    <3>1. items \in Seq(Loop!Items(codec)) BY DEF Loop!LoopIndInv, Loop!TypeInv
    <3> QED BY <3>1, LenProperties, ElementOfSeq
  <2>3. PICK b \in Seq(Byte) : Decode(codec, b).kind = "item" /\ items[i] = Decode(codec, b).item
    <3>1. Loop!Bytes(codec) = Seq(Byte) BY <2>1 DEF Loop!Bytes, Alphabet, Byte
    <3> QED BY <2>2, <3>1 DEF Loop!Items
  <2>4. Ws!WebSocketMessage(items[i]) /\ Ws!Carries(codec, items[i])
    BY <2>1, <2>3, WsKept DEF Sendable
  <2>5. Carries(codec, items[i]) BY <2>1, <2>4 DEF Carries
  <2> QED BY <2>4, <2>5, WsReturns
<1>2. Spec => []Loop!LoopIndInv
  <2>1. Loop!Spec => []Loop!LoopIndInv BY InputsAreBytes, Loop!LoopInvariance
  <2> QED BY <2>1, SameLoop, PTL DEF Spec, Loop!Spec
<1> QED BY <1>1, <1>2, PTL
=============================================================================
