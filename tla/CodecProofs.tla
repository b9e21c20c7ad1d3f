---------------------------- MODULE CodecProofs -----------------------------
(***************************************************************************)
(* What the decoders answer for any buffer of any length: that an answer   *)
(* stands when more bytes have come, how much a decoder holds back while   *)
(* it asks for more, and that its items keep to its limits.  One section   *)
(* for each codec; HttpCodec follows in StreamDecodingProofs.  At the end  *)
(* a WebSocket message is encoded, masked and decoded.                     *)
(***************************************************************************)
EXTENDS StreamDecoding, CodecResults, SequenceTheorems, WellFoundedInduction, TLAPS

\* What peers of a codec send
Messages(c) ==
  UNION {UNION {ToSet(d.items) : d \in {d \in Dialogues[f] : d.codec = c}} :
           f \in DOMAIN Dialogues}

Loop == INSTANCE DecodeLoopProofs WITH Message <- Messages

LEMMA MinOfNat ==
  ASSUME NEW S \in SUBSET Nat, S # {}
  PROVE  /\ Min(S) \in S /\ \A y \in S : Min(S) <= y
         /\ Frames!Min(S) = Min(S) /\ Mqtt!Min(S) = Min(S) /\ Http!Min(S) = Min(S)
<1>1. PICK x \in S : \A y \in S : x <= y BY Loop!LeastNatural
<1>2. Min(S) \in S /\ \A y \in S : Min(S) <= y BY <1>1, Zenon DEF Min
<1> QED BY <1>2 DEF Min, Frames!Min, Mqtt!Min, Http!Min

-----------------------------------------------------------------------------
\* Parts of a buffer, and what is the same when more bytes have come
LEMMA SequencesOfMore ==
  ASSUME NEW A, NEW B, A \subseteq B, NEW s \in Seq(A)
  PROVE  s \in Seq(B)
<1>1. Len(s) \in Nat /\ \A i \in 1..Len(s) : s[i] \in B BY ElementOfSeq, LenProperties
<1>2. s = [i \in 1..Len(s) |-> s[i]] BY LenProperties
<1> QED BY <1>1, <1>2, IsASeq

LEMMA PartType ==
  ASSUME NEW A, NEW b \in Seq(A), NEW m \in Nat \ {0}, NEW n \in Nat, n <= Len(b)
  PROVE  /\ SubSeq(b, m, n) \in Seq(A)
         /\ Len(SubSeq(b, m, n)) = IF m <= n THEN (n - m) + 1 ELSE 0
         /\ \A i \in 1..(n - m) + 1 : SubSeq(b, m, n)[i] = b[(m + i) - 1]
<1>1. Len(b) \in Nat BY LenProperties
<1>2. \A i \in m..n : b[i] \in A BY <1>1, ElementOfSeq
<1> QED BY <1>1, <1>2, SubSeqProperties

LEMMA Divided ==
  ASSUME NEW A, NEW b \in Seq(A), NEW n \in 1..Len(b)
  PROVE  \E used, rest \in Seq(A) :
           /\ used # <<>> /\ b = used \o rest
           /\ rest = SubSeq(b, n + 1, Len(b))
<1> DEFINE used == SubSeq(b, 1, n)
           rest == SubSeq(b, n + 1, Len(b))
<1>1. Len(b) \in Nat BY LenProperties
<1>2. used \in Seq(A) /\ rest \in Seq(A) /\ Len(used) = n BY <1>1, PartType
<1>3. used # <<>> BY <1>2, EmptySeq
<1>4. used \o rest = SubSeq(b, 1, Len(b)) BY <1>1, ConcatAdjacentSubSeq
<1>5. used \o rest = b BY <1>4, SubSeqFull
<1> HIDE DEF used
<1> QED BY <1>2, <1>3, <1>5, Zenon

LEMMA Rejoined ==
  ASSUME NEW A, NEW b \in Seq(A), NEW n \in 0..Len(b)
  PROVE  SubSeq(b, 1, n) \o SubSeq(b, n + 1, Len(b)) = b
<1>1. Len(b) \in Nat BY LenProperties
<1>2. /\ 1 \in 1..Len(b) + 1 /\ n \in 1 - 1..Len(b) /\ Len(b) \in n..Len(b)
  BY <1>1
<1>3. SubSeq(b, 1, n) \o SubSeq(b, n + 1, Len(b)) = SubSeq(b, 1, Len(b))
  BY <1>2, ConcatAdjacentSubSeq
<1> QED BY <1>3, SubSeqFull

LEMMA LongerHead ==
  ASSUME NEW A, NEW b \in Seq(A), NEW more \in Seq(A)
  PROVE  /\ b \o more \in Seq(A)
         /\ Len(b \o more) = Len(b) + Len(more)
         /\ Len(b) \in Nat /\ Len(more) \in Nat
         /\ \A i \in 1..Len(b) : (b \o more)[i] = b[i]
BY ConcatProperties, LenProperties

LEMMA LongerPart ==
  ASSUME NEW A, NEW b \in Seq(A), NEW more \in Seq(A),
         NEW m \in Nat \ {0}, NEW n \in Nat, n <= Len(b)
  PROVE  SubSeq(b \o more, m, n) = SubSeq(b, m, n)
<1>1. /\ b \o more \in Seq(A) /\ Len(b \o more) = Len(b) + Len(more)
      /\ Len(b) \in Nat /\ Len(more) \in Nat
      /\ \A i \in 1..Len(b) : (b \o more)[i] = b[i]
  BY LongerHead
<1> DEFINE c == b \o more
<1> HIDE DEF c
<1>2. c \in Seq(A) /\ n <= Len(c) /\ \A i \in 1..Len(b) : c[i] = b[i]
  BY <1>1 DEF c
<1>3. /\ SubSeq(b, m, n) \in Seq(A)
      /\ Len(SubSeq(b, m, n)) = IF m <= n THEN (n - m) + 1 ELSE 0
      /\ \A i \in 1..(n - m) + 1 : SubSeq(b, m, n)[i] = b[(m + i) - 1]
  BY PartType
<1>4. /\ SubSeq(c, m, n) \in Seq(A)
      /\ Len(SubSeq(c, m, n)) = IF m <= n THEN (n - m) + 1 ELSE 0
      /\ \A i \in 1..(n - m) + 1 : SubSeq(c, m, n)[i] = c[(m + i) - 1]
  BY <1>2, PartType
<1>5. \A i \in 1..Len(SubSeq(b, m, n)) : SubSeq(b, m, n)[i] = SubSeq(c, m, n)[i]
  <2> SUFFICES ASSUME NEW i \in 1..Len(SubSeq(b, m, n))
               PROVE  SubSeq(b, m, n)[i] = SubSeq(c, m, n)[i]
    OBVIOUS
  <2>1. i \in 1..(n - m) + 1 BY <1>3
  <2>2. (m + i) - 1 \in 1..Len(b) BY <1>1, <2>1
  <2> QED BY <1>2, <1>3, <1>4, <2>1, <2>2
<1>6. SubSeq(c, m, n) = SubSeq(b, m, n) BY <1>3, <1>4, <1>5, SeqEqual
<1> QED BY <1>6 DEF c

Associative(x, y, z) == (x \o y) \o z = x \o (y \o z)

LEMMA Associated ==
  ASSUME NEW A, NEW x \in Seq(A), NEW y \in Seq(A), NEW z \in Seq(A)
  PROVE  Associative(x, y, z)
BY ConcatAssociative DEF Associative

LEMMA LongerTail ==
  ASSUME NEW A, NEW b \in Seq(A), NEW more \in Seq(A), NEW n \in 0..Len(b)
  PROVE  SubSeq(b \o more, n + 1, Len(b \o more)) = SubSeq(b, n + 1, Len(b)) \o more
<1> DEFINE c == b \o more
           first == SubSeq(b, 1, n)
           rest == SubSeq(b, n + 1, Len(b))
           left == SubSeq(c, n + 1, Len(c))
<1>1. /\ c \in Seq(A) /\ Len(c) = Len(b) + Len(more)
      /\ Len(b) \in Nat /\ Len(more) \in Nat
  BY LongerHead
<1>2. first \in Seq(A) /\ rest \in Seq(A)
  <2>1. n \in Nat /\ n + 1 \in Nat \ {0} /\ n <= Len(b) BY <1>1
  <2> QED BY <1>1, <2>1, PartType
<1>3. first \o rest = b BY Rejoined
<1> HIDE DEF c, first, rest, left
<1>4. first \o left = c
  <2>1. SubSeq(c, 1, n) = first
    <3>1. n \in Nat /\ n <= Len(b) /\ 1 \in Nat \ {0} BY <1>1
    <3> QED BY <3>1, LongerPart DEF c, first
  <2>2. n \in 0..Len(c) /\ c \in Seq(A) BY <1>1
  <2>3. SubSeq(c, 1, n) \o SubSeq(c, n + 1, Len(c)) = c BY <2>2, Rejoined
  <2> QED BY <2>1, <2>3 DEF left
<1>5. left \in Seq(A)
  <2>1. n + 1 \in Nat \ {0} /\ Len(c) \in Nat BY <1>1
  <2> QED BY <1>1, <2>1, PartType DEF left
<1>6. (first \o rest) \o more = first \o (rest \o more)
  <2>1. first \in Seq(A) BY <1>2
  <2>2. rest \in Seq(A) BY <1>2
  <2>4. more \in Seq(A) OBVIOUS
  <2> HIDE DEF first, rest
  <2>3. Associative(first, rest, more) BY ONLY <2>1, <2>2, <2>4, Associated
  <2> QED BY ONLY <2>3 DEF Associative
<1>7. rest \o more \in Seq(A) BY <1>2, ConcatProperties
<1>8. first \o left = first \o (rest \o more) BY <1>3, <1>4, <1>6 DEF c
<1>9. left = rest \o more BY <1>2, <1>5, <1>7, <1>8, Loop!Cancel
<1> QED BY <1>9 DEF left, rest, c

\* Where a pattern is found, and where it is found first
Hits(s, pattern, start) ==
  {p \in start..(Len(s) - Len(pattern)) :
     SubSeq(s, p + 1, p + Len(pattern)) = pattern}

LEMMA HitsLater ==
  ASSUME NEW A, NEW b \in Seq(A), NEW more \in Seq(A), NEW B, NEW pattern \in Seq(B),
         NEW start \in Nat
  PROVE  /\ Hits(b, pattern, start) \in SUBSET Nat
         /\ Hits(b \o more, pattern, start) \in SUBSET Nat
         /\ \A p \in Hits(b, pattern, start) :
              /\ p \in Hits(b \o more, pattern, start)
              /\ start <= p /\ p + Len(pattern) <= Len(b)
         /\ \A p \in Hits(b \o more, pattern, start) :
              /\ start <= p
              /\ p + Len(pattern) <= Len(b) => p \in Hits(b, pattern, start)
<1> DEFINE c == b \o more
           n == Len(pattern)
<1>1. c \in Seq(A) /\ Len(c) = Len(b) + Len(more) /\ Len(b) \in Nat /\ Len(more) \in Nat
  BY LongerHead
<1>2. n \in Nat BY LenProperties
<1>3. \A p \in Nat : p + n <= Len(b) =>
        SubSeq(c, p + 1, p + n) = SubSeq(b, p + 1, p + n)
  <2> SUFFICES ASSUME NEW p \in Nat, p + n <= Len(b)
               PROVE  SubSeq(c, p + 1, p + n) = SubSeq(b, p + 1, p + n)
    OBVIOUS
  <2>1. p + 1 \in Nat \ {0} /\ p + n \in Nat BY <1>2
  <2> QED BY <2>1, LongerPart
<1> HIDE DEF c, n
<1>4. \A p \in Hits(b, pattern, start) :
        p \in Nat /\ start <= p /\ p + n <= Len(b) /\ SubSeq(b, p + 1, p + n) = pattern
  BY <1>1, <1>2 DEF Hits, n
<1>5. \A p \in Hits(c, pattern, start) :
        p \in Nat /\ start <= p /\ p + n <= Len(c) /\ SubSeq(c, p + 1, p + n) = pattern
  BY <1>1, <1>2 DEF Hits, n
<1>6. \A p \in Nat : start <= p /\ p + n <= Len(b) /\ SubSeq(b, p + 1, p + n) = pattern
                       => p \in Hits(b, pattern, start)
  BY <1>1, <1>2 DEF Hits, n
<1>7. \A p \in Nat : start <= p /\ p + n <= Len(c) /\ SubSeq(c, p + 1, p + n) = pattern
                       => p \in Hits(c, pattern, start)
  BY <1>1, <1>2 DEF Hits, n
<1>8. \A p \in Nat : p + n <= Len(b) => p + n <= Len(c) BY <1>1, <1>2
<1>9. Hits(b, pattern, start) \in SUBSET Nat /\ Hits(c, pattern, start) \in SUBSET Nat
  BY <1>4, <1>5
<1>10. \A p \in Hits(b, pattern, start) :
         /\ p \in Hits(c, pattern, start)
         /\ start <= p /\ p + n <= Len(b)
  BY <1>3, <1>4, <1>7, <1>8
<1>11. \A p \in Hits(c, pattern, start) :
         /\ start <= p
         /\ p + n <= Len(b) => p \in Hits(b, pattern, start)
  BY <1>3, <1>5, <1>6
<1> QED BY <1>9, <1>10, <1>11 DEF c, n

LEMMA FirstHit ==
  ASSUME NEW A, NEW b \in Seq(A), NEW more \in Seq(A), NEW B, NEW pattern \in Seq(B),
         NEW start \in Nat, Hits(b, pattern, start) # {}
  PROVE  /\ Hits(b \o more, pattern, start) # {}
         /\ Min(Hits(b \o more, pattern, start)) = Min(Hits(b, pattern, start))
         /\ Min(Hits(b, pattern, start)) \in Nat
         /\ start <= Min(Hits(b, pattern, start))
         /\ Min(Hits(b, pattern, start)) + Len(pattern) <= Len(b)
<1> DEFINE S == Hits(b, pattern, start)
           T == Hits(b \o more, pattern, start)
           x == Min(S)
           y == Min(T)
<1>0. Len(b) \in Nat /\ Len(pattern) \in Nat BY LenProperties
<1>1. /\ S \in SUBSET Nat /\ T \in SUBSET Nat
      /\ \A p \in S : p \in T /\ start <= p /\ p + Len(pattern) <= Len(b)
      /\ \A p \in T : p + Len(pattern) <= Len(b) => p \in S
  BY HitsLater
<1> HIDE DEF S, T
<1>2. S # {} /\ T # {} BY <1>1 DEF S
<1>3. x \in S /\ \A p \in S : x <= p BY <1>1, <1>2, MinOfNat
<1>4. y \in T /\ \A p \in T : y <= p BY <1>1, <1>2, MinOfNat
<1> HIDE DEF x, y
<1>5. x \in Nat /\ y \in Nat /\ y <= x BY <1>1, <1>3, <1>4
<1>6. y + Len(pattern) <= Len(b) BY <1>0, <1>1, <1>3, <1>5
<1>7. y \in S BY <1>1, <1>4, <1>6
<1>8. x = y BY <1>3, <1>5, <1>7
<1> QED BY <1>1, <1>2, <1>3, <1>5, <1>8 DEF S, T, x, y

-----------------------------------------------------------------------------
(***************************************************************************)
(* What a codec answers for a buffer stays its answer when more bytes have *)
(* come: an error, or an item with the first n bytes taken off.            *)
(***************************************************************************)
Bytes(c) == Seq(Alphabet(c))

Fails(c, b, e) == \A more \in Bytes(c) : Decode(c, b \o more) = Failed(e)

Yields(c, b, n, x) ==
  \A more \in Bytes(c) :
    Decode(c, b \o more) = Item(x, SubSeq(b \o more, n + 1, Len(b \o more)))

Steady(c, b) ==
  \/ Decode(c, b) = NeedMore
  \/ \E e : e # "none" /\ Fails(c, b, e)
  \/ Decode(c, b) = Failed("FrameTooLarge") /\ CutAtLimit(c, b)
  \/ \E n \in 1..Len(b) : \E x : Yields(c, b, n, x)

\* Less than that: bytes that come later may change the answer
Definite(c, b) ==
  \/ Decode(c, b) = NeedMore
  \/ \E e : e # "none" /\ Decode(c, b) = Failed(e)
  \/ \E n \in 1..Len(b) : \E x : Decode(c, b) = Item(x, SubSeq(b, n + 1, Len(b)))

\* What it gives out keeps to the limits of the codec
Allowed(c, b) ==
  Decode(c, b).kind = "item" =>
    WithinLimit(c, Decode(c, b).item, Len(b) - Len(Decode(c, b).rest))

LEMMA NoItem ==
  ASSUME NEW c, NEW b, \/ Decode(c, b) = NeedMore
                       \/ \E e : Decode(c, b) = Failed(e)
  PROVE  Allowed(c, b)
BY DEF Allowed, NeedMore, Failed

LEMMA ItemAllowed ==
  ASSUME NEW c, NEW b \in Bytes(c), NEW n \in 1..Len(b), NEW x,
         Decode(c, b) = Item(x, SubSeq(b, n + 1, Len(b))), WithinLimit(c, x, n)
  PROVE  Allowed(c, b)
<1> DEFINE rest == SubSeq(b, n + 1, Len(b))
           l == Len(b)
<1>1. l \in Nat /\ n \in 1..l BY LenProperties DEF Bytes
<1>2. Len(rest) = IF n + 1 <= l THEN (l - (n + 1)) + 1 ELSE 0
  <2>1. n + 1 \in Nat \ {0} /\ Len(b) \in Nat /\ Len(b) <= Len(b) BY <1>1
  <2> QED BY <2>1, PartType DEF Bytes
<1>3. Decode(c, b).item = x /\ Decode(c, b).rest = rest BY DEF Item
<1> HIDE DEF rest, l
<1>4. l - Len(rest) = n BY <1>1, <1>2
<1> QED BY <1>3, <1>4 DEF Allowed, l

LEMMA SteadyDefinite ==
  ASSUME NEW c, NEW b \in Bytes(c), Steady(c, b)
  PROVE  Definite(c, b)
<1>1. <<>> \in Bytes(c) /\ b \o <<>> = b BY EmptySeq, ConcatEmptySeq DEF Bytes
<1>2. ASSUME NEW e, e # "none", Fails(c, b, e) PROVE Definite(c, b)
  BY <1>1, <1>2 DEF Definite, Fails
<1>3. ASSUME NEW n \in 1..Len(b), NEW x, Yields(c, b, n, x) PROVE Definite(c, b)
  BY <1>1, <1>3 DEF Definite, Yields
<1>4. CASE Decode(c, b) = NeedMore BY <1>4 DEF Definite
<1>5. CASE Decode(c, b) = Failed("FrameTooLarge")
  <2>1. "FrameTooLarge" # "none" OBVIOUS
  <2> QED BY <1>5, <2>1 DEF Definite
<1> HIDE DEF NeedMore
<1> QED BY <1>2, <1>3, <1>4, <1>5 DEF Steady

LEMMA DefiniteAnswers ==
  ASSUME NEW c, Decode(c, <<>>) = NeedMore, \A b \in Bytes(c) : Definite(c, b)
  PROVE  Loop!Answers(c)
<1> DEFINE Three(b) ==
             \/ Decode(c, b) = NeedMore
             \/ \E e : e # "none" /\ Decode(c, b) = Failed(e)
             \/ \E item : \E used, rest \in Bytes(c) :
                  used # <<>> /\ b = used \o rest /\ Decode(c, b) = Item(item, rest)
<1>1. ASSUME NEW b \in Bytes(c), NEW n \in 1..Len(b), NEW x,
             Decode(c, b) = Item(x, SubSeq(b, n + 1, Len(b)))
      PROVE  Three(b)
  <2>1. PICK used \in Bytes(c), rest \in Bytes(c) :
          /\ used # <<>> /\ b = used \o rest
          /\ rest = SubSeq(b, n + 1, Len(b))
    BY Divided DEF Bytes
  <2>2. Decode(c, b) = Item(x, rest) BY <1>1, <2>1
  <2> QED BY <2>1, <2>2
<1>2. ASSUME NEW b \in Bytes(c) PROVE Three(b)
  <2>1. Definite(c, b) OBVIOUS
  <2>2. ASSUME NEW n \in 1..Len(b),
               \E x : Decode(c, b) = Item(x, SubSeq(b, n + 1, Len(b)))
        PROVE  Three(b)
    BY <1>1, <2>2
  <2>3. CASE Decode(c, b) = NeedMore BY <2>3
  <2>4. CASE \E e : e # "none" /\ Decode(c, b) = Failed(e) BY <2>4
  <2> HIDE DEF Three
  <2> QED BY <2>1, <2>2, <2>3, <2>4 DEF Definite
<1>3. \A b \in Bytes(c) : Three(b) BY <1>2
<1>4. Decode(c, <<>>) = Loop!NeedMore BY DEF Loop!NeedMore, NeedMore
<1>5. ASSUME NEW b \in Loop!Bytes(c)
      PROVE  \/ Decode(c, b) = Loop!NeedMore
             \/ \E e : e # "none" /\ Decode(c, b) = Loop!Failed(e)
             \/ \E item : \E used, rest \in Loop!Bytes(c) :
                  used # <<>> /\ b = used \o rest /\ Decode(c, b) = Loop!Item(item, rest)
  <2>1. Loop!Bytes(c) = Bytes(c) BY DEF Loop!Bytes, Bytes
  <2>2. Three(b) BY <1>3, <2>1
  <2>3. CASE Decode(c, b) = NeedMore BY <2>3 DEF Loop!NeedMore, NeedMore
  <2>4. CASE \E e : e # "none" /\ Decode(c, b) = Failed(e)
    BY <2>4 DEF Loop!Failed, Failed
  <2>5. CASE \E item : \E used, rest \in Bytes(c) :
               used # <<>> /\ b = used \o rest /\ Decode(c, b) = Item(item, rest)
    <3>1. PICK item, used, rest :
            /\ used \in Bytes(c) /\ rest \in Bytes(c)
            /\ used # <<>> /\ b = used \o rest /\ Decode(c, b) = Item(item, rest)
      BY <2>5
    <3>2. Decode(c, b) = Loop!Item(item, rest) BY <3>1 DEF Loop!Item, Item
    <3> QED BY <2>1, <3>1, <3>2
  <2> QED BY ONLY <2>2, <2>3, <2>4, <2>5
<1> QED BY <1>4, <1>5 DEF Loop!Answers

LEMMA SteadyStable ==
  ASSUME NEW c, \A b \in Bytes(c) : Steady(c, b)
  PROVE  Loop!Stable(c)
<1> SUFFICES ASSUME NEW b \in Bytes(c), NEW more \in Bytes(c)
             PROVE  /\ Decode(c, b).kind = "item" =>
                         Decode(c, b \o more)
                           = Item(Decode(c, b).item, Decode(c, b).rest \o more)
                    /\ Decode(c, b).kind = "error" =>
                         \/ Decode(c, b \o more) = Decode(c, b)
                         \/ /\ Decode(c, b).error = "FrameTooLarge"
                            /\ CutAtLimit(c, b)
  BY DEF Loop!Stable, Loop!Bytes, Bytes, Loop!Item, Item
<1>1. <<>> \in Bytes(c) /\ b \o <<>> = b BY EmptySeq, ConcatEmptySeq DEF Bytes
<1>2. CASE Decode(c, b) = NeedMore BY <1>2 DEF NeedMore
<1>3. CASE Decode(c, b) = Failed("FrameTooLarge") /\ CutAtLimit(c, b)
  BY <1>3 DEF Failed
<1>4. ASSUME NEW e, Fails(c, b, e)
      PROVE  Decode(c, b) = Failed(e) /\ Decode(c, b \o more) = Failed(e)
  BY <1>1, <1>4 DEF Fails
<1>5. ASSUME NEW n \in 1..Len(b), NEW x, Yields(c, b, n, x)
      PROVE  /\ Decode(c, b).kind = "item"
             /\ Decode(c, b \o more)
                  = Item(Decode(c, b).item, Decode(c, b).rest \o more)
  <2> DEFINE rest == SubSeq(b, n + 1, Len(b))
             longer == SubSeq(b \o more, n + 1, Len(b \o more))
  <2>1. Decode(c, b) = Item(x, rest) BY <1>1, <1>5 DEF Yields
  <2>2. Decode(c, b \o more) = Item(x, longer) BY <1>5 DEF Yields
  <2>3. longer = rest \o more
    <3>1. n \in 0..Len(b) OBVIOUS
    <3> QED BY <3>1, LongerTail DEF Bytes
  <2> HIDE DEF rest, longer
  <2> QED BY <2>1, <2>2, <2>3 DEF Item
<1>6. Steady(c, b) OBVIOUS
<1>7. CASE \E e : e # "none" /\ Fails(c, b, e)
  <2>1. PICK e : Fails(c, b, e) BY <1>7
  <2> QED BY <1>4, <2>1 DEF Failed
<1>8. CASE \E n \in 1..Len(b) : \E x : Yields(c, b, n, x)
  <2>1. PICK n \in 1..Len(b) : \E x : Yields(c, b, n, x) BY <1>8
  <2>2. PICK x : Yields(c, b, n, x) BY <2>1
  <2> QED BY <1>5, <2>2
<1> QED BY <1>2, <1>3, <1>6, <1>7, <1>8 DEF Steady

-----------------------------------------------------------------------------
\* LineCodec
LF == <<10>>

LineOf(s, pos) == IF pos > 0 /\ s[pos] = 13 THEN SubSeq(s, 1, pos - 1)
                                            ELSE SubSeq(s, 1, pos)

LineFound(c, s, pos) ==
  IF pos > c.max THEN Failed("FrameTooLarge")
  ELSE IF ~Frames!ValidUtf8(LineOf(s, pos)) THEN Failed("Decode")
  ELSE Item(LineOf(s, pos), SubSeq(s, pos + 2, Len(s)))

LEMMA DecodeOfLine ==
  ASSUME NEW c \in LineCodec, NEW s \in Seq(Nat)
  PROVE  Decode(c, s) = IF Hits(s, LF, 0) = {}
                          THEN IF Len(s) > c.max THEN Failed("FrameTooLarge")
                                                 ELSE NeedMore
                          ELSE LineFound(c, s, Min(Hits(s, LF, 0)))
<1> DEFINE hits == Hits(s, LF, 0)
           pos == Min(hits)
<1>1. Decode(c, s) = Frames!DecodeLine(c, s)
  BY DEF LineCodec, Decode, Frames!DecodeFrame
<1>2. LF \in Seq(Nat) BY DEF LF
<1>3. hits \in SUBSET Nat
  <2>1. <<>> \in Seq(Nat) BY EmptySeq
  <2> QED BY <1>2, <2>1, HitsLater
<1>4. Frames!Positions(s, <<Frames!LF>>) = hits
  BY DEF Frames!Positions, Frames!LF, Hits, LF
<1> HIDE DEF hits
<1>5. CASE hits = {}
  BY <1>1, <1>4, <1>5 DEF Frames!DecodeLine, Frames!Failed, Failed,
     Frames!NeedMore, NeedMore, hits
<1>6. CASE hits # {}
  <2>1. Frames!Min(hits) = pos /\ pos \in Nat BY <1>3, <1>6, MinOfNat
  <2> HIDE DEF pos
  <2>2. /\ Frames!Take(s, pos - 1) = SubSeq(s, 1, pos - 1)
        /\ Frames!Take(s, pos) = SubSeq(s, 1, pos)
    BY DEF Frames!Take
  <2>3. (IF pos > 0 /\ s[pos] = Frames!CR THEN Frames!Take(s, pos - 1)
                                          ELSE Frames!Take(s, pos)) = LineOf(s, pos)
    BY <2>2 DEF LineOf, Frames!CR
  <2>4. Frames!Drop(s, pos + 1) = SubSeq(s, pos + 2, Len(s))
    <3>1. (pos + 1) + 1 = pos + 2 BY <2>1
    <3> QED BY <3>1 DEF Frames!Drop
  <2>5. Decode(c, s) = IF pos > c.max THEN Frames!Failed("FrameTooLarge")
                       ELSE IF ~Frames!ValidUtf8(LineOf(s, pos)) THEN Frames!Failed("Decode")
                       ELSE Frames!Item(LineOf(s, pos), Frames!Drop(s, pos + 1))
    BY <1>1, <1>4, <1>6, <2>1, <2>3, Zenon DEF Frames!DecodeLine
  <2>6. Decode(c, s) = LineFound(c, s, pos)
    BY <2>4, <2>5 DEF LineFound, Frames!Failed, Failed, Frames!Item, Item
  <2> QED BY <1>6, <2>6 DEF pos, hits
<1> QED BY <1>5, <1>6

LEMMA LineSteady ==
  ASSUME NEW c \in LineCodec, NEW b \in Bytes(c)
  PROVE  Steady(c, b)
<1> DEFINE hits == Hits(b, LF, 0)
           pos == Min(hits)
           x == LineOf(b, pos)
<1>1. c.max \in Nat /\ Bytes(c) = Seq(Nat) BY DEF LineCodec, Bytes, Alphabet
<1>2. b \in Seq(Nat) /\ LF \in Seq(Nat) /\ Len(LF) = 1 /\ Len(b) \in Nat
  BY <1>1 DEF LF
<1>3. CASE hits = {} /\ ~(Len(b) > c.max)
  BY <1>2, <1>3, DecodeOfLine DEF Steady
<1>4. CASE hits = {} /\ Len(b) > c.max
  <2>1. ASSUME NEW more \in Seq(Nat) PROVE Decode(c, b \o more) = Failed("FrameTooLarge")
    <3> DEFINE s == b \o more
               later == Hits(s, LF, 0)
               at == Min(later)
    <3>1. s \in Seq(Nat) /\ Len(s) >= Len(b) /\ Len(s) \in Nat BY <1>2, LongerHead
    <3>2. later \in SUBSET Nat /\ \A p \in later : p + 1 <= Len(b) => p \in hits
      BY <1>2, HitsLater
    <3> HIDE DEF hits, later, at, s
    <3>3. CASE later = {}
      <4>1. Len(s) > c.max BY <1>1, <1>2, <1>4, <3>1
      <4>2. Decode(c, s) = Failed("FrameTooLarge")
        BY <3>1, <3>3, <4>1, DecodeOfLine DEF later
      <4> QED BY <4>2 DEF s
    <3>4. CASE later # {}
      <4>1. at \in later BY <3>2, <3>4, MinOfNat DEF at
      <4>2. at \in Nat /\ at > c.max BY <1>1, <1>2, <1>4, <3>2, <4>1
      <4>3. Decode(c, s) = LineFound(c, s, at) BY <3>1, <3>4, DecodeOfLine DEF later, at
      <4> QED BY <4>2, <4>3 DEF LineFound, s
    <3> QED BY <3>3, <3>4
  <2>2. Fails(c, b, "FrameTooLarge") BY <1>1, <2>1 DEF Fails
  <2> QED BY <2>2 DEF Steady
<1>5. CASE hits # {}
  <2>1. pos \in Nat /\ pos + 1 <= Len(b)
    <3>1. <<>> \in Seq(Nat) /\ 0 \in Nat BY EmptySeq
    <3> QED BY <1>2, <1>5, <3>1, FirstHit
  <2>2. ASSUME NEW more \in Seq(Nat)
        PROVE  Decode(c, b \o more) = LineFound(c, b \o more, pos)
    <3>1. 0 \in Nat /\ b \o more \in Seq(Nat) BY <1>2, LongerHead
    <3>2. Hits(b \o more, LF, 0) # {} /\ Min(Hits(b \o more, LF, 0)) = pos
      BY <1>2, <1>5, <3>1, FirstHit
    <3> HIDE DEF pos
    <3> QED BY <3>1, <3>2, DecodeOfLine
  <2> HIDE DEF pos, hits
  <2>3. ASSUME NEW more \in Seq(Nat) PROVE LineOf(b \o more, pos) = x
    <3>1. pos > 0 => (b \o more)[pos] = b[pos] BY <1>2, <2>1, LongerHead
    <3>2. /\ SubSeq(b \o more, 1, pos) = SubSeq(b, 1, pos)
          /\ pos > 0 => SubSeq(b \o more, 1, pos - 1) = SubSeq(b, 1, pos - 1)
      <4>1. 1 \in Nat \ {0} /\ pos <= Len(b) BY <1>2, <2>1
      <4>2. pos > 0 => pos - 1 \in Nat /\ pos - 1 <= Len(b) BY <1>2, <2>1
      <4> QED BY <1>2, <2>1, <4>1, <4>2, LongerPart
    <3> QED BY <3>1, <3>2 DEF LineOf
  <2> HIDE DEF x
  <2>4. ASSUME NEW more \in Seq(Nat)
        PROVE  Decode(c, b \o more)
                 = IF pos > c.max THEN Failed("FrameTooLarge")
                   ELSE IF ~Frames!ValidUtf8(x) THEN Failed("Decode")
                   ELSE Item(x, SubSeq(b \o more, pos + 2, Len(b \o more)))
    BY <2>2, <2>3, Zenon DEF LineFound
  <2>5. CASE pos > c.max
    <3>1. Fails(c, b, "FrameTooLarge") BY <1>1, <2>4, <2>5 DEF Fails
    <3> QED BY <3>1 DEF Steady
  <2>6. CASE ~(pos > c.max) /\ ~Frames!ValidUtf8(x)
    <3>1. Fails(c, b, "Decode") BY <1>1, <2>4, <2>6 DEF Fails
    <3> QED BY <3>1 DEF Steady
  <2>7. CASE ~(pos > c.max) /\ Frames!ValidUtf8(x)
    <3>1. (pos + 1) + 1 = pos + 2 /\ pos + 1 \in 1..Len(b) BY <1>2, <2>1
    <3>2. Yields(c, b, pos + 1, x) BY <1>1, <2>4, <2>7, <3>1 DEF Yields
    <3> QED BY <3>1, <3>2 DEF Steady
  <2> QED BY <2>5, <2>6, <2>7
<1> QED BY <1>3, <1>4, <1>5

LEMMA LineFrugal ==
  ASSUME NEW c \in LineCodec, NEW b \in Bytes(c), Decode(c, b) = NeedMore
  PROVE  Len(b) <= Held(c)
<1>1. /\ c.max \in Nat /\ b \in Seq(Nat) /\ Len(b) \in Nat
      /\ c.protocol = "frames" /\ c.kind = "line"
  BY DEF LineCodec, Bytes, Alphabet
<1>2. Held(c) = c.max BY <1>1 DEF Held, Frames!Held
<1> DEFINE hits == Hits(b, LF, 0)
           pos == Min(hits)
<1> HIDE DEF hits, pos
<1>3. Decode(c, b) = IF hits = {}
                       THEN IF Len(b) > c.max THEN Failed("FrameTooLarge")
                                              ELSE NeedMore
                       ELSE LineFound(c, b, pos)
  BY <1>1, DecodeOfLine DEF hits, pos
<1>4. LineFound(c, b, pos) # NeedMore BY DEF LineFound, Failed, Item, NeedMore
<1> QED BY <1>1, <1>2, <1>3, <1>4 DEF Failed, NeedMore

LEMMA LineLimits ==
  ASSUME NEW c \in LineCodec, NEW b \in Bytes(c)
  PROVE  Allowed(c, b)
<1> SUFFICES ASSUME Decode(c, b).kind = "item"
             PROVE  WithinLimit(c, Decode(c, b).item, Len(b) - Len(Decode(c, b).rest))
  BY DEF Allowed
<1>1. /\ c.max \in Nat /\ b \in Seq(Nat) /\ Len(b) \in Nat
      /\ c.protocol = "frames" /\ c.kind = "line"
  BY DEF LineCodec, Bytes, Alphabet
<1> DEFINE hits == Hits(b, LF, 0)
           pos == Min(hits)
<1>2. hits # {} => pos \in Nat /\ pos + 1 <= Len(b)
  <2>1. LF \in Seq(Nat) /\ Len(LF) = 1 /\ <<>> \in Seq(Nat) BY EmptySeq DEF LF
  <2> QED BY <1>1, <2>1, FirstHit
<1> HIDE DEF hits, pos
<1>3. Decode(c, b) = IF hits = {}
                       THEN IF Len(b) > c.max THEN Failed("FrameTooLarge")
                                              ELSE NeedMore
                       ELSE LineFound(c, b, pos)
  BY <1>1, DecodeOfLine DEF hits, pos
<1>4. /\ hits # {} /\ ~(pos > c.max)
      /\ Decode(c, b).item = LineOf(b, pos)
  BY <1>3 DEF LineFound, Failed, Item, NeedMore
<1>5. Len(LineOf(b, pos)) <= pos
  <2>1. 1 \in Nat \ {0} /\ pos \in Nat /\ pos <= Len(b) BY <1>1, <1>2, <1>4
  <2>2. Len(SubSeq(b, 1, pos)) = IF 1 <= pos THEN (pos - 1) + 1 ELSE 0
    BY <1>1, <2>1, PartType
  <2>3. ASSUME pos > 0 PROVE Len(SubSeq(b, 1, pos - 1)) <= pos
    <3>1. pos - 1 \in Nat /\ pos - 1 <= Len(b) BY <2>1, <2>3
    <3>2. Len(SubSeq(b, 1, pos - 1)) = IF 1 <= pos - 1 THEN ((pos - 1) - 1) + 1 ELSE 0
      BY <1>1, <2>1, <3>1, PartType
    <3> QED BY <2>1, <3>2
  <2> QED BY <2>1, <2>2, <2>3 DEF LineOf
<1>6. LineOf(b, pos) \in Seq(Nat)
  <2>1. 1 \in Nat \ {0} /\ pos \in Nat /\ pos <= Len(b) BY <1>1, <1>2, <1>4
  <2>2. SubSeq(b, 1, pos) \in Seq(Nat) BY <1>1, <2>1, PartType
  <2>3. ASSUME pos > 0 PROVE SubSeq(b, 1, pos - 1) \in Seq(Nat)
    <3>1. pos - 1 \in Nat /\ pos - 1 <= Len(b) BY <2>1, <2>3
    <3> QED BY <1>1, <2>1, <3>1, PartType
  <2> QED BY <2>1, <2>2, <2>3 DEF LineOf
<1>7. Len(LineOf(b, pos)) \in Nat BY <1>6, LenProperties
<1>8. Len(LineOf(b, pos)) <= c.max BY <1>1, <1>2, <1>4, <1>5, <1>7
<1> QED BY <1>1, <1>4, <1>8 DEF WithinLimit, Frames!WithinLimit

-----------------------------------------------------------------------------
\* FixedLengthFrameDecoder and ByteArrayDecoder
LEMMA FixedSteady ==
  ASSUME NEW c \in FixedLength, NEW b \in Bytes(c)
  PROVE  /\ Steady(c, b)
         /\ Decode(c, b) = NeedMore => Len(b) <= Held(c)
         /\ Allowed(c, b)
<1> DEFINE n == c.length
           x == SubSeq(b, 1, n)
<1>1. /\ c.protocol = "frames" /\ c.kind = "fixed" /\ n \in Nat \ {0}
      /\ Bytes(c) = Seq(Nat) /\ b \in Seq(Nat) /\ Len(b) \in Nat
      /\ Held(c) = n - 1
  BY DEF FixedLength, Bytes, Alphabet, Held, Frames!Held
<1>2. ASSUME NEW s \in Seq(Nat)
      PROVE  Decode(c, s) = IF Len(s) < n THEN NeedMore
                            ELSE Item(SubSeq(s, 1, n), SubSeq(s, n + 1, Len(s)))
  BY <1>1 DEF Decode, Frames!DecodeFrame, Frames!DecodeFixed, Frames!Item, Item,
     Frames!NeedMore, NeedMore, Frames!Take, Frames!Drop
<1>3. CASE Len(b) < n
  <2>1. Decode(c, b) = NeedMore BY <1>1, <1>2, <1>3
  <2> QED BY <1>1, <1>3, <2>1, NoItem DEF Steady
<1>4. CASE ~(Len(b) < n)
  <2> HIDE DEF n, x
  <2>1. ASSUME NEW more \in Seq(Nat)
        PROVE  Decode(c, b \o more)
                 = Item(x, SubSeq(b \o more, n + 1, Len(b \o more)))
    <3>1. /\ b \o more \in Seq(Nat) /\ Len(b \o more) = Len(b) + Len(more)
          /\ Len(more) \in Nat
      BY <1>1, LongerHead
    <3>2. SubSeq(b \o more, 1, n) = x
      <4>1. 1 \in Nat \ {0} /\ n \in Nat /\ n <= Len(b) BY <1>1, <1>4
      <4> QED BY <1>1, <4>1, LongerPart DEF x
    <3>3. ~(Len(b \o more) < n) BY <1>1, <1>4, <3>1
    <3> QED BY <1>2, <3>1, <3>2, <3>3
  <2>2. n \in 1..Len(b) /\ Yields(c, b, n, x) BY <1>1, <1>4, <2>1 DEF Yields
  <2>3. Len(x) = n
    <3>1. 1 \in Nat \ {0} /\ n \in Nat /\ n <= Len(b) BY <1>1, <1>4
    <3>2. Len(x) = IF 1 <= n THEN (n - 1) + 1 ELSE 0
      BY <1>1, <3>1, PartType DEF x
    <3> QED BY <1>1, <3>2
  <2>4. Decode(c, b) = Item(x, SubSeq(b, n + 1, Len(b)))
    BY <1>1, <1>2, <1>4 DEF x
  <2>5. WithinLimit(c, x, n)
    BY <1>1, <2>3 DEF WithinLimit, Frames!WithinLimit, n
  <2>6. Allowed(c, b) BY <1>1, <2>2, <2>4, <2>5, ItemAllowed
  <2> QED BY <2>2, <2>4, <2>6 DEF Steady, Item, NeedMore
<1> QED BY <1>3, <1>4

LEMMA BytesTaken ==
  ASSUME NEW c \in ByteArray, NEW b \in Bytes(c)
  PROVE  /\ Decode(c, b) = IF b = <<>> THEN NeedMore ELSE Item(b, <<>>)
         /\ Decode(c, b) = NeedMore => Len(b) <= Held(c)
         /\ Allowed(c, b)
<1>1. /\ c.protocol = "frames" /\ c.kind = "bytes" /\ Held(c) = 0
      /\ \A item, taken : WithinLimit(c, item, taken)
  BY DEF ByteArray, Held, Frames!Held, WithinLimit, Frames!WithinLimit
<1>2. Decode(c, b) = IF b = <<>> THEN NeedMore ELSE Item(b, <<>>)
  BY <1>1 DEF Decode, Frames!DecodeFrame, Frames!DecodeBytes, Frames!Item, Item,
     Frames!NeedMore, NeedMore
<1>3. b = <<>> => Len(b) = 0 BY EmptySeq
<1> QED BY <1>1, <1>2, <1>3 DEF Allowed, Item, NeedMore

-----------------------------------------------------------------------------
\* LengthFieldBasedFrameDecoder
FieldEnd(c) == c.offset + c.width

Adjusted(c, s) == Frames!read_frame_length(c, s) + c.adjust

LengthRefused(c, adjusted) ==
  \/ c.width \notin Frames!Widths
  \/ adjusted \notin 0..Frames!UsizeMax
  \/ FieldEnd(c) + adjusted > Frames!UsizeMax

LengthFound(c, s, adjusted) ==
  IF LengthRefused(c, adjusted) THEN Failed("Decode")
  ELSE IF FieldEnd(c) + adjusted > c.max THEN Failed("FrameTooLarge")
  ELSE IF Len(s) < FieldEnd(c) + adjusted THEN NeedMore
  ELSE IF c.strip > FieldEnd(c) + adjusted THEN Failed("Decode")
  ELSE Item(SubSeq(s, c.strip + 1, FieldEnd(c) + adjusted),
            SubSeq(s, FieldEnd(c) + adjusted + 1, Len(s)))

LEMMA DecodeOfLength ==
  ASSUME NEW c \in LengthField, NEW s
  PROVE  Decode(c, s) = IF Len(s) < FieldEnd(c) THEN NeedMore
                        ELSE LengthFound(c, s, Adjusted(c, s))
<1>1. Decode(c, s) = Frames!DecodeLength(c, s)
  BY DEF LengthField, Decode, Frames!DecodeFrame
<1> QED
  BY <1>1 DEF Frames!DecodeLength, Frames!Item, Item, Frames!Failed, Failed,
     Frames!NeedMore, NeedMore, Frames!Drop, FieldEnd, Adjusted, LengthFound,
     LengthRefused

\* The field is read from bytes that have arrived
LEMMA AdjustedLater ==
  ASSUME NEW c \in LengthField, NEW b \in Seq(Nat), NEW more \in Seq(Nat),
         FieldEnd(c) <= Len(b)
  PROVE  Adjusted(c, b \o more) = Adjusted(c, b)
<1>1. c.offset + 1 \in Nat \ {0} /\ c.offset + c.width \in Nat
  BY DEF LengthField
<1>2. SubSeq(b \o more, c.offset + 1, c.offset + c.width)
        = SubSeq(b, c.offset + 1, c.offset + c.width)
  BY <1>1, LongerPart DEF FieldEnd
<1> QED BY <1>2 DEF Adjusted, Frames!read_frame_length

LEMMA LengthType ==
  ASSUME NEW c \in LengthField
  PROVE  /\ c.protocol = "frames" /\ c.kind = "length"
         /\ c.max \in Nat /\ c.strip \in Nat /\ FieldEnd(c) \in Nat
         /\ \A adjusted : ~LengthRefused(c, adjusted) =>
              /\ adjusted \in Nat
              /\ FieldEnd(c) + adjusted \in Nat \ {0}
<1>1. /\ c.protocol = "frames" /\ c.kind = "length"
      /\ c.max \in Nat /\ c.strip \in Nat /\ c.offset \in Nat /\ c.width \in Nat
  BY DEF LengthField
<1>2. \A adjusted : ~LengthRefused(c, adjusted) =>
        adjusted \in Nat /\ c.width > 0
  BY DEF LengthRefused, Frames!Widths
<1>3. FieldEnd(c) \in Nat /\ (c.width > 0 => FieldEnd(c) > 0)
  BY <1>1 DEF FieldEnd
<1>4. ASSUME NEW adjusted, ~LengthRefused(c, adjusted)
      PROVE  adjusted \in Nat /\ FieldEnd(c) + adjusted \in Nat \ {0}
  <2>1. adjusted \in Nat /\ FieldEnd(c) > 0 BY <1>2, <1>3, <1>4
  <2> QED BY <1>3, <2>1
<1> QED BY <1>1, <1>3, <1>4

LEMMA LengthSteady ==
  ASSUME NEW c \in LengthField, NEW b \in Bytes(c)
  PROVE  /\ Steady(c, b)
         /\ Decode(c, b) = NeedMore => Len(b) <= Held(c)
         /\ Allowed(c, b)
<1> DEFINE v == Adjusted(c, b)
           end == FieldEnd(c) + v
           x == SubSeq(b, c.strip + 1, end)
<1>1. Bytes(c) = Seq(Nat) BY DEF LengthField, Bytes, Alphabet
<1>2. b \in Seq(Nat) /\ Len(b) \in Nat BY <1>1
<1>3. /\ c.protocol = "frames" /\ c.kind = "length"
      /\ c.max \in Nat /\ c.strip \in Nat /\ FieldEnd(c) \in Nat
      /\ ~LengthRefused(c, v) => v \in Nat /\ end \in Nat \ {0}
  BY LengthType
<1>4. Held(c) \in Int /\ FieldEnd(c) - 1 <= Held(c) /\ c.max - 1 <= Held(c)
  <2> DEFINE S == {c.offset + c.width, c.max}
  <2>1. S = {FieldEnd(c), c.max} BY DEF FieldEnd
  <2>2. S \in SUBSET Nat /\ S # {} BY <1>3, <2>1
  <2> HIDE DEF S
  <2>4. PICK m \in S : \A y \in S : m >= y BY <1>3, <2>1
  <2>5. Frames!Max(S) \in S /\ \A y \in S : Frames!Max(S) >= y
    BY <2>4, Zenon DEF Frames!Max
  <2>6. Held(c) = Frames!Max(S) - 1 BY <1>3 DEF Held, Frames!Held, S
  <2>7. Frames!Max(S) \in Nat BY <2>2, <2>5
  <2> QED BY <1>3, <2>1, <2>5, <2>6, <2>7
<1>5. Decode(c, b) = IF Len(b) < FieldEnd(c) THEN NeedMore
                     ELSE LengthFound(c, b, v)
  BY DecodeOfLength
<1>7. CASE Len(b) < FieldEnd(c)
  <2>1. Decode(c, b) = NeedMore BY <1>5, <1>7
  <2> QED BY <1>2, <1>3, <1>4, <1>7, <2>1, NoItem DEF Steady
<1> HIDE DEF v, end, x
<1>8. CASE ~(Len(b) < FieldEnd(c))
  <2>1. Decode(c, b) = LengthFound(c, b, v) BY <1>5, <1>8
  <2>2. ASSUME NEW more \in Seq(Nat)
        PROVE  Decode(c, b \o more) = LengthFound(c, b \o more, v)
    <3>1. /\ b \o more \in Seq(Nat) /\ Len(b \o more) = Len(b) + Len(more)
          /\ Len(more) \in Nat
      BY <1>2, LongerHead
    <3>2. Adjusted(c, b \o more) = v BY <1>2, <1>3, <1>8, AdjustedLater DEF v
    <3>3. ~(Len(b \o more) < FieldEnd(c)) BY <1>2, <1>3, <1>8, <3>1
    <3> QED BY <3>2, <3>3, DecodeOfLength
  <2>3. ASSUME NEW s
        PROVE  LengthFound(c, s, v) =
                 IF LengthRefused(c, v) THEN Failed("Decode")
                 ELSE IF end > c.max THEN Failed("FrameTooLarge")
                 ELSE IF Len(s) < end THEN NeedMore
                 ELSE IF c.strip > end THEN Failed("Decode")
                 ELSE Item(SubSeq(s, c.strip + 1, end), SubSeq(s, end + 1, Len(s)))
    BY Zenon DEF LengthFound, end
  <2>4. CASE LengthRefused(c, v)
    <3>1. Fails(c, b, "Decode") BY <1>1, <2>2, <2>3, <2>4 DEF Fails
    <3>2. Decode(c, b) = Failed("Decode") BY <2>1, <2>3, <2>4
    <3>3. Allowed(c, b) BY <3>2, NoItem
    <3> QED BY <3>1, <3>2, <3>3 DEF Steady, Failed, NeedMore
  <2>5. CASE ~LengthRefused(c, v) /\ end > c.max
    <3>1. Fails(c, b, "FrameTooLarge") BY <1>1, <2>2, <2>3, <2>5 DEF Fails
    <3>2. Decode(c, b) = Failed("FrameTooLarge") BY <2>1, <2>3, <2>5
    <3>3. Allowed(c, b) BY <3>2, NoItem
    <3> QED BY <3>1, <3>2, <3>3 DEF Steady, Failed, NeedMore
  <2>6. CASE ~LengthRefused(c, v) /\ ~(end > c.max) /\ Len(b) < end
    <3>1. Decode(c, b) = NeedMore BY <2>1, <2>3, <2>6
    <3>2. Len(b) <= c.max - 1 BY <1>2, <1>3, <2>6
    <3>3. Len(b) <= Held(c) BY <1>2, <1>3, <1>4, <3>2
    <3> QED BY <3>1, <3>3, NoItem DEF Steady
  <2>7. CASE /\ ~LengthRefused(c, v) /\ ~(end > c.max) /\ ~(Len(b) < end)
    <3>0. end \in Nat \ {0} /\ end <= Len(b) /\ end <= c.max
      BY <1>2, <1>3, <2>7
    <3>1. ASSUME NEW more \in Seq(Nat)
          PROVE  Decode(c, b \o more)
                   = IF c.strip > end THEN Failed("Decode")
                     ELSE Item(x, SubSeq(b \o more, end + 1, Len(b \o more)))
      <4>1. Len(b \o more) = Len(b) + Len(more) /\ Len(more) \in Nat
        BY <1>2, LongerHead
      <4>2. ~(Len(b \o more) < end) BY <1>2, <3>0, <4>1
      <4>3. SubSeq(b \o more, c.strip + 1, end) = x
        <5> DEFINE from == c.strip + 1
        <5>1. /\ b \in Seq(Nat) /\ more \in Seq(Nat)
              /\ from \in Nat \ {0} /\ end \in Nat /\ end <= Len(b)
          BY <1>2, <1>3, <3>0
        <5> HIDE DEF from
        <5>2. SubSeq(b \o more, from, end) = SubSeq(b, from, end)
          BY ONLY <5>1, LongerPart
        <5> QED BY ONLY <5>2 DEF x, from
      <4> QED BY <2>2, <2>3, <2>7, <4>2, <4>3
    <3>2. Decode(c, b) = IF c.strip > end THEN Failed("Decode")
                         ELSE Item(x, SubSeq(b, end + 1, Len(b)))
      BY <2>1, <2>3, <2>7 DEF x
    <3>3. CASE c.strip > end
      <4>1. Fails(c, b, "Decode") BY <1>1, <3>1, <3>3 DEF Fails
      <4>2. Decode(c, b) = Failed("Decode") BY <3>2, <3>3
      <4>3. Allowed(c, b) BY <4>2, NoItem
      <4> QED BY <4>1, <4>2, <4>3 DEF Steady, Failed, NeedMore
    <3>4. CASE ~(c.strip > end)
      <4>1. Yields(c, b, end, x) BY <1>1, <3>1, <3>4 DEF Yields
      <4>2. Len(x) + c.strip <= c.max
        <5>1. c.strip + 1 \in Nat \ {0} BY <1>3
        <5>2. Len(x) = IF c.strip + 1 <= end THEN (end - (c.strip + 1)) + 1 ELSE 0
          BY <1>2, <3>0, <5>1, PartType DEF x
        <5>3. /\ c.strip \in Nat /\ end \in Nat /\ c.max \in Nat
              /\ c.strip <= end /\ end <= c.max
          BY <1>3, <3>0, <3>4
        <5> DEFINE k == c.strip
                   l == Len(x)
        <5>4. l = IF k + 1 <= end THEN (end - (k + 1)) + 1 ELSE 0 BY <5>2
        <5> HIDE DEF k, l
        <5>5. l + k = end BY <5>3, <5>4 DEF k
        <5> QED BY <5>3, <5>5 DEF k, l
      <4>3. WithinLimit(c, x, end) BY <1>3, <4>2 DEF WithinLimit, Frames!WithinLimit
      <4>4. end \in 1..Len(b) BY <1>2, <3>0
      <4>5. Decode(c, b) = Item(x, SubSeq(b, end + 1, Len(b))) BY <3>2, <3>4
      <4>6. Allowed(c, b) BY <4>3, <4>4, <4>5, ItemAllowed
      <4> QED BY <4>1, <4>4, <4>5, <4>6 DEF Steady, Item, NeedMore
    <3> QED BY <3>3, <3>4
  <2> QED BY <2>4, <2>5, <2>6, <2>7
<1> QED BY <1>7, <1>8

-----------------------------------------------------------------------------
\* DelimiterBasedFrameDecoder
LEMMA PartFrom ==
  ASSUME NEW A, NEW s \in Seq(A), NEW m \in Nat, NEW n \in Nat, m + n <= Len(s)
  PROVE  /\ SubSeq(s, m + 1, m + n) \in Seq(A)
         /\ Len(SubSeq(s, m + 1, m + n)) = n
         /\ \A k \in 1..n : SubSeq(s, m + 1, m + n)[k] = s[m + k]
<1> DEFINE a == m + 1
           z == m + n
           t == SubSeq(s, a, z)
<1>1. s \in Seq(A) /\ a \in Nat \ {0} /\ z \in Nat /\ z <= Len(s) OBVIOUS
<1>2. (z - a) + 1 = n /\ (a <= z <=> n # 0) OBVIOUS
<1>3. \A k \in 1..n : (a + k) - 1 = m + k OBVIOUS
<1> HIDE DEF a, z
<1>4. /\ t \in Seq(A)
      /\ Len(t) = IF a <= z THEN (z - a) + 1 ELSE 0
      /\ \A k \in 1..(z - a) + 1 : t[k] = s[(a + k) - 1]
  BY ONLY <1>1, PartType
<1> HIDE DEF t
<1>5. Len(t) = n BY <1>2, <1>4
<1>6. \A k \in 1..n : t[k] = s[m + k] BY ONLY <1>2, <1>3, <1>4
<1> QED BY ONLY <1>4, <1>5, <1>6 DEF t, a, z

LEMMA PartOfPart ==
  ASSUME NEW A, NEW s \in Seq(A), NEW m \in Nat, NEW n \in Nat, NEW i \in Nat, NEW j \in Nat,
         m + n <= Len(s), i + j <= n
  PROVE  SubSeq(SubSeq(s, m + 1, m + n), i + 1, i + j) = SubSeq(s, (m + i) + 1, (m + i) + j)
<1> DEFINE t == SubSeq(s, m + 1, m + n)
           x == SubSeq(t, i + 1, i + j)
           y == SubSeq(s, (m + i) + 1, (m + i) + j)
<1>0. Len(s) \in Nat BY LenProperties
<1>1. /\ t \in Seq(A) /\ Len(t) = n
      /\ \A k \in 1..n : t[k] = s[m + k]
  BY PartFrom
<1> HIDE DEF t
<1>2. /\ x \in Seq(A) /\ Len(x) = j
      /\ \A k \in 1..j : x[k] = t[i + k]
  <2>1. t \in Seq(A) /\ i + j <= Len(t) BY <1>1
  <2> QED BY <2>1, PartFrom
<1>3. /\ y \in Seq(A) /\ Len(y) = j
      /\ \A k \in 1..j : y[k] = s[(m + i) + k]
  <2> DEFINE u == m + i
  <2>1. u \in Nat /\ u + j <= Len(s) BY <1>0
  <2> HIDE DEF u
  <2>2. /\ SubSeq(s, u + 1, u + j) \in Seq(A) /\ Len(SubSeq(s, u + 1, u + j)) = j
        /\ \A k \in 1..j : SubSeq(s, u + 1, u + j)[k] = s[u + k]
    BY <2>1, PartFrom
  <2> QED BY <2>2 DEF u
<1> HIDE DEF x, y
<1>4. \A k \in 1..j : x[k] = y[k]
  <2> SUFFICES ASSUME NEW k \in 1..j PROVE x[k] = y[k] OBVIOUS
  <2>1. i + k \in 1..n /\ m + (i + k) = (m + i) + k OBVIOUS
  <2> QED BY <1>1, <1>2, <1>3, <2>1
<1>5. x = y BY <1>2, <1>3, <1>4, SeqEqual
<1> QED BY <1>5 DEF x, y, t

Delims(c) == ToSet(c.delimiters)

FoundIn(c, s) == UNION {{<<p, Len(d)>> : p \in Hits(s, d, 0)} : d \in Delims(c)}

Before(f, g) == \/ f[1] < g[1]
                \/ f[1] = g[1] /\ f[2] <= g[2]

Firsts(c, s) == {f \in FoundIn(c, s) : \A g \in FoundIn(c, s) : Before(f, g)}

LEMMA DelimiterType ==
  ASSUME NEW c \in DelimiterBased
  PROVE  /\ c.protocol = "frames" /\ c.kind = "delimiter" /\ c.max \in Nat
         /\ \A d \in Delims(c) : d \in Seq(Nat) /\ Len(d) \in Nat \ {0}
<1>1. /\ c.protocol = "frames" /\ c.kind = "delimiter" /\ c.max \in Nat
      /\ c.delimiters \in Seq(Seq(Nat) \ {<<>>})
  BY DEF DelimiterBased
<1> DEFINE ds == c.delimiters
<1> HIDE DEF ds
<1>2. ds \in Seq(Seq(Nat) \ {<<>>}) BY <1>1 DEF ds
<1>3. \A i \in DOMAIN ds : ds[i] \in Seq(Nat) \ {<<>>}
  BY <1>2, LenProperties, ElementOfSeq
<1>4. \A d \in Delims(c) : d \in Seq(Nat) /\ d # <<>>
  BY <1>3 DEF Delims, ToSet, ds
<1>5. \A d \in Seq(Nat) : d # <<>> => Len(d) \in Nat \ {0}
  BY EmptySeq, LenProperties
<1> QED BY <1>1, <1>4, <1>5

LEMMA FoundType ==
  ASSUME NEW c \in DelimiterBased, NEW s \in Seq(Nat)
  PROVE  /\ \A f \in FoundIn(c, s) : \E d \in Delims(c) : \E p \in Hits(s, d, 0) :
              f = <<p, Len(d)>>
         /\ \A d \in Delims(c) : \A p \in Hits(s, d, 0) :
              /\ <<p, Len(d)>> \in FoundIn(c, s)
              /\ p \in Nat /\ p + Len(d) <= Len(s)
         /\ FoundIn(c, s) \in SUBSET (Nat \X Nat)
<1>1. \A f \in FoundIn(c, s) : \E d \in Delims(c) : \E p \in Hits(s, d, 0) :
        f = <<p, Len(d)>>
  BY DEF FoundIn
<1>2. \A d \in Delims(c) : \A p \in Hits(s, d, 0) : <<p, Len(d)>> \in FoundIn(c, s)
  BY DEF FoundIn
<1>3. \A d \in Delims(c) : \A p \in Hits(s, d, 0) :
        p \in Nat /\ p + Len(d) <= Len(s)
  BY DelimiterType, LenProperties DEF Hits
<1>4. \A d \in Delims(c) : Len(d) \in Nat BY DelimiterType
<1>5. FoundIn(c, s) \in SUBSET (Nat \X Nat) BY <1>1, <1>3, <1>4
<1> QED BY <1>1, <1>2, <1>3, <1>5

LEMMA FirstDelimiter ==
  ASSUME NEW c \in DelimiterBased, NEW s \in Seq(Nat), FoundIn(c, s) # {}
  PROVE  \E d \in Delims(c) : \E p \in Hits(s, d, 0) : Firsts(c, s) = {<<p, Len(d)>>}
<1> DEFINE found == FoundIn(c, s)
<1>1. found \in SUBSET (Nat \X Nat) BY FoundType
<1>2. found # {} OBVIOUS
<1> HIDE DEF found
<1> DEFINE P == {f[1] : f \in found}
<1>3. P \in SUBSET Nat /\ P # {} BY <1>1, <1>2
<1> HIDE DEF P
<1>4. PICK p \in P : \A q \in P : p <= q BY <1>3, Loop!LeastNatural
<1> DEFINE L == {f[2] : f \in {g \in found : g[1] = p}}
<1>5. L \in SUBSET Nat /\ L # {} BY <1>1, <1>4 DEF P
<1> HIDE DEF L
<1>6. PICK l \in L : \A k \in L : l <= k BY <1>5, Loop!LeastNatural
<1>7. PICK f \in found : f[1] = p /\ f[2] = l BY <1>6 DEF L
<1>8. f[1] \in Nat /\ f[2] \in Nat /\ f = <<f[1], f[2]>> BY <1>1
<1>9. ASSUME NEW g \in found PROVE Before(f, g)
  <2>1. g[1] \in Nat /\ g[2] \in Nat BY <1>1
  <2>2. f[1] <= g[1] BY <1>4, <1>7 DEF P
  <2>3. g[1] = p => f[2] <= g[2] BY <1>6, <1>7 DEF L
  <2> QED BY <1>7, <1>8, <2>1, <2>2, <2>3 DEF Before
<1>10. ASSUME NEW g \in found, Before(g, f) PROVE g = f
  <2>1. g[1] \in Nat /\ g[2] \in Nat /\ g = <<g[1], g[2]>> BY <1>1
  <2>2. Before(f, g) BY <1>9
  <2>3. g[1] = f[1] /\ g[2] = f[2] BY <1>8, <1>10, <2>1, <2>2 DEF Before
  <2> QED BY <1>8, <2>1, <2>3
<1>11. Firsts(c, s) = {f} BY <1>9, <1>10 DEF Firsts, found
<1>12. PICK d \in Delims(c) : \E q \in Hits(s, d, 0) : f = <<q, Len(d)>>
  BY FoundType DEF found
<1> QED BY <1>11, <1>12

DelimiterFound(c, s, p, l) ==
  IF p > c.max THEN Failed("FrameTooLarge")
  ELSE Item(SubSeq(s, 1, IF c.strip THEN p ELSE p + l),
            SubSeq(s, (p + l) + 1, Len(s)))

LEMMA DecodeOfDelimiter ==
  ASSUME NEW c \in DelimiterBased, NEW s \in Seq(Nat)
  PROVE  /\ FoundIn(c, s) = {} =>
              Decode(c, s) = IF Len(s) > c.max THEN Failed("FrameTooLarge") ELSE NeedMore
         /\ \A p, l : Firsts(c, s) = {<<p, l>>} =>
              Decode(c, s) = DelimiterFound(c, s, p, l)
<1>1. Decode(c, s) = Frames!DecodeDelimiter(c, s)
  BY DEF DelimiterBased, Decode, Frames!DecodeFrame
<1>2. FoundIn(c, s) = UNION {{<<p, Len(d)>> : p \in Frames!Positions(s, d)} :
                              d \in ToSet(c.delimiters)}
  BY DEF FoundIn, Delims, Hits, Frames!Positions
<1>3. Frames!find_delimiter(c, s) = Firsts(c, s)
  BY <1>2 DEF Frames!find_delimiter, Firsts, Before, Frames!ToSet, ToSet
<1>4. ASSUME FoundIn(c, s) = {}
      PROVE  Decode(c, s) = IF Len(s) > c.max THEN Failed("FrameTooLarge") ELSE NeedMore
  <2>1. Firsts(c, s) = {} BY <1>4 DEF Firsts
  <2> QED BY <1>1, <1>3, <2>1 DEF Frames!DecodeDelimiter, Frames!Failed, Failed,
             Frames!NeedMore, NeedMore
<1>5. ASSUME NEW p, NEW l, Firsts(c, s) = {<<p, l>>}
      PROVE  Decode(c, s) = DelimiterFound(c, s, p, l)
  <2>1. (CHOOSE f \in Firsts(c, s) : TRUE) = <<p, l>> BY <1>5
  <2>2. Firsts(c, s) # {} BY <1>5
  <2>3. <<p, l>>[1] = p /\ <<p, l>>[2] = l OBVIOUS
  <2> QED BY <1>1, <1>3, <2>1, <2>2, <2>3 DEF Frames!DecodeDelimiter, Frames!Failed,
             Failed, Frames!Item, Item, Frames!Take, Frames!Drop, DelimiterFound
<1> QED BY <1>4, <1>5

LEMMA DelimiterDefinite ==
  ASSUME NEW c \in DelimiterBased, NEW b \in Bytes(c)
  PROVE  /\ Definite(c, b)
         /\ Decode(c, b) = NeedMore => Len(b) <= Held(c)
         /\ Allowed(c, b)
<1>1. /\ c.protocol = "frames" /\ c.kind = "delimiter" /\ c.max \in Nat
      /\ \A d \in Delims(c) : d \in Seq(Nat) /\ Len(d) \in Nat \ {0}
  BY DelimiterType
<1>2. b \in Seq(Nat) /\ Len(b) \in Nat BY <1>1, LenProperties DEF Bytes, Alphabet
<1>3. Held(c) = c.max BY <1>1 DEF Held, Frames!Held
<1>4. CASE FoundIn(c, b) = {}
  <2>1. Decode(c, b) = IF Len(b) > c.max THEN Failed("FrameTooLarge") ELSE NeedMore
    BY <1>2, <1>4, DecodeOfDelimiter
  <2>2. Definite(c, b)
    <3>1. Decode(c, b) = Failed("FrameTooLarge") => Definite(c, b) BY DEF Definite
    <3> QED BY <2>1, <3>1 DEF Definite
  <2>3. Allowed(c, b) BY <2>1, NoItem
  <2> QED BY <1>1, <1>2, <1>3, <2>1, <2>2, <2>3 DEF Failed, NeedMore
<1>5. CASE FoundIn(c, b) # {}
  <2>1. PICK d \in Delims(c) : \E p \in Hits(b, d, 0) : Firsts(c, b) = {<<p, Len(d)>>}
    BY <1>2, <1>5, FirstDelimiter
  <2>2. PICK p \in Hits(b, d, 0) : Firsts(c, b) = {<<p, Len(d)>>} BY <2>1
  <2> DEFINE l == Len(d)
             x == SubSeq(b, 1, IF c.strip THEN p ELSE p + l)
  <2>3. Decode(c, b) = DelimiterFound(c, b, p, l) BY <1>2, <2>2, DecodeOfDelimiter
  <2>4. p \in Nat /\ l \in Nat \ {0} /\ p + l <= Len(b) BY <1>1, <1>2, FoundType
  <2> HIDE DEF l
  <2> HIDE DEF x
  <2>5. Decode(c, b) = IF p > c.max THEN Failed("FrameTooLarge")
                       ELSE Item(x, SubSeq(b, (p + l) + 1, Len(b)))
    BY <2>3 DEF DelimiterFound, x
  <2>6. p + l \in 1..Len(b) BY <1>2, <2>4
  <2>7. Definite(c, b) BY <2>5, <2>6 DEF Definite
  <2>8. ~(p > c.max) => WithinLimit(c, x, p + l)
    <3>1. d \in Frames!ToSet(c.delimiters) BY DEF Delims, ToSet, Frames!ToSet
    <3>2. ~(p > c.max) => (p + l) - Len(d) <= c.max BY <1>1, <2>4 DEF l
    <3> QED BY <1>1, <3>1, <3>2 DEF WithinLimit, Frames!WithinLimit
  <2>9. Allowed(c, b)
    <3>1. CASE p > c.max
      <4>1. Decode(c, b) = Failed("FrameTooLarge") BY <2>5, <3>1
      <4> QED BY <4>1, NoItem
    <3>2. CASE ~(p > c.max)
      <4>1. Decode(c, b) = Item(x, SubSeq(b, (p + l) + 1, Len(b))) BY <2>5, <3>2
      <4>2. WithinLimit(c, x, p + l) BY <2>8, <3>2
      <4> QED BY <2>6, <4>1, <4>2, ItemAllowed
    <3> QED BY <3>1, <3>2
  <2> QED BY <2>5, <2>7, <2>9 DEF Failed, Item, NeedMore
<1> QED BY <1>4, <1>5

\* Unless delimiters are nested, the first one stays the first
LEMMA DelimiterLater ==
  ASSUME NEW c \in DelimiterBased, ~Nested(c), NEW b \in Seq(Nat), NEW more \in Seq(Nat),
         FoundIn(c, b) # {}
  PROVE  Firsts(c, b \o more) = Firsts(c, b)
<1>a. PICK d \in Delims(c) : \E p \in Hits(b, d, 0) : Firsts(c, b) = {<<p, Len(d)>>}
  BY FirstDelimiter
<1>b. PICK p \in Hits(b, d, 0) : Firsts(c, b) = {<<p, Len(d)>>} BY <1>a
<1> DEFINE l == Len(d)
           s == b \o more
<1>1. \A x \in Delims(c) : x \in Seq(Nat) /\ Len(x) \in Nat \ {0}
  BY DelimiterType
<1>2. s \in Seq(Nat) /\ Len(b) \in Nat BY LongerHead
<1>3. <<p, l>> \in FoundIn(c, b) /\ \A g \in FoundIn(c, b) : Before(<<p, l>>, g)
  BY <1>b DEF Firsts
<1>5. p \in Hits(b, d, 0) /\ l = Len(d) OBVIOUS
<1> HIDE DEF l
<1>6. \A e \in Delims(c) :
        /\ \A h \in Hits(b, e, 0) : h \in Hits(s, e, 0)
        /\ \A h \in Hits(s, e, 0) : h + Len(e) <= Len(b) => h \in Hits(b, e, 0)
  BY <1>1, HitsLater
<1> HIDE DEF s
<1>7. p \in Nat /\ p + l <= Len(b) /\ l \in Nat BY <1>1, <1>5, FoundType
<1>8. <<p, l>> \in FoundIn(c, s) BY <1>2, <1>5, <1>6, FoundType
<1>9. FoundIn(c, s) # {} BY <1>8
<1>10. PICK e \in Delims(c) : \E h \in Hits(s, e, 0) : Firsts(c, s) = {<<h, Len(e)>>}
  BY <1>2, <1>9, FirstDelimiter
<1>11. PICK q \in Hits(s, e, 0) : Firsts(c, s) = {<<q, Len(e)>>} BY <1>10
<1> DEFINE k == Len(e)
<1>12. q \in Nat /\ k \in Nat /\ q + k <= Len(s) BY <1>1, <1>2, FoundType
<1>13. Before(<<q, k>>, <<p, l>>) BY <1>8, <1>11 DEF Firsts
<1>14. SubSeq(s, q + 1, q + k) = e BY <1>11 DEF Hits
<1>15. p \in Hits(s, d, 0) /\ SubSeq(s, p + 1, p + l) = d
  BY <1>5, <1>6 DEF Hits
<1> HIDE DEF k
<1>16. CASE q + k <= Len(b)
  <2>1. q \in Hits(b, e, 0) BY <1>6, <1>11, <1>16 DEF k
  <2>2. <<q, k>> \in FoundIn(c, b) BY <2>1, FoundType DEF k
  <2>3. Before(<<p, l>>, <<q, k>>) BY <1>3, <2>2
  <2>4. p = q /\ l = k BY <1>7, <1>12, <1>13, <2>3 DEF Before
  <2> QED BY <1>b, <1>11, <2>4 DEF s, k, l
<1>17. CASE ~(q + k <= Len(b))
  <2>1. q < p /\ p + l < q + k BY <1>2, <1>7, <1>12, <1>13, <1>17 DEF Before
  <2> DEFINE i == p - q
  <2>2. i \in Nat /\ i > 0 /\ i + l < k /\ q + i = p BY <1>7, <1>12, <2>1
  <2> HIDE DEF i
  <2>3. SubSeq(SubSeq(s, q + 1, q + k), i + 1, i + l) = SubSeq(s, (q + i) + 1, (q + i) + l)
    <3>1. i + l <= k BY <1>7, <1>12, <2>2
    <3> QED BY <1>2, <1>7, <1>12, <2>2, <3>1, PartOfPart
  <2>4. SubSeq(e, i + 1, i + l) = d BY <1>14, <1>15, <2>2, <2>3
  <2>5. i \in Frames!Positions(e, d)
    <3>1. i \in 0..(Len(e) - Len(d)) BY <1>5, <1>7, <1>12, <2>2 DEF k
    <3> QED BY <1>5, <2>4, <3>1 DEF Frames!Positions
  <2>6. i > 0 /\ i + Len(d) < Len(e) BY <1>5, <2>2 DEF k
  <2>7. c.protocol = "frames" /\ c.kind = "delimiter" BY DelimiterType
  <2>8. d \in ToSet(c.delimiters) /\ e \in ToSet(c.delimiters) BY DEF Delims
  <2>9. Nested(c) BY <2>5, <2>6, <2>7, <2>8 DEF Nested, Frames!Nested, Frames!ToSet, ToSet
  <2> QED BY <2>9
<1> QED BY <1>16, <1>17

LEMMA DelimiterSteady ==
  ASSUME NEW c \in DelimiterBased, ~Nested(c), NEW b \in Bytes(c)
  PROVE  Steady(c, b)
<1>1. /\ c.protocol = "frames" /\ c.kind = "delimiter" /\ c.max \in Nat
      /\ \A d \in Delims(c) : d \in Seq(Nat) /\ Len(d) \in Nat \ {0}
      /\ Bytes(c) = Seq(Nat)
  BY DelimiterType DEF Bytes, Alphabet
<1>2. b \in Seq(Nat) /\ Len(b) \in Nat BY <1>1, LenProperties
<1>3. CASE FoundIn(c, b) = {}
  <2>1. Decode(c, b) = IF Len(b) > c.max THEN Failed("FrameTooLarge") ELSE NeedMore
    BY <1>2, <1>3, DecodeOfDelimiter
  <2>2. CASE ~(Len(b) > c.max)
    <3>1. Decode(c, b) = NeedMore BY <2>1, <2>2
    <3> QED BY <3>1 DEF Steady
  <2>3. CASE Len(b) > c.max /\ CutAtLimit(c, b)
    <3>1. Decode(c, b) = Failed("FrameTooLarge") BY <2>1, <2>3
    <3> QED BY <2>3, <3>1 DEF Steady
  <2>4. CASE Len(b) > c.max /\ ~CutAtLimit(c, b)
    <3>1. \A d \in Delims(c) : Len(b) >= c.max + Len(d)
      <4> SUFFICES ASSUME NEW d \in Delims(c), ~(Len(b) >= c.max + Len(d)) PROVE FALSE
        OBVIOUS
      <4>1. Len(b) \in (c.max + 1)..(c.max + Len(d) - 1) BY <1>1, <1>2, <2>4
      <4>2. d \in ToSet(c.delimiters) BY DEF Delims
      <4> QED BY <1>1, <2>4, <4>1, <4>2 DEF CutAtLimit, Frames!CutAtLimit, Frames!ToSet, ToSet
    <3>2. ASSUME NEW more \in Seq(Nat) PROVE Decode(c, b \o more) = Failed("FrameTooLarge")
      <4> DEFINE s == b \o more
      <4>1. s \in Seq(Nat) /\ Len(s) >= Len(b) /\ Len(s) \in Nat BY <1>2, LongerHead
      <4>2. \A d \in Delims(c) : \A h \in Hits(s, d, 0) :
              h + Len(d) <= Len(b) => h \in Hits(b, d, 0)
        BY <1>1, <1>2, HitsLater
      <4> HIDE DEF s
      <4>3. CASE FoundIn(c, s) = {}
        <5>1. Len(s) > c.max BY <1>1, <1>2, <2>4, <4>1
        <5>2. Decode(c, s) = Failed("FrameTooLarge") BY <4>1, <4>3, <5>1, DecodeOfDelimiter
        <5> QED BY <5>2 DEF s
      <4>4. CASE FoundIn(c, s) # {}
        <5>1. PICK d \in Delims(c) : \E p \in Hits(s, d, 0) : Firsts(c, s) = {<<p, Len(d)>>}
          BY <4>1, <4>4, FirstDelimiter
        <5>2. PICK p \in Hits(s, d, 0) : Firsts(c, s) = {<<p, Len(d)>>} BY <5>1
        <5>3. p \notin Hits(b, d, 0) BY <1>2, <1>3, FoundType
        <5>4. p \in Nat /\ ~(p + Len(d) <= Len(b)) BY <4>1, <4>2, <5>3, FoundType
        <5>5. p > c.max BY <1>1, <1>2, <3>1, <5>4
        <5>6. Decode(c, s) = DelimiterFound(c, s, p, Len(d))
          BY <4>1, <5>2, DecodeOfDelimiter
        <5> QED BY <5>5, <5>6 DEF DelimiterFound, s
      <4> QED BY <4>3, <4>4
    <3>3. Fails(c, b, "FrameTooLarge") BY <1>1, <3>2 DEF Fails
    <3> QED BY <3>3 DEF Steady
  <2> QED BY <2>2, <2>3, <2>4
<1>4. CASE FoundIn(c, b) # {}
  <2>1. PICK d \in Delims(c) : \E p \in Hits(b, d, 0) : Firsts(c, b) = {<<p, Len(d)>>}
    BY <1>2, <1>4, FirstDelimiter
  <2>2. PICK p \in Hits(b, d, 0) : Firsts(c, b) = {<<p, Len(d)>>} BY <2>1
  <2> DEFINE l == Len(d)
             cut == IF c.strip THEN p ELSE p + l
             x == SubSeq(b, 1, cut)
  <2>3. p \in Nat /\ l \in Nat \ {0} /\ p + l <= Len(b) BY <1>1, <1>2, FoundType
  <2> HIDE DEF l
  <2>4. cut \in Nat /\ cut <= Len(b) BY <1>2, <2>3
  <2> HIDE DEF cut, x
  <2>5. ASSUME NEW more \in Seq(Nat)
        PROVE  Decode(c, b \o more)
                 = IF p > c.max THEN Failed("FrameTooLarge")
                   ELSE Item(x, SubSeq(b \o more, (p + l) + 1, Len(b \o more)))
    <3>1. b \o more \in Seq(Nat) BY <1>2, LongerHead
    <3>2. Firsts(c, b \o more) = {<<p, l>>}
      <4>1. Firsts(c, b \o more) = Firsts(c, b) BY <1>2, <1>4, DelimiterLater
      <4> QED BY <2>2, <4>1 DEF l
    <3>3. Decode(c, b \o more) = DelimiterFound(c, b \o more, p, l)
      BY <3>1, <3>2, DecodeOfDelimiter
    <3>4. SubSeq(b \o more, 1, cut) = x
      <4>1. 1 \in Nat \ {0} OBVIOUS
      <4> QED BY <1>2, <2>4, <4>1, LongerPart DEF x
    <3> QED BY <3>3, <3>4 DEF DelimiterFound, cut
  <2>6. CASE p > c.max
    <3>1. Fails(c, b, "FrameTooLarge") BY <1>1, <2>5, <2>6 DEF Fails
    <3> QED BY <3>1 DEF Steady
  <2>7. CASE ~(p > c.max)
    <3>1. p + l \in 1..Len(b) BY <1>2, <2>3
    <3>2. Yields(c, b, p + l, x) BY <1>1, <2>5, <2>7 DEF Yields
    <3> QED BY <3>1, <3>2 DEF Steady
  <2> QED BY <2>6, <2>7
<1> QED BY <1>3, <1>4

-----------------------------------------------------------------------------
\* MqttCodec
Byte == 0..255

LEMMA MaxOfTwo ==
  ASSUME NEW x \in Nat, NEW y \in Nat
  PROVE  /\ Max({x, y}) \in Nat /\ x <= Max({x, y}) /\ y <= Max({x, y})
         /\ Mqtt!Max({x, y}) = Max({x, y})
<1> DEFINE S == {x, y}
<1>1. PICK m \in S : \A z \in S : m >= z OBVIOUS
<1> HIDE DEF S
<1>2. Max(S) \in S /\ \A z \in S : Max(S) >= z BY <1>1, Zenon DEF Max
<1>3. Max(S) \in Nat /\ x <= Max(S) /\ y <= Max(S) BY <1>2 DEF S
<1>4. Mqtt!Max(S) = Max(S) BY DEF Mqtt!Max, Max
<1> QED BY <1>3, <1>4 DEF S

LEMMA MinOfTwo ==
  ASSUME NEW x \in Nat, NEW y \in Nat
  PROVE  Mqtt!Min({x, y}) = IF x <= y THEN x ELSE y
<1> DEFINE S == {x, y}
<1>1. S \in SUBSET Nat /\ S # {} OBVIOUS
<1> HIDE DEF S
<1>2. Min(S) \in S /\ (\A z \in S : Min(S) <= z) /\ Mqtt!Min(S) = Min(S)
  BY <1>1, MinOfNat
<1> QED BY <1>2 DEF S

IsVarint(digits, count, n, f) ==
  f = [i \in 0..n |-> IF i = 0 THEN 0
                      ELSE (f[i - 1] * 128) + (digits[count + 1 - i] % 128)]

LEMMA VarintExists ==
  ASSUME NEW digits, NEW count, NEW n \in Nat
  PROVE  \E f : IsVarint(digits, count, n, f)
<1> DEFINE S == {k \in Nat : \E f : IsVarint(digits, count, k, f)}
<1>1. 0 \in S
  <2> DEFINE f == [i \in 0..0 |-> 0]
  <2>1. IsVarint(digits, count, 0, f) BY DEF IsVarint
  <2> QED BY <2>1
<1>2. ASSUME NEW k \in S PROVE k + 1 \in S
  <2>1. PICK f : IsVarint(digits, count, k, f) OBVIOUS
  <2> DEFINE last == (f[k] * 128) + (digits[count + 1 - (k + 1)] % 128)
             g == [i \in 0..k + 1 |-> IF i = k + 1 THEN last ELSE f[i]]
  <2>2. g[k + 1] = (g[(k + 1) - 1] * 128) + (digits[count + 1 - (k + 1)] % 128) OBVIOUS
  <2>3. \A i \in 0..k : g[i] = f[i] OBVIOUS
  <2>4. \A i \in 0..k : i # 0 => i - 1 \in 0..k OBVIOUS
  <2>5. \A i \in 0..k :
          f[i] = IF i = 0 THEN 0
                 ELSE (f[i - 1] * 128) + (digits[count + 1 - i] % 128)
    BY <2>1, Zenon DEF IsVarint
  <2>6. g = [i \in 0..k + 1 |-> g[i]] OBVIOUS
  <2> HIDE DEF g
  <2>7. \A i \in 0..k + 1 :
          g[i] = IF i = 0 THEN 0
                 ELSE (g[i - 1] * 128) + (digits[count + 1 - i] % 128)
    <3> SUFFICES ASSUME NEW i \in 0..k + 1
                 PROVE  g[i] = IF i = 0 THEN 0
                          ELSE (g[i - 1] * 128) + (digits[count + 1 - i] % 128)
      OBVIOUS
    <3>1. CASE i = k + 1 BY <2>2, <3>1
    <3>2. CASE i # k + 1
      <4>1. i \in 0..k BY <3>2
      <4> QED BY <2>3, <2>4, <2>5, <4>1
    <3> QED BY <3>1, <3>2
  <2>8. IsVarint(digits, count, k + 1, g) BY <2>6, <2>7 DEF IsVarint
  <2> QED BY <2>8
<1> HIDE DEF S
<1>3. S = Nat BY <1>1, <1>2, Loop!SetInduction DEF S
<1> QED BY <1>3 DEF S

\* A variable-length integer is malformed, or a number written in its shortest form
LEMMA VarintType ==
  ASSUME NEW digits \in Seq(Byte)
  PROVE  \/ ~Mqtt!VarintValue(digits).ok
         \/ /\ Mqtt!VarintValue(digits).ok
            /\ Mqtt!VarintValue(digits).value \in Nat
            /\ Mqtt!VarintValue(digits).used = Len(digits)
            /\ Mqtt!remaining_length_len(Mqtt!VarintValue(digits).value) = Len(digits)
<1> DEFINE count == Len(digits)
           last == CHOOSE f : IsVarint(digits, count, count, f)
<1>0. count \in Nat BY LenProperties
<1>1. \A i \in 1..count : digits[i] \in Byte BY <1>0, ElementOfSeq
<1> HIDE DEF count
<1>2. IsVarint(digits, count, count, last) BY <1>0, VarintExists, Zenon
<1>3. Mqtt!VarintValue(digits) = Mqtt!Shortest(count, last[count])
  BY DEF Mqtt!VarintValue, IsVarint, count
<1> HIDE DEF last
<1> DEFINE S == {k \in Nat : k <= count => last[k] \in Nat}
<1>4. 0 \in S
  <2>1. 0 \in 0..count BY <1>0
  <2>2. last[0] = 0 BY <1>2, <2>1 DEF IsVarint
  <2> QED BY <2>2
<1>5. ASSUME NEW k \in S PROVE k + 1 \in S
  <2> SUFFICES ASSUME k + 1 <= count PROVE last[k + 1] \in Nat OBVIOUS
  <2>1. k + 1 \in 0..count /\ k + 1 # 0 /\ (k + 1) - 1 = k /\ k <= count BY <1>0
  <2>2. last[k + 1] = (last[k] * 128) + (digits[count + 1 - (k + 1)] % 128)
    BY <1>2, <2>1 DEF IsVarint
  <2>3. count + 1 - (k + 1) \in 1..count BY <1>0, <2>1
  <2>a. \A x \in Byte : x % 128 \in Nat BY DEF Byte
  <2>4. digits[count + 1 - (k + 1)] % 128 \in Nat BY <1>1, <2>3, <2>a, Zenon
  <2>5. last[k] \in Nat BY <2>1
  <2>6. last[k] * 128 \in Nat BY <2>5
  <2> QED BY <2>2, <2>4, <2>6
<1> HIDE DEF S
<1>6. S = Nat BY <1>4, <1>5, Loop!SetInduction DEF S
<1>7. last[count] \in Nat BY <1>0, <1>6 DEF S
<1> QED BY <1>0, <1>3, <1>7 DEF Mqtt!Shortest, Mqtt!Got, Mqtt!Bad, count

LEMMA EndsLater ==
  ASSUME NEW s \in Seq(Byte), NEW more \in Seq(Byte)
  PROVE  /\ Mqtt!VarintEnds(s) \in SUBSET (1..4)
         /\ Mqtt!VarintEnds(s \o more) \in SUBSET (1..4)
         /\ \A k \in Mqtt!VarintEnds(s) : k <= Len(s) /\ k \in Mqtt!VarintEnds(s \o more)
         /\ \A k \in Mqtt!VarintEnds(s \o more) : k <= Len(s) => k \in Mqtt!VarintEnds(s)
<1> DEFINE t == s \o more
<1>1. /\ Len(s) \in Nat /\ t \in Seq(Byte) /\ Len(t) \in Nat /\ Len(s) <= Len(t)
      /\ \A i \in 1..Len(s) : t[i] = s[i]
  BY LongerHead
<1> HIDE DEF t
<1>2. ASSUME NEW u \in Seq(Byte), Len(u) \in Nat
      PROVE  /\ Mqtt!VarintEnds(u) \in SUBSET (1..4)
             /\ \A k \in 1..4 : k \in Mqtt!VarintEnds(u) <=> k <= Len(u) /\ u[k] < 128
             /\ \A k \in Mqtt!VarintEnds(u) : k <= Len(u)
  <2>1. Mqtt!Min({4, Len(u)}) = IF 4 <= Len(u) THEN 4 ELSE Len(u) BY MinOfTwo
  <2>2. Mqtt!VarintEnds(u) = {k \in 1..(IF 4 <= Len(u) THEN 4 ELSE Len(u)) : u[k] < 128}
    BY <2>1 DEF Mqtt!VarintEnds
  <2>3. \A k : k \in 1..(IF 4 <= Len(u) THEN 4 ELSE Len(u)) <=> k \in 1..4 /\ k <= Len(u)
    BY <1>2
  <2> QED BY <2>2, <2>3
<1>5. /\ Mqtt!VarintEnds(s) \in SUBSET (1..4)
      /\ Mqtt!VarintEnds(t) \in SUBSET (1..4)
      /\ \A k \in Mqtt!VarintEnds(s) : k <= Len(s) /\ k \in Mqtt!VarintEnds(t)
      /\ \A k \in Mqtt!VarintEnds(t) : k <= Len(s) => k \in Mqtt!VarintEnds(s)
  <2>1. \A k \in 1..4 : k <= Len(s) => t[k] = s[k] /\ k <= Len(t) BY <1>1
  <2> QED BY <1>1, <1>2, <2>1
<1> QED BY <1>5 DEF t

Remaining(s) == Mqtt!read_variable_integer(Mqtt!Drop(s, 1))

LEMMA RemainingLater ==
  ASSUME NEW b \in Seq(Byte), NEW more \in Seq(Byte),
         Mqtt!VarintEnds(Mqtt!Drop(b, 1)) # {}
  PROVE  /\ Mqtt!VarintEnds(Mqtt!Drop(b \o more, 1)) # {}
         /\ Remaining(b \o more) = Remaining(b)
         /\ Remaining(b).ok =>
              /\ Remaining(b).value \in Nat
              /\ Remaining(b).used \in 1..4
              /\ Remaining(b).used = Mqtt!remaining_length_len(Remaining(b).value)
              /\ 1 + Remaining(b).used <= Len(b)
<1> DEFINE s == Mqtt!Drop(b, 1)
           t == Mqtt!Drop(b \o more, 1)
           S == Mqtt!VarintEnds(s)
           T == Mqtt!VarintEnds(t)
           k == Min(S)
           m == Min(T)
<1>0. Len(b) \in Nat /\ Len(b) > 0
  <2>1. CASE Len(b) = 0
    <3>1. b = <<>> BY <2>1, EmptySeq
    <3>2. s = <<>> BY <3>1 DEF Mqtt!Drop
    <3>3. Mqtt!Min({4, 0}) = 0 BY MinOfTwo
    <3>4. Mqtt!VarintEnds(<<>>) = {} BY <3>3 DEF Mqtt!VarintEnds
    <3>5. S = {} BY <3>2, <3>4
    <3> QED BY <3>5
  <2> QED BY <2>1, LenProperties
<1>1. s \in Seq(Byte) /\ Len(s) = Len(b) - 1
  <2> DEFINE n == Len(b)
  <2> HIDE DEF n
  <2>2. /\ SubSeq(b, 2, n) \in Seq(Byte)
        /\ Len(SubSeq(b, 2, n)) = IF 2 <= n THEN (n - 2) + 1 ELSE 0
    <3>1. 2 \in Nat \ {0} /\ n \in Nat /\ n <= Len(b) BY <1>0 DEF n
    <3> QED BY <3>1, PartType
  <2>3. 1 + 1 = 2 OBVIOUS
  <2>4. s = SubSeq(b, 2, n) BY <2>3 DEF Mqtt!Drop, n
  <2> HIDE DEF s
  <2>5. n \in Nat /\ n > 0 BY <1>0 DEF n
  <2>6. Len(s) = n - 1 BY <2>2, <2>4, <2>5
  <2> QED BY <2>2, <2>4, <2>6 DEF n
<1>2. t = s \o more
  <2>1. 1 \in 0..Len(b) BY <1>0
  <2>2. SubSeq(b \o more, 1 + 1, Len(b \o more)) = SubSeq(b, 1 + 1, Len(b)) \o more
    BY <2>1, LongerTail
  <2> QED BY <2>2 DEF Mqtt!Drop
<1> HIDE DEF s, t
<1>3. /\ S \in SUBSET (1..4) /\ T \in SUBSET (1..4)
      /\ \A i \in S : i <= Len(s) /\ i \in T
      /\ \A i \in T : i <= Len(s) => i \in S
  BY <1>1, <1>2, EndsLater
<1>4. S # {} BY Zenon DEF s, S
<1> HIDE DEF S, T
<1>5. S \in SUBSET Nat /\ T \in SUBSET Nat /\ T # {}
  <2>1. \A i \in 1..4 : i \in Nat OBVIOUS
  <2>2. PICK i : i \in S BY <1>4
  <2>3. T # {} BY <1>3, <2>2
  <2> QED BY <1>3, <2>1, <2>3
<1>6. k \in S /\ (\A i \in S : k <= i) /\ Mqtt!Min(S) = k BY <1>4, <1>5, MinOfNat
<1>7. m \in T /\ (\A i \in T : m <= i) /\ Mqtt!Min(T) = m BY <1>5, MinOfNat
<1> HIDE DEF k, m
<1>8. k \in 1..4 /\ k <= Len(s) /\ m = k
  <2>1. k \in 1..4 /\ m \in 1..4 /\ k <= Len(s) /\ Len(s) \in Nat
    BY <1>1, <1>0, <1>3, <1>6, <1>7
  <2>2. m <= k BY <1>3, <1>6, <1>7
  <2>3. m \in S BY <1>3, <1>7, <2>1, <2>2
  <2> QED BY <1>6, <2>1, <2>2, <2>3
<1> DEFINE digits == SubSeq(s, 1, k)
<1>9. SubSeq(t, 1, m) = digits
  <2>1. 1 \in Nat \ {0} /\ k \in Nat BY <1>8
  <2> QED BY <1>1, <1>2, <1>8, <2>1, LongerPart
<1>10. digits \in Seq(Byte) /\ Len(digits) = k
  <2>1. 1 \in Nat \ {0} /\ k \in Nat /\ k <= Len(s) BY <1>8
  <2>2. digits \in Seq(Byte) /\ Len(digits) = IF 1 <= k THEN (k - 1) + 1 ELSE 0
    BY <1>1, <2>1, PartType
  <2> QED BY <1>8, <2>2
<1> HIDE DEF digits
<1>11. Remaining(b) = Mqtt!VarintValue(digits)
  BY <1>4, <1>6 DEF Remaining, Mqtt!read_variable_integer, s, S, digits
<1>12. Remaining(b \o more) = Mqtt!VarintValue(digits)
  BY <1>5, <1>7, <1>9 DEF Remaining, Mqtt!read_variable_integer, t, T
<1>13. Remaining(b).ok =>
         /\ Remaining(b).value \in Nat
         /\ Remaining(b).used = k
         /\ Mqtt!remaining_length_len(Remaining(b).value) = k
  BY <1>10, <1>11, VarintType
<1>14. 1 + k <= Len(b) BY <1>0, <1>1, <1>8
<1> QED BY <1>5, <1>8, <1>11, <1>12, <1>13, <1>14 DEF T, t

\* Whether the header of a packet is complete
HeaderThere(s) == Len(s) >= 5 \/ Mqtt!VarintEnds(Mqtt!Drop(s, 1)) # {}

PacketEnd(length) == (1 + length.used) + length.value

PacketOf(s, length) ==
  Mqtt!decode_packet(Mqtt!Types[s[1] \div 16], s[1] % 16,
                     SubSeq(s, (1 + length.used) + 1, PacketEnd(length)))

PacketFound(c, s, length) ==
  IF ~length.ok THEN Failed("Decode")
  ELSE IF length.value > c.max THEN Failed("FrameTooLarge")
  ELSE IF Len(s) < PacketEnd(length) THEN NeedMore
  ELSE IF s[1] \div 16 = 0 THEN Failed("Decode")
  ELSE IF PacketOf(s, length).ok /\ PacketOf(s, length).used = length.value
    THEN Item(PacketOf(s, length).value, SubSeq(s, PacketEnd(length) + 1, Len(s)))
  ELSE Failed("Decode")

LEMMA DecodeOfMqtt ==
  ASSUME NEW c \in MqttV5, NEW s \in Seq(Byte)
  PROVE  Decode(c, s) = IF HeaderThere(s) THEN PacketFound(c, s, Remaining(s))
                                          ELSE NeedMore
<1>1. Decode(c, s) = Mqtt!Decode(c, s) BY DEF MqttV5, Decode
<1>2. HeaderThere(s) <=> ~(Len(s) < 5 /\ Mqtt!VarintEnds(Mqtt!Drop(s, 1)) = {})
  BY LenProperties DEF HeaderThere
<1>3. Mqtt!Decode(c, s) = IF HeaderThere(s) THEN Mqtt!decode_frame(c, s, Remaining(s))
                                            ELSE NeedMore
  BY <1>2 DEF Mqtt!Decode, Remaining, Mqtt!NeedMore, NeedMore
<1>4. Mqtt!decode_frame(c, s, Remaining(s)) = PacketFound(c, s, Remaining(s))
  BY DEF Mqtt!decode_frame, Mqtt!Whole, PacketFound, PacketOf, PacketEnd, Mqtt!Drop,
     Mqtt!Failed, Failed, Mqtt!Item, Item, Mqtt!NeedMore, NeedMore
<1> QED BY <1>1, <1>3, <1>4

LEMMA HeaderLater ==
  ASSUME NEW b \in Seq(Byte), NEW more \in Seq(Byte), HeaderThere(b)
  PROVE  /\ HeaderThere(b \o more)
         /\ Remaining(b \o more) = Remaining(b)
         /\ Remaining(b).ok =>
              /\ Remaining(b).value \in Nat
              /\ Remaining(b).used \in 1..4
              /\ Remaining(b).used = Mqtt!remaining_length_len(Remaining(b).value)
              /\ 1 + Remaining(b).used <= Len(b)
<1>1. CASE Mqtt!VarintEnds(Mqtt!Drop(b, 1)) # {}
  BY <1>1, RemainingLater DEF HeaderThere
<1>2. CASE Mqtt!VarintEnds(Mqtt!Drop(b, 1)) = {}
  <2> DEFINE s == Mqtt!Drop(b, 1)
             t == Mqtt!Drop(b \o more, 1)
             n == Len(b)
  <2>1. n >= 5 /\ n \in Nat BY <1>2, LenProperties DEF HeaderThere
  <2>2. 1 + 1 = 2 OBVIOUS
  <2>3. s = SubSeq(b, 2, n) BY <2>2 DEF Mqtt!Drop
  <2>4. t = s \o more
    <3>1. 1 \in 0..Len(b) BY <2>1
    <3>2. SubSeq(b \o more, 1 + 1, Len(b \o more)) = SubSeq(b, 1 + 1, Len(b)) \o more
      BY <3>1, LongerTail
    <3> QED BY <3>2 DEF Mqtt!Drop
  <2>5. /\ SubSeq(b, 2, n) \in Seq(Byte)
        /\ Len(SubSeq(b, 2, n)) = IF 2 <= n THEN (n - 2) + 1 ELSE 0
    <3>1. 2 \in Nat \ {0} /\ n \in Nat /\ n <= Len(b) BY <2>1
    <3> HIDE DEF n
    <3> QED BY <3>1, PartType
  <2>a. Mqtt!VarintEnds(s) = {} BY <1>2
  <2> HIDE DEF s, t, n
  <2>6. s \in Seq(Byte) /\ Len(s) >= 4 /\ Len(s) \in Nat BY <2>1, <2>3, <2>5
  <2>7. /\ Mqtt!VarintEnds(t) \in SUBSET (1..4)
        /\ \A i \in Mqtt!VarintEnds(t) : i <= Len(s) => i \in Mqtt!VarintEnds(s)
    BY <2>4, <2>6, EndsLater
  <2>8. \A i \in 1..4 : i <= Len(s) BY <2>6
  <2>9. Mqtt!VarintEnds(t) = {} BY <2>7, <2>8, <2>a
  <2>10. Remaining(b) = Mqtt!Bad
    BY <2>a DEF Remaining, Mqtt!read_variable_integer, s
  <2>11. Remaining(b \o more) = Mqtt!Bad
    BY <2>9 DEF Remaining, Mqtt!read_variable_integer, t
  <2>12. HeaderThere(b \o more)
    <3>1. Len(b \o more) = n + Len(more) /\ Len(more) \in Nat BY LongerHead DEF n
    <3>2. Len(b \o more) >= 5 BY <2>1, <3>1
    <3> QED BY <3>2 DEF HeaderThere
  <2>13. ~Remaining(b).ok BY <2>10 DEF Mqtt!Bad
  <2> QED BY <2>10, <2>11, <2>12, <2>13
<1> QED BY <1>1, <1>2

LEMMA ShorterIsLess ==
  ASSUME NEW x \in Nat, NEW y \in Nat, x <= y
  PROVE  /\ Mqtt!remaining_length_len(x) <= Mqtt!remaining_length_len(y)
         /\ Mqtt!remaining_length_len(y) \in 1..4
BY DEF Mqtt!remaining_length_len

LEMMA MqttSteady ==
  ASSUME NEW c \in MqttV5, NEW b \in Bytes(c)
  PROVE  /\ Steady(c, b)
         /\ Decode(c, b) = NeedMore => Len(b) <= Held(c)
         /\ Allowed(c, b)
<1> DEFINE r == Remaining(b)
           end == PacketEnd(r)
           p == PacketOf(b, r)
<1>1. c.protocol = "mqtt" /\ c.max \in Nat BY DEF MqttV5
<1>2. Bytes(c) = Seq(Byte) BY <1>1 DEF Bytes, Alphabet, Byte
<1>3. b \in Seq(Byte) /\ Len(b) \in Nat BY <1>2, LenProperties
<1>4. /\ Held(c) \in Nat /\ 4 <= Held(c)
      /\ Mqtt!remaining_length_len(c.max) + c.max <= Held(c)
  <2> DEFINE y == Mqtt!remaining_length_len(c.max) + c.max
  <2>1. y \in Nat BY <1>1, ShorterIsLess
  <2>2. Held(c) = Mqtt!Max({4, y}) BY <1>1 DEF Held, Mqtt!Held
  <2> HIDE DEF y
  <2>3. 4 \in Nat OBVIOUS
  <2>4. Max({4, y}) \in Nat /\ 4 <= Max({4, y}) /\ y <= Max({4, y})
        /\ Mqtt!Max({4, y}) = Max({4, y})
    BY <2>1, <2>3, MaxOfTwo
  <2> QED BY <2>2, <2>4 DEF y
<1>5. CASE ~HeaderThere(b)
  <2>1. Decode(c, b) = NeedMore BY <1>3, <1>5, DecodeOfMqtt
  <2>2. Len(b) <= 4 BY <1>3, <1>5 DEF HeaderThere
  <2> QED BY <1>3, <1>4, <2>1, <2>2, NoItem DEF Steady
<1>6. CASE HeaderThere(b)
  <2>1. ASSUME NEW more \in Seq(Byte)
        PROVE  Decode(c, b \o more) = PacketFound(c, b \o more, r)
    <3>1. b \o more \in Seq(Byte) BY <1>3, LongerHead
    <3>2. HeaderThere(b \o more) /\ Remaining(b \o more) = r BY <1>3, <1>6, HeaderLater
    <3> QED BY <3>1, <3>2, DecodeOfMqtt
  <2>2. Decode(c, b) = PacketFound(c, b, r) BY <1>3, <1>6, DecodeOfMqtt
  <2>3. r.ok => /\ r.value \in Nat /\ r.used \in 1..4
                /\ r.used = Mqtt!remaining_length_len(r.value)
                /\ 1 + r.used <= Len(b)
    <3>1. <<>> \in Seq(Byte) BY EmptySeq
    <3> QED BY <1>3, <1>6, <3>1, HeaderLater
  <2> HIDE DEF r
  <2>4. CASE ~r.ok
    <3>1. \A s : PacketFound(c, s, r) = Failed("Decode") BY <2>4 DEF PacketFound
    <3>2. Fails(c, b, "Decode") BY <1>2, <2>1, <3>1 DEF Fails
    <3>3. Decode(c, b) = Failed("Decode") BY <2>2, <3>1
    <3>4. Allowed(c, b) BY <3>3, NoItem
    <3> QED BY <3>2, <3>3, <3>4 DEF Steady, Failed, NeedMore
  <2>5. CASE r.ok /\ r.value > c.max
    <3>1. \A s : PacketFound(c, s, r) = Failed("FrameTooLarge")
      BY <2>5 DEF PacketFound
    <3>2. Fails(c, b, "FrameTooLarge") BY <1>2, <2>1, <3>1 DEF Fails
    <3>3. Decode(c, b) = Failed("FrameTooLarge") BY <2>2, <3>1
    <3>4. Allowed(c, b) BY <3>3, NoItem
    <3> QED BY <3>2, <3>3, <3>4 DEF Steady, Failed, NeedMore
  <2>6. CASE r.ok /\ ~(r.value > c.max)
    <3>1. end \in Nat /\ end > 1 /\ end = (1 + r.used) + r.value
      BY <2>3, <2>6 DEF PacketEnd
    <3> HIDE DEF end
    <3>a. /\ r.used <= Mqtt!remaining_length_len(c.max)
          /\ Mqtt!remaining_length_len(c.max) \in 1..4
      BY <1>1, <2>3, <2>6, ShorterIsLess
    <3>2. CASE Len(b) < end
      <4>1. Decode(c, b) = NeedMore BY <2>2, <2>6, <3>2 DEF PacketFound, end
      <4>2. Len(b) <= Held(c)
        <5> DEFINE u == r.used
                   w == r.value
                   l == Len(b)
                   h == Held(c)
                   top == c.max
                   k == Mqtt!remaining_length_len(c.max)
        <5>1. u \in Nat /\ w \in Nat /\ w <= top /\ top \in Nat BY <1>1, <2>3, <2>6
        <5>2. l \in Nat /\ l < (1 + u) + w BY <1>3, <3>1, <3>2
        <5>3. u <= k /\ k \in Nat /\ h \in Nat /\ k + top <= h BY <1>4, <3>a
        <5> HIDE DEF u, w, l, h, top, k
        <5>4. l <= h BY ONLY <5>1, <5>2, <5>3
        <5> QED BY <5>4 DEF l, h
      <4> QED BY <4>1, <4>2, NoItem DEF Steady
    <3>3. CASE ~(Len(b) < end)
      <4>1. ASSUME NEW more \in Seq(Byte)
            PROVE  Decode(c, b \o more)
                     = IF b[1] \div 16 = 0 THEN Failed("Decode")
                       ELSE IF p.ok /\ p.used = r.value
                         THEN Item(p.value, SubSeq(b \o more, end + 1, Len(b \o more)))
                       ELSE Failed("Decode")
        <5> DEFINE s == b \o more
        <5>1. /\ Len(s) = Len(b) + Len(more) /\ Len(more) \in Nat
              /\ \A i \in 1..Len(b) : s[i] = b[i]
          BY <1>3, LongerHead
        <5>2. SubSeq(s, (1 + r.used) + 1, end) = SubSeq(b, (1 + r.used) + 1, end)
          <6>1. (1 + r.used) + 1 \in Nat \ {0} /\ end \in Nat /\ end <= Len(b)
            BY <1>3, <2>3, <2>6, <3>1, <3>3
          <6> QED BY <1>3, <6>1, LongerPart
        <5> HIDE DEF s
        <5>3. s[1] = b[1] /\ ~(Len(s) < end) BY <1>3, <3>1, <3>3, <5>1
        <5>4. PacketOf(s, r) = p BY <5>2, <5>3 DEF PacketOf, end
        <5> HIDE DEF p
        <5>5. PacketFound(c, s, r)
                = IF s[1] \div 16 = 0 THEN Failed("Decode")
                  ELSE IF p.ok /\ p.used = r.value
                    THEN Item(p.value, SubSeq(s, end + 1, Len(s)))
                  ELSE Failed("Decode")
          BY <2>6, <5>3, <5>4 DEF PacketFound, end
        <5> QED BY <2>1, <5>3, <5>5 DEF s
      <4> HIDE DEF p
      <4>2. <<>> \in Seq(Byte) /\ b \o <<>> = b BY <1>3, EmptySeq, ConcatEmptySeq
      <4>3. Decode(c, b)
              = IF b[1] \div 16 = 0 THEN Failed("Decode")
                ELSE IF p.ok /\ p.used = r.value
                  THEN Item(p.value, SubSeq(b, end + 1, Len(b)))
                ELSE Failed("Decode")
        <5>1. Decode(c, b \o <<>>)
                = IF b[1] \div 16 = 0 THEN Failed("Decode")
                  ELSE IF p.ok /\ p.used = r.value
                    THEN Item(p.value, SubSeq(b \o <<>>, end + 1, Len(b \o <<>>)))
                  ELSE Failed("Decode")
          BY <4>1, <4>2
        <5> QED BY <4>2, <5>1
      <4>4. CASE b[1] \div 16 # 0 /\ p.ok /\ p.used = r.value
        <5>1. Yields(c, b, end, p.value) BY <1>2, <4>1, <4>4 DEF Yields
        <5>2. end \in 1..Len(b) BY <1>3, <3>1, <3>3
        <5>3. Decode(c, b) = Item(p.value, SubSeq(b, end + 1, Len(b))) BY <4>3, <4>4
        <5>4. WithinLimit(c, p.value, end)
          <6> DEFINE u == r.used
                     w == r.value
                     top == c.max
                     k == Mqtt!remaining_length_len(c.max)
          <6>1. u \in Nat /\ w \in Nat /\ w <= top /\ top \in Nat BY <1>1, <2>3, <2>6
          <6>2. u <= k /\ k \in Nat BY <3>a
          <6> HIDE DEF u, w, top, k
          <6>3. (1 + u) + w <= (1 + k) + top BY ONLY <6>1, <6>2
          <6>4. end <= 1 + Mqtt!remaining_length_len(c.max) + c.max
            BY <3>1, <6>3 DEF u, w, top, k
          <6> QED BY <1>1, <6>4 DEF WithinLimit, Mqtt!WithinLimit
        <5>5. Allowed(c, b) BY <5>2, <5>3, <5>4, ItemAllowed
        <5> QED BY <5>1, <5>2, <5>3, <5>5 DEF Steady, Item, NeedMore
      <4>5. CASE ~(b[1] \div 16 # 0 /\ p.ok /\ p.used = r.value)
        <5>1. Fails(c, b, "Decode") BY <1>2, <4>1, <4>5 DEF Fails
        <5>2. Decode(c, b) = Failed("Decode") BY <4>3, <4>5
        <5>3. Allowed(c, b) BY <5>2, NoItem
        <5> QED BY <5>1, <5>2, <5>3 DEF Steady, Failed, NeedMore
      <4> QED BY <4>4, <4>5
    <3> QED BY <3>2, <3>3
  <2> QED BY <2>4, <2>5, <2>6
<1> QED BY <1>5, <1>6

-----------------------------------------------------------------------------
\* WebSocketCodec
IsNumber(digits, n, f) ==
  f = [i \in 0..n |-> IF i = 0 THEN 0 ELSE (f[i - 1] * 256) + digits[i]]

LEMMA NumberExists ==
  ASSUME NEW digits, NEW n \in Nat
  PROVE  \E f : IsNumber(digits, n, f)
<1> DEFINE S == {k \in Nat : \E f : IsNumber(digits, k, f)}
<1>1. 0 \in S
  <2> DEFINE f == [i \in 0..0 |-> 0]
  <2>1. IsNumber(digits, 0, f) BY DEF IsNumber
  <2> QED BY <2>1
<1>2. ASSUME NEW k \in S PROVE k + 1 \in S
  <2>1. PICK f : IsNumber(digits, k, f) OBVIOUS
  <2> DEFINE last == (f[k] * 256) + digits[k + 1]
             g == [i \in 0..k + 1 |-> IF i = k + 1 THEN last ELSE f[i]]
  <2>2. g[k + 1] = (g[(k + 1) - 1] * 256) + digits[k + 1] OBVIOUS
  <2>3. \A i \in 0..k : g[i] = f[i] OBVIOUS
  <2>4. \A i \in 0..k : i # 0 => i - 1 \in 0..k OBVIOUS
  <2>5. \A i \in 0..k : f[i] = IF i = 0 THEN 0 ELSE (f[i - 1] * 256) + digits[i]
    BY <2>1, Zenon DEF IsNumber
  <2>6. g = [i \in 0..k + 1 |-> g[i]] OBVIOUS
  <2> HIDE DEF g
  <2>7. \A i \in 0..k + 1 : g[i] = IF i = 0 THEN 0 ELSE (g[i - 1] * 256) + digits[i]
    <3> SUFFICES ASSUME NEW i \in 0..k + 1
                 PROVE  g[i] = IF i = 0 THEN 0 ELSE (g[i - 1] * 256) + digits[i]
      OBVIOUS
    <3>1. CASE i = k + 1 BY <2>2, <3>1
    <3>2. CASE i # k + 1
      <4>1. i \in 0..k BY <3>2
      <4> QED BY <2>3, <2>4, <2>5, <4>1
    <3> QED BY <3>1, <3>2
  <2>8. IsNumber(digits, k + 1, g) BY <2>6, <2>7 DEF IsNumber
  <2> QED BY <2>8
<1> HIDE DEF S
<1>3. S = Nat BY <1>1, <1>2, Loop!SetInduction DEF S
<1> QED BY <1>3 DEF S

LEMMA NumberType ==
  ASSUME NEW digits \in Seq(Byte)
  PROVE  Ws!Number(digits) \in Nat
<1> DEFINE count == Len(digits)
           first == CHOOSE f : IsNumber(digits, count, f)
<1>0. count \in Nat BY LenProperties
<1>1. \A i \in 1..count : digits[i] \in Byte BY <1>0, ElementOfSeq
<1> HIDE DEF count
<1>2. IsNumber(digits, count, first) BY <1>0, NumberExists, Zenon
<1>3. Ws!Number(digits) \in {Ws!Huge, first[count]}
  BY DEF Ws!Number, IsNumber, count
<1> HIDE DEF first
<1> DEFINE S == {k \in Nat : k <= count => first[k] \in Nat}
<1>4. 0 \in S
  <2>1. 0 \in 0..count BY <1>0
  <2>2. first[0] = 0 BY <1>2, <2>1 DEF IsNumber
  <2> QED BY <2>2
<1>5. ASSUME NEW k \in S PROVE k + 1 \in S
  <2> SUFFICES ASSUME k + 1 <= count PROVE first[k + 1] \in Nat OBVIOUS
  <2>1. k + 1 \in 0..count /\ k + 1 # 0 /\ (k + 1) - 1 = k /\ k <= count BY <1>0
  <2>2. first[k + 1] = (first[k] * 256) + digits[k + 1] BY <1>2, <2>1 DEF IsNumber
  <2>3. k + 1 \in 1..count BY <1>0, <2>1
  <2>a. \A x \in Byte : x \in Nat BY DEF Byte
  <2>4. digits[k + 1] \in Nat BY <1>1, <2>3, <2>a, Zenon
  <2>5. first[k] \in Nat BY <2>1
  <2>6. first[k] * 256 \in Nat BY <2>5
  <2> QED BY <2>2, <2>4, <2>6
<1> HIDE DEF S
<1>6. S = Nat BY <1>4, <1>5, Loop!SetInduction DEF S
<1>7. first[count] \in Nat BY <1>0, <1>6 DEF S
<1> QED BY <1>3, <1>7 DEF Ws!Huge

LenKind(s)  == s[2] % 128
ExtLen(s)   == CASE LenKind(s) = 126 -> 2 [] LenKind(s) = 127 -> 8 [] OTHER -> 0
ExtBytes(s) == SubSeq(s, 3, 2 + ExtLen(s))
WsLength(s) == IF ExtLen(s) = 0 THEN LenKind(s) ELSE Ws!Number(ExtBytes(s))
WsStart(s)  == 2 + ExtLen(s) + (IF s[2] >= 128 THEN 4 ELSE 0)
WsEnd(s)    == WsStart(s) + WsLength(s)
WsPayload(s) ==
  IF s[2] >= 128
    THEN Ws!Masked(SubSeq(s, (WsStart(s) - 4) + 1, WsStart(s)),
                   SubSeq(s, WsStart(s) + 1, WsEnd(s)))
    ELSE SubSeq(s, WsStart(s) + 1, WsEnd(s))

LEMMA DecodeOfWs ==
  ASSUME NEW c \in WebSocket, NEW s \in Seq(Byte)
  PROVE  Decode(c, s) =
           IF Len(s) < 2 THEN NeedMore
           ELSE IF Len(s) < 2 + ExtLen(s) THEN NeedMore
           ELSE IF ~Ws!validate_payload_len_encoding(LenKind(s), ExtBytes(s))
             THEN Failed("Decode")
           ELSE IF WsLength(s) > c.max THEN Failed("FrameTooLarge")
           ELSE IF Len(s) < WsEnd(s) THEN NeedMore
           ELSE IF ~Ws!validate_frame_header(c, s[1], s[2] >= 128, WsLength(s))
             THEN Failed("Decode")
           ELSE Ws!decode_payload(s[1] % 16, WsPayload(s), SubSeq(s, WsEnd(s) + 1, Len(s)))
<1>1. Decode(c, s) = Ws!Decode(c, s) BY DEF WebSocket, Decode
<1>2. 2 + 1 = 3 OBVIOUS
<1> QED
  BY <1>1, <1>2 DEF Ws!Decode, Ws!Piece, LenKind, ExtLen, ExtBytes, WsLength, WsStart,
     WsEnd, WsPayload, Ws!Failed, Failed, Ws!NeedMore, NeedMore

LEMMA PayloadDecoded ==
  ASSUME NEW opcode, NEW payload
  PROVE  \/ \A rest : Ws!decode_payload(opcode, payload, rest) = Failed("Decode")
         \/ \E x : \A rest : Ws!decode_payload(opcode, payload, rest) = Item(x, rest)
<1> DEFINE D(rest) == Ws!decode_payload(opcode, payload, rest)
<1>1. CASE opcode = 1 /\ Ws!ValidUtf8(payload)
  <2>1. \A rest : D(rest) = Item(Ws!Message("Text", payload), rest)
    BY <1>1 DEF Ws!decode_payload, Ws!Item, Item
  <2> QED BY <2>1
<1>2. CASE opcode = 2
  <2>1. \A rest : D(rest) = Item(Ws!Message("Binary", payload), rest)
    BY <1>2 DEF Ws!decode_payload, Ws!Item, Item
  <2> QED BY <2>1
<1>3. CASE opcode = 9
  <2>1. \A rest : D(rest) = Item(Ws!Message("Ping", payload), rest)
    BY <1>3 DEF Ws!decode_payload, Ws!Item, Item
  <2> QED BY <2>1
<1>4. CASE opcode = 10
  <2>1. \A rest : D(rest) = Item(Ws!Message("Pong", payload), rest)
    BY <1>4 DEF Ws!decode_payload, Ws!Item, Item
  <2> QED BY <2>1
<1>5. CASE opcode = 8 /\ Ws!decode_close(payload).ok
  <2>1. \A rest : D(rest) = Item([type |-> "Close",
                                  close |-> Ws!decode_close(payload).bytes], rest)
    BY <1>5 DEF Ws!decode_payload, Ws!Item, Item
  <2> QED BY <2>1
<1>6. CASE /\ ~(opcode = 1 /\ Ws!ValidUtf8(payload))
           /\ opcode # 2 /\ opcode # 9 /\ opcode # 10
           /\ ~(opcode = 8 /\ Ws!decode_close(payload).ok)
  <2>1. \A rest : D(rest) = Failed("Decode")
    BY <1>6 DEF Ws!decode_payload, Ws!Failed, Failed
  <2> QED BY <2>1
<1> QED BY <1>1, <1>2, <1>3, <1>4, <1>5, <1>6

\* What has arrived of a frame decides its shape
LEMMA WsShape ==
  ASSUME NEW b \in Seq(Byte), NEW more \in Seq(Byte), Len(b) >= 2
  PROVE  /\ LenKind(b) \in Nat
         /\ ExtLen(b) \in {0, 2, 8}
         /\ (LenKind(b) = 126 => ExtLen(b) = 2) /\ (LenKind(b) = 127 => ExtLen(b) = 8)
         /\ (ExtLen(b) = 2 => LenKind(b) = 126) /\ (ExtLen(b) = 8 => LenKind(b) = 127)
         /\ LenKind(b \o more) = LenKind(b) /\ ExtLen(b \o more) = ExtLen(b)
         /\ (b \o more)[1] = b[1] /\ (b \o more)[2] = b[2]
         /\ WsStart(b \o more) = WsStart(b)
         /\ Len(b) >= 2 + ExtLen(b) =>
              /\ ExtBytes(b \o more) = ExtBytes(b)
              /\ WsLength(b) \in Nat
              /\ WsLength(b \o more) = WsLength(b)
              /\ WsEnd(b \o more) = WsEnd(b)
              /\ WsEnd(b) \in Nat /\ WsStart(b) <= WsEnd(b)
              /\ WsStart(b) \in {2 + ExtLen(b), 2 + ExtLen(b) + 4}
              /\ WsEnd(b) = WsStart(b) + WsLength(b)
<1> DEFINE s == b \o more
<1>1. /\ Len(b) \in Nat
      /\ \A i \in 1..Len(b) : s[i] = b[i]
  BY LongerHead
<1>2. b[2] \in Byte
  <2>1. 2 \in 1..Len(b) BY <1>1
  <2> QED BY <2>1, ElementOfSeq
<1>3. \A x \in Byte : x % 128 \in Nat BY DEF Byte
<1>4. LenKind(b) \in Nat BY <1>2, <1>3, Zenon DEF LenKind
<1> HIDE DEF s
<1>5. s[1] = b[1] /\ s[2] = b[2] BY <1>1
<1>6. LenKind(s) = LenKind(b) BY <1>5 DEF LenKind
<1>7. /\ LenKind(b) = 126 => ExtLen(b) = 2
      /\ LenKind(b) = 127 => ExtLen(b) = 8
      /\ LenKind(b) # 126 /\ LenKind(b) # 127 => ExtLen(b) = 0
  <2>1. LenKind(b) = 126 => ExtLen(b) = 2 BY DEF ExtLen
  <2>2. LenKind(b) = 127 => ExtLen(b) = 8 BY DEF ExtLen
  <2>3. LenKind(b) # 126 /\ LenKind(b) # 127 => ExtLen(b) = 0 BY Zenon DEF ExtLen
  <2> QED BY <2>1, <2>2, <2>3
<1>8. ExtLen(s) = ExtLen(b) BY <1>6, Zenon DEF ExtLen
<1>9. WsStart(s) = WsStart(b) BY <1>5, <1>8, Zenon DEF WsStart
<1>10. ExtLen(b) \in {0, 2, 8} BY <1>7
<1>11. WsStart(b) \in {2 + ExtLen(b), 2 + ExtLen(b) + 4}
  BY <1>10 DEF WsStart
<1>12. ASSUME Len(b) >= 2 + ExtLen(b)
       PROVE  /\ ExtBytes(s) = ExtBytes(b)
              /\ WsLength(b) \in Nat
              /\ WsLength(s) = WsLength(b)
  <2> DEFINE end == 2 + ExtLen(b)
  <2>1. 3 \in Nat \ {0} /\ end \in Nat /\ end <= Len(b) BY <1>10, <1>12
  <2> HIDE DEF end
  <2>2. SubSeq(b \o more, 3, end) = SubSeq(b, 3, end)
    BY <2>1, LongerPart
  <2>3. ExtBytes(s) = ExtBytes(b) BY <1>8, <2>2 DEF ExtBytes, s, end
  <2>4. SubSeq(b, 3, end) \in Seq(Byte) BY <2>1, PartType
  <2>5. Ws!Number(ExtBytes(b)) \in Nat BY <2>4, NumberType DEF ExtBytes, end
  <2>6. WsLength(b) \in Nat BY <1>4, <2>5 DEF WsLength
  <2>7. WsLength(s) = WsLength(b) BY <1>6, <1>8, <2>3 DEF WsLength
  <2> QED BY <2>3, <2>6, <2>7
<1>13. ASSUME Len(b) >= 2 + ExtLen(b)
       PROVE  /\ WsEnd(s) = WsEnd(b)
              /\ WsEnd(b) \in Nat /\ WsStart(b) <= WsEnd(b)
              /\ WsEnd(b) = WsStart(b) + WsLength(b)
  <2>1. WsLength(b) \in Nat /\ WsLength(s) = WsLength(b) BY <1>12, <1>13
  <2>2. WsStart(b) \in Nat BY <1>10, <1>11
  <2> QED BY <1>9, <2>1, <2>2 DEF WsEnd
<1> QED BY <1>4, <1>5, <1>6, <1>7, <1>8, <1>9, <1>10, <1>11, <1>12, <1>13 DEF s

LEMMA WsPayloadLater ==
  ASSUME NEW b \in Seq(Byte), NEW more \in Seq(Byte), Len(b) >= 2,
         Len(b) >= 2 + ExtLen(b), Len(b) >= WsEnd(b)
  PROVE  WsPayload(b \o more) = WsPayload(b)
<1> DEFINE s == b \o more
           from == WsStart(b)
           to == WsEnd(b)
<1>1. /\ from \in {2 + ExtLen(b), 2 + ExtLen(b) + 4} /\ ExtLen(b) \in {0, 2, 8}
      /\ to \in Nat /\ from <= to /\ WsStart(s) = from /\ WsEnd(s) = to
      /\ s[2] = b[2]
  BY WsShape
<1>2. Len(b) \in Nat BY LenProperties
<1>3. b[2] >= 128 => from = 2 + ExtLen(b) + 4 BY DEF WsStart
<1> HIDE DEF from, to
<1>4. from \in Nat BY <1>1
<1>5. SubSeq(s, from + 1, to) = SubSeq(b, from + 1, to)
  <2>1. from + 1 \in Nat \ {0} /\ to <= Len(b) BY <1>4 DEF to
  <2> QED BY <1>1, <2>1, LongerPart
<1>6. b[2] >= 128 =>
        SubSeq(s, (from - 4) + 1, from) = SubSeq(b, (from - 4) + 1, from)
  <2> SUFFICES ASSUME b[2] >= 128
               PROVE  SubSeq(s, (from - 4) + 1, from) = SubSeq(b, (from - 4) + 1, from)
    OBVIOUS
  <2>1. (from - 4) + 1 \in Nat \ {0} /\ from <= Len(b) BY <1>1, <1>2, <1>3, <1>4 DEF to
  <2> QED BY <1>4, <2>1, LongerPart
<1> HIDE DEF s
<1>7. WsPayload(s) = WsPayload(b)
  <2>1. CASE b[2] >= 128
    <3>1. WsPayload(b) = Ws!Masked(SubSeq(b, (from - 4) + 1, from), SubSeq(b, from + 1, to))
      BY <2>1, Zenon DEF WsPayload, from, to
    <3>2. WsPayload(s) = Ws!Masked(SubSeq(s, (from - 4) + 1, from), SubSeq(s, from + 1, to))
      BY <1>1, <2>1, Zenon DEF WsPayload
    <3> QED BY <1>5, <1>6, <2>1, <3>1, <3>2
  <2>2. CASE ~(b[2] >= 128)
    <3>1. WsPayload(b) = SubSeq(b, from + 1, to) BY <2>2, Zenon DEF WsPayload, from, to
    <3>2. WsPayload(s) = SubSeq(s, from + 1, to) BY <1>1, <2>2, Zenon DEF WsPayload
    <3> QED BY <1>5, <3>1, <3>2
  <2> QED BY <2>1, <2>2
<1> QED BY <1>7 DEF s

\* The shortest form of a length bounds the header by what the payload may be
LEMMA WsHeld ==
  ASSUME NEW c \in WebSocket, NEW b \in Seq(Byte), Decode(c, b) = NeedMore
  PROVE  Len(b) <= Held(c)
<1> DEFINE ext == IF c.max > 65535 THEN 8 ELSE IF c.max > 125 THEN 2 ELSE 0
           most == 2 + ext + 4 + c.max - 1
<1>1. c.protocol = "websocket" /\ c.max \in Nat BY DEF WebSocket
<1>2. Len(b) \in Nat BY LenProperties
<1>3. Held(c) \in Nat /\ 9 <= Held(c) /\ most <= Held(c)
  <2>1. most \in Nat BY <1>1
  <2>2. Held(c) = Ws!Max({9, most}) BY <1>1 DEF Held, Ws!Held
  <2> HIDE DEF most
  <2>3. Ws!Max({9, most}) = Max({9, most}) BY DEF Ws!Max, Max
  <2>4. 9 \in Nat OBVIOUS
  <2>5. Max({9, most}) \in Nat /\ 9 <= Max({9, most}) /\ most <= Max({9, most})
    BY <2>1, <2>4, MaxOfTwo
  <2> QED BY <2>2, <2>3, <2>5
<1>4. CASE Len(b) < 2 BY <1>2, <1>3, <1>4
<1>5. CASE Len(b) >= 2
  <2>1. /\ ExtLen(b) \in {0, 2, 8}
        /\ (ExtLen(b) = 2 => LenKind(b) = 126) /\ (ExtLen(b) = 8 => LenKind(b) = 127)
        /\ Len(b) >= 2 + ExtLen(b) =>
              /\ WsLength(b) \in Nat /\ WsEnd(b) \in Nat
              /\ WsStart(b) \in {2 + ExtLen(b), 2 + ExtLen(b) + 4}
              /\ WsEnd(b) = WsStart(b) + WsLength(b)
    <3>1. <<>> \in Seq(Byte) BY EmptySeq
    <3> QED BY <1>5, <3>1, WsShape
  <2>2. CASE Len(b) < 2 + ExtLen(b) BY <1>2, <1>3, <2>1, <2>2
  <2>3. CASE ~(Len(b) < 2 + ExtLen(b))
    <3>1. /\ Ws!validate_payload_len_encoding(LenKind(b), ExtBytes(b))
          /\ ~(WsLength(b) > c.max)
          /\ Len(b) < WsEnd(b)
      <4> DEFINE valid == Ws!validate_payload_len_encoding(LenKind(b), ExtBytes(b))
                 good == Ws!validate_frame_header(c, b[1], b[2] >= 128, WsLength(b))
                 last == Ws!decode_payload(b[1] % 16, WsPayload(b),
                                           SubSeq(b, WsEnd(b) + 1, Len(b)))
      <4>0. ~(Len(b) < 2) BY <1>2, <1>5
      <4>1. last # NeedMore
        <5> DEFINE opcode == b[1] % 16
                   payload == WsPayload(b)
                   rest == SubSeq(b, WsEnd(b) + 1, Len(b))
        <5> HIDE DEF opcode, payload, rest
        <5>1. \/ Ws!decode_payload(opcode, payload, rest) = Failed("Decode")
              \/ \E x : Ws!decode_payload(opcode, payload, rest) = Item(x, rest)
          BY PayloadDecoded
        <5>2. Ws!decode_payload(opcode, payload, rest) # NeedMore
          BY <5>1 DEF Failed, Item, NeedMore
        <5> QED BY <5>2 DEF opcode, payload, rest
      <4> HIDE DEF valid, good, last
      <4>2. Decode(c, b) = IF ~valid THEN Failed("Decode")
                           ELSE IF WsLength(b) > c.max THEN Failed("FrameTooLarge")
                           ELSE IF Len(b) < WsEnd(b) THEN NeedMore
                           ELSE IF ~good THEN Failed("Decode") ELSE last
        BY <2>3, <4>0, DecodeOfWs DEF valid, good, last
      <4>3. valid /\ ~(WsLength(b) > c.max) /\ Len(b) < WsEnd(b)
        BY <4>1, <4>2 DEF Failed, NeedMore
      <4> QED BY <4>3 DEF valid
    <3>2. /\ WsLength(b) \in Nat /\ WsEnd(b) \in Nat
          /\ WsStart(b) \in {2 + ExtLen(b), 2 + ExtLen(b) + 4}
          /\ WsEnd(b) = WsStart(b) + WsLength(b)
      BY <1>2, <2>1, <2>3
    <3>3. ExtLen(b) = 2 => WsLength(b) >= 126
      BY <2>1, <3>1 DEF Ws!validate_payload_len_encoding, WsLength
    <3>4. ExtLen(b) = 8 => WsLength(b) > 65535
      BY <2>1, <3>1 DEF Ws!validate_payload_len_encoding, WsLength
    <3>5. ext \in {0, 2, 8} /\ ExtLen(b) <= ext
      BY <1>1, <2>1, <3>1, <3>2, <3>3, <3>4
    <3> HIDE DEF ext
    <3>6. Len(b) <= most
      <4> DEFINE x == ExtLen(b)
                 y == WsLength(b)
                 z == WsStart(b)
      <4>1. /\ x \in Nat /\ y \in Nat /\ z \in Nat /\ ext \in Nat
            /\ x <= ext /\ y <= c.max /\ z <= 2 + x + 4 /\ Len(b) < z + y
        BY <1>1, <1>2, <2>1, <3>1, <3>2, <3>5
      <4> HIDE DEF x, y, z
      <4> QED BY <1>1, <1>2, <4>1
    <3> QED BY <1>1, <1>2, <1>3, <3>5, <3>6
  <2> QED BY <2>2, <2>3
<1> QED BY <1>2, <1>4, <1>5

LEMMA WsSteady ==
  ASSUME NEW c \in WebSocket, NEW b \in Bytes(c)
  PROVE  /\ Steady(c, b)
         /\ Decode(c, b) = NeedMore => Len(b) <= Held(c)
<1>1. c.protocol = "websocket" /\ c.max \in Nat BY DEF WebSocket
<1>2. Bytes(c) = Seq(Byte) BY <1>1 DEF Bytes, Alphabet, Byte
<1>3. b \in Seq(Byte) /\ Len(b) \in Nat BY <1>2, LenProperties
<1>4. Decode(c, b) = NeedMore => Len(b) <= Held(c) BY <1>3, WsHeld
<1> SUFFICES Steady(c, b) BY <1>4
<1> DEFINE valid == Ws!validate_payload_len_encoding(LenKind(b), ExtBytes(b))
           length == WsLength(b)
           end == WsEnd(b)
           good == Ws!validate_frame_header(c, b[1], b[2] >= 128, WsLength(b))
           Out(rest) == Ws!decode_payload(b[1] % 16, WsPayload(b), rest)
<1>5. CASE Len(b) < 2 \/ Len(b) < 2 + ExtLen(b)
  <2>1. Decode(c, b) = NeedMore BY <1>3, <1>5, DecodeOfWs
  <2> QED BY <2>1 DEF Steady
<1>6. CASE ~(Len(b) < 2) /\ ~(Len(b) < 2 + ExtLen(b))
  <2>1. /\ Len(b) >= 2 /\ ExtLen(b) \in {0, 2, 8}
        /\ Len(b) >= 2 + ExtLen(b)
    <3>1. Len(b) >= 2 BY <1>3, <1>6
    <3>2. <<>> \in Seq(Byte) BY EmptySeq
    <3>3. ExtLen(b) \in {0, 2, 8} BY <1>3, <3>1, <3>2, WsShape
    <3> QED BY <1>3, <1>6, <3>1, <3>3
  <2>2. end \in Nat /\ end >= 2
    <3>1. <<>> \in Seq(Byte) BY EmptySeq
    <3>2. /\ WsEnd(b) \in Nat /\ WsStart(b) <= WsEnd(b)
          /\ WsStart(b) \in {2 + ExtLen(b), 2 + ExtLen(b) + 4}
      BY <1>3, <2>1, <3>1, WsShape
    <3> QED BY <2>1, <3>2
  <2>3. ASSUME NEW more \in Seq(Byte)
        PROVE  Decode(c, b \o more)
                 = IF ~valid THEN Failed("Decode")
                   ELSE IF length > c.max THEN Failed("FrameTooLarge")
                   ELSE IF Len(b \o more) < end THEN NeedMore
                   ELSE IF ~good THEN Failed("Decode")
                   ELSE Ws!decode_payload(b[1] % 16, WsPayload(b \o more),
                                          SubSeq(b \o more, end + 1, Len(b \o more)))
    <3> DEFINE s == b \o more
    <3>1. /\ s \in Seq(Byte) /\ Len(s) = Len(b) + Len(more) /\ Len(more) \in Nat
      BY <1>3, LongerHead
    <3>2. /\ LenKind(s) = LenKind(b) /\ ExtLen(s) = ExtLen(b)
          /\ s[1] = b[1] /\ s[2] = b[2]
          /\ ExtBytes(s) = ExtBytes(b) /\ WsLength(s) = WsLength(b)
          /\ WsEnd(s) = WsEnd(b)
      BY <1>3, <2>1, WsShape
    <3> HIDE DEF s
    <3>3. ~(Len(s) < 2) /\ ~(Len(s) < 2 + ExtLen(s)) BY <1>3, <2>1, <3>1, <3>2
    <3>4. Decode(c, s)
            = IF ~Ws!validate_payload_len_encoding(LenKind(s), ExtBytes(s))
                THEN Failed("Decode")
              ELSE IF WsLength(s) > c.max THEN Failed("FrameTooLarge")
              ELSE IF Len(s) < WsEnd(s) THEN NeedMore
              ELSE IF ~Ws!validate_frame_header(c, s[1], s[2] >= 128, WsLength(s))
                THEN Failed("Decode")
              ELSE Ws!decode_payload(s[1] % 16, WsPayload(s), SubSeq(s, WsEnd(s) + 1, Len(s)))
      BY <3>1, <3>3, DecodeOfWs
    <3> QED BY <3>2, <3>4, Zenon DEF s
  <2>4. ASSUME NEW more \in Seq(Byte), Len(b) >= end
        PROVE  WsPayload(b \o more) = WsPayload(b) /\ ~(Len(b \o more) < end)
    <3>1. Len(b \o more) = Len(b) + Len(more) /\ Len(more) \in Nat
      BY <1>3, LongerHead
    <3>2. ~(Len(b \o more) < end) BY <1>3, <2>2, <2>4, <3>1
    <3> QED BY <1>3, <2>1, <2>4, <3>2, WsPayloadLater
  <2>5. <<>> \in Seq(Byte) /\ b \o <<>> = b BY <1>3, EmptySeq, ConcatEmptySeq
  <2> HIDE DEF valid, length, end, good
  <2>6. CASE ~valid
    <3>1. Fails(c, b, "Decode") BY <1>2, <2>3, <2>6 DEF Fails
    <3> QED BY <3>1 DEF Steady
  <2>7. CASE valid /\ length > c.max
    <3>1. Fails(c, b, "FrameTooLarge") BY <1>2, <2>3, <2>7 DEF Fails
    <3> QED BY <3>1 DEF Steady
  <2>8. CASE valid /\ ~(length > c.max) /\ Len(b) < end
    <3>1. Decode(c, b) = NeedMore BY <2>3, <2>5, <2>8
    <3> QED BY <3>1 DEF Steady
  <2>9. CASE valid /\ ~(length > c.max) /\ ~(Len(b) < end)
    <3>0. end \in 1..Len(b) BY <1>3, <2>2, <2>9
    <3>1. ASSUME NEW more \in Seq(Byte)
          PROVE  Decode(c, b \o more)
                   = IF ~good THEN Failed("Decode")
                     ELSE Out(SubSeq(b \o more, end + 1, Len(b \o more)))
      <4>1. Len(b) >= end BY <3>0
      <4>2. WsPayload(b \o more) = WsPayload(b) /\ ~(Len(b \o more) < end)
        BY <2>4, <4>1
      <4> QED BY <2>3, <2>9, <4>2
    <3>2. \/ \A rest : Out(rest) = Failed("Decode")
          \/ \E x : \A rest : Out(rest) = Item(x, rest)
      <4> DEFINE opcode == b[1] % 16
                 payload == WsPayload(b)
      <4> HIDE DEF opcode, payload
      <4>1. \/ \A rest : Ws!decode_payload(opcode, payload, rest) = Failed("Decode")
            \/ \E x : \A rest : Ws!decode_payload(opcode, payload, rest) = Item(x, rest)
        BY PayloadDecoded
      <4> QED BY <4>1 DEF opcode, payload
    <3> HIDE DEF Out
    <3>3. CASE ~good \/ \A rest : Out(rest) = Failed("Decode")
      <4>1. Fails(c, b, "Decode") BY <1>2, <3>1, <3>3 DEF Fails
      <4> QED BY <4>1 DEF Steady
    <3>4. CASE good /\ \E x : \A rest : Out(rest) = Item(x, rest)
      <4>1. PICK x : \A rest : Out(rest) = Item(x, rest) BY <3>4
      <4>2. Yields(c, b, end, x) BY <1>2, <3>1, <3>4, <4>1 DEF Yields
      <4> QED BY <3>0, <4>2 DEF Steady
    <3> QED BY <3>2, <3>3, <3>4
  <2> QED BY <2>6, <2>7, <2>8, <2>9
<1> QED BY <1>5, <1>6

-----------------------------------------------------------------------------
\* Bytes as eight bits
Bits == [0..7 -> {0, 1}]

Value(d) == d[0] + 2 * d[1] + 4 * d[2] + 8 * d[3] + 16 * d[4] + 32 * d[5]
              + 64 * d[6] + 128 * d[7]

Unequal(d, e) == [i \in 0..7 |-> IF d[i] = e[i] THEN 0 ELSE 1]

LEMMA BitsType ==
  ASSUME NEW d \in Bits
  PROVE  /\ \A i \in 0..7 : d[i] = 0 \/ d[i] = 1
         /\ Value(d) \in Byte
<1>1. \A i \in 0..7 : d[i] = 0 \/ d[i] = 1 BY DEF Bits
<1>2. /\ d[0] \in 0..1 /\ d[1] \in 0..1 /\ d[2] \in 0..1 /\ d[3] \in 0..1
      /\ d[4] \in 0..1 /\ d[5] \in 0..1 /\ d[6] \in 0..1 /\ d[7] \in 0..1
  BY <1>1
<1> QED BY <1>1, <1>2 DEF Value, Byte

LEMMA Halved ==
  ASSUME NEW n \in Nat
  PROVE  \E h \in Nat, r \in {0, 1} : n = 2 * h + r
<1>1. n \div 2 \in Nat /\ n % 2 \in {0, 1} /\ n = 2 * (n \div 2) + (n % 2) OBVIOUS
<1> QED BY <1>1

LEMMA BitsExist ==
  ASSUME NEW x \in Byte
  PROVE  \E d \in Bits : x = Value(d)
<1>0. x \in Nat /\ x < 256 BY DEF Byte
<1>1. PICK x1 \in Nat, r0 \in {0, 1} : x = 2 * x1 + r0 BY <1>0, Halved
<1>2. PICK x2 \in Nat, r1 \in {0, 1} : x1 = 2 * x2 + r1 BY Halved
<1>3. PICK x3 \in Nat, r2 \in {0, 1} : x2 = 2 * x3 + r2 BY Halved
<1>4. PICK x4 \in Nat, r3 \in {0, 1} : x3 = 2 * x4 + r3 BY Halved
<1>5. PICK x5 \in Nat, r4 \in {0, 1} : x4 = 2 * x5 + r4 BY Halved
<1>6. PICK x6 \in Nat, r5 \in {0, 1} : x5 = 2 * x6 + r5 BY Halved
<1>7. PICK x7 \in Nat, r6 \in {0, 1} : x6 = 2 * x7 + r6 BY Halved
<1>8. x7 \in {0, 1} BY <1>0, <1>1, <1>2, <1>3, <1>4, <1>5, <1>6, <1>7
<1>9. x = r0 + 2 * r1 + 4 * r2 + 8 * r3 + 16 * r4 + 32 * r5 + 64 * r6 + 128 * x7
  BY <1>0, <1>1, <1>2, <1>3, <1>4, <1>5, <1>6, <1>7
<1> DEFINE d == [i \in 0..7 |-> CASE i = 0 -> r0 [] i = 1 -> r1 [] i = 2 -> r2
                                  [] i = 3 -> r3 [] i = 4 -> r4 [] i = 5 -> r5
                                  [] i = 6 -> r6 [] i = 7 -> x7]
<1>10. /\ d[0] = r0 /\ d[1] = r1 /\ d[2] = r2 /\ d[3] = r3
       /\ d[4] = r4 /\ d[5] = r5 /\ d[6] = r6 /\ d[7] = x7
  OBVIOUS
<1>11. d \in Bits
  <2>1. \A i \in 0..7 : d[i] \in {0, 1}
    <3> SUFFICES ASSUME NEW i \in 0..7 PROVE d[i] \in {0, 1} OBVIOUS
    <3>1. \/ i = 0 \/ i = 1 \/ i = 2 \/ i = 3 \/ i = 4 \/ i = 5 \/ i = 6 \/ i = 7
      OBVIOUS
    <3> HIDE DEF d
    <3> QED BY <1>8, <1>10, <3>1
  <2> QED BY <2>1 DEF Bits
<1> HIDE DEF d
<1>12. x = Value(d) BY <1>9, <1>10 DEF Value
<1> QED BY <1>11, <1>12

\* What lies below a bit and above it
Around(n, b, low, bit, high) ==
  /\ b \in {1, 2, 4, 8, 16, 32, 64, 128} /\ bit \in {0, 1}
  /\ low \in Nat /\ low < b /\ high \in Nat
  /\ n = low + b * (2 * high + bit)

LEMMA BitAt ==
  ASSUME NEW n, NEW b, NEW low, NEW bit, NEW high, Around(n, b, low, bit, high)
  PROVE  Ws!Bit(n, b) <=> bit = 1
<1>0. /\ b \in {1, 2, 4, 8, 16, 32, 64, 128} /\ bit \in {0, 1}
      /\ low \in Nat /\ low < b /\ high \in Nat
      /\ n = low + b * (2 * high + bit)
  BY DEF Around
<1> DEFINE q == 2 * high + bit
<1>1. q \in Nat /\ q % 2 = bit BY <1>0
<1>2. n = low + b * q BY <1>0
<1> HIDE DEF q
<1>3. n \div b = q
  <2>1. CASE b = 1 BY <1>0, <1>1, <1>2, <2>1
  <2>2. CASE b = 2 BY <1>0, <1>1, <1>2, <2>2
  <2>3. CASE b = 4 BY <1>0, <1>1, <1>2, <2>3
  <2>4. CASE b = 8 BY <1>0, <1>1, <1>2, <2>4
  <2>5. CASE b = 16 BY <1>0, <1>1, <1>2, <2>5
  <2>6. CASE b = 32 BY <1>0, <1>1, <1>2, <2>6
  <2>7. CASE b = 64 BY <1>0, <1>1, <1>2, <2>7
  <2>8. CASE b = 128 BY <1>0, <1>1, <1>2, <2>8
  <2> QED BY <1>0, <2>1, <2>2, <2>3, <2>4, <2>5, <2>6, <2>7, <2>8
<1>4. (n \div b) % 2 = bit BY <1>1, <1>3
<1> QED BY <1>4 DEF Ws!Bit

LEMMA BitsOfValue ==
  ASSUME NEW d \in Bits
  PROVE  /\ Ws!Bit(Value(d), 1) <=> d[0] = 1
         /\ Ws!Bit(Value(d), 2) <=> d[1] = 1
         /\ Ws!Bit(Value(d), 4) <=> d[2] = 1
         /\ Ws!Bit(Value(d), 8) <=> d[3] = 1
         /\ Ws!Bit(Value(d), 16) <=> d[4] = 1
         /\ Ws!Bit(Value(d), 32) <=> d[5] = 1
         /\ Ws!Bit(Value(d), 64) <=> d[6] = 1
         /\ Ws!Bit(Value(d), 128) <=> d[7] = 1
<1> DEFINE a == d[0]
           b == d[1]
           e == d[2]
           f == d[3]
           g == d[4]
           h == d[5]
           j == d[6]
           k == d[7]
<1>1. /\ a \in {0, 1} /\ b \in {0, 1} /\ e \in {0, 1} /\ f \in {0, 1}
      /\ g \in {0, 1} /\ h \in {0, 1} /\ j \in {0, 1} /\ k \in {0, 1}
  BY BitsType
<1>2. Value(d) = a + 2 * b + 4 * e + 8 * f + 16 * g + 32 * h + 64 * j + 128 * k
  BY DEF Value
<1> HIDE DEF a, b, e, f, g, h, j, k
<1>3. Ws!Bit(Value(d), 1) <=> a = 1
  <2> DEFINE high == b + 2 * e + 4 * f + 8 * g + 16 * h + 32 * j + 64 * k
             low == 0
  <2>1. Around(Value(d), 1, low, a, high) BY <1>1, <1>2 DEF Around
  <2> HIDE DEF high, low
  <2> QED BY ONLY <2>1, BitAt
<1>4. Ws!Bit(Value(d), 2) <=> b = 1
  <2> DEFINE high == e + 2 * f + 4 * g + 8 * h + 16 * j + 32 * k
             low == a
  <2>1. Around(Value(d), 2, low, b, high) BY <1>1, <1>2 DEF Around
  <2> HIDE DEF high, low
  <2> QED BY ONLY <2>1, BitAt
<1>5. Ws!Bit(Value(d), 4) <=> e = 1
  <2> DEFINE high == f + 2 * g + 4 * h + 8 * j + 16 * k
             low == a + 2 * b
  <2>1. Around(Value(d), 4, low, e, high) BY <1>1, <1>2 DEF Around
  <2> HIDE DEF high, low
  <2> QED BY ONLY <2>1, BitAt
<1>6. Ws!Bit(Value(d), 8) <=> f = 1
  <2> DEFINE high == g + 2 * h + 4 * j + 8 * k
             low == a + 2 * b + 4 * e
  <2>1. Around(Value(d), 8, low, f, high) BY <1>1, <1>2 DEF Around
  <2> HIDE DEF high, low
  <2> QED BY ONLY <2>1, BitAt
<1>7. Ws!Bit(Value(d), 16) <=> g = 1
  <2> DEFINE high == h + 2 * j + 4 * k
             low == a + 2 * b + 4 * e + 8 * f
  <2>1. Around(Value(d), 16, low, g, high) BY <1>1, <1>2 DEF Around
  <2> HIDE DEF high, low
  <2> QED BY ONLY <2>1, BitAt
<1>8. Ws!Bit(Value(d), 32) <=> h = 1
  <2> DEFINE high == j + 2 * k
             low == a + 2 * b + 4 * e + 8 * f + 16 * g
  <2>1. Around(Value(d), 32, low, h, high) BY <1>1, <1>2 DEF Around
  <2> HIDE DEF high, low
  <2> QED BY ONLY <2>1, BitAt
<1>9. Ws!Bit(Value(d), 64) <=> j = 1
  <2> DEFINE high == k
             low == a + 2 * b + 4 * e + 8 * f + 16 * g + 32 * h
  <2>1. Around(Value(d), 64, low, j, high) BY <1>1, <1>2 DEF Around
  <2> HIDE DEF high, low
  <2> QED BY ONLY <2>1, BitAt
<1>10. Ws!Bit(Value(d), 128) <=> k = 1
  <2> DEFINE high == 0
             low == a + 2 * b + 4 * e + 8 * f + 16 * g + 32 * h + 64 * j
  <2>1. Around(Value(d), 128, low, k, high) BY <1>1, <1>2 DEF Around
  <2> HIDE DEF high, low
  <2> QED BY ONLY <2>1, BitAt
<1> QED BY <1>3, <1>4, <1>5, <1>6, <1>7, <1>8, <1>9, <1>10 DEF a, b, e, f, g, h, j, k

LEMMA XorOfBits ==
  ASSUME NEW d \in Bits, NEW e \in Bits
  PROVE  /\ Unequal(d, e) \in Bits
         /\ Ws!Xor(Value(d), Value(e)) = Value(Unequal(d, e))
         /\ Unequal(Unequal(d, e), e) = d
<1> DEFINE u == Unequal(d, e)
           One(b) == IF Ws!Bit(Value(d), b) # Ws!Bit(Value(e), b) THEN b ELSE 0
<1>1. u \in Bits BY DEF Bits, Unequal
<1>2. \A i \in 0..7 : u[i] = IF d[i] = e[i] THEN 0 ELSE 1 BY DEF Unequal
<1>3. \A i \in 0..7 : (d[i] = 0 \/ d[i] = 1) /\ (e[i] = 0 \/ e[i] = 1) BY BitsType
<1> HIDE DEF u
<1>4. /\ One(1) = u[0] /\ One(2) = 2 * u[1] /\ One(4) = 4 * u[2] /\ One(8) = 8 * u[3]
      /\ One(16) = 16 * u[4] /\ One(32) = 32 * u[5] /\ One(64) = 64 * u[6]
      /\ One(128) = 128 * u[7]
  <2>1. ASSUME NEW i \in 0..7, NEW b \in Nat,
               Ws!Bit(Value(d), b) <=> d[i] = 1, Ws!Bit(Value(e), b) <=> e[i] = 1
        PROVE  One(b) = b * u[i]
    <3>1. One(b) = IF u[i] = 1 THEN b ELSE 0
      <4>1. (Ws!Bit(Value(d), b) = Ws!Bit(Value(e), b)) <=> d[i] = e[i]
        BY <1>3, <2>1 DEF Ws!Bit
      <4>2. u[i] = 1 <=> d[i] # e[i] BY <1>2
      <4> QED BY <4>1, <4>2, Zenon
    <3>2. u[i] = 0 \/ u[i] = 1 BY <1>2
    <3> QED BY <3>1, <3>2
  <2>2. One(1) = 1 * u[0] BY <2>1, BitsOfValue
  <2>3. One(2) = 2 * u[1] BY <2>1, BitsOfValue
  <2>4. One(4) = 4 * u[2] BY <2>1, BitsOfValue
  <2>5. One(8) = 8 * u[3] BY <2>1, BitsOfValue
  <2>6. One(16) = 16 * u[4] BY <2>1, BitsOfValue
  <2>7. One(32) = 32 * u[5] BY <2>1, BitsOfValue
  <2>8. One(64) = 64 * u[6] BY <2>1, BitsOfValue
  <2>9. One(128) = 128 * u[7] BY <2>1, BitsOfValue
  <2>10. 1 * u[0] = u[0] BY <1>2
  <2> QED BY <2>2, <2>3, <2>4, <2>5, <2>6, <2>7, <2>8, <2>9, <2>10
<1>5. Ws!Xor(Value(d), Value(e))
        = One(1) + One(2) + One(4) + One(8) + One(16) + One(32) + One(64) + One(128)
  BY DEF Ws!Xor
<1> HIDE DEF One
<1>6. Ws!Xor(Value(d), Value(e)) = Value(u) BY <1>4, <1>5 DEF Value
<1>7. Unequal(u, e) = d
  <2>1. \A i \in 0..7 : Unequal(u, e)[i] = d[i]
    <3> SUFFICES ASSUME NEW i \in 0..7 PROVE Unequal(u, e)[i] = d[i] OBVIOUS
    <3>1. Unequal(u, e)[i] = IF u[i] = e[i] THEN 0 ELSE 1 BY DEF Unequal
    <3> QED BY <1>2, <1>3, <3>1
  <2>2. Unequal(u, e) = [i \in 0..7 |-> Unequal(u, e)[i]] BY DEF Unequal
  <2>3. d = [i \in 0..7 |-> d[i]] BY DEF Bits
  <2> QED BY <2>1, <2>2, <2>3
<1> QED BY <1>1, <1>6, <1>7 DEF u

\* Masking twice with one byte changes nothing
LEMMA XorTwice ==
  ASSUME NEW x \in Byte, NEW y \in Byte
  PROVE  Ws!Xor(x, y) \in Byte /\ Ws!Xor(Ws!Xor(x, y), y) = x
<1>1. PICK d \in Bits : x = Value(d) BY BitsExist
<1>2. PICK e \in Bits : y = Value(e) BY BitsExist
<1> DEFINE u == Unequal(d, e)
<1>3. u \in Bits /\ Ws!Xor(x, y) = Value(u) /\ Unequal(u, e) = d
  BY <1>1, <1>2, XorOfBits
<1> HIDE DEF u
<1>4. Value(u) \in Byte BY <1>3, BitsType
<1>5. Ws!Xor(Value(u), Value(e)) = Value(Unequal(u, e)) BY <1>3, XorOfBits
<1> QED BY <1>1, <1>2, <1>3, <1>4, <1>5

LEMMA MaskedTwice ==
  ASSUME NEW mask \in Seq(Byte), Len(mask) = 4, NEW data \in Seq(Byte)
  PROVE  /\ Ws!Masked(mask, data) \in Seq(Byte)
         /\ Len(Ws!Masked(mask, data)) = Len(data)
         /\ Ws!Masked(mask, Ws!Masked(mask, data)) = data
<1> DEFINE n == Len(data)
           At(i) == mask[((i - 1) % 4) + 1]
           once == Ws!Masked(mask, data)
           twice == Ws!Masked(mask, once)
<1>1. n \in Nat /\ DOMAIN data = 1..n /\ data = [i \in 1..n |-> data[i]]
      /\ \A i \in 1..n : data[i] \in Byte
  BY LenProperties, ElementOfSeq
<1>2. \A i \in 1..n : At(i) \in Byte
  <2> SUFFICES ASSUME NEW i \in 1..n PROVE At(i) \in Byte OBVIOUS
  <2>1. ((i - 1) % 4) + 1 \in 1..Len(mask) BY <1>1
  <2> QED BY <2>1, ElementOfSeq
<1> HIDE DEF n
<1>3. once = [i \in 1..n |-> Ws!Xor(data[i], At(i))] BY <1>1 DEF Ws!Masked
<1> HIDE DEF once, At
<1>4. \A i \in 1..n : once[i] \in Byte /\ Ws!Xor(once[i], At(i)) = data[i]
  BY <1>1, <1>2, <1>3, XorTwice
<1>5. once \in Seq(Byte) /\ Len(once) = n /\ DOMAIN once = 1..n
  <2>1. once = [i \in 1..n |-> once[i]] BY <1>3
  <2>a. \A i \in 1..n : once[i] \in Byte BY <1>4
  <2>2. once \in Seq(Byte) BY ONLY <1>1, <2>a, <2>1, IsASeq
  <2>3. DOMAIN once = 1..n BY <1>3
  <2> QED BY <1>1, <2>2, <2>3, LenProperties
<1>6. twice = [i \in 1..n |-> Ws!Xor(once[i], At(i))] BY <1>5 DEF Ws!Masked, At
<1>7. twice = data
  <2> HIDE DEF twice
  <2>1. \A i \in 1..n : twice[i] = data[i] BY <1>4, <1>6
  <2>2. twice = [i \in 1..n |-> twice[i]] BY <1>6
  <2> QED BY <1>1, <2>1, <2>2
<1> QED BY <1>5, <1>7 DEF once, n

-----------------------------------------------------------------------------
\* A length or a code, written as bytes and read again
NumberLong(digits) ==
  \E i \in DOMAIN digits :
     \/ i < Len(digits) - 3 /\ digits[i] > 0
     \/ i = Len(digits) - 3 /\ digits[i] > 126

LEMMA NumberRun ==
  ASSUME NEW digits \in Seq(Byte)
  PROVE  \E f : /\ IsNumber(digits, Len(digits), f)
                /\ Ws!Number(digits) = IF NumberLong(digits) THEN Ws!Huge ELSE f[Len(digits)]
<1> DEFINE count == Len(digits)
           first == CHOOSE f : IsNumber(digits, count, f)
<1>0. count \in Nat BY LenProperties
<1> HIDE DEF count
<1>1. IsNumber(digits, count, first) BY <1>0, NumberExists, Zenon
<1>2. Ws!Number(digits) = IF NumberLong(digits) THEN Ws!Huge ELSE first[count]
  BY DEF Ws!Number, IsNumber, NumberLong, count
<1> HIDE DEF first
<1> QED BY <1>1, <1>2 DEF count

T16 == 256 * 256

T24 == 256 * 256 * 256

LEMMA Quotients ==
  ASSUME NEW n \in Nat
  PROVE  /\ n = 256 * (n \div 256) + (n % 256) /\ n % 256 \in Byte
         /\ n \div 256 = 256 * (n \div T16) + ((n \div 256) % 256)
         /\ n \div T16 = 256 * (n \div T24) + ((n \div T16) % 256)
         /\ (n \div 256) % 256 \in Byte /\ (n \div T16) % 256 \in Byte
         /\ (n \div T24) % 256 \in Byte
         /\ n < T16 => (n \div 256) % 256 = n \div 256
         /\ n < 64 * T24 => (n \div T24) % 256 = n \div T24 /\ n \div T24 < 64
<1> DEFINE x == n \div 256
           y == x \div 256
           z == y \div 256
<1>1. n = 256 * x + (n % 256) /\ n % 256 \in 0..255 /\ x \in Nat OBVIOUS
<1>2. x = 256 * y + (x % 256) /\ x % 256 \in 0..255 /\ y \in Nat BY <1>1
<1>3. y = 256 * z + (y % 256) /\ y % 256 \in 0..255 /\ z \in Nat BY <1>2
<1>4. n \div T16 = y BY DEF T16
<1>5. n \div T24 = z BY DEF T24
<1> HIDE DEF x, y, z
<1>6. z % 256 \in 0..255 BY <1>3
<1>7. n < T16 => x % 256 = x BY <1>1, <1>2 DEF T16
<1>8. n < 64 * T24 => z % 256 = z /\ z < 64 BY <1>1, <1>2, <1>3 DEF T24
<1> QED BY <1>1, <1>2, <1>3, <1>4, <1>5, <1>6, <1>7, <1>8 DEF Byte, x

\* No length that such a codec lets through counts as a long one
Measured == {n \in Nat : n < 64 * T24}

LEMMA TwoDigits ==
  ASSUME NEW n \in Nat, n < T16
  PROVE  /\ Ws!Digits(n, 2) \in Seq(Byte) /\ Len(Ws!Digits(n, 2)) = 2
         /\ Ws!Number(Ws!Digits(n, 2)) = n
         /\ 256 * Ws!Digits(n, 2)[1] + Ws!Digits(n, 2)[2] = n
<1> DEFINE d == Ws!Digits(n, 2)
           x == (n \div 256) % 256
           y == n % 256
<1>1. n = 256 * x + y /\ x \in Byte /\ y \in Byte
  <2> QED BY Quotients
<1>2. /\ d = [i \in 1..2 |-> d[i]]
      /\ \A i \in 1..2 : d[i] = IF 2 - i > 3 THEN 0
                                ELSE (n \div Ws!Places[(2 - i) + 1]) % 256
  BY DEF Ws!Digits
<1>3. Ws!Places[1] = 1 /\ Ws!Places[2] = 256 BY DEF Ws!Places, T16, T24
<1>4. d[1] = x /\ d[2] = y
  <2>1. d[1] = (n \div Ws!Places[2]) % 256
    <3>1. ~(2 - 1 > 3) /\ (2 - 1) + 1 = 2 /\ 1 \in 1..2 OBVIOUS
    <3> HIDE DEF d
    <3> QED BY <1>2, <3>1
  <2>2. d[2] = (n \div Ws!Places[1]) % 256
    <3>1. ~(2 - 2 > 3) /\ (2 - 2) + 1 = 1 /\ 2 \in 1..2 OBVIOUS
    <3> HIDE DEF d
    <3> QED BY <1>2, <3>1
  <2>3. n \div 1 = n OBVIOUS
  <2> QED BY <1>3, <2>1, <2>2, <2>3
<1> HIDE DEF d, x, y
<1>5. d \in Seq(Byte) /\ Len(d) = 2 /\ DOMAIN d = 1..2
  <2>1. \A i \in 1..2 : d[i] \in Byte BY <1>1, <1>4
  <2>2. 2 \in Nat /\ d = [i \in 1..2 |-> d[i]] BY <1>2
  <2>3. d \in Seq(Byte) BY ONLY <2>1, <2>2, IsASeq
  <2>4. DOMAIN d = 1..2 BY <2>2
  <2> QED BY <2>3, <2>4, LenProperties
<1>6. Ws!Number(d) = n
  <2>1. PICK f : /\ IsNumber(d, Len(d), f)
                 /\ Ws!Number(d) = IF NumberLong(d) THEN Ws!Huge ELSE f[Len(d)]
    BY <1>5, NumberRun
  <2>2. ~NumberLong(d) BY <1>5 DEF NumberLong
  <2>3. \A i \in 0..2 : f[i] = IF i = 0 THEN 0 ELSE (f[i - 1] * 256) + d[i]
    BY <1>5, <2>1 DEF IsNumber
  <2>4. f[0] = 0 BY <2>3
  <2>5. f[1] = x BY <1>1, <1>4, <2>3, <2>4 DEF Byte
  <2>6. f[2] = (x * 256) + y BY <1>4, <2>3, <2>5
  <2>7. f[2] = n BY <1>1, <2>6 DEF Byte
  <2> QED BY <1>5, <2>1, <2>2, <2>7
<1> QED BY <1>1, <1>4, <1>5, <1>6 DEF d

LEMMA EightDigits ==
  ASSUME NEW n \in Measured
  PROVE  /\ Ws!Digits(n, 8) \in Seq(Byte) /\ Len(Ws!Digits(n, 8)) = 8
         /\ Ws!Number(Ws!Digits(n, 8)) = n
         /\ Ws!Digits(n, 8)[1] = 0
<1> DEFINE d == Ws!Digits(n, 8)
           w == (n \div T24) % 256
           x == (n \div T16) % 256
           y == (n \div 256) % 256
           z == n % 256
<1>1. /\ n = (((w * 256) + x) * 256 + y) * 256 + z
      /\ w \in Byte /\ w < 64 /\ x \in Byte /\ y \in Byte /\ z \in Byte
  <2>1. n \in Nat /\ n < 64 * T24 BY DEF Measured
  <2> HIDE DEF w, x, y, z
  <2>2. /\ n = 256 * (n \div 256) + z
        /\ n \div 256 = 256 * (n \div T16) + y
        /\ n \div T16 = 256 * (n \div T24) + x
        /\ w = n \div T24 /\ w < 64
        /\ w \in Byte /\ x \in Byte /\ y \in Byte /\ z \in Byte
    BY <2>1, Quotients DEF w, x, y, z
  <2> QED BY <2>1, <2>2 DEF Byte
<1>2. /\ d = [i \in 1..8 |-> d[i]]
      /\ \A i \in 1..8 : d[i] = IF 8 - i > 3 THEN 0
                                ELSE (n \div Ws!Places[(8 - i) + 1]) % 256
  BY DEF Ws!Digits
<1>3. Ws!Places[1] = 1 /\ Ws!Places[2] = 256 /\ Ws!Places[3] = T16 /\ Ws!Places[4] = T24
  BY DEF Ws!Places, T16, T24
<1> HIDE DEF d
<1>4. /\ d[1] = 0 /\ d[2] = 0 /\ d[3] = 0 /\ d[4] = 0
      /\ d[5] = w /\ d[6] = x /\ d[7] = y /\ d[8] = z
  <2>1. d[1] = 0 /\ d[2] = 0 /\ d[3] = 0 /\ d[4] = 0 BY <1>2
  <2>2. d[5] = (n \div Ws!Places[4]) % 256
    <3>1. ~(8 - 5 > 3) /\ (8 - 5) + 1 = 4 /\ 5 \in 1..8 OBVIOUS
    <3> QED BY <1>2, <3>1
  <2>3. d[6] = (n \div Ws!Places[3]) % 256
    <3>1. ~(8 - 6 > 3) /\ (8 - 6) + 1 = 3 /\ 6 \in 1..8 OBVIOUS
    <3> QED BY <1>2, <3>1
  <2>4. d[7] = (n \div Ws!Places[2]) % 256
    <3>1. ~(8 - 7 > 3) /\ (8 - 7) + 1 = 2 /\ 7 \in 1..8 OBVIOUS
    <3> QED BY <1>2, <3>1
  <2>5. d[8] = (n \div Ws!Places[1]) % 256
    <3>1. ~(8 - 8 > 3) /\ (8 - 8) + 1 = 1 /\ 8 \in 1..8 OBVIOUS
    <3> QED BY <1>2, <3>1
  <2>6. n \div 1 = n BY DEF Measured
  <2> QED BY <1>3, <2>1, <2>2, <2>3, <2>4, <2>5, <2>6
<1> HIDE DEF w, x, y, z
<1>5. d \in Seq(Byte) /\ Len(d) = 8 /\ DOMAIN d = 1..8
  <2>1. \A i \in 1..8 : d[i] \in Byte
    <3> SUFFICES ASSUME NEW i \in 1..8 PROVE d[i] \in Byte OBVIOUS
    <3>1. 0 \in Byte BY DEF Byte
    <3>2. i = 1 \/ i = 2 \/ i = 3 \/ i = 4 \/ i = 5 \/ i = 6 \/ i = 7 \/ i = 8 OBVIOUS
    <3> QED BY <1>1, <1>4, <3>1, <3>2
  <2>2. 8 \in Nat /\ d = [i \in 1..8 |-> d[i]] BY <1>2
  <2>3. d \in Seq(Byte) BY ONLY <2>1, <2>2, IsASeq
  <2>4. DOMAIN d = 1..8 BY <2>2
  <2> QED BY <2>3, <2>4, LenProperties
<1>6. Ws!Number(d) = n
  <2>1. PICK f : /\ IsNumber(d, Len(d), f)
                 /\ Ws!Number(d) = IF NumberLong(d) THEN Ws!Huge ELSE f[Len(d)]
    BY <1>5, NumberRun
  <2>2. ~NumberLong(d)
    <3>1. ASSUME NEW i \in 1..8, i < 8 - 3 PROVE d[i] = 0
      <4>1. i = 1 \/ i = 2 \/ i = 3 \/ i = 4 BY <3>1
      <4> QED BY <1>4, <4>1
    <3>2. ASSUME NEW i \in 1..8, i = 8 - 3 PROVE d[i] < 64
      <4>1. i = 5 BY <3>2
      <4> QED BY <1>1, <1>4, <4>1
    <3>3. \A k \in Byte : k < 64 => ~(k > 126) BY DEF Byte
    <3>4. \A i \in 1..8 : i < 8 - 3 => ~(d[i] > 0) BY <3>1
    <3>5. \A i \in 1..8 : i = 8 - 3 => ~(d[i] > 126) BY <1>1, <1>4, <3>3
    <3> QED BY <1>5, <3>4, <3>5 DEF NumberLong
  <2>3. \A i \in 0..8 : f[i] = IF i = 0 THEN 0 ELSE (f[i - 1] * 256) + d[i]
    BY <1>5, <2>1 DEF IsNumber
  <2>4. f[0] = 0 /\ f[1] = 0 /\ f[2] = 0 /\ f[3] = 0 /\ f[4] = 0
    <3>1. f[0] = 0 BY <2>3
    <3>2. f[1] = (f[0] * 256) + d[1] BY <2>3
    <3>3. f[2] = (f[1] * 256) + d[2] BY <2>3
    <3>4. f[3] = (f[2] * 256) + d[3] BY <2>3
    <3>5. f[4] = (f[3] * 256) + d[4] BY <2>3
    <3> QED BY <1>4, <3>1, <3>2, <3>3, <3>4, <3>5
  <2>5. f[5] = (f[4] * 256) + w BY <1>4, <2>3
  <2>6. f[6] = (f[5] * 256) + x BY <1>4, <2>3
  <2>7. f[7] = (f[6] * 256) + y BY <1>4, <2>3
  <2>8. f[8] = (f[7] * 256) + z BY <1>4, <2>3
  <2>9. f[8] = n BY <1>1, <2>4, <2>5, <2>6, <2>7, <2>8 DEF Byte
  <2> QED BY <1>5, <2>1, <2>2, <2>9
<1> QED BY <1>4, <1>5, <1>6 DEF d

-----------------------------------------------------------------------------
\* A frame and the parts that a decoder takes it apart into
IsTail(x, y) == SubSeq(x \o y, Len(x) + 1, Len(x \o y)) = y

LEMMA TailPart ==
  ASSUME NEW A, NEW x \in Seq(A), NEW y \in Seq(A)
  PROVE  IsTail(x, y)
<1> DEFINE n == Len(x)
<1>1. n \in Nat BY LenProperties
<1>2. n \in 0..Len(x) BY <1>1
<1>3. SubSeq(x, n + 1, n) = <<>> BY <1>1, SubSeqEmpty
<1>4. <<>> \o y = y BY ConcatEmptySeq
<1> HIDE DEF n
<1>5. SubSeq(x \o y, n + 1, Len(x \o y)) = SubSeq(x, n + 1, Len(x)) \o y
  BY <1>2, LongerTail
<1>6. SubSeq(x, n + 1, Len(x)) = <<>> BY <1>3 DEF n
<1>7. SubSeq(x \o y, n + 1, Len(x \o y)) = y BY ONLY <1>4, <1>5, <1>6
<1> QED BY <1>7 DEF n, IsTail

LEMMA Middle ==
  ASSUME NEW A, NEW x \in Seq(A), NEW y \in Seq(A), NEW z \in Seq(A)
  PROVE  SubSeq((x \o y) \o z, Len(x) + 1, Len(x) + Len(y)) = y
<1> DEFINE xy == x \o y
<1>1. /\ xy \in Seq(A) /\ Len(xy) = Len(x) + Len(y)
      /\ Len(x) \in Nat /\ Len(y) \in Nat
  BY LongerHead
<1>2. SubSeq(xy, Len(x) + 1, Len(xy)) = y
  <2>1. IsTail(x, y) BY TailPart
  <2> QED BY <2>1 DEF IsTail
<1> HIDE DEF xy
<1>3. Len(x) + 1 \in Nat \ {0} /\ Len(xy) \in Nat /\ Len(xy) <= Len(xy) BY <1>1
<1>4. SubSeq(xy \o z, Len(x) + 1, Len(xy)) = SubSeq(xy, Len(x) + 1, Len(xy))
  BY <1>1, <1>3, LongerPart
<1> QED BY <1>1, <1>2, <1>4 DEF xy

Wire(first, second, ext, key, data) == ((<<first, second>> \o ext) \o key) \o data

IsWire(w, first, second, ext, key, data) ==
  /\ w \in Seq(Byte) /\ Len(w) = 2 + Len(ext) + Len(key) + Len(data)
  /\ Len(ext) \in Nat /\ Len(key) \in Nat /\ Len(data) \in Nat
  /\ w[1] = first /\ w[2] = second
  /\ SubSeq(w, 3, 2 + Len(ext)) = ext
  /\ SubSeq(w, 2 + Len(ext) + 1, 2 + Len(ext) + Len(key)) = key
  /\ SubSeq(w, 2 + Len(ext) + Len(key) + 1, Len(w)) = data

LEMMA WireParts ==
  ASSUME NEW first \in Byte, NEW second \in Byte, NEW ext \in Seq(Byte),
         NEW key \in Seq(Byte), NEW data \in Seq(Byte),
         NEW w, w = Wire(first, second, ext, key, data)
  PROVE  IsWire(w, first, second, ext, key, data)
<1> DEFINE a == <<first, second>>
           x == a \o ext
           y == x \o key
<1>1. a \in Seq(Byte) /\ Len(a) = 2 /\ a[1] = first /\ a[2] = second OBVIOUS
<1>a. a \in Seq(Byte) BY <1>1
<1> HIDE DEF a
<1>2. /\ x \in Seq(Byte) /\ Len(x) = 2 + Len(ext) /\ Len(ext) \in Nat
      /\ \A i \in 1..2 : x[i] = a[i]
  <2>1. /\ x \in Seq(Byte) /\ Len(x) = Len(a) + Len(ext) /\ Len(ext) \in Nat
        /\ \A i \in 1..Len(a) : x[i] = a[i]
    BY <1>a, LongerHead
  <2> HIDE DEF x
  <2> QED BY <1>1, <2>1
<1>3. SubSeq((a \o ext) \o key, Len(a) + 1, Len(a) + Len(ext)) = ext
  BY <1>a, Middle
<1>4. SubSeq(y, 3, 2 + Len(ext)) = ext
  <2> HIDE DEF y
  <2>1. SubSeq(y, Len(a) + 1, Len(a) + Len(ext)) = ext BY <1>3 DEF y
  <2>2. Len(a) + 1 = 3 /\ Len(a) + Len(ext) = 2 + Len(ext) BY <1>1
  <2> QED BY <2>1, <2>2
<1> HIDE DEF x
<1>5. /\ y \in Seq(Byte) /\ Len(y) = Len(x) + Len(key) /\ Len(key) \in Nat
      /\ \A i \in 1..Len(x) : y[i] = x[i]
  BY <1>2, LongerHead
<1>6. w = y \o data BY DEF Wire, y, x, a
<1>b. x \in Seq(Byte) /\ y \in Seq(Byte) BY <1>2, <1>5
<1>7. SubSeq((x \o key) \o data, Len(x) + 1, Len(x) + Len(key)) = key
  BY <1>b, Middle
<1>8. SubSeq(w, Len(x) + 1, Len(x) + Len(key)) = key BY <1>6, <1>7 DEF y
<1> HIDE DEF y
<1>9. /\ w \in Seq(Byte) /\ Len(w) = Len(y) + Len(data) /\ Len(data) \in Nat
      /\ \A i \in 1..Len(y) : w[i] = y[i]
  BY <1>b, <1>6, LongerHead
<1>10. SubSeq(w, Len(y) + 1, Len(w)) = data
  <2>1. y \in Seq(Byte) BY <1>b
  <2>2. IsTail(y, data) BY <2>1, TailPart
  <2> QED BY ONLY <1>6, <2>2 DEF IsTail
<1>11. w[1] = first /\ w[2] = second
  <2>1. 1 \in 1..Len(x) /\ 2 \in 1..Len(x) /\ 1 \in 1..Len(y) /\ 2 \in 1..Len(y)
        /\ 1 \in 1..2 /\ 2 \in 1..2
    BY <1>2, <1>5
  <2> QED BY <1>1, <1>2, <1>5, <1>9, <2>1
<1>12. SubSeq(w, 3, 2 + Len(ext)) = ext
  <2> DEFINE z == 2 + Len(ext)
  <2>1. 3 \in Nat \ {0} /\ z \in Nat /\ z <= Len(y) BY <1>2, <1>5
  <2> HIDE DEF z
  <2>2. SubSeq(y \o data, 3, z) = SubSeq(y, 3, z) BY <1>5, <2>1, LongerPart
  <2> QED BY <1>4, <1>6, <2>2 DEF z
<1>13. Len(x) = 2 + Len(ext) /\ Len(y) = 2 + Len(ext) + Len(key)
  BY <1>2, <1>5
<1>14. Len(w) = 2 + Len(ext) + Len(key) + Len(data) BY <1>9, <1>13
<1> QED BY <1>2, <1>5, <1>8, <1>9, <1>10, <1>11, <1>12, <1>13, <1>14 DEF IsWire

\* The length of a payload in the second byte of a frame and in those after it
Short(n) == IF n <= 125 THEN n ELSE IF n <= 65535 THEN 126 ELSE 127

Extension(n) == IF n <= 125 THEN <<>>
                ELSE IF n <= 65535 THEN Ws!Digits(n, 2) ELSE Ws!Digits(n, 8)

LEMMA LengthWritten ==
  ASSUME NEW n \in Measured
  PROVE  /\ Short(n) \in 0..127 /\ Extension(n) \in Seq(Byte)
         /\ Len(Extension(n)) = CASE Short(n) = 126 -> 2 [] Short(n) = 127 -> 8 [] OTHER -> 0
         /\ n = IF Len(Extension(n)) = 0 THEN Short(n) ELSE Ws!Number(Extension(n))
         /\ Ws!validate_payload_len_encoding(Short(n), Extension(n))
<1>0. n \in Nat BY DEF Measured
<1>1. CASE n <= 125
  <2>1. Short(n) = n /\ Extension(n) = <<>> BY <1>1 DEF Short, Extension
  <2>2. <<>> \in Seq(Byte) /\ Len(<<>>) = 0 BY EmptySeq
  <2>3. n # 126 /\ n # 127 /\ n \in 0..127 BY <1>0, <1>1
  <2>4. (CASE n = 126 -> 2 [] n = 127 -> 8 [] OTHER -> 0) = 0 BY <2>3, Zenon
  <2>5. Ws!validate_payload_len_encoding(n, <<>>)
    <3>1. n # 126 /\ n # 127 BY <2>3
    <3> QED BY <3>1 DEF Ws!validate_payload_len_encoding
  <2> QED BY <2>1, <2>2, <2>3, <2>4, <2>5
<1>2. CASE ~(n <= 125) /\ n <= 65535
  <2>1. Short(n) = 126 /\ Extension(n) = Ws!Digits(n, 2) BY <1>2 DEF Short, Extension
  <2>2. n < T16 BY <1>0, <1>2 DEF T16
  <2>3. /\ Ws!Digits(n, 2) \in Seq(Byte) /\ Len(Ws!Digits(n, 2)) = 2
        /\ Ws!Number(Ws!Digits(n, 2)) = n
    BY <1>0, <2>2, TwoDigits
  <2>4. n >= 126 BY <1>0, <1>2
  <2>5. Ws!validate_payload_len_encoding(126, Ws!Digits(n, 2))
    BY <2>3, <2>4 DEF Ws!validate_payload_len_encoding
  <2>6. (CASE 126 = 126 -> 2 [] 126 = 127 -> 8 [] OTHER -> 0) = 2 OBVIOUS
  <2>7. 126 \in 0..127 /\ ~(2 = 0) OBVIOUS
  <2>8. Len(Extension(n)) = 2 /\ ~(Len(Extension(n)) = 0) BY <2>1, <2>3, <2>7
  <2>9. n = IF Len(Extension(n)) = 0 THEN Short(n) ELSE Ws!Number(Extension(n))
    BY <2>1, <2>3, <2>8, Zenon
  <2>10. Len(Extension(n)) = CASE Short(n) = 126 -> 2 [] Short(n) = 127 -> 8 [] OTHER -> 0
    BY <2>1, <2>6, <2>8, Zenon
  <2> QED BY <2>1, <2>3, <2>5, <2>7, <2>9, <2>10, Zenon
<1>3. CASE ~(n <= 125) /\ ~(n <= 65535)
  <2>1. Short(n) = 127 /\ Extension(n) = Ws!Digits(n, 8) BY <1>3 DEF Short, Extension
  <2>2. /\ Ws!Digits(n, 8) \in Seq(Byte) /\ Len(Ws!Digits(n, 8)) = 8
        /\ Ws!Number(Ws!Digits(n, 8)) = n /\ Ws!Digits(n, 8)[1] = 0
    BY EightDigits
  <2>3. n > 65535 BY <1>0, <1>3
  <2>4. Ws!validate_payload_len_encoding(127, Ws!Digits(n, 8))
    BY <2>2, <2>3 DEF Ws!validate_payload_len_encoding
  <2>6. (CASE 127 = 126 -> 2 [] 127 = 127 -> 8 [] OTHER -> 0) = 8 OBVIOUS
  <2>7. 127 \in 0..127 /\ ~(8 = 0) OBVIOUS
  <2>8. Len(Extension(n)) = 8 /\ ~(Len(Extension(n)) = 0) BY <2>1, <2>2, <2>7
  <2>9. n = IF Len(Extension(n)) = 0 THEN Short(n) ELSE Ws!Number(Extension(n))
    BY <2>1, <2>2, <2>8, Zenon
  <2>10. Len(Extension(n)) = CASE Short(n) = 126 -> 2 [] Short(n) = 127 -> 8 [] OTHER -> 0
    BY <2>1, <2>6, <2>8, Zenon
  <2> QED BY <2>1, <2>2, <2>4, <2>7, <2>9, <2>10, Zenon
<1> QED BY <1>1, <1>2, <1>3

LEMMA FrameWritten ==
  ASSUME NEW opcode \in 0..15, NEW payload \in Seq(Byte), Len(payload) \in Measured
  PROVE  Ws!encode_frame(opcode, payload).bytes
           = Wire(128 + opcode, Short(Len(payload)), Extension(Len(payload)), <<>>, payload)
<1> DEFINE n == Len(payload)
           a == <<128 + opcode>>
           s == <<Short(n)>>
           e == Extension(n)
<1>1. 128 + opcode \in Byte BY DEF Byte
<1>2. Short(n) \in 0..127 /\ e \in Seq(Byte) BY LengthWritten
<1>3. Short(n) \in Byte BY <1>2 DEF Byte
<1>4. /\ a \in Seq(Byte) /\ s \in Seq(Byte) /\ Len(a) = 1 /\ Len(s) = 1
      /\ a[1] = 128 + opcode /\ s[1] = Short(n)
  BY <1>1, <1>3
<1>5. a \o s = <<128 + opcode, Short(n)>>
  <2> DEFINE t == <<128 + opcode, Short(n)>>
             u == a \o s
  <2>1. t \in Seq(Byte) /\ Len(t) = 2 /\ t[1] = 128 + opcode /\ t[2] = Short(n)
    BY <1>1, <1>3
  <2>2. /\ u \in Seq(Byte) /\ Len(u) = Len(a) + Len(s)
        /\ \A i \in 1..(Len(a) + Len(s)) : u[i] = IF i <= Len(a) THEN a[i] ELSE s[i - Len(a)]
    BY <1>4, ConcatProperties
  <2> HIDE DEF t, u, a, s
  <2>3. u[1] = 128 + opcode /\ u[2] = Short(n)
    <3>1. 1 \in 1..(Len(a) + Len(s)) /\ 2 \in 1..(Len(a) + Len(s))
          /\ 1 <= Len(a) /\ ~(2 <= Len(a)) /\ 2 - Len(a) = 1
      BY <1>4
    <3> QED BY <1>4, <2>2, <3>1
  <2>4. Len(u) = 2 BY <1>4, <2>2
  <2>5. \A i \in 1..Len(t) : t[i] = u[i]
    <3> SUFFICES ASSUME NEW i \in 1..Len(t) PROVE t[i] = u[i] OBVIOUS
    <3>1. i = 1 \/ i = 2 BY <2>1
    <3> QED BY <2>1, <2>3, <3>1
  <2>6. t = u BY <2>1, <2>2, <2>4, <2>5, SeqEqual
  <2> QED BY <2>6 DEF t, u
<1>6. Ws!encode_frame(opcode, payload).bytes = (a \o (s \o e)) \o payload
  <2> DEFINE middle == IF n <= 125 THEN <<n>>
                       ELSE IF n <= 65535 THEN <<126>> \o Ws!Digits(n, 2)
                       ELSE <<127>> \o Ws!Digits(n, 8)
  <2>1. Ws!encode_frame(opcode, payload).bytes = (a \o middle) \o payload
    BY DEF Ws!encode_frame, Ws!Ok
  <2>2. middle = s \o e
    <3>1. CASE n <= 125
      <4>1. s = <<n>> /\ e = <<>> BY <3>1 DEF Short, Extension
      <4>2. s \o <<>> = s BY <1>4, ConcatEmptySeq
      <4> QED BY <3>1, <4>1, <4>2
    <3>2. CASE ~(n <= 125) /\ n <= 65535 BY <3>2 DEF Short, Extension
    <3>3. CASE ~(n <= 125) /\ ~(n <= 65535) BY <3>3 DEF Short, Extension
    <3> HIDE DEF middle, s, e, n
    <3> QED BY ONLY <3>1, <3>2, <3>3
  <2> HIDE DEF middle
  <2> QED BY ONLY <2>1, <2>2
<1>7. Associative(a, s, e) BY <1>2, <1>4, Associated
<1>8. (a \o s) \o <<>> = a \o s /\ a \o s \in Seq(Byte)
  BY <1>4, ConcatProperties, ConcatEmptySeq
<1>9. ((a \o s) \o e) \in Seq(Byte) /\ ((a \o s) \o e) \o <<>> = (a \o s) \o e
  BY <1>2, <1>8, ConcatProperties, ConcatEmptySeq
<1> HIDE DEF a, s, e
<1>10. Wire(128 + opcode, Short(n), e, <<>>, payload) = ((a \o s) \o e) \o payload
  BY <1>5, <1>9 DEF Wire
<1>11. a \o (s \o e) = (a \o s) \o e BY ONLY <1>7 DEF Associative
<1> QED BY <1>6, <1>10, <1>11 DEF e

-----------------------------------------------------------------------------
\* What a peer sends of a frame: with the mask, if the codec asks for one
Key(c) == IF c.mask THEN Ws!ClientMask ELSE <<>>

Hidden(c, payload) == IF c.mask THEN Ws!Masked(Ws!ClientMask, payload) ELSE payload

Second(c, n) == IF c.mask THEN Short(n) + 128 ELSE Short(n)

LEMMA KeyType ==
  ASSUME NEW c \in WebSocket, NEW payload \in Seq(Byte)
  PROVE  /\ Ws!ClientMask \in Seq(Byte) /\ Len(Ws!ClientMask) = 4
         /\ Key(c) \in Seq(Byte) /\ Len(Key(c)) = IF c.mask THEN 4 ELSE 0
         /\ Hidden(c, payload) \in Seq(Byte) /\ Len(Hidden(c, payload)) = Len(payload)
         /\ c.mask => Ws!Masked(Ws!ClientMask, Hidden(c, payload)) = payload
<1>1. Ws!ClientMask \in Seq(Byte) /\ Len(Ws!ClientMask) = 4
  <2> DEFINE t == <<1, 130, 0, 255>>
  <2>1. 1 \in Byte /\ 130 \in Byte /\ 0 \in Byte /\ 255 \in Byte BY DEF Byte
  <2>2. t \in Seq(Byte) /\ Len(t) = 4 BY <2>1
  <2> QED BY <2>2 DEF Ws!ClientMask
<1>2. <<>> \in Seq(Byte) /\ Len(<<>>) = 0 BY EmptySeq
<1>3. Key(c) \in Seq(Byte) /\ Len(Key(c)) = IF c.mask THEN 4 ELSE 0
  <2>1. CASE c.mask BY <1>1, <2>1 DEF Key
  <2>2. CASE ~c.mask BY <1>2, <2>2 DEF Key
  <2> QED BY <2>1, <2>2
<1>4. /\ Ws!Masked(Ws!ClientMask, payload) \in Seq(Byte)
      /\ Len(Ws!Masked(Ws!ClientMask, payload)) = Len(payload)
      /\ Ws!Masked(Ws!ClientMask, Ws!Masked(Ws!ClientMask, payload)) = payload
  BY <1>1, MaskedTwice
<1>5. /\ Hidden(c, payload) \in Seq(Byte) /\ Len(Hidden(c, payload)) = Len(payload)
      /\ c.mask => Ws!Masked(Ws!ClientMask, Hidden(c, payload)) = payload
  <2>1. CASE c.mask BY <1>4, <2>1 DEF Hidden
  <2>2. CASE ~c.mask BY <2>2 DEF Hidden
  <2> QED BY <2>1, <2>2
<1> QED BY <1>1, <1>3, <1>5

LEMMA ClientWire ==
  ASSUME NEW c \in WebSocket, NEW first \in Byte, NEW payload \in Seq(Byte),
         Len(payload) \in Measured
  PROVE  Ws!AsClient(c, Wire(first, Short(Len(payload)), Extension(Len(payload)), <<>>, payload))
           = Wire(first, Second(c, Len(payload)), Extension(Len(payload)), Key(c),
                  Hidden(c, payload))
<1> DEFINE n == Len(payload)
           e == Extension(n)
           w == Wire(first, Short(n), e, <<>>, payload)
           header == CASE w[2] = 126 -> 4 [] w[2] = 127 -> 10 [] OTHER -> 2
<1>1. /\ Short(n) \in 0..127 /\ e \in Seq(Byte)
      /\ Len(e) = CASE Short(n) = 126 -> 2 [] Short(n) = 127 -> 8 [] OTHER -> 0
  BY LengthWritten
<1>2. <<>> \in Seq(Byte) /\ Len(<<>>) = 0 BY EmptySeq
<1>3. Short(n) \in Byte BY <1>1 DEF Byte
<1> HIDE DEF n, e
<1>a. <<>> \in Seq(Byte) BY <1>2
<1>b. e \in Seq(Byte) BY <1>1
<1>c. IsWire(w, first, Short(n), e, <<>>, payload) BY <1>a, <1>b, <1>3, WireParts
<1>4. /\ w \in Seq(Byte) /\ Len(w) = 2 + Len(e) + Len(<<>>) + Len(payload)
      /\ Len(e) \in Nat /\ w[1] = first /\ w[2] = Short(n)
      /\ SubSeq(w, 3, 2 + Len(e)) = e
      /\ SubSeq(w, 2 + Len(e) + Len(<<>>) + 1, Len(w)) = payload
  BY <1>c DEF IsWire
<1>5. header = 2 + Len(e)
  <2>1. CASE Short(n) = 126 BY <1>1, <1>4, <2>1
  <2>2. CASE Short(n) = 127 BY <1>1, <1>4, <2>2
  <2>3. CASE Short(n) # 126 /\ Short(n) # 127
    <3>1. Len(e) = 0 BY <1>1, <2>3, Zenon
    <3>2. header = 2 BY <1>4, <2>3, Zenon
    <3> QED BY <3>1, <3>2
  <2> QED BY <2>1, <2>2, <2>3
<1>6. SubSeq(w, header + 1, Len(w)) = payload
  <2>1. 2 + Len(e) + Len(<<>>) + 1 = header + 1 BY <1>2, <1>4, <1>5
  <2> QED BY <1>4, <2>1
<1>7. SubSeq(w, 2 + 1, header) = e
  <2>1. 2 + 1 = 3 OBVIOUS
  <2> QED BY <1>4, <1>5, <2>1
<1>8. Ws!AsClient(c, w)
        = IF ~c.mask THEN w
          ELSE <<w[1], w[2] + 128>> \o SubSeq(w, 2 + 1, header) \o Ws!ClientMask
                 \o Ws!Masked(Ws!ClientMask, SubSeq(w, header + 1, Len(w)))
  BY DEF Ws!AsClient, Ws!Piece
<1> HIDE DEF w, header
<1>9. CASE c.mask
  <2>1. Ws!AsClient(c, w)
          = <<first, Short(n) + 128>> \o e \o Ws!ClientMask
              \o Ws!Masked(Ws!ClientMask, payload)
    BY <1>4, <1>6, <1>7, <1>8, <1>9
  <2>2. Second(c, n) = Short(n) + 128 /\ Key(c) = Ws!ClientMask
        /\ Hidden(c, payload) = Ws!Masked(Ws!ClientMask, payload)
    BY <1>9 DEF Second, Key, Hidden
  <2> QED BY <2>1, <2>2 DEF Wire, w, n, e
<1>10. CASE ~c.mask
  <2>1. Ws!AsClient(c, w) = w BY <1>8, <1>10
  <2>2. Second(c, n) = Short(n) /\ Key(c) = <<>> /\ Hidden(c, payload) = payload
    BY <1>10 DEF Second, Key, Hidden
  <2> QED BY <2>1, <2>2 DEF w, n, e
<1> QED BY <1>9, <1>10

\* What the decoder makes of it
LEMMA WireDecoded ==
  ASSUME NEW c \in WebSocket, NEW opcode \in 0..15, NEW payload \in Seq(Byte),
         Len(payload) \in Measured, Len(payload) <= c.max,
         opcode \in 8..10 => Len(payload) <= 125
  PROVE  LET w == Wire(128 + opcode, Second(c, Len(payload)), Extension(Len(payload)),
                       Key(c), Hidden(c, payload))
         IN /\ w \in Seq(Byte)
            /\ Decode(c, w) = Ws!decode_payload(opcode, payload, <<>>)
<1> DEFINE n == Len(payload)
           e == Extension(n)
           first == 128 + opcode
           second == Second(c, n)
           data == Hidden(c, payload)
           w == Wire(first, second, e, Key(c), data)
<1>1. /\ Short(n) \in 0..127 /\ e \in Seq(Byte)
      /\ Len(e) = CASE Short(n) = 126 -> 2 [] Short(n) = 127 -> 8 [] OTHER -> 0
      /\ n = IF Len(e) = 0 THEN Short(n) ELSE Ws!Number(e)
      /\ Ws!validate_payload_len_encoding(Short(n), e)
  BY LengthWritten
<1>2. /\ Key(c) \in Seq(Byte) /\ Len(Key(c)) = IF c.mask THEN 4 ELSE 0
      /\ data \in Seq(Byte) /\ Len(data) = Len(payload)
      /\ c.mask => Ws!Masked(Ws!ClientMask, data) = payload
  BY KeyType
<1>3. /\ first \in Byte /\ second \in Byte /\ second % 128 = Short(n)
      /\ second >= 128 <=> c.mask
  <2>1. second = IF c.mask THEN Short(n) + 128 ELSE Short(n) BY DEF Second
  <2>2. first \in Byte BY DEF Byte
  <2> DEFINE k == Short(n)
  <2>a. Short(n) \in 0..127 BY <1>1
  <2>b. \A i \in 0..127 : i \in Nat /\ i < 128 OBVIOUS
  <2>3. k \in Nat /\ k < 128 BY ONLY <2>a, <2>b DEF k
  <2> HIDE DEF k
  <2>4. (k + 128) % 128 = k /\ k % 128 = k BY <2>3
  <2>5. k \in Byte /\ k + 128 \in Byte BY <2>3 DEF Byte
  <2>6. second = IF c.mask THEN k + 128 ELSE k BY <2>1 DEF k
  <2> HIDE DEF second, first
  <2>7. CASE c.mask
    <3>1. second = k + 128 BY <2>6, <2>7
    <3>2. second >= 128 BY <2>3, <3>1
    <3> QED BY <2>2, <2>4, <2>5, <2>7, <3>1, <3>2 DEF k
  <2>8. CASE ~c.mask
    <3>1. second = k BY <2>6, <2>8
    <3>2. ~(second >= 128) BY <2>3, <3>1
    <3> QED BY <2>2, <2>4, <2>5, <2>8, <3>1, <3>2 DEF k
  <2> QED BY <2>7, <2>8
<1>4. first % 16 = opcode /\ (first \div 16) % 8 = 0 /\ (first \div 128) % 2 = 1
  OBVIOUS
<1>5. n \in Nat /\ c.max \in Nat /\ n <= c.max BY DEF Measured, WebSocket
<1>6. opcode \in 8..10 => n <= 125 OBVIOUS
<1>7. ~c.mask => data = payload BY DEF Hidden
<1>8. c.mask => Key(c) = Ws!ClientMask BY DEF Key
<1> HIDE DEF n, e, first, second, data
<1>a. e \in Seq(Byte) BY <1>1
<1>b. Key(c) \in Seq(Byte) /\ data \in Seq(Byte) BY <1>2
<1>c. first \in Byte /\ second \in Byte BY <1>3
<1>d. IsWire(w, first, second, e, Key(c), data) BY <1>a, <1>b, <1>c, WireParts
<1>9. /\ w \in Seq(Byte) /\ Len(w) = 2 + Len(e) + Len(Key(c)) + Len(data)
      /\ Len(e) \in Nat /\ Len(Key(c)) \in Nat /\ Len(data) \in Nat
      /\ w[1] = first /\ w[2] = second
      /\ SubSeq(w, 3, 2 + Len(e)) = e
      /\ SubSeq(w, 2 + Len(e) + 1, 2 + Len(e) + Len(Key(c))) = Key(c)
      /\ SubSeq(w, 2 + Len(e) + Len(Key(c)) + 1, Len(w)) = data
  BY <1>d DEF IsWire
<1>10. Len(data) = n BY <1>2 DEF n
<1> HIDE DEF w
<1>11. LenKind(w) = Short(n) BY <1>3, <1>9 DEF LenKind
<1>12. ExtLen(w) = Len(e)
  <2>1. CASE Short(n) = 126 BY <1>1, <1>11, <2>1 DEF ExtLen
  <2>2. CASE Short(n) = 127 BY <1>1, <1>11, <2>2 DEF ExtLen
  <2>3. CASE Short(n) # 126 /\ Short(n) # 127
    <3>1. Len(e) = 0 BY <1>1, <2>3, Zenon
    <3>2. ExtLen(w) = 0 BY <1>11, <2>3, Zenon DEF ExtLen
    <3> QED BY <3>1, <3>2
  <2> QED BY <2>1, <2>2, <2>3
<1>13. ExtBytes(w) = e BY <1>9, <1>12 DEF ExtBytes
<1>14. WsLength(w) = n BY <1>1, <1>11, <1>12, <1>13 DEF WsLength
<1>15. WsStart(w) = 2 + Len(e) + Len(Key(c))
  <2>1. CASE c.mask BY <1>2, <1>3, <1>9, <1>12, <2>1 DEF WsStart
  <2>2. CASE ~c.mask BY <1>2, <1>3, <1>9, <1>12, <2>2 DEF WsStart
  <2> QED BY <2>1, <2>2
<1>16. WsEnd(w) = Len(w) BY <1>9, <1>10, <1>14, <1>15 DEF WsEnd
<1>17. WsPayload(w) = payload
  <2>1. SubSeq(w, WsStart(w) + 1, WsEnd(w)) = data BY <1>9, <1>15, <1>16
  <2>2. CASE c.mask
    <3>1. WsStart(w) - 4 = 2 + Len(e) BY <1>2, <1>9, <1>15, <2>2
    <3>2. SubSeq(w, (WsStart(w) - 4) + 1, WsStart(w)) = Key(c) BY <1>9, <1>15, <3>1
    <3>3. w[2] >= 128 BY <1>3, <1>9, <2>2
    <3>4. WsPayload(w) = Ws!Masked(Key(c), data) BY <2>1, <3>2, <3>3 DEF WsPayload
    <3> QED BY <1>2, <1>8, <2>2, <3>4
  <2>3. CASE ~c.mask
    <3>1. ~(w[2] >= 128) BY <1>3, <1>9, <2>3
    <3>2. WsPayload(w) = data BY <2>1, <3>1 DEF WsPayload
    <3> QED BY <1>7, <2>3, <3>2
  <2> QED BY <2>2, <2>3
<1>18. SubSeq(w, WsEnd(w) + 1, Len(w)) = <<>>
  <2>1. Len(w) \in Nat BY <1>9
  <2> QED BY <1>9, <1>16, <2>1, SubSeqEmpty
<1>19. Ws!validate_frame_header(c, w[1], w[2] >= 128, WsLength(w))
  <2>1. c.mask => w[2] >= 128 BY <1>3, <1>9
  <2>2. (w[1] \div 16) % 8 = 0 BY <1>4, <1>9
  <2>3. Ws!Bit(w[1], 128) BY <1>4, <1>9 DEF Ws!Bit
  <2>4. w[1] % 16 \in 8..10 => WsLength(w) <= 125 BY <1>4, <1>6, <1>9, <1>14
  <2> QED BY <2>1, <2>2, <2>3, <2>4 DEF Ws!validate_frame_header
<1>20. w[1] % 16 = opcode BY <1>4, <1>9
<1>21. ~(Len(w) < 2) /\ ~(Len(w) < 2 + ExtLen(w)) /\ ~(WsLength(w) > c.max)
       /\ ~(Len(w) < WsEnd(w))
  BY <1>5, <1>9, <1>12, <1>14, <1>16
<1>22. Ws!validate_payload_len_encoding(LenKind(w), ExtBytes(w)) BY <1>1, <1>11, <1>13
<1>23. Decode(c, w) = Ws!decode_payload(w[1] % 16, WsPayload(w), SubSeq(w, WsEnd(w) + 1, Len(w)))
  <2> DEFINE last == Ws!decode_payload(w[1] % 16, WsPayload(w), SubSeq(w, WsEnd(w) + 1, Len(w)))
             valid == Ws!validate_payload_len_encoding(LenKind(w), ExtBytes(w))
             good == Ws!validate_frame_header(c, w[1], w[2] >= 128, WsLength(w))
  <2> HIDE DEF last, valid, good
  <2>1. Decode(c, w) = IF Len(w) < 2 THEN NeedMore
           ELSE IF Len(w) < 2 + ExtLen(w) THEN NeedMore
           ELSE IF ~valid THEN Failed("Decode")
           ELSE IF WsLength(w) > c.max THEN Failed("FrameTooLarge")
           ELSE IF Len(w) < WsEnd(w) THEN NeedMore
           ELSE IF ~good THEN Failed("Decode") ELSE last
    BY <1>9, DecodeOfWs DEF last, valid, good
  <2>2. valid /\ good BY <1>19, <1>22 DEF valid, good
  <2>3. Decode(c, w) = last BY <1>21, <2>1, <2>2
  <2> QED BY <2>3 DEF last
<1>24. Decode(c, w) = Ws!decode_payload(opcode, payload, <<>>)
  BY <1>17, <1>18, <1>20, <1>23
<1> QED BY <1>9, <1>24 DEF w, n, e, first, second, data

-----------------------------------------------------------------------------
\* The WebSocket codecs whose lengths the model tells apart
WebSocketSized == {c \in WebSocket : c.max \in Measured}

LEMMA FrameReturns ==
  ASSUME NEW c \in WebSocketSized, NEW opcode \in 0..15, NEW payload \in Seq(Byte),
         Len(payload) <= c.max, opcode \in 8..10 => Len(payload) <= 125
  PROVE  Decode(c, Ws!AsClient(c, Ws!encode_frame(opcode, payload).bytes))
           = Ws!decode_payload(opcode, payload, <<>>)
<1> DEFINE n == Len(payload)
           first == 128 + opcode
           w == Wire(first, Second(c, n), Extension(n), Key(c), Hidden(c, payload))
<1>1. c \in WebSocket /\ n \in Nat /\ n \in Measured
  <2>1. c \in WebSocket /\ c.max \in Nat /\ c.max < 64 * T24
    BY DEF WebSocketSized, Measured
  <2>2. n \in Nat /\ n <= c.max BY LenProperties
  <2>3. T24 \in Nat BY DEF T24
  <2> HIDE DEF n
  <2>4. n < 64 * T24 BY <2>1, <2>2, <2>3
  <2> QED BY <2>1, <2>2, <2>4 DEF Measured
<1>2. first \in Byte BY DEF Byte
<1>3. Ws!encode_frame(opcode, payload).bytes = Wire(first, Short(n), Extension(n), <<>>, payload)
  BY <1>1, FrameWritten
<1>a. c \in WebSocket /\ Len(payload) \in Measured BY <1>1
<1>4. Decode(c, w) = Ws!decode_payload(opcode, payload, <<>>)
  BY <1>a, WireDecoded
<1> HIDE DEF first
<1>5. Ws!AsClient(c, Wire(first, Short(Len(payload)), Extension(Len(payload)), <<>>, payload))
        = Wire(first, Second(c, Len(payload)), Extension(Len(payload)), Key(c),
               Hidden(c, payload))
  BY <1>2, <1>a, ClientWire
<1> QED BY <1>3, <1>4, <1>5

LEMMA PeerEncodeOfWs ==
  ASSUME NEW c \in WebSocket, NEW m
  PROVE  PeerEncode(c, m) = Ws!AsClient(c, Ws!Encode(c, m).bytes)
<1>1. c.protocol = "websocket" BY DEF WebSocket
<1> QED BY <1>1 DEF PeerEncode

LEMMA ControlWritten ==
  ASSUME NEW opcode, NEW payload, Len(payload) \in Nat,
         Ws!encode_control_frame(opcode, payload).ok
  PROVE  /\ Ws!encode_control_frame(opcode, payload) = Ws!encode_frame(opcode, payload)
         /\ Len(payload) <= 125
<1>1. ~(Len(payload) > 125) BY DEF Ws!encode_control_frame, Ws!Refused
<1> QED BY <1>1 DEF Ws!encode_control_frame

\* The payload of a close frame and what is in it
LEMMA CloseReturns ==
  ASSUME NEW code \in Ws!U16, NEW reason \in Seq(0..127), Ws!validate_close_code(code)
  PROVE  /\ Ws!Digits(code, 2) \o reason \in Seq(Byte)
         /\ Len(Ws!Digits(code, 2) \o reason) = 2 + Len(reason)
         /\ Ws!decode_close(Ws!Digits(code, 2) \o reason)
              = Ws!Ok(<<[code |-> code, reason |-> reason]>>)
<1> DEFINE d == Ws!Digits(code, 2)
           p == d \o reason
<1>1. /\ d \in Seq(Byte) /\ Len(d) = 2
      /\ 256 * d[1] + d[2] = code
  <2>a. T16 \in Nat BY DEF T16
  <2>b. Ws!U16 = 0..(T16 - 1) BY Zenon DEF Ws!U16, T16
  <2> HIDE DEF T16
  <2>1. code \in Nat /\ code < T16
    <3>1. code \in 0..(T16 - 1) BY <2>b, Zenon
    <3> QED BY <2>a, <3>1
  <2> QED BY <2>1, TwoDigits
<1>2. reason \in Seq(Byte)
  <2>1. 0..127 \subseteq Byte BY DEF Byte
  <2> QED BY <2>1, SequencesOfMore
<1>a. d \in Seq(Byte) BY <1>1
<1> HIDE DEF d
<1>3. /\ p \in Seq(Byte) /\ Len(p) = Len(d) + Len(reason) /\ Len(reason) \in Nat
      /\ \A i \in 1..Len(d) : p[i] = d[i]
  BY <1>a, <1>2, LongerHead
<1>4. SubSeq(p, Len(d) + 1, Len(p)) = reason
  <2>1. IsTail(d, reason) BY <1>a, <1>2, TailPart
  <2> QED BY <2>1 DEF IsTail
<1> HIDE DEF p
<1>5. Len(p) = 2 + Len(reason) BY <1>1, <1>3
<1>6. p # <<>> /\ Len(p) # 1
  <2>1. Len(<<>>) = 0 BY EmptySeq
  <2> QED BY <1>3, <1>5, <2>1
<1>7. (p[1] * 256) + p[2] = code
  <2>1. 1 \in 1..Len(d) /\ 2 \in 1..Len(d) BY <1>1
  <2>2. p[1] = d[1] /\ p[2] = d[2] BY <1>3, <2>1
  <2>3. d[1] \in Byte BY <1>a, <2>1, ElementOfSeq
  <2>a. \A k \in Byte : k \in Nat BY DEF Byte
  <2>4. d[1] \in Nat BY ONLY <2>3, <2>a
  <2>5. d[1] * 256 = 256 * d[1] BY <2>4
  <2> QED BY <1>1, <2>2, <2>5
<1>8. Ws!Piece(p, 2, Len(p)) = reason
  <2>1. Len(d) + 1 = 2 + 1 BY <1>1
  <2> QED BY <1>4, <2>1 DEF Ws!Piece
<1>9. Ws!ValidUtf8(reason)
  <2>1. DOMAIN reason = 1..Len(reason) /\ \A i \in 1..Len(reason) : reason[i] \in 0..127
    BY LenProperties, ElementOfSeq
  <2>2. \A k \in 0..127 : k < 128 OBVIOUS
  <2> QED BY <2>1, <2>2 DEF Ws!ValidUtf8
<1>10. Ws!decode_close(p) = Ws!Ok(<<[code |-> code, reason |-> reason]>>)
  BY <1>6, <1>7, <1>8, <1>9 DEF Ws!decode_close
<1> QED BY <1>3, <1>5, <1>10 DEF p, d

\* A message of a WebSocket comes back, whatever its type
LEMMA WsReturns ==
  ASSUME NEW c \in WebSocketSized, NEW m, Ws!WebSocketMessage(m), Ws!Carries(c, m)
  PROVE  Decode(c, PeerEncode(c, m)) = Item(m, <<>>)
<1> DEFINE D(opcode, payload) ==
             Decode(c, Ws!AsClient(c, Ws!encode_frame(opcode, payload).bytes))
<1>1. c \in WebSocket /\ c.max \in Nat BY DEF WebSocketSized, WebSocket
<1>2. PeerEncode(c, m) = Ws!AsClient(c, Ws!Encode(c, m).bytes) BY <1>1, PeerEncodeOfWs
<1>3. Ws!Encode(c, m).ok /\ Ws!PayloadLength(m) <= c.max BY DEF Ws!Carries
<1>4. ASSUME NEW opcode \in 0..15, NEW payload \in Seq(Byte),
             Len(payload) <= c.max, opcode \in 8..10 => Len(payload) <= 125
      PROVE  D(opcode, payload) = Ws!decode_payload(opcode, payload, <<>>)
  BY <1>4, FrameReturns
<1> HIDE DEF D
<1>5. CASE m \in [type : {"Text"}, payload : Seq(0..127)]
  <2> DEFINE p == m.payload
  <2>1. m.type = "Text" /\ p \in Seq(0..127) /\ m = [type |-> "Text", payload |-> p]
    BY <1>5
  <2> HIDE DEF p
  <2>2. p \in Seq(Byte)
    <3>1. 0..127 \subseteq Byte BY DEF Byte
    <3>2. p \in Seq(0..127) BY <2>1
    <3> QED BY <3>1, <3>2, SequencesOfMore
  <2>3. Len(p) <= c.max BY <1>3, <2>1 DEF Ws!PayloadLength, p
  <2>4. Ws!Encode(c, m) = Ws!encode_frame(1, p) BY <2>1 DEF Ws!Encode, p
  <2>5. 1 \in 0..15 /\ ~(1 \in 8..10) OBVIOUS
  <2>6. D(1, p) = Ws!decode_payload(1, p, <<>>) BY <1>4, <2>2, <2>3, <2>5
  <2>7. Ws!ValidUtf8(p)
    <3>1. DOMAIN p = 1..Len(p) /\ \A i \in 1..Len(p) : p[i] \in 0..127
      BY <2>1, LenProperties, ElementOfSeq
    <3>2. \A k \in 0..127 : k < 128 OBVIOUS
    <3> QED BY <3>1, <3>2 DEF Ws!ValidUtf8
  <2>8. Ws!decode_payload(1, p, <<>>) = Item(m, <<>>)
    BY <2>1, <2>7 DEF Ws!decode_payload, Ws!Message, Ws!Item, Item
  <2> QED BY <1>2, <2>4, <2>6, <2>8 DEF D
<1>6. CASE m \in [type : {"Binary", "Ping", "Pong"}, payload : Seq(0..255)]
  <2> DEFINE p == m.payload
  <2>1. /\ m.type \in {"Binary", "Ping", "Pong"} /\ p \in Seq(Byte)
        /\ m = [type |-> m.type, payload |-> p]
    BY <1>6 DEF Byte
  <2> HIDE DEF p
  <2>2. Len(p) <= c.max /\ Len(p) \in Nat
    <3>1. Ws!PayloadLength(m) = Len(p) BY <2>1 DEF Ws!PayloadLength, p
    <3> QED BY <1>3, <2>1, <3>1, LenProperties
  <2>3. CASE m.type = "Binary"
    <3>1. Ws!Encode(c, m) = Ws!encode_frame(2, p) BY <2>3 DEF Ws!Encode, p
    <3>2. 2 \in 0..15 /\ ~(2 \in 8..10) OBVIOUS
    <3>3. D(2, p) = Ws!decode_payload(2, p, <<>>) BY <1>4, <2>1, <2>2, <3>2
    <3>4. Ws!decode_payload(2, p, <<>>) = Item(m, <<>>)
      BY <2>1, <2>3 DEF Ws!decode_payload, Ws!Message, Ws!Item, Item
    <3> QED BY <1>2, <3>1, <3>3, <3>4 DEF D
  <2>4. CASE m.type = "Ping"
    <3>1. Ws!Encode(c, m) = Ws!encode_control_frame(9, p) BY <2>4 DEF Ws!Encode, p
    <3>2. Ws!encode_control_frame(9, p) = Ws!encode_frame(9, p) /\ Len(p) <= 125
      BY <1>3, <2>2, <3>1, ControlWritten
    <3>3. 9 \in 0..15 OBVIOUS
    <3>4. D(9, p) = Ws!decode_payload(9, p, <<>>) BY <1>4, <2>1, <2>2, <3>2, <3>3
    <3>5. Ws!decode_payload(9, p, <<>>) = Item(m, <<>>)
      BY <2>1, <2>4 DEF Ws!decode_payload, Ws!Message, Ws!Item, Item
    <3> QED BY <1>2, <3>1, <3>2, <3>4, <3>5 DEF D
  <2>5. CASE m.type = "Pong"
    <3>1. Ws!Encode(c, m) = Ws!encode_control_frame(10, p) BY <2>5 DEF Ws!Encode, p
    <3>2. Ws!encode_control_frame(10, p) = Ws!encode_frame(10, p) /\ Len(p) <= 125
      BY <1>3, <2>2, <3>1, ControlWritten
    <3>3. 10 \in 0..15 OBVIOUS
    <3>4. D(10, p) = Ws!decode_payload(10, p, <<>>) BY <1>4, <2>1, <2>2, <3>2, <3>3
    <3>5. Ws!decode_payload(10, p, <<>>) = Item(m, <<>>)
      BY <2>1, <2>5 DEF Ws!decode_payload, Ws!Message, Ws!Item, Item
    <3> QED BY <1>2, <3>1, <3>2, <3>4, <3>5 DEF D
  <2> QED BY <2>1, <2>3, <2>4, <2>5
<1>7. CASE m \in [type : {"Close"}, close : Seq(Ws!CloseFrames)] /\ Len(m.close) <= 1
  <2> DEFINE x == m.close
  <2>1. m.type = "Close" /\ x \in Seq(Ws!CloseFrames) /\ m = [type |-> "Close", close |-> x]
        /\ Len(x) <= 1
    BY <1>7
  <2>2. Ws!Encode(c, m) = Ws!encode_close(x) BY <2>1 DEF Ws!Encode
  <2>3. ASSUME NEW p \in Seq(Byte), Len(p) <= c.max,
               Ws!encode_close(x) = Ws!encode_control_frame(8, p),
               Ws!decode_close(p) = Ws!Ok(x)
        PROVE  Decode(c, PeerEncode(c, m)) = Item(m, <<>>)
    <3>1. Len(p) \in Nat BY LenProperties
    <3>2. Ws!encode_control_frame(8, p) = Ws!encode_frame(8, p) /\ Len(p) <= 125
      BY <1>3, <2>2, <2>3, <3>1, ControlWritten
    <3>3. 8 \in 0..15 OBVIOUS
    <3>4. D(8, p) = Ws!decode_payload(8, p, <<>>) BY <1>4, <2>3, <3>2, <3>3
    <3>5. Ws!decode_close(p).ok /\ Ws!decode_close(p).bytes = x BY <2>3 DEF Ws!Ok
    <3>6. Ws!decode_payload(8, p, <<>>) = Item([type |-> "Close", close |-> x], <<>>)
      BY <3>5 DEF Ws!decode_payload, Ws!Item, Item
    <3> QED BY <1>2, <2>1, <2>2, <2>3, <3>2, <3>4, <3>6 DEF D
  <2>4. CASE x = <<>>
    <3>1. <<>> \in Seq(Byte) /\ Len(<<>>) = 0 BY EmptySeq
    <3>2. 0 <= c.max BY <1>1
    <3>3. Ws!encode_close(x) = Ws!encode_control_frame(8, <<>>) BY <2>4 DEF Ws!encode_close
    <3>4. Ws!decode_close(<<>>) = Ws!Ok(x) BY <2>4 DEF Ws!decode_close
    <3> QED BY <2>3, <3>1, <3>2, <3>3, <3>4
  <2>5. CASE x # <<>>
    <3> DEFINE code == x[1].code
               reason == x[1].reason
               p == Ws!Digits(code, 2) \o reason
    <3>1. Len(x) = 1 /\ x[1] \in Ws!CloseFrames /\ x = <<x[1]>>
      <4>1. Len(x) \in Nat /\ Len(x) # 0 BY <2>1, <2>5, LenProperties, EmptySeq
      <4>2. Len(x) = 1 BY <2>1, <4>1
      <4>3. 1 \in 1..Len(x) BY <4>2
      <4>4. x[1] \in Ws!CloseFrames BY <2>1, <4>3, ElementOfSeq
      <4>5. x = <<x[1]>> BY <2>1, <4>2, <4>4
      <4> QED BY <4>2, <4>4, <4>5
    <3>2. /\ code \in Ws!U16 /\ reason \in Seq(0..127)
          /\ x[1] = [code |-> code, reason |-> reason]
      BY <3>1 DEF Ws!CloseFrames
    <3>3. Ws!encode_close(x) = IF ~Ws!validate_close_code(code) THEN Ws!Refused
                               ELSE Ws!encode_control_frame(8, p)
      BY <2>5 DEF Ws!encode_close
    <3>4. Ws!validate_close_code(code) BY <1>3, <2>2, <3>3 DEF Ws!Refused
    <3> HIDE DEF code, reason
    <3>5. /\ p \in Seq(Byte) /\ Len(p) = 2 + Len(reason)
          /\ Ws!decode_close(p) = Ws!Ok(<<[code |-> code, reason |-> reason]>>)
      BY <3>2, <3>4, CloseReturns
    <3> HIDE DEF p
    <3>6. Len(p) <= c.max
      <4>1. Ws!PayloadLength(m) = 2 + Len(reason)
        BY <2>1, <2>5 DEF Ws!PayloadLength, reason
      <4> QED BY <1>3, <3>5, <4>1
    <3>7. Ws!decode_close(p) = Ws!Ok(x) BY <3>1, <3>2, <3>5
    <3>8. Ws!encode_close(x) = Ws!encode_control_frame(8, p) BY <3>3, <3>4
    <3> QED BY <2>3, <3>5, <3>6, <3>7, <3>8
  <2> QED BY <2>4, <2>5
<1> QED BY <1>5, <1>6, <1>7 DEF Ws!WebSocketMessage
=============================================================================
