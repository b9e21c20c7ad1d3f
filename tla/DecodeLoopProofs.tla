-------------------------- MODULE DecodeLoopProofs --------------------------
(***************************************************************************)
(* Theorems about DecodeLoop, for every codec that keeps to what the loop  *)
(* of handle_read expects of a Decoder: it asks for more, fails, or takes  *)
(* bytes off the front of the buffer, and what it has answered, bytes that *)
(* come later do not change.  StreamDecodingProofs shows that the codecs   *)
(* of the repository do.                                                   *)
(***************************************************************************)
EXTENDS DecodeLoop, CodecResults, SequenceTheorems, WellFoundedInduction, TLAPS

CONSTANTS
  Codec,         (* The codecs, with every configuration.                  *)
  Alphabet(_),   (* What the streams of a codec are made of.               *)
  Message(_)     (* What a peer of the codec may send.                     *)

LEMMA LeastNatural ==
  ASSUME NEW S \in SUBSET Nat, S # {}
  PROVE  \E x \in S : \A y \in S : x <= y
<1>1. PICK R : IsWellFoundedOn(R, Nat) /\ R = {ss \in Nat \X Nat : ss[1] < ss[2]}
  BY NatLessThanWellFounded DEF OpToRel
<1>2. PICK x \in S : \A y \in S : ~ (<<y, x>> \in R)
  BY <1>1, WFMin
<1>3. ASSUME NEW y \in S, y < x PROVE FALSE
  BY <1>1, <1>2, <1>3
<1> QED BY <1>2, <1>3

LEMMA SetInduction ==
  ASSUME NEW S \in SUBSET Nat, 0 \in S, \A n \in S : n + 1 \in S
  PROVE  S = Nat
<1> SUFFICES ASSUME Nat \ S # {} PROVE FALSE OBVIOUS
<1>1. PICK x \in Nat \ S : \A y \in Nat \ S : x <= y BY LeastNatural
<1>2. x # 0 /\ x - 1 \in Nat BY <1>1
<1>3. x - 1 \in S BY <1>1, <1>2
<1> QED BY <1>3, <1>1

-----------------------------------------------------------------------------
Begin(bytes) == [items |-> <<>>, rest |-> bytes, failure |-> "none"]

IsRun(c, bytes, n, f) ==
  f = [i \in 0..n |-> IF i = 0 THEN Begin(bytes) ELSE Turn(c, f[i - 1])]

LEMMA RunExists ==
  ASSUME NEW c, NEW bytes, NEW n \in Nat
  PROVE  \E f : IsRun(c, bytes, n, f)
<1> DEFINE S == {k \in Nat : \E f : IsRun(c, bytes, k, f)}
<1>1. 0 \in S
  <2> DEFINE f == [i \in 0..0 |-> Begin(bytes)]
  <2>1. IsRun(c, bytes, 0, f) BY DEF IsRun
  <2> QED BY <2>1
<1>2. ASSUME NEW k \in S PROVE k + 1 \in S
  <2>1. PICK f : IsRun(c, bytes, k, f) OBVIOUS
  <2> DEFINE g == [i \in 0..k + 1 |-> IF i = k + 1 THEN Turn(c, f[k]) ELSE f[i]]
  <2>2. \A i \in 0..k + 1 : g[i] = IF i = 0 THEN Begin(bytes) ELSE Turn(c, g[i - 1])
    BY <2>1 DEF IsRun
  <2>3. IsRun(c, bytes, k + 1, g) BY <2>2 DEF IsRun
  <2> QED BY <2>3
<1> HIDE DEF S
<1>3. S = Nat BY <1>1, <1>2, SetInduction DEF S
<1> QED BY <1>3 DEF S

LEMMA RunsAgree ==
  ASSUME NEW c, NEW bytes, NEW n \in Nat, NEW m \in Nat, n <= m,
         NEW f, NEW g, IsRun(c, bytes, n, f), IsRun(c, bytes, m, g)
  PROVE  \A i \in 0..n : f[i] = g[i]
<1> DEFINE S == {k \in Nat : k <= n => f[k] = g[k]}
<1>1. 0 \in S BY DEF IsRun
<1>2. ASSUME NEW k \in S PROVE k + 1 \in S
  <2> SUFFICES ASSUME k + 1 <= n PROVE f[k + 1] = g[k + 1] OBVIOUS
  <2>1. f[k] = g[k] OBVIOUS
  <2>2. f[k + 1] = Turn(c, f[k]) /\ g[k + 1] = Turn(c, g[k]) BY DEF IsRun
  <2> QED BY <2>1, <2>2
<1> HIDE DEF S
<1>3. S = Nat BY <1>1, <1>2, SetInduction DEF S
<1> QED BY <1>3 DEF S

LEMMA TurnsRun ==
  ASSUME NEW c, NEW bytes, NEW n \in Nat
  PROVE  \E f : IsRun(c, bytes, n, f) /\ Turns(c, bytes, n) = f[n]
<1> DEFINE turn == CHOOSE f : IsRun(c, bytes, n, f)
<1>1. IsRun(c, bytes, n, turn) BY RunExists, Zenon
<1>2. Turns(c, bytes, n) = turn[n] BY DEF Turns, IsRun, Begin
<1> QED BY <1>1, <1>2

LEMMA TurnsStep ==
  ASSUME NEW c, NEW bytes, NEW n \in Nat
  PROVE  /\ Turns(c, bytes, 0) = Begin(bytes)
         /\ Turns(c, bytes, n + 1) = Turn(c, Turns(c, bytes, n))
<1>1. PICK f : IsRun(c, bytes, 0, f) /\ Turns(c, bytes, 0) = f[0] BY TurnsRun
<1>2. PICK g : IsRun(c, bytes, n, g) /\ Turns(c, bytes, n) = g[n] BY TurnsRun
<1>3. PICK h : IsRun(c, bytes, n + 1, h) /\ Turns(c, bytes, n + 1) = h[n + 1]
  BY TurnsRun
<1>4. g[n] = h[n] BY <1>2, <1>3, RunsAgree
<1>5. h[n + 1] = Turn(c, h[n]) BY <1>3 DEF IsRun
<1> QED BY <1>1, <1>2, <1>3, <1>4, <1>5 DEF IsRun

-----------------------------------------------------------------------------
(***************************************************************************)
(* What a Decoder owes the loop.                                           *)
(***************************************************************************)
Bytes(c) == Seq(Alphabet(c))

\* It asks for more, fails, or takes at least one byte off the front
Answers(c) ==
  /\ Decode(c, <<>>) = NeedMore
  /\ \A b \in Bytes(c) :
       \/ Decode(c, b) = NeedMore
       \/ \E e : e # "none" /\ Decode(c, b) = Failed(e)
       \/ \E item : \E used, rest \in Bytes(c) :
            used # <<>> /\ b = used \o rest /\ Decode(c, b) = Item(item, rest)

\* What it has answered, bytes that come later do not change
Stable(c) ==
  \A b, more \in Bytes(c) :
    /\ Decode(c, b).kind = "item" =>
         Decode(c, b \o more) = Item(Decode(c, b).item, Decode(c, b).rest \o more)
    /\ Decode(c, b).kind = "error" =>
         \/ Decode(c, b \o more) = Decode(c, b)
         \/ Decode(c, b).error = "FrameTooLarge" /\ CutAtLimit(c, b)

\* Without frames it takes whatever is there
TakesAll(c) == \A b \in Bytes(c) : b # <<>> => Decode(c, b) = Item(b, <<>>)

Lawful(c) ==
  /\ Answers(c)
  /\ Framed(c) /\ ~Nested(c) => Stable(c)
  /\ ~Framed(c) => TakesAll(c)

\* The streams are those of codecs that keep to this
Inputs ==
  /\ \A f \in DOMAIN RawStreams : \A r \in RawStreams[f] :
       r.codec \in Codec /\ r.bytes \in Bytes(r.codec)
  /\ \A f \in DOMAIN Dialogues : \A d \in Dialogues[f] :
       /\ d.codec \in Codec
       /\ d.items \in Seq(Message(d.codec))
       /\ \A m \in Message(d.codec) :
            Carries(d.codec, m) => PeerEncode(d.codec, m) \in Bytes(d.codec)
  /\ \A c \in Codec : Lawful(c)

-----------------------------------------------------------------------------
\* The messages sent, one by one
IsStream(c, messages, n, f) ==
  f = [i \in 0..n |-> IF i = 0 THEN <<>> ELSE f[i - 1] \o PeerEncode(c, messages[i])]

LEMMA StreamExists ==
  ASSUME NEW c, NEW messages, NEW n \in Nat
  PROVE  \E f : IsStream(c, messages, n, f)
<1> DEFINE S == {k \in Nat : \E f : IsStream(c, messages, k, f)}
<1>1. 0 \in S
  <2> DEFINE f == [i \in 0..0 |-> <<>>]
  <2>1. IsStream(c, messages, 0, f) BY DEF IsStream
  <2> QED BY <2>1
<1>2. ASSUME NEW k \in S PROVE k + 1 \in S
  <2>1. PICK f : IsStream(c, messages, k, f) OBVIOUS
  <2> DEFINE last == f[k] \o PeerEncode(c, messages[k + 1])
             g == [i \in 0..k + 1 |-> IF i = k + 1 THEN last ELSE f[i]]
  <2>2. \A i \in 0..k + 1 :
          g[i] = IF i = 0 THEN <<>> ELSE g[i - 1] \o PeerEncode(c, messages[i])
    BY <2>1 DEF IsStream
  <2>3. IsStream(c, messages, k + 1, g) BY <2>2 DEF IsStream
  <2> QED BY <2>3
<1> HIDE DEF S
<1>3. S = Nat BY <1>1, <1>2, SetInduction DEF S
<1> QED BY <1>3 DEF S

LEMMA StreamRun ==
  ASSUME NEW c, NEW S, NEW messages \in Seq(S)
  PROVE  \E f : /\ IsStream(c, messages, Len(messages), f)
                /\ Stream(c, messages) = f[Len(messages)]
<1> DEFINE n == Len(messages)
           upto == CHOOSE f : IsStream(c, messages, n, f)
<1>0. n \in Nat BY LenProperties
<1> HIDE DEF n
<1>1. IsStream(c, messages, n, upto) BY <1>0, StreamExists, Zenon
<1>2. Stream(c, messages) = upto[n] BY DEF Stream, IsStream, n
<1> QED BY <1>1, <1>2 DEF n

LEMMA StreamType ==
  ASSUME NEW c, NEW messages \in Seq(Message(c)),
         \A i \in DOMAIN messages : PeerEncode(c, messages[i]) \in Bytes(c)
  PROVE  Stream(c, messages) \in Bytes(c)
<1>1. PICK f : /\ IsStream(c, messages, Len(messages), f)
               /\ Stream(c, messages) = f[Len(messages)]
  BY StreamRun
<1> DEFINE S == {k \in Nat : k <= Len(messages) => f[k] \in Bytes(c)}
<1>2. 0 \in S
  <2>1. f[0] = <<>> BY <1>1 DEF IsStream
  <2> QED BY <2>1, EmptySeq DEF Bytes
<1>3. ASSUME NEW k \in S PROVE k + 1 \in S
  <2> SUFFICES ASSUME k + 1 <= Len(messages) PROVE f[k + 1] \in Bytes(c) OBVIOUS
  <2>1. f[k + 1] = f[k] \o PeerEncode(c, messages[k + 1]) BY <1>1 DEF IsStream
  <2>2. f[k] \in Bytes(c) /\ PeerEncode(c, messages[k + 1]) \in Bytes(c) OBVIOUS
  <2> QED BY <2>1, <2>2, ConcatProperties DEF Bytes
<1> HIDE DEF S
<1>4. S = Nat BY <1>2, <1>3, SetInduction DEF S
<1> QED BY <1>1, <1>4 DEF S

-----------------------------------------------------------------------------
\* A turn by what the codec answers
LEMMA TurnItem ==
  ASSUME NEW c, NEW s, s.failure = "none",
         NEW item, NEW rest, Decode(c, s.rest) = Item(item, rest)
  PROVE  Turn(c, s) = [items |-> Append(s.items, item), rest |-> rest,
                       failure |-> "none"]
BY DEF Turn, Item

LEMMA TurnNone ==
  ASSUME NEW c, NEW s, s.failure = "none", Decode(c, s.rest) = NeedMore
  PROVE  Turn(c, s) = s
BY DEF Turn, NeedMore

LEMMA TurnError ==
  ASSUME NEW c, NEW s, s.failure = "none", NEW e, Decode(c, s.rest) = Failed(e)
  PROVE  Turn(c, s) = [s EXCEPT !.failure = e]
BY DEF Turn, Failed

LEMMA TurnEnded ==
  ASSUME NEW c, NEW s, s.failure # "none"
  PROVE  Turn(c, s) = s
BY DEF Turn

-----------------------------------------------------------------------------
Items(c) == {Decode(c, b).item : b \in {b \in Bytes(c) : Decode(c, b).kind = "item"}}

TypeInv ==
  /\ codec \in Codec /\ Lawful(codec)
  /\ input \in Bytes(codec)
  /\ arrived \in 0..Len(input)
  /\ buf \in Bytes(codec)
  /\ items \in Seq(Items(codec))
  /\ pc \in {"read", "decode", "failed"}

\* Why the loop is where it is
PhaseInv ==
  /\ pc = "read" => Decode(codec, buf) = NeedMore
  /\ pc = "failed" => failure # "none" /\ Decode(codec, buf) = Failed(failure)
  /\ pc # "failed" => failure = "none"

\* Every item took a byte
CountInv == Len(items) + Len(buf) <= arrived

Outstanding == SubSeq(input, arrived + 1, Len(input))

\* The loop over the whole stream passes through the same items
LoopInv ==
  Framed(codec) /\ ~Nested(codec) =>
    Turns(codec, input, Len(items))
      = [items |-> items, rest |-> buf \o Outstanding, failure |-> "none"]

\* Without frames the items are what has arrived
FlowInv ==
  ~Framed(codec) =>
    /\ pc # "failed" /\ items \in Seq(Bytes(codec))
    /\ FlattenSeq(items) \o buf = SubSeq(input, 1, arrived)

Associative(x, y, z) == (x \o y) \o z = x \o (y \o z)

LEMMA Associated ==
  ASSUME NEW A, NEW x \in Seq(A), NEW y \in Seq(A), NEW z \in Seq(A)
  PROVE  Associative(x, y, z)
BY ConcatAssociative DEF Associative

LEMMA Answer ==
  ASSUME NEW c, Lawful(c), NEW b \in Bytes(c)
  PROVE  \/ Decode(c, b) = NeedMore
         \/ \E e : e # "none" /\ Decode(c, b) = Failed(e)
         \/ \E used, rest \in Bytes(c), item \in Items(c) :
              used # <<>> /\ b = used \o rest /\ Decode(c, b) = Item(item, rest)
<1> SUFFICES ASSUME NEW item, NEW used \in Bytes(c), NEW rest \in Bytes(c),
                    Decode(c, b) = Item(item, rest)
             PROVE  item \in Items(c)
  BY DEF Lawful, Answers
<1>1. Decode(c, b).item = item /\ Decode(c, b).kind = "item" BY DEF Item
<1> QED BY <1>1 DEF Items

LEMMA InitInv ==
  ASSUME Inputs
  PROVE  Init => TypeInv /\ PhaseInv /\ CountInv /\ LoopInv
<1> SUFFICES ASSUME Init PROVE TypeInv /\ PhaseInv /\ CountInv /\ LoopInv OBVIOUS
<1>1. codec \in Codec /\ input \in Bytes(codec)
  <2>1. CASE \E f \in DOMAIN RawStreams : \E r \in RawStreams[f] :
               codec = r.codec /\ sent = <<>> /\ input = r.bytes
    BY <2>1 DEF Inputs
  <2>2. CASE \E f \in DOMAIN Dialogues : \E d \in Dialogues[f] :
               /\ \A i \in DOMAIN d.items : Carries(d.codec, d.items[i])
               /\ codec = d.codec /\ sent = d.items
               /\ input = Stream(d.codec, d.items)
    <3>1. PICK f \in DOMAIN Dialogues : \E d \in Dialogues[f] :
               /\ \A i \in DOMAIN d.items : Carries(d.codec, d.items[i])
               /\ codec = d.codec /\ sent = d.items
               /\ input = Stream(d.codec, d.items)
      BY <2>2
    <3>2. PICK d \in Dialogues[f] :
               /\ \A i \in DOMAIN d.items : Carries(d.codec, d.items[i])
               /\ codec = d.codec /\ sent = d.items
               /\ input = Stream(d.codec, d.items)
      BY <3>1
    <3>3. /\ d.codec \in Codec
          /\ d.items \in Seq(Message(d.codec))
          /\ \A m \in Message(d.codec) :
               Carries(d.codec, m) => PeerEncode(d.codec, m) \in Bytes(d.codec)
      BY DEF Inputs
    <3>4. \A i \in DOMAIN d.items : d.items[i] \in Message(d.codec)
      BY <3>3, LenProperties, ElementOfSeq
    <3>5. \A i \in DOMAIN d.items : PeerEncode(d.codec, d.items[i]) \in Bytes(d.codec)
      BY <3>2, <3>3, <3>4
    <3> QED BY <3>2, <3>3, <3>5, StreamType
  <2> QED BY <2>1, <2>2 DEF Init
<1>2. /\ arrived = 0 /\ buf = <<>> /\ items = <<>>
      /\ pc = "read" /\ failure = "none"
  BY DEF Init, Start
<1>3. Lawful(codec) BY <1>1 DEF Inputs
<1>4. Len(input) \in Nat BY <1>1 DEF Bytes
<1>5. TypeInv BY <1>1, <1>2, <1>3, <1>4, EmptySeq DEF TypeInv, Bytes
<1>6. PhaseInv BY <1>2, <1>3 DEF PhaseInv, Lawful, Answers
<1>7. CountInv BY <1>2 DEF CountInv
<1>8. LoopInv
  <2>1. Outstanding = input BY <1>1, <1>2, SubSeqFull DEF Outstanding, Bytes
  <2>2. buf \o Outstanding = input BY <2>1, <1>1, <1>2, ConcatEmptySeq DEF Bytes
  <2>3. Turns(codec, input, 0) = Begin(input) BY TurnsStep
  <2> QED BY <2>2, <2>3, <1>2 DEF LoopInv, Begin
<1> QED BY <1>5, <1>6, <1>7, <1>8

LEMMA ReadKeeps ==
  ASSUME TypeInv, Read
  PROVE  buf' \o Outstanding' = buf \o Outstanding
<1> USE DEF Bytes
<1>1. PICK n \in 1..(Len(input) - arrived) :
        /\ arrived' = arrived + n
        /\ buf' = buf \o SubSeq(input, arrived + 1, arrived + n)
  BY DEF Read
<1>2. input' = input BY DEF Read
<1>3. input \in Seq(Alphabet(codec)) /\ buf \in Seq(Alphabet(codec)) /\ Len(input) \in Nat
      /\ arrived \in 0..Len(input)
  BY DEF TypeInv
<1> DEFINE part == SubSeq(input, arrived + 1, arrived + n)
           left == SubSeq(input, arrived + n + 1, Len(input))
<1>4. part \in Seq(Alphabet(codec))
  <2>1. \A i \in (arrived + 1)..(arrived + n) : input[i] \in Alphabet(codec)
    BY <1>3, ElementOfSeq
  <2> QED BY <2>1, <1>3, SubSeqProperties
<1>5. left \in Seq(Alphabet(codec))
  <2>1. \A i \in (arrived + n + 1)..Len(input) : input[i] \in Alphabet(codec)
    BY <1>3, ElementOfSeq
  <2> QED BY <2>1, <1>3, SubSeqProperties
<1>6. Outstanding' = left BY <1>1, <1>2 DEF Outstanding
<1>7. part \o left = Outstanding
  BY <1>3, ConcatAdjacentSubSeq DEF Outstanding
<1>8. (buf \o part) \o left = buf \o (part \o left)
  <2>1. /\ buf \in Seq(Alphabet(codec)) /\ part \in Seq(Alphabet(codec))
        /\ left \in Seq(Alphabet(codec))
    BY <1>3, <1>4, <1>5
  <2> HIDE DEF part, left
  <2>2. Associative(buf, part, left) BY ONLY <2>1, Associated
  <2> QED BY ONLY <2>2 DEF Associative
<1> QED BY <1>1, <1>6, <1>7, <1>8

LEMMA ReadInv ==
  ASSUME TypeInv, PhaseInv, CountInv, Read
  PROVE  TypeInv' /\ PhaseInv' /\ CountInv' /\ (LoopInv => LoopInv')
<1> USE DEF Bytes
<1>1. PICK n \in 1..(Len(input) - arrived) :
        /\ arrived' = arrived + n
        /\ buf' = buf \o SubSeq(input, arrived + 1, arrived + n)
  BY DEF Read
<1>2. /\ pc = "read" /\ pc' = "decode"
      /\ codec' = codec /\ input' = input /\ items' = items /\ failure' = failure
  BY DEF Read
<1>3. input \in Seq(Alphabet(codec)) /\ buf \in Seq(Alphabet(codec)) /\ Len(input) \in Nat
      /\ arrived \in 0..Len(input)
  BY DEF TypeInv
<1> DEFINE part == SubSeq(input, arrived + 1, arrived + n)
<1>4. part \in Seq(Alphabet(codec)) /\ Len(part) = n
  <2>1. \A i \in (arrived + 1)..(arrived + n) : input[i] \in Alphabet(codec)
    BY <1>3, ElementOfSeq
  <2> QED BY <2>1, <1>3, SubSeqProperties
<1>5. buf' \in Seq(Alphabet(codec)) /\ Len(buf') = Len(buf) + n
  BY <1>1, <1>3, <1>4, ConcatProperties
<1>6. TypeInv'
  BY <1>1, <1>2, <1>3, <1>5 DEF TypeInv
<1>7. PhaseInv'
  BY <1>2 DEF PhaseInv
<1>8. CountInv'
  <2>1. Len(items) \in Nat /\ Len(buf) \in Nat BY <1>3 DEF TypeInv
  <2> QED BY <1>1, <1>2, <1>3, <1>5, <2>1 DEF CountInv
<1>9. buf' \o Outstanding' = buf \o Outstanding BY ReadKeeps
<1>10. LoopInv => LoopInv'
  BY <1>2, <1>9 DEF LoopInv
<1> QED BY <1>6, <1>7, <1>8, <1>10

LEMMA DecodeStepInv ==
  ASSUME TypeInv, PhaseInv, CountInv, DecodeStep
  PROVE  TypeInv' /\ PhaseInv' /\ CountInv' /\ (LoopInv => LoopInv')
<1> USE DEF Bytes
<1> DEFINE d == Decode(codec, buf)
<1>1. /\ pc = "decode" /\ failure = "none"
      /\ codec' = codec /\ input' = input /\ arrived' = arrived
      /\ UNCHANGED sent
  BY DEF DecodeStep, PhaseInv
<1>2. input \in Seq(Alphabet(codec)) /\ buf \in Seq(Alphabet(codec)) /\ Len(input) \in Nat
      /\ arrived \in 0..Len(input) /\ items \in Seq(Items(codec)) /\ Lawful(codec)
  BY DEF TypeInv
<1>3. Outstanding' = Outstanding BY <1>1 DEF Outstanding
<1>4. CASE d = NeedMore
  <2>1. pc' = "read" /\ UNCHANGED <<buf, items, failure>>
    BY <1>4 DEF DecodeStep, NeedMore
  <2>2. TypeInv' BY <1>1, <2>1 DEF TypeInv
  <2>3. PhaseInv' BY <1>1, <1>4, <2>1 DEF PhaseInv
  <2>4. CountInv' BY <1>1, <2>1 DEF CountInv
  <2>5. LoopInv => LoopInv' BY <1>1, <1>3, <2>1 DEF LoopInv
  <2> QED BY <2>2, <2>3, <2>4, <2>5
<1>5. ASSUME NEW e, e # "none", d = Failed(e)
      PROVE  TypeInv' /\ PhaseInv' /\ CountInv' /\ (LoopInv => LoopInv')
  <2>1. pc' = "failed" /\ failure' = e /\ UNCHANGED <<buf, items>>
    BY <1>5 DEF DecodeStep, Failed
  <2> QED BY <1>1, <1>2, <1>3, <1>5, <2>1
          DEF TypeInv, PhaseInv, CountInv, LoopInv
<1>6. ASSUME NEW used \in Bytes(codec), NEW rest \in Bytes(codec),
             NEW item \in Items(codec),
             used # <<>>, buf = used \o rest, d = Item(item, rest)
      PROVE  TypeInv' /\ PhaseInv' /\ CountInv' /\ (LoopInv => LoopInv')
  <2>1. items' = Append(items, item) /\ buf' = rest /\ pc' = pc /\ failure' = failure
    BY <1>6 DEF DecodeStep, Item
  <2>2. items' \in Seq(Items(codec)) /\ Len(items') = Len(items) + 1
    BY <1>2, <1>6, <2>1, AppendProperties
  <2>3. Len(buf) = Len(used) + Len(rest) /\ Len(used) \in Nat \ {0} /\ Len(rest) \in Nat
    BY <1>6, ConcatProperties, EmptySeq
  <2>4. TypeInv' BY <1>1, <1>2, <1>6, <2>1, <2>2 DEF TypeInv
  <2>5. PhaseInv' BY <1>1, <2>1 DEF PhaseInv
  <2>6. CountInv'
    <3>1. Len(items) \in Nat BY <1>2
    <3> QED BY <1>1, <1>2, <2>1, <2>2, <2>3, <3>1 DEF CountInv
  <2>7. ASSUME LoopInv PROVE LoopInv'
    <3> SUFFICES ASSUME Framed(codec), ~Nested(codec)
                 PROVE  Turns(codec, input, Len(items'))
                          = [items |-> items', rest |-> rest \o Outstanding,
                             failure |-> "none"]
      BY <1>1, <1>3, <2>1 DEF LoopInv
    <3>1. Stable(codec) BY <1>2 DEF Lawful
    <3>2. Outstanding \in Seq(Alphabet(codec))
      <4>1. \A i \in (arrived + 1)..Len(input) : input[i] \in Alphabet(codec)
        BY <1>2, ElementOfSeq
      <4> QED BY <4>1, <1>2, SubSeqProperties DEF Outstanding
    <3>3. Decode(codec, buf \o Outstanding) = Item(item, rest \o Outstanding)
      <4>1. d.kind = "item" /\ d.item = item /\ d.rest = rest BY <1>6 DEF Item
      <4>2. Decode(codec, buf \o Outstanding) = Item(d.item, d.rest \o Outstanding)
        BY <1>2, <3>1, <3>2, <4>1 DEF Stable
      <4> QED BY <4>1, <4>2
    <3>4. Turns(codec, input, Len(items))
            = [items |-> items, rest |-> buf \o Outstanding, failure |-> "none"]
      BY <2>7 DEF LoopInv
    <3>5. Turns(codec, input, Len(items) + 1)
            = Turn(codec, Turns(codec, input, Len(items)))
      BY <1>2, LenProperties, TurnsStep
    <3>6. Turn(codec, Turns(codec, input, Len(items)))
            = [items |-> Append(items, item), rest |-> rest \o Outstanding,
               failure |-> "none"]
      <4> DEFINE s == Turns(codec, input, Len(items))
      <4>1. s.failure = "none" /\ s.rest = buf \o Outstanding /\ s.items = items
        BY <3>4
      <4>2. Decode(codec, s.rest) = Item(item, rest \o Outstanding)
        BY <3>3, <4>1
      <4> HIDE DEF s
      <4>3. Turn(codec, s) = [items |-> Append(s.items, item),
                              rest |-> rest \o Outstanding, failure |-> "none"]
        BY <4>1, <4>2, TurnItem
      <4> QED BY <4>1, <4>3 DEF s
    <3> QED BY <2>1, <2>2, <3>5, <3>6
  <2> QED BY <2>4, <2>5, <2>6, <2>7
<1>7. \/ d = NeedMore
      \/ \E e : e # "none" /\ d = Failed(e)
      \/ \E used, rest \in Bytes(codec), item \in Items(codec) :
           used # <<>> /\ buf = used \o rest /\ d = Item(item, rest)
  <2>1. Lawful(codec) /\ buf \in Bytes(codec) BY <1>2
  <2> QED BY <2>1, Answer
<1> HIDE DEF d, Bytes
<1>8. CASE \E e : e # "none" /\ d = Failed(e)
  BY ONLY <1>5, <1>8
<1>9. CASE \E used, rest \in Bytes(codec), item \in Items(codec) :
             used # <<>> /\ buf = used \o rest /\ d = Item(item, rest)
  BY ONLY <1>6, <1>9
<1> QED BY ONLY <1>4, <1>7, <1>8, <1>9

-----------------------------------------------------------------------------
\* FlattenSeq, element by element
IsFlat(s, n, f) ==
  f = [i \in 1..n |-> IF i = 1 THEN s[i] ELSE f[i - 1] \o s[i]]

LEMMA FlatExists ==
  ASSUME NEW s, NEW n \in Nat
  PROVE  \E f : IsFlat(s, n, f)
<1> DEFINE S == {k \in Nat : \E f : IsFlat(s, k, f)}
<1>1. 0 \in S
  <2> DEFINE f == [i \in 1..0 |-> <<>>]
  <2>1. IsFlat(s, 0, f) BY DEF IsFlat
  <2> QED BY <2>1
<1>2. ASSUME NEW k \in S PROVE k + 1 \in S
  <2>1. PICK f : IsFlat(s, k, f) OBVIOUS
  <2> DEFINE last == IF k = 0 THEN s[1] ELSE f[k] \o s[k + 1]
             g == [i \in 1..k + 1 |-> IF i = k + 1 THEN last ELSE f[i]]
  <2>2. ASSUME NEW i \in 1..k + 1
        PROVE  g[i] = IF i = 1 THEN s[i] ELSE g[i - 1] \o s[i]
    <3>1. CASE i = k + 1 BY <3>1
    <3>2. CASE i # k + 1
      <4>1. i \in 1..k /\ g[i] = f[i] BY <3>2
      <4>2. i # 1 => g[i - 1] = f[i - 1] BY <4>1
      <4>3. f[i] = IF i = 1 THEN s[i] ELSE f[i - 1] \o s[i] BY <2>1, <4>1 DEF IsFlat
      <4> QED BY <4>1, <4>2, <4>3
    <3> QED BY <3>1, <3>2
  <2>3. IsFlat(s, k + 1, g) BY <2>2 DEF IsFlat
  <2> QED BY <2>3
<1> HIDE DEF S
<1>3. S = Nat BY <1>1, <1>2, SetInduction DEF S
<1> QED BY <1>3 DEF S

LEMMA FlatRun ==
  ASSUME NEW s, Len(s) \in Nat \ {0}
  PROVE  \E f : IsFlat(s, Len(s), f) /\ FlattenSeq(s) = f[Len(s)]
<1> DEFINE n == Len(s)
           flatten == CHOOSE f : IsFlat(s, n, f)
<1>1. n \in Nat OBVIOUS
<1> HIDE DEF n
<1>2. IsFlat(s, n, flatten) BY <1>1, FlatExists, Zenon
<1>3. FlattenSeq(s) = flatten[n] BY DEF FlattenSeq, IsFlat, n
<1> QED BY <1>2, <1>3 DEF n

LEMMA FlattenEmpty == FlattenSeq(<<>>) = <<>>
BY DEF FlattenSeq

LEMMA FlattenAppend ==
  ASSUME NEW A, NEW s \in Seq(Seq(A)), NEW x \in Seq(A)
  PROVE  /\ FlattenSeq(s) \in Seq(A)
         /\ FlattenSeq(Append(s, x)) = FlattenSeq(s) \o x
<1> DEFINE t == Append(s, x)
           n == Len(s)
<1>1. /\ t \in Seq(Seq(A)) /\ Len(t) = n + 1 /\ t[n + 1] = x /\ n \in Nat
      /\ \A i \in 1..n : t[i] = s[i] /\ s[i] \in Seq(A)
  <2> DEFINE B == Seq(A)
  <2>1. s \in Seq(B) /\ x \in B OBVIOUS
  <2> HIDE DEF B
  <2>2. /\ t \in Seq(B) /\ Len(t) = Len(s) + 1
        /\ \A i \in 1..Len(s) : t[i] = s[i]
        /\ t[Len(s) + 1] = x
    BY <2>1, AppendProperties
  <2>3. Len(s) \in Nat BY <2>1, LenProperties
  <2>4. \A i \in 1..Len(s) : s[i] \in B BY <2>1, ElementOfSeq
  <2> QED BY <2>2, <2>3, <2>4 DEF B
<1> HIDE DEF t
<1>2. PICK g : IsFlat(t, n + 1, g) /\ FlattenSeq(t) = g[n + 1]
  <2>1. Len(t) = n + 1 /\ n + 1 # 0 BY <1>1
  <2> DEFINE m == Len(t)
  <2>2. m \in Nat \ {0} BY <1>1
  <2>3. \E g : IsFlat(t, m, g) /\ FlattenSeq(t) = g[m] BY ONLY <2>2, FlatRun
  <2> HIDE DEF m
  <2>4. m = n + 1 BY <2>1 DEF m
  <2> QED BY ONLY <2>3, <2>4
<1>3. CASE n = 0
  <2>1. s = <<>> BY <1>3, EmptySeq
  <2>2. FlattenSeq(s) = <<>> BY <2>1, FlattenEmpty
  <2>3. FlattenSeq(t) = x BY <1>1, <1>2, <1>3 DEF IsFlat
  <2> QED BY <2>2, <2>3, EmptySeq, ConcatEmptySeq DEF t
<1>4. CASE n # 0
  <2>1. PICK f : IsFlat(s, n, f) /\ FlattenSeq(s) = f[n]
    BY <1>1, <1>4, FlatRun
  <2> DEFINE S == {k \in Nat : k + 1 <= n => f[k + 1] = g[k + 1] /\ f[k + 1] \in Seq(A)}
  <2>2. 0 \in S BY <1>1, <1>2, <2>1 DEF IsFlat
  <2>3. ASSUME NEW k \in S PROVE k + 1 \in S
    <3> SUFFICES ASSUME k + 2 <= n
                 PROVE  f[k + 2] = g[k + 2] /\ f[k + 2] \in Seq(A)
      <4>1. (k + 1) + 1 = k + 2 OBVIOUS
      <4> QED BY <4>1
    <3>1. f[k + 1] = g[k + 1] /\ f[k + 1] \in Seq(A) BY <1>1
    <3>a. k + 2 \in 1..n /\ k + 2 \in 1..(n + 1) /\ k + 2 # 1 /\ (k + 2) - 1 = k + 1
      BY <1>1
    <3>2. f[k + 2] = f[k + 1] \o s[k + 2] BY <3>a, <2>1 DEF IsFlat
    <3>3. g[k + 2] = g[k + 1] \o t[k + 2] BY <3>a, <1>2 DEF IsFlat
    <3>4. s[k + 2] = t[k + 2] /\ s[k + 2] \in Seq(A) BY <1>1
    <3> QED BY <3>1, <3>2, <3>3, <3>4, ConcatProperties
  <2> HIDE DEF S
  <2>4. S = Nat BY <2>2, <2>3, SetInduction DEF S
  <2>5. f[n] = g[n] /\ f[n] \in Seq(A)
    <3>1. n - 1 \in S /\ (n - 1) + 1 = n /\ n <= n BY <1>1, <1>4, <2>4
    <3> QED BY <3>1 DEF S
  <2>6. g[n + 1] = g[n] \o x
    <3>1. n + 1 \in 1..(n + 1) /\ n + 1 # 1 /\ (n + 1) - 1 = n BY <1>1, <1>4
    <3>2. g[n + 1] = g[n] \o t[n + 1] BY <3>1, <1>2 DEF IsFlat
    <3> QED BY <3>2, <1>1
  <2> QED BY <1>2, <2>1, <2>5, <2>6 DEF t
<1> QED BY <1>3, <1>4

-----------------------------------------------------------------------------
\* The turns over a whole stream
LEMMA TurnsType ==
  ASSUME NEW c, Lawful(c), NEW bytes \in Bytes(c), NEW n \in Nat
  PROVE  /\ Turns(c, bytes, n).items \in Seq(Items(c))
         /\ Turns(c, bytes, n).rest \in Bytes(c)
         /\ IsPrefix(Turns(c, bytes, n).items, Turns(c, bytes, n + 1).items)
<1> DEFINE s(k) == Turns(c, bytes, k)
           Typed(k) == s(k).items \in Seq(Items(c)) /\ s(k).rest \in Bytes(c)
           S == {k \in Nat : Typed(k)}
<1>1. \A k \in Nat : s(k + 1) = Turn(c, s(k)) BY TurnsStep
<1>2. ASSUME NEW k \in Nat, Typed(k)
      PROVE  Typed(k + 1) /\ IsPrefix(s(k).items, s(k + 1).items)
  <2> DEFINE t == s(k)
  <2>1. t.items \in Seq(Items(c)) /\ t.rest \in Bytes(c) BY <1>2
  <2>2. s(k + 1) = Turn(c, t) BY <1>1
  <2> HIDE DEF s
  <2> SUFFICES /\ Turn(c, t).items \in Seq(Items(c))
               /\ Turn(c, t).rest \in Bytes(c)
               /\ IsPrefix(t.items, Turn(c, t).items)
    BY <2>2
  <2> HIDE DEF t
  <2>3. IsPrefix(t.items, t.items) BY <2>1, LenProperties DEF IsPrefix
  <2>4. CASE t.failure # "none"
    BY <2>1, <2>3, <2>4, TurnEnded
  <2>5. CASE t.failure = "none"
    <3>1. CASE Decode(c, t.rest) = NeedMore
      BY <2>1, <2>3, <2>5, <3>1, TurnNone
    <3>2. ASSUME NEW e, Decode(c, t.rest) = Failed(e)
          PROVE  /\ Turn(c, t).items \in Seq(Items(c))
                 /\ Turn(c, t).rest \in Bytes(c)
                 /\ IsPrefix(t.items, Turn(c, t).items)
      <4>1. Turn(c, t) = [t EXCEPT !.failure = e] BY <2>5, <3>2, TurnError
      <4>2. Turn(c, t).items = t.items /\ Turn(c, t).rest = t.rest BY <4>1
      <4> QED BY <2>1, <2>3, <4>2
    <3>3. ASSUME NEW rest \in Bytes(c), NEW item \in Items(c),
                 Decode(c, t.rest) = Item(item, rest)
          PROVE  /\ Turn(c, t).items \in Seq(Items(c))
                 /\ Turn(c, t).rest \in Bytes(c)
                 /\ IsPrefix(t.items, Turn(c, t).items)
      <4>1. Turn(c, t) = [items |-> Append(t.items, item), rest |-> rest,
                          failure |-> "none"]
        BY <2>5, <3>3, TurnItem
      <4>2. Turn(c, t).items = Append(t.items, item) /\ Turn(c, t).rest = rest
        BY <4>1
      <4>3. /\ Append(t.items, item) \in Seq(Items(c))
            /\ Len(Append(t.items, item)) = Len(t.items) + 1
            /\ \A i \in 1..Len(t.items) : Append(t.items, item)[i] = t.items[i]
        BY <2>1, AppendProperties
      <4>4. IsPrefix(t.items, Append(t.items, item))
        <5> DEFINE u == Append(t.items, item)
        <5>1. Len(t.items) \in Nat BY <2>1, LenProperties
        <5> HIDE DEF u
        <5>2. u \in Seq(Items(c)) /\ Len(u) = Len(t.items) + 1
              /\ \A i \in 1..Len(t.items) : u[i] = t.items[i]
          BY <4>3 DEF u
        <5>3. SubSeq(t.items, 1, Len(t.items)) = t.items BY <2>1, SubSeqFull
        <5>4. \A i \in 1..Len(t.items) : u[i] \in Items(c)
          BY <2>1, <5>2, ElementOfSeq
        <5>5. /\ SubSeq(u, 1, Len(t.items)) \in Seq(Items(c))
              /\ Len(SubSeq(u, 1, Len(t.items))) = Len(t.items)
              /\ \A i \in 1..Len(t.items) : SubSeq(u, 1, Len(t.items))[i] = u[i]
          BY <5>1, <5>4, SubSeqProperties
        <5>6. SubSeq(u, 1, Len(t.items)) = t.items
          BY <2>1, <5>2, <5>5, SeqEqual
        <5> QED BY <5>1, <5>2, <5>3, <5>6 DEF IsPrefix, u
      <4> QED BY <3>3, <4>2, <4>3, <4>4
    <3> QED BY <2>1, <3>1, <3>2, <3>3, Answer
  <2> QED BY <2>4, <2>5
<1>3. Typed(0)
  <2>1. s(0) = Begin(bytes) BY TurnsStep
  <2> HIDE DEF s
  <2>2. s(0).items = <<>> /\ s(0).rest = bytes BY <2>1 DEF Begin
  <2> QED BY <2>2, EmptySeq
<1> HIDE DEF Typed
<1>4. S = Nat
  <2>1. 0 \in S BY <1>3
  <2>2. \A k \in S : k + 1 \in S BY <1>2
  <2> HIDE DEF S
  <2>3. S \in SUBSET Nat BY DEF S
  <2> QED BY <2>1, <2>2, <2>3, SetInduction
<1>5. Typed(n) BY <1>4
<1> QED BY <1>2, <1>5 DEF Typed

LEMMA LaterTurns ==
  ASSUME NEW c, Lawful(c), NEW bytes \in Bytes(c), NEW n \in Nat, NEW m \in Nat, n <= m
  PROVE  IsPrefix(Turns(c, bytes, n).items, Turns(c, bytes, m).items)
<1> DEFINE s(k) == Turns(c, bytes, k).items
           S == {k \in Nat : IsPrefix(s(n), s(n + k))}
<1>1. \A k \in Nat : s(k) \in Seq(Items(c)) /\ IsPrefix(s(k), s(k + 1))
  BY TurnsType
<1> HIDE DEF s
<1>2. 0 \in S
  <2>1. Len(s(n)) \in Nat BY <1>1, LenProperties
  <2> QED BY <2>1 DEF IsPrefix
<1>3. ASSUME NEW k \in S PROVE k + 1 \in S
  <2>0. n + k \in Nat /\ n + k + 1 \in Nat /\ n + k + 1 = (n + k) + 1 OBVIOUS
  <2>1. IsPrefix(s(n), s(n + k)) /\ IsPrefix(s(n + k), s(n + k + 1)) BY <1>1, <2>0
  <2>2. ASSUME NEW x \in Seq(Items(c)), NEW y \in Seq(Items(c)), NEW z \in Seq(Items(c)),
               IsPrefix(x, y), IsPrefix(y, z)
        PROVE  IsPrefix(x, z)
    <3>1. /\ Len(x) <= Len(y) /\ Len(y) <= Len(z)
          /\ Len(x) \in Nat /\ Len(y) \in Nat /\ Len(z) \in Nat
      BY <2>2, LenProperties DEF IsPrefix
    <3>2. SubSeq(x, 1, Len(x)) = x /\ SubSeq(y, 1, Len(y)) = y BY SubSeqFull
    <3>3. \A i \in 1..Len(x) : x[i] = y[i]
      <4>1. x = SubSeq(y, 1, Len(x)) BY <2>2, <3>2 DEF IsPrefix
      <4>2. \A i \in 1..Len(x) : y[i] \in Items(c) BY <3>1, ElementOfSeq
      <4>3. \A i \in 1..Len(x) : SubSeq(y, 1, Len(x))[i] = y[i]
        BY <3>1, <4>2, SubSeqProperties
      <4> QED BY <4>1, <4>3
    <3>4. \A i \in 1..Len(y) : y[i] = z[i]
      <4>1. y = SubSeq(z, 1, Len(y)) BY <2>2, <3>2 DEF IsPrefix
      <4>2. \A i \in 1..Len(y) : z[i] \in Items(c) BY <3>1, ElementOfSeq
      <4>3. \A i \in 1..Len(y) : SubSeq(z, 1, Len(y))[i] = z[i]
        BY <3>1, <4>2, SubSeqProperties
      <4> QED BY <4>1, <4>3
    <3>5. \A i \in 1..Len(x) : x[i] = z[i] BY <3>1, <3>3, <3>4
    <3>6. \A i \in 1..Len(x) : z[i] \in Items(c) BY <3>1, ElementOfSeq
    <3>7. /\ SubSeq(z, 1, Len(x)) \in Seq(Items(c))
          /\ Len(SubSeq(z, 1, Len(x))) = Len(x)
          /\ \A i \in 1..Len(x) : SubSeq(z, 1, Len(x))[i] = z[i]
      BY <3>1, <3>6, SubSeqProperties
    <3>8. SubSeq(z, 1, Len(x)) = x BY <3>5, <3>7, SeqEqual
    <3> QED BY <3>1, <3>2, <3>8 DEF IsPrefix
  <2>3. s(n) \in Seq(Items(c)) /\ s(n + k) \in Seq(Items(c))
        /\ s(n + k + 1) \in Seq(Items(c)) BY <1>1, <2>0
  <2>4. IsPrefix(s(n), s(n + k + 1)) BY <2>1, <2>2, <2>3
  <2>5. n + (k + 1) = n + k + 1 OBVIOUS
  <2> QED BY <2>4, <2>5
<1>4. S = Nat
  <2>1. S \in SUBSET Nat OBVIOUS
  <2> HIDE DEF S
  <2> QED BY <1>2, <1>3, <2>1, SetInduction
<1>5. m - n \in Nat /\ n + (m - n) = m OBVIOUS
<1>6. m - n \in S BY <1>4, <1>5
<1>7. IsPrefix(s(n), s(n + (m - n))) BY <1>6
<1> QED BY <1>5, <1>7 DEF s

LEMMA SettledTurns ==
  ASSUME NEW c, NEW bytes, NEW n \in Nat, NEW m \in Nat, n <= m,
         Turn(c, Turns(c, bytes, n)) = Turns(c, bytes, n)
  PROVE  Turns(c, bytes, m) = Turns(c, bytes, n)
<1> DEFINE s(k) == Turns(c, bytes, k)
           S == {k \in Nat : s(n + k) = s(n)}
<1>1. \A k \in Nat : s(k + 1) = Turn(c, s(k)) BY TurnsStep
<1>2. Turn(c, s(n)) = s(n) OBVIOUS
<1> HIDE DEF s
<1>3. 0 \in S OBVIOUS
<1>4. ASSUME NEW k \in S PROVE k + 1 \in S
  <2>1. s(n + k) = s(n) /\ n + k \in Nat OBVIOUS
  <2>2. s(n + k + 1) = Turn(c, s(n + k)) BY <1>1, <2>1
  <2>3. n + (k + 1) = n + k + 1 OBVIOUS
  <2> QED BY <1>2, <2>1, <2>2, <2>3
<1>5. S = Nat
  <2>1. S \in SUBSET Nat OBVIOUS
  <2> HIDE DEF S
  <2> QED BY <1>3, <1>4, <2>1, SetInduction
<1>6. m - n \in Nat /\ n + (m - n) = m OBVIOUS
<1>7. m - n \in S BY <1>5, <1>6
<1>8. s(n + (m - n)) = s(n) BY <1>7
<1> QED BY <1>6, <1>8 DEF s

-----------------------------------------------------------------------------
\* Without frames
LEMMA FlowStart ==
  ASSUME Inputs, Init
  PROVE  FlowInv
<1>1. pc = "read" /\ items = <<>> /\ buf = <<>> /\ arrived = 0
  BY DEF Init, Start
<1>2. TypeInv BY InitInv
<1>3. Len(input) \in Nat BY <1>2, LenProperties DEF TypeInv, Bytes
<1>4. SubSeq(input, 1, 0) = <<>> BY <1>2, <1>3, SubSeqEmpty DEF TypeInv, Bytes
<1>5. FlattenSeq(items) \o buf = <<>>
  BY <1>1, FlattenEmpty, EmptySeq, ConcatEmptySeq
<1> QED BY <1>1, <1>4, <1>5, EmptySeq DEF FlowInv

LEMMA FlowStep ==
  ASSUME TypeInv, PhaseInv, FlowInv, Next
  PROVE  FlowInv'
<1> USE DEF Bytes
<1> SUFFICES ASSUME ~Framed(codec) PROVE FlowInv'
  BY DEF Next, Read, DecodeStep, FlowInv
<1>1. /\ pc # "failed" /\ items \in Seq(Bytes(codec))
      /\ FlattenSeq(items) \o buf = SubSeq(input, 1, arrived)
  BY DEF FlowInv
<1>2. /\ input \in Seq(Alphabet(codec)) /\ buf \in Seq(Alphabet(codec))
      /\ Len(input) \in Nat /\ arrived \in 0..Len(input)
      /\ Decode(codec, <<>>) = NeedMore /\ TakesAll(codec)
  BY DEF TypeInv, Lawful, Answers
<1>3. FlattenSeq(items) \in Seq(Alphabet(codec))
  BY <1>1, <1>2, FlattenAppend
<1>4. CASE Read
  <2>1. PICK n \in 1..(Len(input) - arrived) :
          /\ arrived' = arrived + n
          /\ buf' = buf \o SubSeq(input, arrived + 1, arrived + n)
    BY <1>4 DEF Read
  <2>2. /\ pc' = "decode" /\ codec' = codec /\ input' = input /\ items' = items
    BY <1>4 DEF Read
  <2> DEFINE part == SubSeq(input, arrived + 1, arrived + n)
             head == SubSeq(input, 1, arrived)
  <2>3. part \in Seq(Alphabet(codec))
    <3>1. \A i \in (arrived + 1)..(arrived + n) : input[i] \in Alphabet(codec)
      BY <1>2, ElementOfSeq
    <3> QED BY <3>1, <1>2, SubSeqProperties
  <2>4. head \o part = SubSeq(input, 1, arrived + n)
    BY <1>2, ConcatAdjacentSubSeq
  <2>7. head = FlattenSeq(items) \o buf BY <1>1
  <2> HIDE DEF part, head
  <2>5. FlattenSeq(items) \o (buf \o part) = (FlattenSeq(items) \o buf) \o part
    <3>. DEFINE flat == FlattenSeq(items)
    <3>1. /\ flat \in Seq(Alphabet(codec)) /\ buf \in Seq(Alphabet(codec))
          /\ part \in Seq(Alphabet(codec))
      BY <1>2, <1>3, <2>3
    <3>. HIDE DEF flat
    <3>2. Associative(flat, buf, part) BY ONLY <3>1, Associated
    <3>3. flat \o (buf \o part) = (flat \o buf) \o part BY ONLY <3>2 DEF Associative
    <3>. QED BY <3>3 DEF flat
  <2>6. FlattenSeq(items) \o buf' = SubSeq(input, 1, arrived')
    <3>1. buf' = buf \o part BY <2>1 DEF part
    <3> QED BY <2>1, <2>4, <2>5, <2>7, <3>1
  <2> QED BY <1>1, <2>2, <2>6 DEF FlowInv
<1>5. CASE DecodeStep
  <2>1. codec' = codec /\ input' = input /\ arrived' = arrived BY <1>5 DEF DecodeStep
  <2>2. CASE buf = <<>>
    <3>1. pc' = "read" /\ UNCHANGED <<buf, items, failure>>
      BY <1>2, <1>5, <2>2 DEF DecodeStep, NeedMore
    <3> QED BY <1>1, <2>1, <3>1 DEF FlowInv
  <2>3. CASE buf # <<>>
    <3>1. Decode(codec, buf) = Item(buf, <<>>) BY <1>2, <2>3 DEF TakesAll
    <3>2. pc' = pc /\ items' = Append(items, buf) /\ buf' = <<>>
      BY <1>5, <3>1 DEF DecodeStep, Item
    <3>3. items' \in Seq(Bytes(codec)) BY <1>1, <1>2, <3>2, AppendProperties
    <3>4. FlattenSeq(items') = FlattenSeq(items) \o buf
          /\ FlattenSeq(items') \in Seq(Alphabet(codec))
      BY <1>1, <1>2, <3>2, <3>3, FlattenAppend
    <3>5. FlattenSeq(items') \o <<>> = FlattenSeq(items') BY <3>4, ConcatEmptySeq
    <3> QED BY <1>1, <2>1, <3>2, <3>3, <3>4, <3>5 DEF FlowInv
  <2> QED BY <2>2, <2>3
<1> QED BY <1>4, <1>5 DEF Next

-----------------------------------------------------------------------------
\* The inductive invariant of the loop: nothing has been lost or taken twice
\* between what was read, what is in the buffer and what was decoded.
LoopIndInv == TypeInv /\ PhaseInv /\ CountInv /\ LoopInv /\ FlowInv

LEMMA Stuttering ==
  ASSUME LoopIndInv, UNCHANGED vars
  PROVE  LoopIndInv'
BY DEF vars, LoopIndInv, TypeInv, PhaseInv, CountInv, LoopInv, FlowInv, Outstanding

\* Whatever the cuts, after each read and each turn of the loop of handle_read
\* the items so far are those that as many turns make of the whole stream, and
\* the buffer is what they leave of the bytes read.
THEOREM LoopInvariance == Inputs => (Spec => []LoopIndInv)
<1> SUFFICES ASSUME Inputs PROVE Spec => []LoopIndInv OBVIOUS
<1>1. Init => LoopIndInv BY InitInv, FlowStart DEF LoopIndInv
<1>2. LoopIndInv /\ [Next]_vars => LoopIndInv'
  <2> SUFFICES ASSUME LoopIndInv, [Next]_vars PROVE LoopIndInv' OBVIOUS
  <2>1. CASE Read
    BY <2>1, ReadInv, FlowStep DEF LoopIndInv, Next
  <2>2. CASE DecodeStep
    BY <2>2, DecodeStepInv, FlowStep DEF LoopIndInv, Next
  <2>3. CASE UNCHANGED vars BY <2>3, Stuttering
  <2> QED BY <2>1, <2>2, <2>3 DEF Next
<1> QED BY <1>1, <1>2, PTL DEF Spec

LEMMA CutFramed ==
  ASSUME LoopIndInv, Framed(codec), ~Nested(codec), Finished
  PROVE  SameOutcome(DecodeAll(codec, input))
<1> USE DEF Bytes
<1> DEFINE n == Len(items)
           s == Turns(codec, input, n)
           whole == Turns(codec, input, Len(input))
<1>1. /\ input \in Seq(Alphabet(codec)) /\ buf \in Seq(Alphabet(codec))
      /\ Len(input) \in Nat /\ Len(buf) \in Nat /\ arrived \in 0..Len(input)
      /\ items \in Seq(Items(codec)) /\ n \in Nat /\ Lawful(codec)
  BY LenProperties DEF LoopIndInv, TypeInv
<1>2. n + Len(buf) <= Len(input)
  BY <1>1 DEF LoopIndInv, CountInv
<1>3. s = [items |-> items, rest |-> buf \o Outstanding, failure |-> "none"]
  BY DEF LoopIndInv, LoopInv
<1>4. s.items = items /\ s.rest = buf \o Outstanding /\ s.failure = "none"
  BY <1>3
<1>5. n <= Len(input) BY <1>1, <1>2
<1>6. CASE pc = "read" /\ arrived = Len(input)
  <2>1. Decode(codec, buf) = NeedMore /\ failure = "none"
    BY <1>6 DEF LoopIndInv, PhaseInv
  <2>2. Outstanding = <<>>
    BY <1>1, <1>6, SubSeqEmpty DEF Outstanding
  <2>3. s.rest = buf BY <1>1, <1>4, <2>2, ConcatEmptySeq
  <2> HIDE DEF s, n
  <2>4. Turn(codec, s) = s BY <1>4, <2>1, <2>3, TurnNone
  <2>5. whole = s BY <1>1, <1>5, <2>4, SettledTurns DEF s
  <2> HIDE DEF whole
  <2> QED BY <1>4, <2>1, <2>5 DEF SameOutcome, Content, DecodeAll, whole
<1>7. CASE pc = "failed"
  <2>1. failure # "none" /\ Decode(codec, buf) = Failed(failure)
    BY <1>7 DEF LoopIndInv, PhaseInv
  <2>2. buf # <<>>
    BY <1>1, <2>1 DEF Lawful, Answers, NeedMore, Failed
  <2>3. n + 1 <= Len(input)
    BY <1>1, <1>2, <2>2, EmptySeq
  <2>4. Outstanding \in Seq(Alphabet(codec))
    <3>1. \A i \in (arrived + 1)..Len(input) : input[i] \in Alphabet(codec)
      BY <1>1, ElementOfSeq
    <3> QED BY <3>1, <1>1, SubSeqProperties DEF Outstanding
  <2>5. \/ Decode(codec, buf \o Outstanding) = Failed(failure)
        \/ failure = "FrameTooLarge" /\ CutAtLimit(codec, buf)
    <3>1. Stable(codec) BY <1>1 DEF Lawful
    <3>2. Decode(codec, buf).kind = "error" /\ Decode(codec, buf).error = failure
      BY <2>1 DEF Failed
    <3> QED BY <1>1, <2>1, <2>4, <3>1, <3>2 DEF Stable
  <2> HIDE DEF s, n
  <2>6. CASE Decode(codec, buf \o Outstanding) = Failed(failure)
    <3> DEFINE t == Turns(codec, input, n + 1)
    <3>. PICK e : e = failure OBVIOUS
    <3>0. s.failure = "none" /\ Decode(codec, s.rest) = Failed(e) BY <1>4, <2>6
    <3>1. Turn(codec, s) = [s EXCEPT !.failure = e]
      BY <3>0, TurnError
    <3>2. t = Turn(codec, s) BY <1>1, TurnsStep DEF s
    <3>3. t.items = items /\ t.failure = failure BY <1>3, <3>1, <3>2
    <3> HIDE DEF t
    <3>4. Turn(codec, t) = t BY <2>1, <3>3, TurnEnded
    <3>5. n + 1 \in Nat BY <1>1
    <3>6. whole = t BY <1>1, <2>3, <3>4, <3>5, SettledTurns DEF t
    <3> HIDE DEF whole
    <3> QED BY <3>3, <3>6 DEF SameOutcome, Content, DecodeAll, whole
  <2>7. CASE failure = "FrameTooLarge" /\ CutAtLimit(codec, buf)
    <3>1. IsPrefix(s.items, whole.items)
      BY <1>1, <1>5, LaterTurns DEF s
    <3> HIDE DEF whole
    <3> QED BY <1>4, <2>7, <3>1 DEF SameOutcome, DecodeAll, whole
  <2> QED BY <2>5, <2>6, <2>7
<1> QED BY <1>6, <1>7 DEF Finished

LEMMA CutUnframed ==
  ASSUME LoopIndInv, ~Framed(codec), Finished
  PROVE  SameOutcome(DecodeAll(codec, input))
<1> USE DEF Bytes
<1> DEFINE whole == Turns(codec, input, Len(input))
<1>1. /\ input \in Seq(Alphabet(codec)) /\ buf \in Seq(Alphabet(codec))
      /\ Len(input) \in Nat /\ arrived \in 0..Len(input)
      /\ Decode(codec, <<>>) = NeedMore /\ TakesAll(codec)
  BY LenProperties DEF LoopIndInv, TypeInv, Lawful, Answers
<1>2. /\ pc # "failed" /\ items \in Seq(Bytes(codec))
      /\ FlattenSeq(items) \o buf = SubSeq(input, 1, arrived)
  BY DEF LoopIndInv, FlowInv
<1>3. pc = "read" /\ arrived = Len(input) BY <1>2 DEF Finished
<1>4. Decode(codec, buf) = NeedMore /\ failure = "none"
  BY <1>3 DEF LoopIndInv, PhaseInv
<1>5. buf = <<>>
  BY <1>1, <1>4 DEF TakesAll, Item, NeedMore
<1>6. FlattenSeq(items) = input
  <2>1. FlattenSeq(items) \in Seq(Alphabet(codec)) BY <1>1, <1>2, FlattenAppend
  <2>2. FlattenSeq(items) \o buf = FlattenSeq(items)
    BY <1>5, <2>1, ConcatEmptySeq
  <2>3. SubSeq(input, 1, arrived) = input BY <1>1, <1>3, SubSeqFull
  <2> QED BY <1>2, <2>2, <2>3
<1>7. FlattenSeq(whole.items) = input /\ whole.failure = "none"
  <2>1. Turns(codec, input, 0) = Begin(input) BY TurnsStep
  <2>2. CASE input = <<>>
    <3>1. whole = Begin(input) BY <2>1, <2>2, EmptySeq
    <3> HIDE DEF whole
    <3>2. whole.items = <<>> /\ whole.failure = "none" BY <3>1 DEF Begin
    <3> QED BY <2>2, <3>2, FlattenEmpty
  <2>3. CASE input # <<>>
    <3> DEFINE t == Turns(codec, input, 1)
    <3>1. Turns(codec, input, 0 + 1) = Turn(codec, Begin(input))
      BY <2>1, TurnsStep
    <3>2. t = Turn(codec, Begin(input)) BY <3>1
    <3>3. Begin(input).failure = "none" /\ Begin(input).rest = input
          /\ Begin(input).items = <<>>
      BY DEF Begin
    <3>4. Decode(codec, Begin(input).rest) = Item(input, <<>>)
      BY <1>1, <2>3, <3>3 DEF TakesAll
    <3>5. Turn(codec, Begin(input))
            = [items |-> Append(Begin(input).items, input), rest |-> <<>>,
               failure |-> "none"]
      BY <3>3, <3>4, TurnItem
    <3>6. t.items = Append(<<>>, input) /\ t.rest = <<>> /\ t.failure = "none"
      BY <3>2, <3>3, <3>5
    <3> HIDE DEF t
    <3>7. Turn(codec, t) = t BY <1>1, <3>6, TurnNone
    <3>8. 1 <= Len(input) BY <1>1, <2>3, EmptySeq
    <3>9. whole = t BY <1>1, <3>7, <3>8, SettledTurns DEF t
    <3>10. FlattenSeq(Append(<<>>, input)) = input
      <4>1. <<>> \in Seq(Seq(Alphabet(codec))) BY EmptySeq
      <4>2. FlattenSeq(Append(<<>>, input)) = FlattenSeq(<<>>) \o input
        BY <1>1, <4>1, FlattenAppend
      <4> QED BY <1>1, <4>2, FlattenEmpty, ConcatEmptySeq
    <3> QED BY <3>6, <3>9, <3>10
  <2> QED BY <2>2, <2>3
<1> HIDE DEF whole
<1> QED BY <1>4, <1>6, <1>7 DEF SameOutcome, Content, DecodeAll, whole

\* The loop of handle_read makes the same of a stream however it is cut.
THEOREM CutIndependence == Inputs => (Spec => []CutIndependent)
<1> SUFFICES ASSUME Inputs PROVE Spec => []CutIndependent OBVIOUS
<1>1. LoopIndInv => CutIndependent
  <2> SUFFICES ASSUME LoopIndInv, Finished, ~Nested(codec)
               PROVE  SameOutcome(DecodeAll(codec, input))
    BY DEF CutIndependent
  <2> QED BY CutFramed, CutUnframed
<1>2. Spec => []LoopIndInv BY LoopInvariance
<1> QED BY <1>1, <1>2, PTL

-----------------------------------------------------------------------------
\* While it asks for more, a codec with a bound holds no more than that
Frugal(c) ==
  HasBound(c) =>
    \A b \in Bytes(c) : Decode(c, b) = NeedMore => Len(b) <= Held(c)

\* It produces only what its limits allow
Limits(c) ==
  \A b \in Bytes(c) :
    Decode(c, b).kind = "item" =>
      WithinLimit(c, Decode(c, b).item, Len(b) - Len(Decode(c, b).rest))

\* The loop of handle_read goes back to reading only when the decoder asks for
\* more, so what the decoder holds back bounds the read buffer.
THEOREM BoundedBuffer ==
  Inputs /\ (\A c \in Codec : Frugal(c)) => (Spec => []BufferIsBounded)
<1> SUFFICES ASSUME Inputs, \A c \in Codec : Frugal(c)
             PROVE  Spec => []BufferIsBounded
  OBVIOUS
<1>1. LoopIndInv => BufferIsBounded
  <2> SUFFICES ASSUME LoopIndInv, pc = "read", HasBound(codec)
               PROVE  Len(buf) <= Held(codec)
    BY DEF BufferIsBounded
  <2>1. Decode(codec, buf) = NeedMore /\ codec \in Codec /\ buf \in Bytes(codec)
    BY DEF LoopIndInv, PhaseInv, TypeInv
  <2> QED BY <2>1 DEF Frugal
<1>2. Spec => []LoopIndInv BY LoopInvariance
<1> QED BY <1>1, <1>2, PTL

\* The loop passes on what the decoder gives it and nothing else.
THEOREM RespectedLimit ==
  Inputs /\ (\A c \in Codec : Limits(c)) => (Spec => LimitRespected)
<1> SUFFICES ASSUME Inputs, \A c \in Codec : Limits(c)
             PROVE  Spec => LimitRespected
  OBVIOUS
<1> DEFINE Measured == \A i \in DOMAIN items' \ DOMAIN items :
                         WithinLimit(codec, items'[i], Len(buf) - Len(buf'))
<1>1. LoopIndInv /\ [Next]_vars => [Measured]_vars
  <2> SUFFICES ASSUME LoopIndInv, Next, NEW i \in DOMAIN items' \ DOMAIN items
               PROVE  WithinLimit(codec, items'[i], Len(buf) - Len(buf'))
    OBVIOUS
  <2>1. /\ DecodeStep
        /\ Decode(codec, buf).kind = "item"
        /\ items' = Append(items, Decode(codec, buf).item)
        /\ buf' = Decode(codec, buf).rest
    BY DEF Next, Read, DecodeStep
  <2>2. /\ codec \in Codec /\ buf \in Bytes(codec) /\ items \in Seq(Items(codec))
        /\ Len(items) \in Nat
    BY LenProperties DEF LoopIndInv, TypeInv
  <2>3. items'[i] = Decode(codec, buf).item
    <3>1. /\ DOMAIN items = 1..Len(items)
          /\ DOMAIN items' = 1..Len(items) + 1
          /\ items'[Len(items) + 1] = Decode(codec, buf).item
      BY <2>1, <2>2
    <3>2. i = Len(items) + 1 BY <2>2, <3>1
    <3> QED BY <3>1, <3>2
  <2> QED BY <2>1, <2>2, <2>3 DEF Limits
<1>2. Spec => []LoopIndInv BY LoopInvariance
<1> QED BY <1>1, <1>2, PTL DEF Spec, LimitRespected

-----------------------------------------------------------------------------
\* Encoder and decoder agree
LEMMA Cancel ==
  ASSUME NEW A, NEW p \in Seq(A), NEW x \in Seq(A), NEW y \in Seq(A),
         p \o x = p \o y
  PROVE  x = y
<1>1. /\ Len(p \o x) = Len(p) + Len(x) /\ Len(p \o y) = Len(p) + Len(y)
      /\ Len(p) \in Nat /\ Len(x) \in Nat /\ Len(y) \in Nat
  BY ConcatProperties, LenProperties
<1>2. Len(x) = Len(y) BY <1>1
<1>3. ASSUME NEW i \in 1..Len(x) PROVE x[i] = y[i]
  <2>1. Len(p) + i \in Len(p) + 1..Len(p) + Len(x)
        /\ (Len(p) + i) - Len(p) = i
    BY <1>1
  <2>2. (p \o x)[Len(p) + i] = x[i] BY <1>1, <2>1, ConcatProperties
  <2>3. (p \o y)[Len(p) + i] = y[i] BY <1>1, <1>2, <2>1, ConcatProperties
  <2> QED BY <2>2, <2>3
<1> QED BY <1>2, <1>3, SeqEqual

\* Two ways to cut the same bytes
Meets(x, y, u, v)     == x \o y = u \o v
Splits(A, x, y, u, v) == \E w \in Seq(A) : x = u \o w /\ v = w \o y

LEMMA Overlap ==
  ASSUME NEW A, NEW x \in Seq(A), NEW y \in Seq(A), NEW u \in Seq(A), NEW v \in Seq(A),
         Meets(x, y, u, v), Len(u) <= Len(x)
  PROVE  Splits(A, x, y, u, v)
<1>a. x \o y = u \o v BY DEF Meets
<1> DEFINE w == SubSeq(x, Len(u) + 1, Len(x))
<1>1. /\ Len(x) \in Nat /\ Len(y) \in Nat /\ Len(u) \in Nat /\ Len(v) \in Nat
  BY LenProperties
<1>2. /\ w \in Seq(A) /\ Len(w) = Len(x) - Len(u)
      /\ \A i \in 1..Len(w) : w[i] = x[Len(u) + i]
  <2>1. \A i \in Len(u) + 1..Len(x) : x[i] \in A BY <1>1, ElementOfSeq
  <2> QED BY <1>1, <2>1, SubSeqProperties
<1> HIDE DEF w
<1>3. /\ u \o w \in Seq(A) /\ Len(u \o w) = Len(x)
  BY <1>1, <1>2, ConcatProperties
<1>4. ASSUME NEW i \in 1..Len(x) PROVE x[i] = (u \o w)[i]
  <2>1. CASE i <= Len(u)
    <3>1. (x \o y)[i] = x[i] BY <1>1, ConcatProperties
    <3>2. (u \o v)[i] = u[i] BY <1>1, <2>1, ConcatProperties
    <3>3. (u \o w)[i] = u[i] BY <1>1, <1>2, <2>1, ConcatProperties
    <3> QED BY <1>a, <3>1, <3>2, <3>3
  <2>2. CASE ~(i <= Len(u))
    <3>1. i - Len(u) \in 1..Len(w) /\ Len(u) + (i - Len(u)) = i
      BY <1>1, <1>2, <2>2
    <3>2. i \in Len(u) + 1..Len(u) + Len(w) BY <1>1, <1>2, <2>2
    <3>3. (u \o w)[i] = w[i - Len(u)] BY <1>1, <1>2, <3>2, ConcatProperties
    <3>4. w[i - Len(u)] = x[i] BY <1>2, <3>1
    <3> QED BY <3>3, <3>4
  <2> QED BY <2>1, <2>2
<1>5. x = u \o w BY <1>3, <1>4, SeqEqual
<1>6. u \o (w \o y) = u \o v
  <2>1. u \in Seq(A) /\ w \in Seq(A) /\ y \in Seq(A) BY <1>1, <1>2
  <2>3. Associative(u, w, y) BY ONLY <2>1, Associated
  <2>2. (u \o w) \o y = u \o (w \o y) BY ONLY <2>3 DEF Associative
  <2> QED BY <1>a, <1>5, <2>2
<1>7. w \o y \in Seq(A) BY <1>2, ConcatProperties
<1>8. v = w \o y BY <1>6, <1>7, Cancel
<1> QED BY <1>2, <1>5, <1>8, Zenon DEF Splits

LEMMA StreamsAgree ==
  ASSUME NEW c, NEW s, NEW t, NEW n \in Nat, NEW k \in Nat, NEW f, NEW g,
         IsStream(c, s, n, f), IsStream(c, t, k, g), k <= n,
         \A i \in 1..k : s[i] = t[i]
  PROVE  \A i \in 0..k : f[i] = g[i]
<1> DEFINE S == {i \in Nat : i <= k => f[i] = g[i]}
<1>1. 0 \in S BY DEF IsStream
<1>2. ASSUME NEW i \in S PROVE i + 1 \in S
  <2> SUFFICES ASSUME i + 1 <= k PROVE f[i + 1] = g[i + 1] OBVIOUS
  <2>1. f[i] = g[i] OBVIOUS
  <2>2. i + 1 \in 0..n /\ i + 1 \in 0..k /\ i + 1 # 0 /\ (i + 1) - 1 = i
        /\ i + 1 \in 1..k
    OBVIOUS
  <2>3. f[i + 1] = f[i] \o PeerEncode(c, s[i + 1]) BY <2>2 DEF IsStream
  <2>4. g[i + 1] = g[i] \o PeerEncode(c, t[i + 1]) BY <2>2 DEF IsStream
  <2> QED BY <2>1, <2>2, <2>3, <2>4
<1>3. S = Nat
  <2>1. S \in SUBSET Nat OBVIOUS
  <2> HIDE DEF S
  <2> QED BY <1>1, <1>2, <2>1, SetInduction
<1> QED BY <1>3

\* The first k messages of a stream
First(messages, k) == SubSeq(messages, 1, k)

LEMMA StreamPrefix ==
  ASSUME NEW c, NEW messages \in Seq(Message(c)),
         \A i \in DOMAIN messages : PeerEncode(c, messages[i]) \in Bytes(c)
  PROVE  /\ Stream(c, First(messages, 0)) = <<>>
         /\ First(messages, Len(messages)) = messages
         /\ \A k \in 0..Len(messages) : Stream(c, First(messages, k)) \in Bytes(c)
         /\ \A k \in 0..Len(messages) - 1 :
              Stream(c, First(messages, k + 1))
                = Stream(c, First(messages, k)) \o PeerEncode(c, messages[k + 1])
<1>1. PICK f : /\ IsStream(c, messages, Len(messages), f)
               /\ Stream(c, messages) = f[Len(messages)]
  BY StreamRun
<1>0. Len(messages) \in Nat BY LenProperties
<1>2. ASSUME NEW k \in 0..Len(messages)
      PROVE  /\ First(messages, k) \in Seq(Message(c)) /\ Len(First(messages, k)) = k
             /\ \A i \in 1..k : First(messages, k)[i] = messages[i]
  <2>1. \A i \in 1..k : messages[i] \in Message(c) BY <1>0, ElementOfSeq
  <2> QED BY <1>0, <2>1, SubSeqProperties DEF First
<1>3. ASSUME NEW k \in 0..Len(messages)
      PROVE  Stream(c, First(messages, k)) = f[k]
  <2> DEFINE s == First(messages, k)
  <2>1. s \in Seq(Message(c)) /\ Len(s) = k /\ \A i \in 1..k : s[i] = messages[i]
    BY <1>2
  <2> HIDE DEF s
  <2>2. PICK g : IsStream(c, s, k, g) /\ Stream(c, s) = g[k] BY <2>1, StreamRun
  <2>0. k \in Nat /\ k <= Len(messages) BY <1>0
  <2>3. \A i \in 1..k : messages[i] = s[i] BY <2>1
  <2>4. \A i \in 0..k : f[i] = g[i]
    BY <1>0, <1>1, <2>0, <2>2, <2>3, StreamsAgree
  <2>5. f[k] = g[k] BY <2>0, <2>4
  <2> QED BY <2>2, <2>5 DEF s
<1>4. ASSUME NEW k \in 0..Len(messages)
      PROVE  Stream(c, First(messages, k)) \in Bytes(c)
  <2> DEFINE s == First(messages, k)
  <2>1. s \in Seq(Message(c)) /\ Len(s) = k /\ \A i \in 1..k : s[i] = messages[i]
    BY <1>2
  <2>2. \A i \in 1..k : PeerEncode(c, messages[i]) \in Bytes(c) BY <1>0, LenProperties
  <2> HIDE DEF s
  <2>3. \A i \in DOMAIN s : PeerEncode(c, s[i]) \in Bytes(c)
    BY <2>1, <2>2, LenProperties
  <2>4. Stream(c, s) \in Bytes(c) BY <2>1, <2>3, StreamType
  <2> QED BY <2>4 DEF s
<1>5. Stream(c, First(messages, 0)) = <<>>
  <2>1. 0 \in 0..Len(messages) BY <1>0
  <2>2. Stream(c, First(messages, 0)) = f[0] BY <1>3, <2>1
  <2>3. f[0] = <<>> BY <1>1, <1>0 DEF IsStream
  <2> QED BY <2>2, <2>3
<1>6. ASSUME NEW k \in 0..Len(messages) - 1
      PROVE  Stream(c, First(messages, k + 1))
               = Stream(c, First(messages, k)) \o PeerEncode(c, messages[k + 1])
  <2>1. k + 1 \in 0..Len(messages) /\ k \in 0..Len(messages) /\ k + 1 # 0
        /\ (k + 1) - 1 = k
    BY <1>0
  <2>2. f[k + 1] = f[k] \o PeerEncode(c, messages[k + 1]) BY <1>1, <2>1 DEF IsStream
  <2> QED BY <1>3, <2>1, <2>2
<1>7. First(messages, Len(messages)) = messages BY SubSeqFull DEF First
<1> QED BY <1>4, <1>5, <1>6, <1>7

LEMMA StreamTail ==
  ASSUME NEW c, NEW messages \in Seq(Message(c)),
         \A i \in DOMAIN messages : PeerEncode(c, messages[i]) \in Bytes(c),
         NEW k \in 0..Len(messages)
  PROVE  \E rest \in Bytes(c) : Stream(c, messages) = Stream(c, First(messages, k)) \o rest
<1> DEFINE n == Len(messages)
           P(i) == Stream(c, First(messages, i))
           S == {j \in Nat : j <= n => \E rest \in Bytes(c) : Stream(c, messages) = P(n - j) \o rest}
<1>0. n \in Nat /\ DOMAIN messages = 1..n BY LenProperties
<1>1. /\ P(n) = Stream(c, messages)
      /\ \A i \in 0..n : P(i) \in Bytes(c)
      /\ \A i \in 0..n - 1 : P(i + 1) = P(i) \o PeerEncode(c, messages[i + 1])
  BY StreamPrefix
<1>2. \A i \in 1..n : PeerEncode(c, messages[i]) \in Bytes(c) BY <1>0
<1> HIDE DEF P, n
<1>3. 0 \in S
  <2>1. n - 0 = n /\ n \in 0..n BY <1>0
  <2>2. P(n) \o <<>> = P(n) BY <1>1, <2>1, ConcatEmptySeq DEF Bytes
  <2>3. <<>> \in Bytes(c) BY EmptySeq DEF Bytes
  <2> QED BY <1>1, <2>1, <2>2, <2>3
<1>4. ASSUME NEW j \in S PROVE j + 1 \in S
  <2> SUFFICES ASSUME j + 1 <= n
               PROVE  \E rest \in Bytes(c) : Stream(c, messages) = P(n - (j + 1)) \o rest
    OBVIOUS
  <2> DEFINE i == n - (j + 1)
  <2>1. i \in 0..n - 1 /\ i + 1 = n - j /\ i + 1 \in 1..n /\ i \in 0..n BY <1>0
  <2>2. PICK rest \in Bytes(c) : Stream(c, messages) = P(n - j) \o rest BY <1>0
  <2> DEFINE e == PeerEncode(c, messages[i + 1])
  <2>3. P(i) \in Bytes(c) /\ e \in Bytes(c) BY <1>1, <1>2, <2>1
  <2>4. P(n - j) = P(i) \o e BY <1>1, <2>1
  <2> HIDE DEF i, e
  <2>8. P(i) \in Seq(Alphabet(c)) /\ e \in Seq(Alphabet(c)) /\ rest \in Seq(Alphabet(c))
    BY <2>3 DEF Bytes
  <2>9. Associative(P(i), e, rest) BY ONLY <2>8, Associated
  <2>5. P(i) \o (e \o rest) = (P(i) \o e) \o rest BY ONLY <2>9 DEF Associative
  <2>6. e \o rest \in Bytes(c) BY <2>3, ConcatProperties DEF Bytes
  <2>7. Stream(c, messages) = P(i) \o (e \o rest) BY <2>2, <2>4, <2>5
  <2> QED BY <2>6, <2>7 DEF i
<1>5. S = Nat
  <2>1. S \in SUBSET Nat OBVIOUS
  <2> HIDE DEF S
  <2> QED BY <1>3, <1>4, <2>1, SetInduction
<1>6. n - k \in Nat /\ n - (n - k) = k /\ n - k <= n BY <1>0 DEF n
<1>7. \E rest \in Bytes(c) : Stream(c, messages) = P(n - (n - k)) \o rest
  BY <1>5, <1>6
<1> QED BY <1>6, <1>7 DEF P

-----------------------------------------------------------------------------
(***************************************************************************)
(* Encoder and decoder agree about a codec: what the peer encodes is       *)
(* decoded whatever follows it, and before its end the decoder waits.      *)
(* Without frames a message is what is sent and what is received.          *)
(***************************************************************************)
AgreesAbout(c, m) ==
  LET bytes == PeerEncode(c, m)
  IN IF Framed(c)
       THEN /\ bytes # <<>>
            /\ \A more \in Bytes(c) : Decode(c, bytes \o more) = Item(Received(c, m), more)
            /\ \A part, left \in Bytes(c) :
                 bytes = part \o left /\ left # <<>> => Decode(c, part) = NeedMore
       ELSE bytes = m /\ Received(c, m) = m

Agrees(c) == \A m \in Message(c) :
               Carries(c, m) /\ PeerEncode(c, m) \in Bytes(c) => AgreesAbout(c, m)

\* What was sent, and what has come of it
SentInv ==
  sent # <<>> =>
    /\ sent \in Seq(Message(codec))
    /\ \A i \in DOMAIN sent : /\ Carries(codec, sent[i])
                              /\ PeerEncode(codec, sent[i]) \in Bytes(codec)
    /\ input = Stream(codec, sent)

MatchInv ==
  sent # <<>> /\ Framed(codec) /\ Agrees(codec) =>
    /\ pc # "failed"
    /\ Len(items) <= Len(sent)
    /\ \A i \in 1..Len(items) : items[i] = Received(codec, sent[i])
    /\ Stream(codec, First(sent, Len(items))) \o (buf \o Outstanding) = input

LEMMA InitSent ==
  ASSUME Inputs, Init
  PROVE  SentInv
<1>1. CASE \E f \in DOMAIN RawStreams : \E r \in RawStreams[f] :
             codec = r.codec /\ sent = <<>> /\ input = r.bytes
  BY <1>1 DEF SentInv
<1>2. CASE \E f \in DOMAIN Dialogues : \E d \in Dialogues[f] :
             /\ \A i \in DOMAIN d.items : Carries(d.codec, d.items[i])
             /\ codec = d.codec /\ sent = d.items
             /\ input = Stream(d.codec, d.items)
  <2>1. PICK f \in DOMAIN Dialogues : \E d \in Dialogues[f] :
             /\ \A i \in DOMAIN d.items : Carries(d.codec, d.items[i])
             /\ codec = d.codec /\ sent = d.items
             /\ input = Stream(d.codec, d.items)
    BY <1>2
  <2>2. PICK d \in Dialogues[f] :
             /\ \A i \in DOMAIN d.items : Carries(d.codec, d.items[i])
             /\ codec = d.codec /\ sent = d.items
             /\ input = Stream(d.codec, d.items)
    BY <2>1
  <2>3. /\ d.codec \in Codec
        /\ d.items \in Seq(Message(d.codec))
        /\ \A m \in Message(d.codec) :
             Carries(d.codec, m) => PeerEncode(d.codec, m) \in Bytes(d.codec)
    BY DEF Inputs
  <2>4. \A i \in DOMAIN d.items : d.items[i] \in Message(d.codec)
    BY <2>3, LenProperties, ElementOfSeq
  <2>5. \A i \in DOMAIN d.items : PeerEncode(d.codec, d.items[i]) \in Bytes(d.codec)
    BY <2>2, <2>3, <2>4
  <2> QED BY <2>2, <2>3, <2>5 DEF SentInv
<1> QED BY <1>1, <1>2 DEF Init

\* What is still to come begins with the next message
LEMMA Upcoming ==
  ASSUME TypeInv, SentInv, MatchInv, sent # <<>>, Framed(codec), Agrees(codec)
  PROVE  /\ Len(items) = Len(sent) => buf \o Outstanding = <<>>
         /\ Len(items) < Len(sent) =>
              /\ sent[Len(items) + 1] \in Message(codec)
              /\ AgreesAbout(codec, sent[Len(items) + 1])
              /\ PeerEncode(codec, sent[Len(items) + 1]) \in Bytes(codec)
              /\ \E rest \in Bytes(codec) :
                   buf \o Outstanding = PeerEncode(codec, sent[Len(items) + 1]) \o rest
<1> DEFINE k == Len(items)
           P(i) == Stream(codec, First(sent, i))
           left == buf \o Outstanding
<1>1. /\ sent \in Seq(Message(codec)) /\ input = Stream(codec, sent)
      /\ \A i \in DOMAIN sent : /\ Carries(codec, sent[i])
                                /\ PeerEncode(codec, sent[i]) \in Bytes(codec)
  BY DEF SentInv
<1>2. /\ P(Len(sent)) = input
      /\ \A i \in 0..Len(sent) : P(i) \in Bytes(codec)
      /\ \A i \in 0..Len(sent) - 1 : P(i + 1) = P(i) \o PeerEncode(codec, sent[i + 1])
  BY <1>1, StreamPrefix
<1>3. k \in Nat /\ Len(sent) \in Nat /\ DOMAIN sent = 1..Len(sent) /\ k <= Len(sent)
  BY <1>1, LenProperties DEF TypeInv, MatchInv
<1>4. P(k) \o left = input BY DEF MatchInv
<1>5. left \in Bytes(codec)
  <2>1. /\ input \in Seq(Alphabet(codec)) /\ buf \in Seq(Alphabet(codec))
        /\ arrived \in 0..Len(input) /\ Len(input) \in Nat
    BY LenProperties DEF TypeInv, Bytes
  <2>2. Outstanding \in Seq(Alphabet(codec))
    <3>1. \A i \in (arrived + 1)..Len(input) : input[i] \in Alphabet(codec)
      BY <2>1, ElementOfSeq
    <3> QED BY <3>1, <2>1, SubSeqProperties DEF Outstanding
  <2> QED BY <2>1, <2>2, ConcatProperties DEF Bytes
<1>6. ASSUME k = Len(sent) PROVE left = <<>>
  <2>1. P(k) \in Bytes(codec) /\ P(k) \o left = P(k) BY <1>2, <1>3, <1>4, <1>6
  <2> HIDE DEF P, left
  <2>2. P(k) \o left = P(k) \o <<>> BY <2>1, ConcatEmptySeq DEF Bytes
  <2>3. <<>> \in Bytes(codec) BY EmptySeq DEF Bytes
  <2> QED BY <1>5, <2>1, <2>2, <2>3, Cancel DEF Bytes
<1>7. ASSUME k < Len(sent)
      PROVE  /\ sent[k + 1] \in Message(codec)
             /\ AgreesAbout(codec, sent[k + 1])
             /\ PeerEncode(codec, sent[k + 1]) \in Bytes(codec)
             /\ \E rest \in Bytes(codec) : left = PeerEncode(codec, sent[k + 1]) \o rest
  <2>1. k + 1 \in 0..Len(sent) /\ k \in 0..Len(sent) - 1 /\ k + 1 \in DOMAIN sent
        /\ k \in 0..Len(sent)
    BY <1>3, <1>7
  <2>2. sent[k + 1] \in Message(codec) BY <1>1, <2>1, <1>3, ElementOfSeq
  <2>3. Carries(codec, sent[k + 1]) /\ PeerEncode(codec, sent[k + 1]) \in Bytes(codec)
    BY <1>1, <2>1
  <2>4. AgreesAbout(codec, sent[k + 1]) BY <2>2, <2>3 DEF Agrees
  <2>5. \A i \in DOMAIN sent : PeerEncode(codec, sent[i]) \in Bytes(codec) BY <1>1
  <2>6. PICK rest \in Bytes(codec) : Stream(codec, sent) = P(k + 1) \o rest
    BY <1>1, <2>1, <2>5, StreamTail
  <2> DEFINE e == PeerEncode(codec, sent[k + 1])
  <2>7. P(k) \in Bytes(codec) /\ e \in Bytes(codec) BY <1>2, <2>1, <2>3
  <2>12. P(k + 1) = P(k) \o e BY <1>2, <2>1
  <2>8. P(k) \o left = P(k + 1) \o rest BY <1>1, <1>4, <2>6
  <2> HIDE DEF P, e, left
  <2>14. /\ P(k) \in Seq(Alphabet(codec)) /\ e \in Seq(Alphabet(codec))
         /\ rest \in Seq(Alphabet(codec))
    BY <2>7 DEF Bytes
  <2>15. Associative(P(k), e, rest) BY ONLY <2>14, Associated
  <2>9. P(k) \o (e \o rest) = (P(k) \o e) \o rest BY ONLY <2>15 DEF Associative
  <2>10. e \o rest \in Bytes(codec) BY <2>7, ConcatProperties DEF Bytes
  <2>13. P(k) \o left = P(k) \o (e \o rest) BY <2>8, <2>9, <2>12
  <2>11. left = e \o rest BY <1>5, <2>7, <2>10, <2>13, Cancel DEF Bytes
  <2> QED BY <2>2, <2>3, <2>4, <2>11 DEF e
<1> QED BY <1>6, <1>7

LEMMA MatchStart ==
  ASSUME Inputs, Init
  PROVE  MatchInv
<1> SUFFICES ASSUME sent # <<>>
             PROVE  /\ pc # "failed" /\ Len(items) <= Len(sent)
                    /\ \A i \in 1..Len(items) : items[i] = Received(codec, sent[i])
                    /\ Stream(codec, First(sent, Len(items))) \o (buf \o Outstanding) = input
  BY DEF MatchInv
<1>1. /\ arrived = 0 /\ buf = <<>> /\ items = <<>> /\ pc = "read"
  BY DEF Init, Start
<1>2. SentInv /\ TypeInv BY InitSent, InitInv
<1>3. sent \in Seq(Message(codec)) /\ Len(items) = 0 /\ Len(sent) \in Nat
      /\ \A i \in DOMAIN sent : PeerEncode(codec, sent[i]) \in Bytes(codec)
  BY <1>1, <1>2, EmptySeq, LenProperties DEF SentInv
<1>4. Stream(codec, First(sent, 0)) = <<>> BY <1>3, StreamPrefix
<1>5. Outstanding = input BY <1>1, <1>2, SubSeqFull DEF Outstanding, TypeInv, Bytes
<1>6. <<>> \o (<<>> \o input) = input
  <2>1. <<>> \o input = input BY <1>2, ConcatEmptySeq DEF TypeInv, Bytes
  <2> QED BY <2>1
<1>7. Stream(codec, First(sent, Len(items))) \o (buf \o Outstanding) = input
  <2>1. Stream(codec, First(sent, Len(items))) = <<>> BY <1>3, <1>4
  <2> QED BY <1>1, <1>5, <1>6, <2>1
<1> QED BY <1>1, <1>3, <1>7

LEMMA MatchStep ==
  ASSUME LoopIndInv, SentInv, MatchInv, [Next]_vars
  PROVE  MatchInv'
<1>1. CASE UNCHANGED vars
  BY <1>1 DEF vars, MatchInv, Agrees, AgreesAbout, Outstanding, First
<1>2. CASE Read
  <2>1. buf' \o Outstanding' = buf \o Outstanding
    BY <1>2, ReadKeeps DEF LoopIndInv
  <2>2. /\ codec' = codec /\ sent' = sent /\ input' = input /\ items' = items
        /\ pc' = "decode"
    BY <1>2 DEF Read
  <2> QED BY <2>1, <2>2 DEF MatchInv, Agrees, AgreesAbout
<1>3. CASE DecodeStep
  <2>1. /\ codec' = codec /\ sent' = sent /\ input' = input /\ arrived' = arrived
        /\ pc = "decode"
    BY <1>3 DEF DecodeStep
  <2>2. Outstanding' = Outstanding BY <2>1 DEF Outstanding
  <2> SUFFICES ASSUME sent # <<>>, Framed(codec), Agrees(codec)
               PROVE  /\ pc' # "failed" /\ Len(items') <= Len(sent)
                      /\ \A i \in 1..Len(items') : items'[i] = Received(codec, sent[i])
                      /\ Stream(codec, First(sent, Len(items'))) \o (buf' \o Outstanding)
                           = input
    BY <2>1, <2>2 DEF MatchInv, Agrees, AgreesAbout
  <2> DEFINE k == Len(items)
             P(i) == Stream(codec, First(sent, i))
  <2>3. /\ k <= Len(sent)
        /\ \A i \in 1..k : items[i] = Received(codec, sent[i])
        /\ P(k) \o (buf \o Outstanding) = input
    BY DEF MatchInv
  <2>4. /\ buf \in Seq(Alphabet(codec)) /\ input \in Seq(Alphabet(codec))
        /\ Len(input) \in Nat /\ arrived \in 0..Len(input)
        /\ items \in Seq(Items(codec)) /\ Decode(codec, <<>>) = NeedMore
    BY LenProperties DEF LoopIndInv, TypeInv, Bytes, Lawful, Answers
  <2>5. Outstanding \in Seq(Alphabet(codec))
    <3>1. \A i \in (arrived + 1)..Len(input) : input[i] \in Alphabet(codec)
      BY <2>4, ElementOfSeq
    <3> QED BY <3>1, <2>4, SubSeqProperties DEF Outstanding
  <2>6. k \in Nat /\ Len(sent) \in Nat
    BY <2>4, LenProperties DEF SentInv
  <2>7. ASSUME Decode(codec, buf) = NeedMore
        PROVE  /\ pc' # "failed" /\ Len(items') <= Len(sent)
               /\ \A i \in 1..Len(items') : items'[i] = Received(codec, sent[i])
               /\ P(Len(items')) \o (buf' \o Outstanding) = input
    <3>1. pc' = "read" /\ buf' = buf /\ items' = items
      BY <1>3, <2>7 DEF DecodeStep, NeedMore
    <3> QED BY <2>3, <3>1
  <2>8. CASE k = Len(sent)
    <3>1. buf \o Outstanding = <<>> BY <2>8, Upcoming DEF LoopIndInv
    <3>2. buf = <<>>
      <4>1. Len(buf \o Outstanding) = Len(buf) + Len(Outstanding)
            /\ Len(buf) \in Nat /\ Len(Outstanding) \in Nat
        BY <2>4, <2>5, ConcatProperties, LenProperties
      <4>2. Len(buf) = 0 BY <3>1, <4>1, EmptySeq
      <4> QED BY <2>4, <4>2, EmptySeq
    <3> QED BY <2>4, <2>7, <3>2
  <2>9. CASE k < Len(sent)
    <3> DEFINE m == sent[k + 1]
               e == PeerEncode(codec, m)
    <3>1. /\ AgreesAbout(codec, m) /\ e \in Bytes(codec)
          /\ \E rest \in Bytes(codec) : buf \o Outstanding = e \o rest
      BY <2>9, Upcoming DEF LoopIndInv
    <3>2. PICK rest \in Bytes(codec) : buf \o Outstanding = e \o rest BY <3>1
    <3>3. /\ e # <<>>
          /\ \A more \in Bytes(codec) : Decode(codec, e \o more) = Item(Received(codec, m), more)
          /\ \A part, left \in Bytes(codec) :
               e = part \o left /\ left # <<>> => Decode(codec, part) = NeedMore
      BY <3>1 DEF AgreesAbout
    <3>4. P(k + 1) = P(k) \o e /\ P(k) \in Bytes(codec)
      <4>1. sent \in Seq(Message(codec))
            /\ \A i \in DOMAIN sent : PeerEncode(codec, sent[i]) \in Bytes(codec)
        BY DEF SentInv
      <4>2. k \in 0..Len(sent) - 1 /\ k \in 0..Len(sent) BY <2>6, <2>9
      <4> QED BY <4>1, <4>2, StreamPrefix
    <3> HIDE DEF e, P
    <3>5. Len(e) \in Nat /\ Len(buf) \in Nat BY <2>4, <3>1, LenProperties DEF Bytes
    <3>6. CASE Len(e) <= Len(buf)
      <4>1. PICK more \in Seq(Alphabet(codec)) : buf = e \o more /\ rest = more \o Outstanding
        <5>1. /\ e \in Seq(Alphabet(codec)) /\ rest \in Seq(Alphabet(codec))
              /\ buf \in Seq(Alphabet(codec)) /\ Outstanding \in Seq(Alphabet(codec))
          BY <2>4, <2>5, <3>1 DEF Bytes
        <5>2. Meets(buf, Outstanding, e, rest) BY <3>2 DEF Meets
        <5>3. Splits(Alphabet(codec), buf, Outstanding, e, rest)
          BY <3>6, <5>1, <5>2, Overlap
        <5> QED BY <5>3 DEF Splits
      <4>2. Decode(codec, buf) = Item(Received(codec, m), more)
        BY <3>3, <4>1 DEF Bytes
      <4>3. /\ items' = Append(items, Received(codec, m))
            /\ buf' = more /\ pc' = pc
        BY <1>3, <4>2 DEF DecodeStep, Item
      <4>4. Received(codec, m) \in Items(codec)
        <5>1. /\ Decode(codec, buf).item = Received(codec, m)
              /\ Decode(codec, buf).kind = "item"
          BY <4>2 DEF Item
        <5> QED BY <2>4, <5>1 DEF Items, Bytes
      <4>5. /\ Len(items') = k + 1
            /\ \A i \in 1..k : items'[i] = items[i]
            /\ items'[k + 1] = Received(codec, m)
        BY <2>4, <4>3, <4>4, AppendProperties
      <4>6. \A i \in 1..Len(items') : items'[i] = Received(codec, sent[i])
        BY <2>3, <2>6, <4>5
      <4>7. P(k + 1) \o (more \o Outstanding) = input
        <5> DEFINE w == more \o Outstanding
        <5>1. w \in Seq(Alphabet(codec)) BY <2>5, <4>1, ConcatProperties
        <5>2. buf \o Outstanding = e \o w BY <3>2, <4>1
        <5>3. e \in Seq(Alphabet(codec)) /\ P(k) \in Seq(Alphabet(codec))
          BY <3>1, <3>4 DEF Bytes
        <5> HIDE DEF w
        <5>6. Associative(P(k), e, w) BY ONLY <5>1, <5>3, Associated
        <5>4. P(k) \o (e \o w) = (P(k) \o e) \o w BY ONLY <5>6 DEF Associative
        <5>5. P(k + 1) \o w = input BY <2>3, <3>4, <5>2, <5>4
        <5> QED BY <5>5 DEF w
      <4>8. Len(items') <= Len(sent) BY <2>6, <2>9, <4>5
      <4> QED BY <2>1, <4>3, <4>5, <4>6, <4>7, <4>8 DEF P
    <3>7. CASE ~(Len(e) <= Len(buf))
      <4>1. PICK left \in Seq(Alphabet(codec)) : e = buf \o left /\ Outstanding = left \o rest
        <5>1. Len(buf) <= Len(e) BY <3>5, <3>7
        <5>2. Meets(e, rest, buf, Outstanding) BY <3>2 DEF Meets
        <5>3. /\ e \in Seq(Alphabet(codec)) /\ rest \in Seq(Alphabet(codec))
              /\ buf \in Seq(Alphabet(codec)) /\ Outstanding \in Seq(Alphabet(codec))
          BY <2>4, <2>5, <3>1 DEF Bytes
        <5>4. Splits(Alphabet(codec), e, rest, buf, Outstanding)
          BY <5>1, <5>2, <5>3, Overlap
        <5> QED BY <5>4 DEF Splits
      <4>2. left # <<>>
        <5>1. Len(e) = Len(buf) + Len(left) BY <2>4, <4>1, ConcatProperties
        <5> QED BY <3>5, <3>7, <5>1, EmptySeq
      <4>3. Decode(codec, buf) = NeedMore BY <2>4, <3>3, <4>1, <4>2 DEF Bytes
      <4> QED BY <2>7, <4>3 DEF P
    <3> QED BY <3>6, <3>7
  <2> QED BY <2>3, <2>6, <2>8, <2>9
<1> QED BY <1>1, <1>2, <1>3 DEF Next

\* Without frames, what was sent comes out joined
LEMMA FlatStream ==
  ASSUME NEW c, NEW messages \in Seq(Bytes(c)), messages # <<>>,
         NEW received, Len(received) = Len(messages),
         \A i \in 1..Len(messages) :
           PeerEncode(c, messages[i]) = messages[i] /\ received[i] = messages[i]
  PROVE  FlattenSeq(received) = Stream(c, messages)
<1> DEFINE n == Len(messages)
<1>0. n \in Nat \ {0} /\ \A i \in 1..n : messages[i] \in Bytes(c)
  BY LenProperties, EmptySeq, ElementOfSeq
<1>1. PICK f : IsStream(c, messages, n, f) /\ Stream(c, messages) = f[n] BY StreamRun
<1>2. PICK g : IsFlat(received, n, g) /\ FlattenSeq(received) = g[n] BY <1>0, FlatRun
<1> HIDE DEF n
<1> DEFINE S == {k \in Nat : k + 1 <= n => f[k + 1] = g[k + 1]}
<1>3. 0 \in S
  <2>1. 1 \in 0..n /\ 1 \in 1..n /\ 0 \in 0..n /\ 1 # 0 /\ 1 - 1 = 0 BY <1>0
  <2>2. f[0] = <<>> /\ f[1] = f[0] \o PeerEncode(c, messages[1])
    BY <1>1, <2>1 DEF IsStream
  <2>3. g[1] = received[1] BY <1>2, <2>1 DEF IsFlat
  <2>4. PeerEncode(c, messages[1]) = messages[1] /\ received[1] = messages[1]
    BY <2>1 DEF n
  <2>5. messages[1] \in Seq(Alphabet(c)) BY <1>0, <2>1 DEF Bytes
  <2>6. <<>> \o messages[1] = messages[1] BY <2>5, ConcatEmptySeq
  <2>7. f[0 + 1] = g[0 + 1] BY <2>2, <2>3, <2>4, <2>6
  <2> QED BY <2>7
<1>4. ASSUME NEW k \in S PROVE k + 1 \in S
  <2> SUFFICES ASSUME (k + 1) + 1 <= n PROVE f[(k + 1) + 1] = g[(k + 1) + 1]
    OBVIOUS
  <2> DEFINE i == (k + 1) + 1
  <2>1. /\ i \in 0..n /\ i \in 1..n /\ i # 0 /\ i # 1 /\ i - 1 = k + 1
        /\ k + 1 <= n
    BY <1>0
  <2>2. f[k + 1] = g[k + 1] BY <2>1
  <2> HIDE DEF i
  <2>3. f[i] = f[k + 1] \o PeerEncode(c, messages[i]) BY <1>1, <2>1 DEF IsStream
  <2>4. g[i] = g[k + 1] \o received[i] BY <1>2, <2>1 DEF IsFlat
  <2>5. PeerEncode(c, messages[i]) = received[i] BY <2>1 DEF n
  <2> QED BY <2>2, <2>3, <2>4, <2>5 DEF i
<1>5. S = Nat
  <2>1. S \in SUBSET Nat OBVIOUS
  <2> HIDE DEF S
  <2> QED BY <1>3, <1>4, <2>1, SetInduction
<1>6. n - 1 \in Nat /\ (n - 1) + 1 = n /\ n <= n BY <1>0
<1>7. f[(n - 1) + 1] = g[(n - 1) + 1] BY <1>5, <1>6
<1> QED BY <1>1, <1>2, <1>6, <1>7

LEMMA FramedRoundTrip ==
  ASSUME LoopIndInv, SentInv, MatchInv, Finished, sent # <<>>,
         Framed(codec), Agrees(codec)
  PROVE  /\ failure = "none" /\ buf = <<>>
         /\ items = [i \in DOMAIN sent |-> Received(codec, sent[i])]
<1> DEFINE k == Len(items)
<1>1. /\ pc # "failed" /\ k <= Len(sent)
      /\ \A i \in 1..k : items[i] = Received(codec, sent[i])
  BY DEF MatchInv
<1>2. pc = "read" /\ arrived = Len(input) /\ failure = "none"
      /\ Decode(codec, buf) = NeedMore
  BY <1>1 DEF Finished, LoopIndInv, PhaseInv
<1>3. /\ input \in Seq(Alphabet(codec)) /\ Len(input) \in Nat
      /\ buf \in Seq(Alphabet(codec)) /\ items \in Seq(Items(codec)) /\ k \in Nat
      /\ sent \in Seq(Message(codec)) /\ Len(sent) \in Nat
      /\ DOMAIN sent = 1..Len(sent) /\ DOMAIN items = 1..k
  BY LenProperties DEF LoopIndInv, TypeInv, SentInv, Bytes
<1>4. Outstanding = <<>> BY <1>2, <1>3, SubSeqEmpty DEF Outstanding
<1>5. buf \o Outstanding = buf BY <1>3, <1>4, ConcatEmptySeq
<1>6. ~(k < Len(sent))
  <2> SUFFICES ASSUME k < Len(sent) PROVE FALSE OBVIOUS
  <2>1. /\ AgreesAbout(codec, sent[k + 1])
        /\ \E rest \in Bytes(codec) : buf = PeerEncode(codec, sent[k + 1]) \o rest
    BY <1>5, Upcoming DEF LoopIndInv
  <2>2. PICK rest \in Bytes(codec) : buf = PeerEncode(codec, sent[k + 1]) \o rest
    BY <2>1
  <2>3. Decode(codec, buf) = Item(Received(codec, sent[k + 1]), rest)
    BY <2>1, <2>2 DEF AgreesAbout
  <2> QED BY <1>2, <2>3 DEF NeedMore, Item
<1>7. k = Len(sent)
  <2>1. k \in Nat /\ Len(sent) \in Nat /\ k <= Len(sent) BY <1>1, <1>3
  <2> HIDE DEF k
  <2> QED BY <1>6, <2>1
<1>8. buf = <<>> BY <1>5, <1>7, Upcoming DEF LoopIndInv
<1>9. items = [i \in DOMAIN sent |-> Received(codec, sent[i])]
  <2>1. items = [i \in 1..k |-> items[i]] BY <1>3
  <2> QED BY <1>1, <1>3, <1>7, <2>1
<1> QED BY <1>2, <1>8, <1>9

\* Messages of a codec without frames are byte strings
Texts(c) == ~Framed(c) => Message(c) \subseteq Bytes(c)

\* If a codec gives each message back when its encoding stands at the front of
\* the buffer, and asks for more as long as it is incomplete, then the loop of
\* handle_read gives back every list of messages, one by one, whatever the cuts.
THEOREM RoundTripping ==
  Inputs /\ (\A c \in Codec : Texts(c)) =>
    (Spec => [](Agrees(codec) => RoundTrip))
<1> SUFFICES ASSUME Inputs, \A c \in Codec : Texts(c)
             PROVE  Spec => [](Agrees(codec) => RoundTrip)
  OBVIOUS
<1>1. Init => SentInv /\ MatchInv BY InitSent, MatchStart
<1>2. LoopIndInv /\ SentInv /\ MatchInv /\ [Next]_vars => (SentInv /\ MatchInv)'
  <2> SUFFICES ASSUME LoopIndInv, SentInv, MatchInv, [Next]_vars
               PROVE  SentInv' /\ MatchInv'
    OBVIOUS
  <2>1. codec' = codec /\ sent' = sent /\ input' = input
    BY DEF vars, Next, Read, DecodeStep
  <2>2. SentInv' BY <2>1 DEF SentInv
  <2> QED BY <2>2, MatchStep
<1>3. LoopIndInv /\ SentInv /\ MatchInv => (Agrees(codec) => RoundTrip)
  <2> SUFFICES ASSUME LoopIndInv, SentInv, MatchInv, Agrees(codec), Finished, sent # <<>>
               PROVE  /\ failure = "none" /\ buf = <<>>
                      /\ Content(codec, items)
                           = Content(codec, [i \in DOMAIN sent |-> Received(codec, sent[i])])
    BY DEF RoundTrip
  <2>1. CASE Framed(codec)
    BY <2>1, FramedRoundTrip DEF Content
  <2>2. CASE ~Framed(codec)
    <3> DEFINE received == [i \in DOMAIN sent |-> Received(codec, sent[i])]
    <3>1. /\ pc # "failed" /\ FlattenSeq(items) \o buf = SubSeq(input, 1, arrived)
          /\ items \in Seq(Bytes(codec))
      BY <2>2 DEF LoopIndInv, FlowInv
    <3>2. /\ pc = "read" /\ arrived = Len(input) /\ failure = "none"
          /\ Decode(codec, buf) = NeedMore
      BY <3>1 DEF Finished, LoopIndInv, PhaseInv
    <3>3. /\ input \in Seq(Alphabet(codec)) /\ buf \in Seq(Alphabet(codec))
          /\ codec \in Codec /\ TakesAll(codec)
      BY <2>2 DEF LoopIndInv, TypeInv, Bytes, Lawful
    <3>4. buf = <<>> BY <3>2, <3>3 DEF TakesAll, Item, NeedMore, Bytes
    <3>5. FlattenSeq(items) = input
      <4>1. FlattenSeq(items) \in Seq(Alphabet(codec)) BY <3>1, FlattenAppend, EmptySeq DEF Bytes
      <4>2. FlattenSeq(items) \o <<>> = FlattenSeq(items) BY <4>1, ConcatEmptySeq
      <4>3. SubSeq(input, 1, Len(input)) = input BY <3>3, SubSeqFull
      <4> QED BY <3>1, <3>2, <3>4, <4>2, <4>3
    <3>6. /\ sent \in Seq(Message(codec)) /\ input = Stream(codec, sent)
          /\ \A i \in DOMAIN sent : /\ Carries(codec, sent[i])
                                    /\ PeerEncode(codec, sent[i]) \in Bytes(codec)
      BY DEF SentInv
    <3>7. /\ DOMAIN sent = 1..Len(sent) /\ Len(sent) \in Nat
          /\ \A i \in 1..Len(sent) : sent[i] \in Message(codec)
      BY <3>6, LenProperties, ElementOfSeq
    <3>8. \A i \in 1..Len(sent) : /\ PeerEncode(codec, sent[i]) = sent[i]
                                  /\ Received(codec, sent[i]) = sent[i]
      BY <2>2, <3>6, <3>7 DEF Agrees, AgreesAbout
    <3>9. Len(received) = Len(sent)
          /\ \A i \in 1..Len(sent) : received[i] = sent[i]
      <4>1. received \in Seq(Message(codec))
        BY <3>7, <3>8
      <4> QED BY <3>7, <3>8, <4>1
    <3>10. sent \in Seq(Bytes(codec))
      <4>1. Message(codec) \subseteq Bytes(codec) BY <2>2, <3>3 DEF Texts
      <4> QED BY <3>6, <4>1
    <3> HIDE DEF received
    <3>11. FlattenSeq(received) = Stream(codec, sent)
      BY <3>8, <3>9, <3>10, FlatStream
    <3>12. FlattenSeq(items) = FlattenSeq(received) BY <3>5, <3>6, <3>11
    <3> QED BY <2>2, <3>2, <3>4, <3>12 DEF Content, received
  <2> QED BY <2>1, <2>2
<1>4. Spec => []LoopIndInv BY LoopInvariance
<1> QED BY <1>1, <1>2, <1>3, <1>4, PTL DEF Spec
=============================================================================
