------------------------ MODULE StreamRefinementProofs ------------------------
(***************************************************************************)
(* In which order StreamConnection brings messages to the socket: the      *)
(* commands of the application tasks, and what the handlers write; and     *)
(* what frames_written counts of it.  With the order,                      *)
(* StreamConnection implements OutboundStream: what the connection         *)
(* does with queues, buffers and a socket is, to those who write to it,    *)
(* the delivery of their messages that OutboundStream describes.           *)
(***************************************************************************)
EXTENDS StreamConnectionProofs, FiniteSetTheorems

-----------------------------------------------------------------------------
(***************************************************************************)
(* The order of the commands on the wire.                                  *)
(***************************************************************************)
WriterPairs ==
  \A i, j \in 1..Len(wire) : i < j /\ FromWriter(wire[i]) /\ FromWriter(wire[j]) =>
    \E a, b \in 1..Handled :
      a < b /\ sent[a].msg = wire[i] /\ sent[b].msg = wire[j]

LEMMA ConcatElements ==
  ASSUME NEW s \in Seq(Msg), NEW t \in Seq(Msg)
  PROVE  /\ Len(s) \in Nat /\ Len(t) \in Nat /\ Len(s \o t) = Len(s) + Len(t)
         /\ \A i \in 1..Len(s) : i \in 1..Len(s \o t) /\ (s \o t)[i] = s[i]
         /\ \A i \in 1..Len(t) : i + Len(s) \in 1..Len(s \o t) /\ (s \o t)[i + Len(s)] = t[i]
         /\ \A i \in 1..Len(s \o t) :
              \/ i \in 1..Len(s)
              \/ i - Len(s) \in 1..Len(t) /\ (s \o t)[i] = t[i - Len(s)]
<1>1. /\ Len(s) \in Nat /\ Len(t) \in Nat /\ Len(s \o t) = Len(s) + Len(t)
      /\ \A i \in 1..Len(s) : i \in 1..Len(s \o t) /\ (s \o t)[i] = s[i]
      /\ \A i \in 1..Len(t) : i + Len(s) \in 1..Len(s \o t) /\ (s \o t)[i + Len(s)] = t[i]
  OBVIOUS
<1>2. ASSUME NEW i \in 1..Len(s \o t), i \notin 1..Len(s)
      PROVE  i - Len(s) \in 1..Len(t) /\ (s \o t)[i] = t[i - Len(s)]
  <2>1. i - Len(s) \in 1..Len(t) /\ (i - Len(s)) + Len(s) = i
    BY <1>1, <1>2
  <2>2. QED
    BY <1>1, <2>1
<1>3. QED
  BY <1>1, <1>2

LEMMA WriterPairsStep ==
  DeliveryInv /\ WriterPairs /\ [Next]_vars => WriterPairs'
<1> SUFFICES ASSUME DeliveryInv, WriterPairs, [Next]_vars,
                    NEW i \in 1..Len(wire'), NEW j \in 1..Len(wire'), i < j,
                    FromWriter(wire'[i]), FromWriter(wire'[j])
             PROVE  \E a, b \in 1..Handled' :
                      a < b /\ sent'[a].msg = wire'[i] /\ sent'[b].msg = wire'[j]
  BY DEF WriterPairs, FromWriter
<1>0. TypeOK /\ BufferShape /\ WireFrom /\ HandledGrows /\ wire \in Seq(Msg)
  BY HandledStep DEF DeliveryInv, TypeOK
<1>1. PICK t \in Seq(Msg) :
        /\ wire' = wire \o t
        /\ \/ t = <<>>
           \/ Answers /\ t = writeBuf
           \/ pc = "drain" /\ \A m \in Msg : Occurs(m, t) => Occurs(m, writeBuf)
  BY <1>0, WireStep DEF WireGrows
<1>2. /\ Len(wire) \in Nat /\ Len(t) \in Nat /\ Len(wire') = Len(wire) + Len(t)
      /\ \A h \in 1..Len(wire) : wire'[h] = wire[h]
      /\ \A h \in 1..Len(wire') :
           \/ h \in 1..Len(wire)
           \/ h - Len(wire) \in 1..Len(t) /\ wire'[h] = t[h - Len(wire)]
  BY <1>0, <1>1, ConcatElements
<1>3. CASE j \in 1..Len(wire)
  <2>1. i \in 1..Len(wire)
    BY <1>2, <1>3
  <2>2. PICK a \in 1..Handled, b \in 1..Handled :
          a < b /\ sent[a].msg = wire[i] /\ sent[b].msg = wire[j]
    BY <1>2, <1>3, <2>1 DEF WriterPairs
  <2>3. QED
    BY <1>0, <1>2, <1>3, <2>1, <2>2 DEF HandledGrows
<1>4. CASE j \notin 1..Len(wire)
  <2>1. j - Len(wire) \in 1..Len(t) /\ wire'[j] = t[j - Len(wire)]
    BY <1>2, <1>4
  <2>2. Occurs(wire'[j], t) /\ wire'[j] \in Msg /\ t # <<>>
    BY <2>1 DEF Occurs
  <2>3. ~(pc = "drain" /\ Occurs(wire'[j], writeBuf))
    BY <1>0, <2>2 DEF BufferShape, Invoked
  <2>4. Answers /\ t = writeBuf
    BY <1>1, <2>2, <2>3
  <2>5. writeBuf = <<Current.msg>> /\ wire'[j] = Current.msg
    BY <1>0, <2>2, <2>4, AnswerBuffer
  <2>6. Len(t) = 1
    BY <2>4, <2>5
  <2>7. i \in 1..Len(wire)
    BY <1>2, <2>1, <2>6
  <2>8. OnWire(wire[i]) /\ wire[i] \in Msg /\ wire'[i] = wire[i]
    BY <1>0, <1>2, <2>7 DEF OnWire, Occurs
  <2>9. PICK a \in 1..Handled : sent[a].msg = wire'[i]
    BY <1>0, <2>8 DEF WireFrom
  <2>10. /\ Handled' = taken /\ Handled = taken - 1 /\ sent' = sent /\ taken \in Nat
         /\ taken \in 1..Handled' /\ Current = sent[taken]
    BY <1>0, <2>4 DEF HandledGrows, Current, TypeOK
  <2>11. a \in 1..Handled' /\ a < taken
    BY <1>0, <2>10 DEF HandledGrows
  <2>12. QED
    BY <2>5, <2>9, <2>10, <2>11
<1>5. QED
  BY <1>3, <1>4

\* Whoever writes when, and whatever the stages drop: the socket carries the
\* writers' commands in the order of the queue, none twice, and none before an
\* earlier one that is still to be written.
THEOREM CommandOrder == Spec => []ChannelOrder
<1> DEFINE Inv == DeliveryInv /\ WriterPairs
<1>1. Init => Inv
  BY DeliveryInit DEF Init, WriterPairs
<1>2. Inv /\ [Next]_vars => Inv'
  BY DeliveryStep, WriterPairsStep
<1>3. Inv => ChannelOrder
  <2> SUFFICES ASSUME Inv PROVE ChannelOrder
    OBVIOUS
  <2>1. taken \in Nat /\ \A a \in 1..Handled : a \in 1..taken
    BY DEF DeliveryInv, TypeOK, Handled
  <2>2. \A b \in 1..taken : \A a \in 1..(b - 1) : a \in 1..(taken - 1)
    BY <2>1
  <2>3. \A b \in 1..taken : \A a \in 1..(b - 1) : Settled(sent[a].msg)
    BY <2>2 DEF DeliveryInv, CommandsKept
  <2>4. ASSUME NEW i \in 1..Len(wire), NEW j \in 1..Len(wire), i < j,
               FromWriter(wire[i]), FromWriter(wire[j])
        PROVE  \E a, b \in 1..taken :
                 a < b /\ sent[a].msg = wire[i] /\ sent[b].msg = wire[j]
    BY <2>1, <2>4 DEF WriterPairs
  <2>5. QED
    BY <2>3, <2>4 DEF ChannelOrder
<1>4. QED
  BY <1>1, <1>2, <1>3, PTL DEF Spec

-----------------------------------------------------------------------------
(***************************************************************************)
(* The order of what the handlers write.  Out is what the task has sent or *)
(* is about to send: an encoded message keeps its place when it is         *)
(* flushed.                                                                *)
(***************************************************************************)
Out == IF Running THEN wire \o writeBuf ELSE wire

\* What a step does to Out.
Shorter   == /\ Len(Out') <= Len(Out)
             /\ \A i \in 1..Len(Out') : Out'[i] = Out[i]
Longer(m) == /\ Len(Out') = Len(Out) + 1
             /\ \A i \in 1..Len(Out) : Out'[i] = Out[i]
             /\ Out'[Len(Out) + 1] = m

LEMMA OutType ==
  ASSUME TypeOK
  PROVE  /\ Len(Out) \in Nat
         /\ \A i \in 1..Len(Out) : Out[i] \in Msg /\ Out[i].n \in Nat
                                     /\ (~FromWriter(Out[i]) => Out[i].src \in Nat)
<1>1. Out \in Seq(Msg)
  <2>1. wire \in Seq(Msg) /\ wire \o writeBuf \in Seq(Msg)
    BY DEF TypeOK
  <2>2. QED
    BY <2>1 DEF Out
<1>2. Len(Out) \in Nat /\ \A i \in 1..Len(Out) : Out[i] \in Msg
  BY <1>1
<1>3. \A m \in Msg : m.n \in Nat /\ (~FromWriter(m) => m.src \in Nat)
  BY DEF Msg, Sources, FromWriter
<1>4. QED
  BY <1>2, <1>3

\* Appending to the buffer appends to Out.
LEMMA EncodedLonger ==
  ASSUME TypeOK, Running, Running', NEW m \in Msg, Encoded(m)
  PROVE  Longer(m)
<1>1. /\ wire \in Seq(Msg) /\ writeBuf \in Seq(Msg) /\ writeBuf' \in Seq(Msg)
      /\ wire' = wire /\ writeBuf' = Append(writeBuf, m)
      /\ Out = wire \o writeBuf /\ Out' = wire \o writeBuf'
  <2>1. wire \in Seq(Msg) /\ writeBuf \in Seq(Msg)
    BY DEF TypeOK
  <2>2. wire' = wire /\ writeBuf' = Append(writeBuf, m)
    BY DEF Encoded
  <2>3. writeBuf' \in Seq(Msg)
    BY <2>1, <2>2
  <2>4. Out = wire \o writeBuf /\ Out' = wire' \o writeBuf'
    BY DEF Out
  <2>5. QED
    BY <2>1, <2>2, <2>3, <2>4
<1>2. /\ Len(writeBuf') = Len(writeBuf) + 1 /\ writeBuf'[Len(writeBuf) + 1] = m
      /\ \A i \in 1..Len(writeBuf) : writeBuf'[i] = writeBuf[i]
  BY <1>1
<1>3. /\ Len(Out) = Len(wire) + Len(writeBuf) /\ Len(Out') = Len(Out) + 1
      /\ Len(wire) \in Nat /\ Len(writeBuf) \in Nat
  BY <1>1, <1>2, ConcatElements
<1>4. ASSUME NEW i \in 1..Len(Out)
      PROVE  Out'[i] = Out[i]
  <2>1. CASE i \in 1..Len(wire)
    BY <1>1, <2>1, ConcatElements
  <2>2. CASE i - Len(wire) \in 1..Len(writeBuf) /\ Out[i] = writeBuf[i - Len(wire)]
    <3>1. i - Len(wire) \in 1..Len(writeBuf') /\ (i - Len(wire)) + Len(wire) = i
      BY <1>2, <1>3, <2>2
    <3>2. Out'[i] = writeBuf'[i - Len(wire)]
      BY <1>1, <3>1, ConcatElements
    <3>3. QED
      BY <1>2, <2>2, <3>2
  <2>3. QED
    BY <1>1, <2>1, <2>2, ConcatElements
<1>5. Out'[Len(Out) + 1] = m
  <2>1. Len(writeBuf) + 1 \in 1..Len(writeBuf')
          /\ (Len(writeBuf) + 1) + Len(wire) = Len(Out) + 1
    BY <1>2, <1>3
  <2>2. Out'[(Len(writeBuf) + 1) + Len(wire)] = writeBuf'[Len(writeBuf) + 1]
    BY <1>1, <2>1, ConcatElements
  <2>3. QED
    BY <1>2, <2>1, <2>2
<1>6. QED
  BY <1>3, <1>4, <1>5 DEF Longer

\* The only steps that touch the buffer or the socket.
LEMMA WriteSteps ==
  ASSUME TypeOK, CommandInHand, [Next]_vars
  PROVE  \/ UNCHANGED <<writeBuf, wire>>
         \/ FlushOk
         \/ FlushFails /\ ~Running'
         \/ EncodeCommand /\ pc' = "flush" /\ Encoded(Current.msg)
         \/ DrainWrite /\ pc' = "drain" /\ outbox' = Tail(outbox)
              /\ Encoded(Head(outbox).msg)
<1> USE DEF writeVars, HandlerStay
<1>1. CASE Application \/ Environment \/ UNCHANGED vars
  BY <1>1 DEF Application, Begin, Enqueue, Rejected, DropSender, Environment,
     PeerSends, PeerCloses, RequestShutdown, IdleElapses, vars
<1>2. CASE OpenedHook \/ ClosedHook \/ Panic \/ CheckShutdown \/ Select
  BY <1>2 DEF OpenedHook, ClosedHook, Panic, CheckShutdown, Select, SelectRead,
     SelectCommand, SelectShutdown, SelectIdle
<1>3. CASE Decode \/ InboundStages \/ Handler \/ DrainResumes
  BY <1>3 DEF Decode, InboundStages, Handler, HandlerWrites, HandlerFlushes,
     HandlerAbandonsFlush, HandlerCloses, HandlerShares, HandlerReturns,
     HandlerPending, DrainResumes
<1>4. CASE EncodeCommand
  BY <1>4 DEF EncodeCommand
<1>5. CASE FlushCommand \/ DrainFlush \/ DrainEnds
  BY <1>5 DEF FlushCommand, DrainFlush, DrainEnds, FinalFlush, Fail, Leave, Running
<1>6. CASE DrainWrite
  BY <1>6 DEF DrainWrite
<1>7. QED
  BY <1>1, <1>2, <1>3, <1>4, <1>5, <1>6 DEF Next, Task, Drain

LEMMA OutSteps ==
  ASSUME TypeOK, CommandInHand, HooksInv, [Next]_vars
  PROVE  \/ Out' = Out
         \/ Shorter /\ ~Running'
         \/ EncodeCommand /\ pc' = "flush" /\ Longer(Current.msg)
         \/ DrainWrite /\ pc' = "drain" /\ outbox' = Tail(outbox)
              /\ outbox # <<>> /\ Head(outbox).kind = "Write" /\ Longer(Head(outbox).msg)
<1>0. wire \in Seq(Msg) /\ writeBuf \in Seq(Msg) /\ wire \o <<>> = wire
        /\ \A s \in Seq(Msg) : s \o <<>> = s
  BY DEF TypeOK
<1>1. CASE ~Running
  BY <1>1, EndedStep DEF Out, writeVars
<1>2. ASSUME Running, UNCHANGED wire \/ FlushFails, ~Running'
      PROVE  Shorter
  <2>1. PICK t \in Seq(Msg) :
          /\ Len(t) <= Len(writeBuf) /\ wire' = wire \o t
          /\ \A i \in 1..Len(t) : t[i] = writeBuf[i]
    <3>1. CASE UNCHANGED wire
      <4> DEFINE none == <<>>
      <4>1. wire' = wire \o none /\ none \in Seq(Msg)
        BY <1>0, <3>1
      <4>2. Len(none) <= Len(writeBuf) /\ \A i \in 1..Len(none) : none[i] = writeBuf[i]
        BY <1>0
      <4> HIDE DEF none
      <4>3. QED
        BY <4>1, <4>2
    <3>2. CASE FlushFails
      <4>1. PICK k \in 0..(Len(writeBuf) - 1) : wire' = wire \o SubSeq(writeBuf, 1, k)
        BY <3>2 DEF FlushFails
      <4>2. /\ SubSeq(writeBuf, 1, k) \in Seq(Msg) /\ Len(SubSeq(writeBuf, 1, k)) = k
            /\ k <= Len(writeBuf)
            /\ \A i \in 1..k : SubSeq(writeBuf, 1, k)[i] = writeBuf[i]
        BY <1>0, <4>1
      <4>3. QED
        BY <4>1, <4>2
    <3>3. QED
      BY <1>2, <3>1, <3>2
  <2>2. Out = wire \o writeBuf /\ Out' = wire \o t
    BY <1>2, <2>1 DEF Out
  <2>3. /\ Len(Out) = Len(wire) + Len(writeBuf) /\ Len(Out') = Len(wire) + Len(t)
        /\ Len(wire) \in Nat /\ Len(writeBuf) \in Nat /\ Len(t) \in Nat
    BY <1>0, <2>1, <2>2, ConcatElements
  <2>4. ASSUME NEW i \in 1..Len(Out')
        PROVE  Out'[i] = Out[i]
    <3>1. CASE i \in 1..Len(wire)
      BY <1>0, <2>1, <2>2, <3>1, ConcatElements
    <3>2. CASE i - Len(wire) \in 1..Len(t) /\ Out'[i] = t[i - Len(wire)]
      <4>1. i - Len(wire) \in 1..Len(writeBuf) /\ (i - Len(wire)) + Len(wire) = i
        BY <2>1, <2>3, <3>2
      <4>2. Out[i] = writeBuf[i - Len(wire)]
        BY <1>0, <2>2, <4>1, ConcatElements
      <4>3. QED
        BY <2>1, <3>2, <4>2
    <3>3. QED
      BY <1>0, <2>1, <2>2, <3>1, <3>2, ConcatElements
  <2>5. QED
    BY <2>1, <2>3, <2>4 DEF Shorter
<1>3. CASE Running /\ UNCHANGED <<writeBuf, wire>>
  BY <1>2, <1>3 DEF Out
<1>4. CASE Running /\ FlushOk
  <2>1. wire' = wire \o writeBuf /\ writeBuf' = <<>> /\ wire \o writeBuf \in Seq(Msg)
    BY <1>0, <1>4 DEF FlushOk
  <2>2. wire' \o writeBuf' = wire \o writeBuf
    BY <1>0, <2>1
  <2>3. QED
    BY <1>4, <2>1, <2>2 DEF Out
<1>5. CASE Running /\ FlushFails /\ ~Running'
  BY <1>2, <1>5
<1>6. CASE Running /\ EncodeCommand /\ pc' = "flush" /\ Encoded(Current.msg)
  <2>1. Current.msg \in Msg /\ Running'
    BY <1>6, CurrentType DEF EncodeCommand, CommandInHand, Running
  <2>2. QED
    BY <1>6, <2>1, EncodedLonger
<1>7. CASE Running /\ DrainWrite /\ pc' = "drain" /\ outbox' = Tail(outbox)
             /\ Encoded(Head(outbox).msg)
  <2>1. outbox # <<>> /\ Head(outbox).kind = "Write" /\ Head(outbox).msg \in Msg /\ Running'
    BY <1>7, OutboxType DEF DrainWrite, Running
  <2>2. QED
    BY <1>7, <2>1, EncodedLonger
<1>8. QED
  BY <1>1, <1>3, <1>4, <1>5, <1>6, <1>7, WriteSteps

\* How an invocation begins.
LEMMA InvocationBegins ==
  ASSUME [Next]_vars
  PROVE  /\ pc' = "stages" => pc = "stages" \/ (Decode /\ frames' = frames + 1)
         /\ Invoked' => Invoked \/ pc = "stages"
<1> USE DEF Invoked, Stay, HandlerStay, Exit, Fail, Leave
<1>1. CASE Application \/ Environment \/ UNCHANGED vars
  BY <1>1 DEF Application, Begin, Enqueue, Rejected, DropSender, Environment,
     PeerSends, PeerCloses, RequestShutdown, IdleElapses, vars
<1>2. CASE OpenedHook \/ ClosedHook \/ Panic \/ CheckShutdown
  BY <1>2 DEF OpenedHook, OpenRefused, ClosedHook, Panic, CheckShutdown
<1>3. CASE Select
  BY <1>3 DEF Select, SelectRead, PeerEof, SelectCommand, SelectShutdown, SelectIdle
<1>4. CASE EncodeCommand \/ FlushCommand \/ Decode
  BY <1>4 DEF EncodeCommand, FlushCommand, Decode
<1>5. CASE InboundStages
  BY <1>5 DEF InboundStages
<1>6. CASE Handler
  BY <1>6 DEF Handler, HandlerRuns, HandlerWrites, HandlerFlushes, HandlerAbandonsFlush,
     HandlerCloses, HandlerShares, HandlerReturns, HandlerPending
<1>7. CASE Drain
  BY <1>7 DEF Drain, DrainWrite, DrainFlush, DrainResumes, DrainEnds, AfterHandled
<1>8. QED
  BY <1>1, <1>2, <1>3, <1>4, <1>5, <1>6, <1>7 DEF Next, Task

-----------------------------------------------------------------------------
(***************************************************************************)
(* The order within and between invocations.                               *)
(***************************************************************************)

\* No handler's message is from a frame that is not decoded yet, and none from
\* the frame whose handler has not run yet.
FromPast ==
  \A i \in 1..Len(Out) : ~FromWriter(Out[i]) =>
    /\ Out[i].src <= frames
    /\ pc = "stages" => Out[i].src < frames

\* During an invocation its messages come last.
CurrentLast ==
  Invoked => \A i, h \in 1..Len(Out) :
    i <= h /\ Out[i].src = frames => Out[h].src = frames

\* What left an outbox was staged before what is still in it.
SentFirst ==
  Invoked => \A i \in 1..Len(Out) : Out[i].src = frames =>
    /\ Out[i].n <= staged
    /\ \A j \in 1..Len(outbox) : outbox[j].kind = "Write" => Out[i].n < outbox[j].msg.n

\* The outbox holds writes of this invocation, in their order.
OutboxOrder ==
  Invoked => \A j \in 1..Len(outbox) : outbox[j].kind = "Write" =>
    /\ outbox[j].msg.src = frames
    /\ outbox[j].msg.n <= staged
    /\ \A k \in 1..Len(outbox) :
         j < k /\ outbox[k].kind = "Write" => outbox[j].msg.n < outbox[k].msg.n

InvocationOrder == FromPast /\ CurrentLast /\ SentFirst /\ OutboxOrder

HandlerPairs ==
  \A i, j \in 1..Len(Out) :
    i < j /\ ~FromWriter(Out[i]) /\ ~FromWriter(Out[j]) =>
      /\ \/ Out[i].src < Out[j].src
         \/ Out[i].src = Out[j].src /\ Out[i].n < Out[j].n
      /\ Out[i].src = Out[j].src => \A k \in i..j : Out[k].src = Out[i].src

LEMMA CurrentFromWriter ==
  ASSUME DeliveryInv, InCommand
  PROVE  FromWriter(Current.msg)
BY DEF DeliveryInv, CommandInHand, InCommand, QueueInv, Numbered, TypeOK, FromWriter, Current

\* A new frame, or an invocation that goes on with the same outbox.
LEMMA SameOrder ==
  ASSUME DeliveryInv, InvocationOrder, [Next]_vars, Out' = Out,
         UNCHANGED <<outbox, staged>>
  PROVE  InvocationOrder'
<1>0. TypeOK /\ StagedKept
  BY DEF DeliveryInv
<1>1. \/ frames' = frames /\ (pc' = "stages" => pc = "stages")
      \/ frames' = frames + 1 /\ pc' = "stages"
  <2>1. frames' = frames \/ Decode
    BY OutboxSteps DEF HandlerWrites, HandlerFlushes, DrainWrite, DrainFlush, HandlerStay,
       readVars
  <2>2. Decode => frames' = frames \/ (frames' = frames + 1 /\ pc' = "stages")
    BY DEF Decode, readVars
  <2>3. frames \in Nat
    BY <1>0 DEF TypeOK
  <2>4. QED
    BY <2>1, <2>2, <2>3, InvocationBegins
<1>2. CASE frames' = frames + 1 /\ pc' = "stages"
  <2>1. frames \in Nat /\ ~Invoked'
    BY <1>0, <1>2 DEF TypeOK, Invoked
  <2>2. ASSUME NEW i \in 1..Len(Out), ~FromWriter(Out[i])
        PROVE  Out[i].src < frames'
    <3>1. Out[i].src \in Nat /\ Out[i].src <= frames
      BY <1>0, <2>2, OutType DEF InvocationOrder, FromPast
    <3>2. QED
      BY <1>2, <2>1, <3>1
  <2>3. ASSUME NEW i \in 1..Len(Out), ~FromWriter(Out[i])
        PROVE  Out[i].src < frames' /\ Out[i].src <= frames'
    <3>1. Out[i].src \in Nat /\ Out[i].src < frames'
      BY <1>0, <2>2, <2>3, OutType
    <3>2. QED
      BY <1>2, <2>1, <3>1
  <2>4. FromPast'
    BY <2>3 DEF FromPast, FromWriter
  <2>5. QED
    BY <2>1, <2>4 DEF InvocationOrder, CurrentLast, SentFirst, OutboxOrder
<1>3. CASE frames' = frames /\ (pc' = "stages" => pc = "stages")
  <2>1. FromPast'
    BY <1>3 DEF InvocationOrder, FromPast, FromWriter
  <2>2. CASE Invoked \/ ~Invoked'
    BY <1>3, <2>1, <2>2 DEF InvocationOrder, CurrentLast, SentFirst, OutboxOrder
  <2>3. CASE pc = "stages"
    <3>1. outbox = <<>>
      BY <1>0, <2>3 DEF StagedKept, Good, Running, Invoked
    <3>2. ASSUME NEW i \in 1..Len(Out)
          PROVE  Out[i].src # frames
      <4>1. frames \in Nat
        BY <1>0 DEF TypeOK
      <4>2. CASE FromWriter(Out[i])
        BY <4>1, <4>2, WritersAssumption DEF FromWriter
      <4>3. CASE ~FromWriter(Out[i])
        BY <1>0, <2>3, <4>1, <4>3, OutType DEF InvocationOrder, FromPast
      <4>4. QED
        BY <4>2, <4>3
    <3>3. QED
      BY <1>3, <2>1, <3>1, <3>2 DEF InvocationOrder, CurrentLast, SentFirst, OutboxOrder
  <2>4. QED
    BY <2>2, <2>3, InvocationBegins
<1>4. QED
  BY <1>1, <1>2, <1>3

\* The outbox loses its first entry.
LEMMA OutboxShrinks ==
  ASSUME TypeOK, InvocationOrder, Invoked, outbox # <<>>, outbox' = Tail(outbox),
         UNCHANGED <<staged, frames>>
  PROVE  OutboxOrder'
<1> SUFFICES ASSUME NEW j \in 1..Len(outbox'), outbox'[j].kind = "Write"
             PROVE  /\ outbox'[j].msg.src = frames /\ outbox'[j].msg.n <= staged
                    /\ \A k \in 1..Len(outbox') :
                         j < k /\ outbox'[k].kind = "Write" =>
                           outbox'[j].msg.n < outbox'[k].msg.n
  BY DEF OutboxOrder
<1>1. j + 1 \in 1..Len(outbox) /\ outbox'[j] = outbox[j + 1] /\ j \in Int
  BY TailElements
<1>2. /\ outbox'[j].msg.src = frames /\ outbox'[j].msg.n <= staged
      /\ \A k \in 1..Len(outbox) :
           j + 1 < k /\ outbox[k].kind = "Write" => outbox'[j].msg.n < outbox[k].msg.n
  BY <1>1 DEF InvocationOrder, OutboxOrder
<1>3. ASSUME NEW k \in 1..Len(outbox'), j < k, outbox'[k].kind = "Write"
      PROVE  outbox'[j].msg.n < outbox'[k].msg.n
  <2>1. k + 1 \in 1..Len(outbox) /\ outbox'[k] = outbox[k + 1] /\ j + 1 < k + 1
    BY <1>1, <1>3, TailElements
  <2>2. QED
    BY <1>2, <1>3, <2>1
<1>4. QED
  BY <1>2, <1>3

LEMMA InvocationOrderStep ==
  DeliveryInv /\ InvocationOrder /\ [Next]_vars => InvocationOrder'
<1> SUFFICES ASSUME DeliveryInv, InvocationOrder, [Next]_vars
             PROVE  InvocationOrder'
  OBVIOUS
<1>0. /\ TypeOK /\ CommandInHand /\ HooksInv
      /\ outbox \in Seq(Staged) /\ staged \in Nat /\ frames \in Nat
  BY DEF DeliveryInv, TypeOK
<1>1. CASE Shorter /\ ~Running'
  <2>1. frames' = frames
    <3>1. frames' = frames \/ Decode
      BY OutboxSteps DEF HandlerWrites, HandlerFlushes, DrainWrite, DrainFlush,
         HandlerStay, readVars
    <3>2. Decode => frames' = frames
      BY <1>1 DEF Decode, readVars, Running
    <3>3. QED
      BY <3>1, <3>2
  <2>2. ~Invoked' /\ pc' # "stages"
    BY <1>1 DEF Running, Invoked
  <2>3. \A i \in 1..Len(Out') : i \in 1..Len(Out) /\ Out'[i] = Out[i]
    <3>1. Len(Out) \in Nat /\ Len(Out') \in Nat
      <4>1. TypeOK'
        BY <1>0, TypeStep
      <4>2. Len(Out') \in Nat
        BY <4>1, OutType
      <4>3. QED
        BY <1>0, <4>2, OutType
    <3>2. QED
      BY <1>1, <3>1 DEF Shorter
  <2>4. FromPast'
    BY <2>1, <2>2, <2>3 DEF InvocationOrder, FromPast, FromWriter
  <2>5. QED
    BY <2>2, <2>4 DEF InvocationOrder, CurrentLast, SentFirst, OutboxOrder
<1>2. CASE EncodeCommand /\ pc' = "flush" /\ Longer(Current.msg)
  <2>1. frames' = frames /\ ~Invoked' /\ pc' # "stages" /\ FromWriter(Current.msg)
    BY <1>2, CurrentFromWriter DEF EncodeCommand, readVars, Invoked, InCommand
  <2>2. \A i \in 1..Len(Out') : i \in 1..Len(Out) \/ i = Len(Out) + 1
    BY <1>0, <1>2, OutType DEF Longer
  <2>3. FromPast'
    BY <1>2, <2>1, <2>2 DEF Longer, InvocationOrder, FromPast, FromWriter
  <2>4. QED
    BY <2>1, <2>3 DEF InvocationOrder, CurrentLast, SentFirst, OutboxOrder
<1>3. CASE /\ DrainWrite /\ pc' = "drain" /\ outbox' = Tail(outbox)
           /\ outbox # <<>> /\ Head(outbox).kind = "Write" /\ Longer(Head(outbox).msg)
  <2> DEFINE m == Head(outbox).msg
  <2>1. /\ Invoked /\ Invoked' /\ pc' # "stages" /\ UNCHANGED <<staged, frames>>
        /\ m \in Msg /\ m = outbox[1].msg /\ outbox[1].kind = "Write"
        /\ 1 \in 1..Len(outbox) /\ Longer(m)
    BY <1>0, <1>3, OutboxType, HeadElement DEF DrainWrite, Invoked, readVars
  <2>2. /\ m.src = frames /\ m.n <= staged /\ m.n \in Nat
        /\ \A k \in 1..Len(outbox) :
             1 < k /\ outbox[k].kind = "Write" => m.n < outbox[k].msg.n
    BY <2>1 DEF InvocationOrder, OutboxOrder, Msg
  <2> HIDE DEF m
  <2>3. /\ Len(Out) \in Nat /\ Len(Out') = Len(Out) + 1 /\ Out'[Len(Out) + 1] = m
        /\ \A i \in 1..Len(Out) : Out'[i] = Out[i]
        /\ \A i \in 1..Len(Out') : i \in 1..Len(Out) \/ i = Len(Out) + 1
    BY <1>0, <2>1, OutType DEF Longer
  <2>4. \A j \in 1..Len(outbox') : j + 1 \in 1..Len(outbox)
           /\ outbox'[j] = outbox[j + 1] /\ 1 < j + 1
    BY <1>0, <1>3, TailElements
  <2>5. OutboxOrder'
    BY <1>0, <1>3, <2>1, OutboxShrinks
  <2>6. FromPast'
    <3>1. ASSUME NEW i \in 1..Len(Out'), ~FromWriter(Out'[i])
          PROVE  Out'[i].src <= frames
      <4>1. CASE i \in 1..Len(Out)
        BY <2>3, <3>1, <4>1 DEF InvocationOrder, FromPast
      <4>2. CASE i = Len(Out) + 1
        BY <1>0, <2>2, <2>3, <4>2
      <4>3. QED
        BY <2>3, <4>1, <4>2
    <3>2. QED
      BY <2>1, <3>1 DEF FromPast, FromWriter
  <2>7. CurrentLast'
    <3>1. ASSUME NEW i \in 1..Len(Out'), NEW h \in 1..Len(Out'), i <= h,
                 Out'[i].src = frames
          PROVE  Out'[h].src = frames
      <4>1. CASE h = Len(Out) + 1
        BY <2>2, <2>3, <4>1
      <4>2. CASE h \in 1..Len(Out)
        <5>1. i \in 1..Len(Out)
          BY <2>3, <3>1, <4>2
        <5>2. QED
          BY <2>1, <2>3, <3>1, <4>2, <5>1 DEF InvocationOrder, CurrentLast
      <4>3. QED
        BY <2>3, <4>1, <4>2
    <3>2. QED
      BY <2>1, <3>1 DEF CurrentLast
  <2>8. SentFirst'
    <3>1. ASSUME NEW i \in 1..Len(Out'), Out'[i].src = frames
          PROVE  /\ Out'[i].n <= staged
                 /\ \A j \in 1..Len(outbox') :
                      outbox'[j].kind = "Write" => Out'[i].n < outbox'[j].msg.n
      <4>1. CASE i \in 1..Len(Out)
        BY <2>1, <2>3, <2>4, <3>1, <4>1 DEF InvocationOrder, SentFirst
      <4>2. CASE i = Len(Out) + 1
        BY <2>2, <2>3, <2>4, <4>2
      <4>3. QED
        BY <2>3, <4>1, <4>2
    <3>2. QED
      BY <2>1, <3>1 DEF SentFirst
  <2>9. QED
    BY <2>5, <2>6, <2>7, <2>8 DEF InvocationOrder
<1>4. CASE Out' = Out /\ HandlerWrites
  <2> DEFINE x == HandlerMsg(staged + 1)
             entry == [kind |-> "Write", msg |-> x]
  <2>1. /\ entry \in Staged /\ entry.msg = x /\ x.src = frames /\ x.n = staged + 1
    BY <1>0, HandlerMsgType DEF Staged, HandlerMsg
  <2>2. /\ outbox' = Append(outbox, entry) /\ staged' = staged + 1 /\ frames' = frames
        /\ Invoked /\ Invoked' /\ pc' # "stages"
    BY <1>4 DEF HandlerWrites, Push, HandlerStay, readVars, HandlerRuns, Invoked
  <2> HIDE DEF entry, x
  <2>3. /\ Len(outbox') = Len(outbox) + 1 /\ Len(outbox) \in Nat
        /\ \A j \in 1..Len(outbox) : outbox'[j] = outbox[j]
        /\ outbox'[Len(outbox) + 1] = entry
        /\ \A j \in 1..Len(outbox') : j \in 1..Len(outbox) \/ j = Len(outbox) + 1
    BY <1>0, <2>1, <2>2
  <2>4. FromPast' /\ CurrentLast'
    BY <1>4, <2>2 DEF InvocationOrder, FromPast, CurrentLast, FromWriter
  <2>5. SentFirst'
    <3>1. ASSUME NEW i \in 1..Len(Out), Out[i].src = frames
          PROVE  /\ Out[i].n <= staged + 1
                 /\ \A j \in 1..Len(outbox') :
                      outbox'[j].kind = "Write" => Out[i].n < outbox'[j].msg.n
      <4>1. Out[i].n \in Nat /\ Out[i].n <= staged
              /\ \A j \in 1..Len(outbox) :
                   outbox[j].kind = "Write" => Out[i].n < outbox[j].msg.n
        BY <1>0, <2>2, <3>1, OutType DEF InvocationOrder, SentFirst
      <4>2. Out[i].n < staged + 1
        BY <1>0, <4>1
      <4>3. QED
        BY <1>0, <2>1, <2>3, <4>1, <4>2
    <3>2. QED
      BY <1>4, <2>2, <3>1 DEF SentFirst
  <2>6. OutboxOrder'
    <3>1. ASSUME NEW j \in 1..Len(outbox), outbox[j].kind = "Write"
          PROVE  /\ outbox[j].msg.src = frames /\ outbox[j].msg.n < staged + 1
                 /\ \A k \in 1..Len(outbox) :
                      j < k /\ outbox[k].kind = "Write" => outbox[j].msg.n < outbox[k].msg.n
      <4>1. outbox[j].msg.n \in Nat
        <5>1. outbox[j] \in Staged
          BY <1>0
        <5>2. QED
          BY <5>1 DEF Staged, Msg
      <4>2. /\ outbox[j].msg.src = frames /\ outbox[j].msg.n <= staged
            /\ \A k \in 1..Len(outbox) :
                 j < k /\ outbox[k].kind = "Write" => outbox[j].msg.n < outbox[k].msg.n
        BY <2>2, <3>1 DEF InvocationOrder, OutboxOrder
      <4>3. QED
        BY <1>0, <4>1, <4>2
    <3>2. ASSUME NEW j \in 1..Len(outbox'), outbox'[j].kind = "Write"
          PROVE  /\ outbox'[j].msg.src = frames /\ outbox'[j].msg.n <= staged + 1
                 /\ \A k \in 1..Len(outbox') :
                      j < k /\ outbox'[k].kind = "Write" =>
                        outbox'[j].msg.n < outbox'[k].msg.n
      <4>1. CASE j \in 1..Len(outbox)
        <5>1. outbox'[j] = outbox[j]
          BY <2>3, <4>1
        <5>2. /\ outbox[j].msg.src = frames /\ outbox[j].msg.n < staged + 1
              /\ \A k \in 1..Len(outbox) :
                   j < k /\ outbox[k].kind = "Write" => outbox[j].msg.n < outbox[k].msg.n
          BY <3>1, <3>2, <4>1, <5>1
        <5>3. outbox[j].msg.n \in Int
          <6>1. outbox[j] \in Staged
            BY <1>0, <4>1
          <6>2. QED
            BY <6>1 DEF Staged, Msg
        <5>4. ASSUME NEW k \in 1..Len(outbox'), j < k, outbox'[k].kind = "Write"
              PROVE  outbox'[j].msg.n < outbox'[k].msg.n
          <6>1. CASE k \in 1..Len(outbox)
            BY <2>3, <5>1, <5>2, <5>4, <6>1
          <6>2. CASE k = Len(outbox) + 1
            BY <2>1, <2>3, <5>1, <5>2, <6>2
          <6>3. QED
            BY <2>3, <6>1, <6>2
        <5>5. QED
          BY <1>0, <5>1, <5>2, <5>3, <5>4
      <4>2. CASE j = Len(outbox) + 1
        <5>1. outbox'[j].msg.src = frames /\ outbox'[j].msg.n = staged + 1
          BY <2>1, <2>3, <4>2
        <5>2. \A k \in 1..Len(outbox') : ~(j < k)
          BY <2>3, <4>2
        <5>3. QED
          BY <1>0, <5>1, <5>2
      <4>3. QED
        BY <2>3, <4>1, <4>2
    <3>3. QED
      BY <2>2, <3>2 DEF OutboxOrder
  <2>7. QED
    BY <2>4, <2>5, <2>6 DEF InvocationOrder
<1>5. CASE Out' = Out /\ HandlerFlushes
  <2> DEFINE entry == [kind |-> "Flush", msg |-> NoMsg]
  <2>1. /\ entry \in Staged /\ entry.kind = "Flush" /\ outbox' = Append(outbox, entry)
        /\ Invoked /\ Invoked' /\ pc' # "stages" /\ UNCHANGED <<staged, frames>>
    BY <1>5, Types DEF HandlerFlushes, Push, Staged, HandlerStay, readVars, HandlerRuns,
       Invoked
  <2> HIDE DEF entry
  <2>2. /\ \A j \in 1..Len(outbox) : outbox'[j] = outbox[j]
        /\ \A j \in 1..Len(outbox') : outbox'[j].kind = "Write" => j \in 1..Len(outbox)
    BY <1>0, <2>1
  <2>3. FromPast' /\ CurrentLast'
    BY <1>5, <2>1 DEF InvocationOrder, FromPast, CurrentLast, FromWriter
  <2>4. SentFirst'
    BY <1>5, <2>1, <2>2 DEF InvocationOrder, SentFirst
  <2>5. OutboxOrder'
    BY <2>1, <2>2 DEF InvocationOrder, OutboxOrder
  <2>6. QED
    BY <2>3, <2>4, <2>5 DEF InvocationOrder
<1>6. CASE Out' = Out /\ (DrainWrite \/ DrainFlush) /\ outbox' # outbox
  <2>1. /\ Invoked /\ Invoked' /\ pc' # "stages" /\ UNCHANGED <<staged, frames>>
        /\ outbox # <<>> /\ outbox' = Tail(outbox)
    BY <1>6 DEF DrainWrite, DrainFlush, Invoked, readVars
  <2>2. \A j \in 1..Len(outbox') : j + 1 \in 1..Len(outbox) /\ outbox'[j] = outbox[j + 1]
    BY <1>0, <2>1, TailElements
  <2>3. FromPast' /\ CurrentLast'
    BY <1>6, <2>1 DEF InvocationOrder, FromPast, CurrentLast, FromWriter
  <2>4. SentFirst'
    BY <1>6, <2>1, <2>2 DEF InvocationOrder, SentFirst
  <2>5. OutboxOrder'
    BY <1>0, <2>1, OutboxShrinks
  <2>6. QED
    BY <2>3, <2>4, <2>5 DEF InvocationOrder
<1>7. CASE Out' = Out /\ UNCHANGED <<outbox, staged>>
  BY <1>7, SameOrder
<1>8. CASE Out' = Out /\ Decode /\ staged' # staged
  <2>1. frames' = frames + 1 /\ pc' = "stages" /\ ~Invoked'
    BY <1>8 DEF Decode, Invoked
  <2>2. ASSUME NEW i \in 1..Len(Out), ~FromWriter(Out[i])
        PROVE  Out[i].src < frames + 1 /\ Out[i].src <= frames + 1
    <3>1. Out[i].src \in Nat /\ Out[i].src <= frames
      BY <1>0, <2>2, OutType DEF InvocationOrder, FromPast
    <3>2. QED
      BY <1>0, <3>1
  <2>3. FromPast'
    BY <1>8, <2>1, <2>2 DEF FromPast, FromWriter
  <2>4. QED
    BY <2>1, <2>3 DEF InvocationOrder, CurrentLast, SentFirst, OutboxOrder
<1>9. (DrainWrite \/ DrainFlush) => UNCHANGED staged
  BY DEF DrainWrite, DrainFlush
<1>10. QED
  BY <1>0, <1>1, <1>2, <1>3, <1>4, <1>5, <1>6, <1>7, <1>8, <1>9, OutSteps, OutboxSteps

LEMMA HandlerPairsStep ==
  DeliveryInv /\ InvocationOrder /\ HandlerPairs /\ [Next]_vars => HandlerPairs'
<1> SUFFICES ASSUME DeliveryInv, InvocationOrder, HandlerPairs, [Next]_vars,
                    NEW i \in 1..Len(Out'), NEW j \in 1..Len(Out'), i < j,
                    ~FromWriter(Out'[i]), ~FromWriter(Out'[j])
             PROVE  /\ \/ Out'[i].src < Out'[j].src
                       \/ Out'[i].src = Out'[j].src /\ Out'[i].n < Out'[j].n
                    /\ Out'[i].src = Out'[j].src =>
                         \A h \in i..j : Out'[h].src = Out'[i].src
  BY DEF HandlerPairs, FromWriter
<1>0. /\ TypeOK /\ CommandInHand /\ HooksInv /\ Len(Out) \in Nat /\ Len(Out') \in Nat
      /\ frames \in Nat
  <2>1. TypeOK /\ CommandInHand /\ HooksInv
    BY DEF DeliveryInv
  <2>2. TypeOK'
    BY <2>1, TypeStep
  <2>3. Len(Out') \in Nat
    BY <2>2, OutType
  <2>4. QED
    BY <2>1, <2>3, OutType DEF TypeOK
<1>1. ASSUME j \in 1..Len(Out), \A h \in 1..j : Out'[h] = Out[h]
      PROVE  /\ \/ Out'[i].src < Out'[j].src
                \/ Out'[i].src = Out'[j].src /\ Out'[i].n < Out'[j].n
             /\ Out'[i].src = Out'[j].src =>
                  \A h \in i..j : Out'[h].src = Out'[i].src
  <2>1. i \in 1..Len(Out) /\ i \in 1..j /\ j \in 1..j /\ \A h \in i..j : h \in 1..j
    BY <1>0, <1>1
  <2>2. QED
    BY <1>1, <2>1 DEF HandlerPairs
<1>2. CASE Out' = Out
  BY <1>1, <1>2
<1>3. CASE Shorter
  <2>1. j \in 1..Len(Out) /\ \A h \in 1..j : h \in 1..Len(Out')
    BY <1>0, <1>3 DEF Shorter
  <2>2. QED
    BY <1>1, <1>3, <2>1 DEF Shorter
<1>4. ASSUME NEW m, Longer(m), j # Len(Out) + 1
      PROVE  /\ \/ Out'[i].src < Out'[j].src
                \/ Out'[i].src = Out'[j].src /\ Out'[i].n < Out'[j].n
             /\ Out'[i].src = Out'[j].src =>
                  \A h \in i..j : Out'[h].src = Out'[i].src
  <2>1. j \in 1..Len(Out) /\ \A h \in 1..j : h \in 1..Len(Out)
    BY <1>0, <1>4 DEF Longer
  <2>2. QED
    BY <1>1, <1>4, <2>1 DEF Longer
<1>5. CASE EncodeCommand /\ Longer(Current.msg)
  <2>1. FromWriter(Current.msg)
    BY <1>5, CurrentFromWriter DEF EncodeCommand, InCommand
  <2>2. j # Len(Out) + 1
    BY <1>5, <2>1 DEF Longer
  <2>3. QED
    BY <1>4, <1>5, <2>2
<1>6. CASE /\ DrainWrite /\ outbox # <<>> /\ Head(outbox).kind = "Write"
           /\ Longer(Head(outbox).msg) /\ j = Len(Out) + 1
  <2> DEFINE m == Head(outbox).msg
  <2>1. /\ Invoked /\ m = outbox[1].msg /\ outbox[1].kind = "Write"
        /\ 1 \in 1..Len(outbox) /\ Longer(m)
    BY <1>0, <1>6, HeadElement DEF DrainWrite, Invoked
  <2>2. m.src = frames
    BY <2>1 DEF InvocationOrder, OutboxOrder
  <2> HIDE DEF m
  <2>3. /\ i \in 1..Len(Out) /\ Out'[i] = Out[i] /\ Out'[j] = m
        /\ ~FromWriter(Out[i])
    <3>1. i \in 1..Len(Out)
      BY <1>0, <1>6
    <3>2. QED
      BY <1>6, <2>1, <3>1 DEF Longer
  <2>4. Out[i].src \in Nat /\ Out[i].src <= frames
    BY <1>0, <2>3, OutType DEF InvocationOrder, FromPast
  <2>5. Out[i].src = frames => Out[i].n < m.n
    BY <2>1, <2>3 DEF InvocationOrder, SentFirst
  <2>6. ASSUME Out[i].src = frames, NEW h \in i..j
        PROVE  Out'[h].src = frames
    <3>1. CASE h = j
      BY <2>2, <2>3, <3>1
    <3>2. CASE h # j
      <4>1. h \in 1..Len(Out) /\ i <= h
        BY <1>0, <1>6, <2>6, <3>2
      <4>2. Out[h].src = frames
        BY <2>1, <2>3, <2>6, <4>1 DEF InvocationOrder, CurrentLast
      <4>3. QED
        BY <2>1, <4>1, <4>2 DEF Longer
    <3>3. QED
      BY <3>1, <3>2
  <2>7. QED
    BY <1>0, <2>2, <2>3, <2>4, <2>5, <2>6
<1>7. QED
  BY <1>0, <1>2, <1>3, <1>4, <1>5, <1>6, OutSteps

\* Whenever a handler flushes and whatever its stages drop: what the handlers
\* write leaves in the order of the inbound frames and of their writes, and
\* nothing gets between the messages of one invocation.
THEOREM InvocationsAtomic == Spec => []HandlersAreAtomic
<1> DEFINE Inv == DeliveryInv /\ InvocationOrder /\ HandlerPairs
<1>1. Init => Inv
  <2> SUFFICES ASSUME Init PROVE Inv
    OBVIOUS
  <2>1. DeliveryInv /\ ~Invoked
    BY DeliveryInit DEF Init, Invoked
  <2>2. Len(Out) = 0
    <3>1. Out = <<>> \o <<>>
      BY DEF Init, Out, Running
    <3>2. QED
      BY <3>1
  <2>3. QED
    BY <2>1, <2>2 DEF InvocationOrder, FromPast, CurrentLast, SentFirst, OutboxOrder,
       HandlerPairs
<1>2. Inv /\ [Next]_vars => Inv'
  BY DeliveryStep, InvocationOrderStep, HandlerPairsStep
<1>3. Inv => HandlersAreAtomic
  <2> SUFFICES ASSUME DeliveryInv, HandlerPairs PROVE HandlersAreAtomic
    OBVIOUS
  <2>1. wire \in Seq(Msg) /\ writeBuf \in Seq(Msg)
    BY DEF DeliveryInv, TypeOK
  <2>2. \A i \in 1..Len(wire) : i \in 1..Len(Out) /\ Out[i] = wire[i]
    <3>1. CASE Running
      BY <2>1, <3>1, ConcatElements DEF Out
    <3>2. CASE ~Running
      BY <3>2 DEF Out
    <3>3. QED
      BY <3>1, <3>2
  <2>3. ASSUME NEW i \in 1..Len(wire), NEW j \in 1..Len(wire), i < j,
               ~FromWriter(wire[i]), ~FromWriter(wire[j])
        PROVE  /\ \/ wire[i].src < wire[j].src
                  \/ wire[i].src = wire[j].src /\ wire[i].n < wire[j].n
               /\ wire[i].src = wire[j].src =>
                    \A k \in i..j : wire[k].src = wire[i].src
    <3>1. Len(wire) \in Nat
      BY <2>1
    <3>2. \A k \in i..j : k \in 1..Len(wire)
      BY <3>1
    <3>3. QED
      BY <2>2, <2>3, <3>2 DEF HandlerPairs
  <2>4. QED
    BY <2>3 DEF HandlersAreAtomic
<1>4. QED
  BY <1>1, <1>2, <1>3, PTL DEF Spec

-----------------------------------------------------------------------------
(***************************************************************************)
(* The queue holds the commands of one writer in the order of their        *)
(* numbers.                                                                *)
(***************************************************************************)
Increasing ==
  \A i, j \in 1..Len(sent) :
    i < j /\ sent[i].msg.src = sent[j].msg.src => sent[i].msg.n < sent[j].msg.n

LEMMA SentGrows ==
  ASSUME TypeOK, [Next]_vars
  PROVE  sent' = sent \/ \E w \in Writers : Enqueue(w)
BY StepKinds DEF Aside, Releasing, Release, Takes, Answers, FlushCommand, Fail, Leave,
   Calls, Begin, Rejected, queueVars

LEMMA IncreasingStep ==
  TypeOK /\ QueueInv /\ Increasing /\ [Next]_vars => Increasing'
<1> SUFFICES ASSUME TypeOK, QueueInv, Increasing, [Next]_vars PROVE Increasing'
  OBVIOUS
<1>1. CASE sent' = sent
  BY <1>1 DEF Increasing
<1>2. ASSUME NEW w \in Writers, Enqueue(w)
      PROVE  Increasing'
  <2> DEFINE new == [kind |-> writer[w], msg |-> Latest(w)]
  <2>1. /\ new \in Command /\ new.msg.src = w /\ new.msg.n = count[w]
        /\ sent' = Append(sent, new) /\ writer[w] \in SendKinds
    BY <1>2 DEF Enqueue, TypeOK, Command, Msg, Sources, Latest
  <2> HIDE DEF new
  <2>2. /\ Len(sent) \in Nat /\ Len(sent') = Len(sent) + 1
        /\ \A i \in 1..Len(sent) : sent'[i] = sent[i]
        /\ sent'[Len(sent) + 1] = new
    BY <2>1 DEF TypeOK
  <2>3. ASSUME NEW i \in 1..Len(sent'), NEW j \in 1..Len(sent'), i < j,
               sent'[i].msg.src = sent'[j].msg.src
        PROVE  sent'[i].msg.n < sent'[j].msg.n
    <3>1. i \in 1..Len(sent) /\ sent'[i] = sent[i]
      BY <2>2, <2>3
    <3>2. CASE j \in 1..Len(sent)
      <4>1. sent'[j] = sent[j]
        BY <2>2, <3>2
      <4>2. QED
        BY <2>3, <3>1, <3>2, <4>1 DEF Increasing
    <3>3. CASE j = Len(sent) + 1
      <4>1. sent[i].msg.src = w
        BY <2>1, <2>2, <2>3, <3>1, <3>3
      <4>2. sent[i].msg.n < count[w]
        BY <2>1, <3>1, <4>1 DEF QueueInv, Numbered
      <4>3. QED
        BY <2>1, <2>2, <3>1, <3>3, <4>2
    <3>4. QED
      BY <2>2, <3>2, <3>3
  <2>4. QED
    BY <2>3 DEF Increasing
<1>3. QED
  BY <1>1, <1>2, SentGrows

\* So two commands with the same message are one.
LEMMA OneCommand ==
  ASSUME TypeOK, QueueInv, NEW a \in 1..Len(sent), NEW b \in 1..Len(sent),
         sent[a].msg = sent[b].msg
  PROVE  a = b
<1>1. a \in Nat /\ b \in Nat /\ ~(a < b) /\ ~(b < a)
  BY DEF QueueInv, Numbered
<1>2. QED
  BY <1>1

-----------------------------------------------------------------------------
(***************************************************************************)
(* Where messages that reached the stages come from.                       *)
(***************************************************************************)

\* The commands that have been given to the outbound stages.
Begun == IF pc = "encode" THEN taken - 1 ELSE taken

LEMMA BegunGrows ==
  ASSUME TypeOK, CommandInHand, [Next]_vars
  PROVE  /\ Begun \in Nat /\ Begun' \in Nat /\ Begun <= Begun'
         /\ \A a \in 1..Begun : a \in 1..Begun' /\ a \in 1..Len(sent) /\ sent'[a] = sent[a]
         /\ Handled \in Nat /\ Handled <= Begun /\ Begun <= taken
<1>1. pc' = "encode" => pc = "encode" \/ Takes
  <2>1. Aside => (pc' = "encode" => pc \in {"encode", "flush"})
    BY DEF Aside, InCommand
  <2>2. pc = "flush" => pc' # "encode"
    <3>1. CASE Application \/ Environment \/ UNCHANGED vars
      BY <3>1 DEF Application, Begin, Enqueue, Rejected, DropSender, Environment,
         PeerSends, PeerCloses, RequestShutdown, IdleElapses, vars
    <3>2. CASE Task /\ pc = "flush"
      <4>1. FlushCommand \/ Panic
        BY <3>2 DEF Task, OpenedHook, ClosedHook, CheckShutdown, Select, SelectRead,
           SelectCommand, SelectShutdown, SelectIdle, EncodeCommand, Decode,
           InboundStages, Handler, HandlerRuns, HandlerWrites, HandlerFlushes,
           HandlerAbandonsFlush, HandlerCloses, HandlerShares, HandlerReturns,
           HandlerPending, Drain, DrainWrite, DrainFlush, DrainResumes, DrainEnds
      <4>2. QED
        BY <4>1 DEF FlushCommand, Panic, Fail, Leave
    <3>3. QED
      BY <3>1, <3>2 DEF Next
  <2>3. QED
    BY <2>1, <2>2, StepKinds DEF Releasing, Running, Answers, Calls, Begin, Enqueue,
       Rejected
<1>2. TypeOK'
  BY TypeStep
<1>3. /\ taken \in Nat /\ taken' \in Nat
      /\ taken' = taken \/ (taken' = taken + 1 /\ pc = "select")
      /\ pc \in {"encode", "flush"} => taken > 0
  <2>1. taken \in Nat
    BY DEF TypeOK
  <2>2. taken' \in Nat
    <3>1. sent' \in Seq(Command) /\ taken' \in 0..Len(sent')
      BY <1>2 DEF TypeOK
    <3>2. QED
      BY <3>1
  <2>3. taken' = taken \/ (taken' = taken + 1 /\ pc = "select")
    BY TakenStep
  <2>4. pc \in {"encode", "flush"} => taken > 0
    BY DEF CommandInHand
  <2>5. QED
    BY <2>1, <2>2, <2>3, <2>4
<1>4. Begun \in Nat /\ Begun <= taken /\ Handled \in Nat /\ Handled <= Begun
  BY <1>3 DEF Begun, Handled, InCommand
<1>5. Begun' \in Nat /\ Begun <= Begun'
  <2>1. CASE pc' # "encode"
    BY <1>3, <1>4, <2>1 DEF Begun
  <2>2. CASE pc' = "encode" /\ pc = "encode"
    BY <1>3, <1>4, <2>2 DEF Begun
  <2>3. CASE pc' = "encode" /\ Takes
    BY <1>3, <1>4, <2>3 DEF Begun, Takes
  <2>4. QED
    BY <1>1, <2>1, <2>2, <2>3
<1>6. \A a \in 1..Begun : a \in 1..taken /\ a \in 1..Begun'
  BY <1>3, <1>4, <1>5
<1>7. QED
  BY <1>4, <1>5, <1>6, TakenStep

\* A writer's message in Out is one of them.
LEMMA OutFromWriters ==
  ASSUME TypeOK, CommandInHand, BufferShape, WireFrom, NEW i \in 1..Len(Out),
         FromWriter(Out[i])
  PROVE  /\ \E a \in 1..Begun : sent[a].msg = Out[i]
         /\ \/ i \in 1..Len(wire) /\ Out[i] = wire[i]
            \/ /\ i = Len(wire) + 1 /\ pc = "flush" /\ Running
               /\ writeBuf = <<Current.msg>> /\ Out[i] = Current.msg
<1>1. wire \in Seq(Msg) /\ writeBuf \in Seq(Msg) /\ Len(wire) \in Nat
  BY DEF TypeOK
<1>2. taken \in Nat /\ (pc \in {"encode", "flush"} => taken > 0)
  BY DEF TypeOK, CommandInHand
<1>3. \/ i \in 1..Len(wire) /\ Out[i] = wire[i]
      \/ Running /\ i - Len(wire) \in 1..Len(writeBuf) /\ Out[i] = writeBuf[i - Len(wire)]
  BY <1>1, ConcatElements DEF Out
<1>4. CASE i \in 1..Len(wire) /\ Out[i] = wire[i]
  <2>1. wire[i] \in Msg /\ OnWire(wire[i])
    BY <1>1, <1>4 DEF OnWire, Occurs
  <2>2. PICK a \in 1..Handled : sent[a].msg = Out[i]
    BY <1>4, <2>1 DEF WireFrom
  <2>3. a \in 1..Begun
    BY <1>2, <2>2 DEF Begun, Handled, InCommand
  <2>4. QED
    BY <1>4, <2>2, <2>3
<1>5. CASE Running /\ i - Len(wire) \in 1..Len(writeBuf) /\ Out[i] = writeBuf[i - Len(wire)]
  <2>1. writeBuf # <<>> /\ Out[i] \in Msg /\ Occurs(Out[i], writeBuf)
    BY <1>1, <1>5 DEF Occurs
  <2>2. pc = "flush" /\ writeBuf = <<Current.msg>>
    BY <1>5, <2>1 DEF BufferShape
  <2>3. Len(writeBuf) = 1 /\ writeBuf[1] = Current.msg
    BY <2>2
  <2>4. i = Len(wire) + 1 /\ Out[i] = Current.msg
    BY <1>1, <1>5, <2>3
  <2>5. taken \in 1..Begun /\ sent[taken].msg = Out[i]
    BY <1>2, <2>2, <2>4 DEF Begun, Current
  <2>6. QED
    BY <1>5, <2>2, <2>4, <2>5
<1>6. QED
  BY <1>3, <1>4, <1>5

-----------------------------------------------------------------------------
(***************************************************************************)
(* The messages the stages dropped.                                        *)
(***************************************************************************)

\* What a handler staged and the outbox no longer holds is from the frames that
\* came before, or was staged before all that is still in the outbox.
PastMsg(m) ==
  /\ m.src <= frames
  /\ pc = "stages" => m.src < frames
  /\ Invoked /\ m.src = frames =>
       /\ m.n <= staged
       /\ \A j \in 1..Len(outbox) : outbox[j].kind = "Write" => m.n < outbox[j].msg.n

\* What was dropped had been given to the stages.
StoppedFrom ==
  \A m \in stopped : /\ FromWriter(m) => \E a \in 1..Begun : sent[a].msg = m
                     /\ ~FromWriter(m) => PastMsg(m)

\* The steps that drop a message.
LEMMA StopSteps ==
  ASSUME [Next]_vars
  PROVE  \/ stopped' = stopped
         \/ /\ EncodeCommand /\ pc' = "flush" /\ UNCHANGED <<writeBuf, wire>>
            /\ stopped' = stopped \cup {Current.msg}
         \/ /\ DrainWrite /\ pc' = "drain" /\ UNCHANGED <<writeBuf, wire>>
            /\ outbox # <<>> /\ Head(outbox).kind = "Write" /\ outbox' = Tail(outbox)
            /\ stopped' = stopped \cup {Head(outbox).msg}
<1> USE DEF writeVars, HandlerStay
<1>1. CASE Application \/ Environment \/ UNCHANGED vars
  BY <1>1 DEF Application, Begin, Enqueue, Rejected, DropSender, Environment,
     PeerSends, PeerCloses, RequestShutdown, IdleElapses, vars
<1>2. CASE OpenedHook \/ ClosedHook \/ Panic \/ CheckShutdown \/ Select
  BY <1>2 DEF OpenedHook, ClosedHook, Panic, CheckShutdown, Select, SelectRead,
     SelectCommand, SelectShutdown, SelectIdle
<1>3. CASE Decode \/ InboundStages \/ Handler \/ DrainResumes
  BY <1>3 DEF Decode, InboundStages, Handler, HandlerWrites, HandlerFlushes,
     HandlerAbandonsFlush, HandlerCloses, HandlerShares, HandlerReturns,
     HandlerPending, DrainResumes
<1>4. CASE EncodeCommand
  BY <1>4 DEF EncodeCommand, Encoded
<1>5. CASE FlushCommand \/ DrainFlush \/ DrainEnds
  BY <1>5 DEF FlushCommand, DrainFlush, DrainEnds, FinalFlush, FlushOk, FlushFails
<1>6. CASE DrainWrite
  BY <1>6 DEF DrainWrite, Encoded
<1>7. QED
  BY <1>1, <1>2, <1>3, <1>4, <1>5, <1>6 DEF Next, Task, Drain

\* What is past stays past.
LEMMA PastKept ==
  ASSUME TypeOK, [Next]_vars, NEW m \in Msg, ~FromWriter(m), PastMsg(m)
  PROVE  PastMsg(m)'
<1>0. /\ outbox \in Seq(Staged) /\ staged \in Nat /\ frames \in Nat
      /\ m.src \in Nat /\ m.n \in Nat
  BY DEF TypeOK, Msg, Sources, FromWriter
<1>1. CASE UNCHANGED <<outbox, staged, frames>>
  <2>1. pc' = "stages" => pc = "stages"
    BY <1>0, <1>1, InvocationBegins
  <2>2. QED
    BY <1>0, <1>1, <2>1, InvocationBegins DEF PastMsg
<1>2. CASE Decode
  <2>1. UNCHANGED <<outbox, staged, frames>> \/ (frames' = frames + 1 /\ pc' = "stages")
    BY <1>2 DEF Decode, readVars
  <2>2. CASE frames' = frames + 1 /\ pc' = "stages"
    BY <1>0, <2>2 DEF PastMsg, Invoked
  <2>3. QED
    BY <1>1, <2>1, <2>2
<1>3. CASE HandlerWrites
  <2> DEFINE entry == [kind |-> "Write", msg |-> HandlerMsg(staged + 1)]
  <2>1. /\ entry \in Staged /\ entry.msg.n = staged + 1
        /\ outbox' = Append(outbox, entry) /\ staged' = staged + 1
        /\ pc' = "handler" /\ frames' = frames /\ Invoked
    BY <1>0, <1>3, HandlerMsgType DEF HandlerWrites, HandlerRuns, HandlerStay, readVars,
       Push, Staged, HandlerMsg, Invoked
  <2> HIDE DEF entry
  <2>2. /\ Len(outbox') = Len(outbox) + 1 /\ outbox'[Len(outbox) + 1] = entry
        /\ \A j \in 1..Len(outbox) : outbox'[j] = outbox[j]
        /\ \A j \in 1..Len(outbox') : j \in 1..Len(outbox) \/ j = Len(outbox) + 1
    BY <1>0, <2>1
  <2>3. QED
    BY <1>0, <2>1, <2>2 DEF PastMsg
<1>4. CASE HandlerFlushes
  <2> DEFINE entry == [kind |-> "Flush", msg |-> NoMsg]
  <2>1. /\ entry \in Staged /\ entry.kind = "Flush"
        /\ outbox' = Append(outbox, entry) /\ staged' = staged
        /\ pc' = "handler" /\ frames' = frames /\ Invoked
    BY <1>4, Types DEF HandlerFlushes, HandlerRuns, HandlerStay, readVars, Push, Staged,
       Invoked
  <2> HIDE DEF entry
  <2>2. /\ Len(outbox') = Len(outbox) + 1 /\ outbox'[Len(outbox) + 1] = entry
        /\ \A j \in 1..Len(outbox) : outbox'[j] = outbox[j]
        /\ \A j \in 1..Len(outbox') : j \in 1..Len(outbox) \/ j = Len(outbox) + 1
    BY <1>0, <2>1
  <2>3. QED
    BY <1>0, <2>1, <2>2 DEF PastMsg
<1>5. CASE DrainWrite \/ DrainFlush
  <2>1. /\ outbox' = outbox \/ (outbox # <<>> /\ outbox' = Tail(outbox))
        /\ staged' = staged /\ frames' = frames /\ Invoked /\ pc' # "stages"
    BY <1>5 DEF DrainWrite, DrainFlush, readVars, Invoked, Fail, Leave
  <2>2. \A j \in 1..Len(outbox') : \E k \in 1..Len(outbox) : outbox'[j] = outbox[k]
    BY <2>1, TailElements
  <2>3. QED
    BY <2>1, <2>2 DEF PastMsg
<1>6. QED
  BY <1>1, <1>2, <1>3, <1>4, <1>5, OutboxSteps

LEMMA StoppedFromStep ==
  DeliveryInv /\ InvocationOrder /\ StoppedFrom /\ [Next]_vars => StoppedFrom'
<1> SUFFICES ASSUME DeliveryInv, InvocationOrder, StoppedFrom, [Next]_vars,
                    NEW m \in stopped'
             PROVE  /\ FromWriter(m) => \E a \in 1..Begun' : sent'[a].msg = m
                    /\ ~FromWriter(m) => PastMsg(m)'
  BY DEF StoppedFrom, FromWriter
<1>0. TypeOK /\ CommandInHand /\ stopped \subseteq Msg
  BY DEF DeliveryInv, TypeOK
<1>1. CASE m \in stopped
  <2>1. FromWriter(m) => \E a \in 1..Begun : sent[a].msg = m
    BY <1>1 DEF StoppedFrom
  <2>2. QED
    BY <1>0, <1>1, <2>1, BegunGrows, PastKept DEF StoppedFrom
<1>2. CASE EncodeCommand /\ pc' = "flush" /\ m = Current.msg
  <2>1. FromWriter(m) /\ pc = "encode"
    BY <1>2, CurrentFromWriter DEF EncodeCommand, InCommand
  <2>2. taken > 0 /\ taken \in Nat /\ taken' = taken /\ sent' = sent
    BY <1>0, <1>2, <2>1 DEF EncodeCommand, Stay, queueVars, CommandInHand, TypeOK, Fail,
       Leave
  <2>3. taken \in 1..Begun'
    BY <1>2, <2>2 DEF Begun
  <2>4. QED
    BY <1>2, <2>1, <2>2, <2>3 DEF Current
<1>3. CASE /\ DrainWrite /\ pc' = "drain" /\ outbox # <<>> /\ Head(outbox).kind = "Write"
           /\ outbox' = Tail(outbox) /\ m = Head(outbox).msg
  <2>1. /\ Invoked /\ m = outbox[1].msg /\ outbox[1].kind = "Write"
        /\ 1 \in 1..Len(outbox)
        /\ UNCHANGED <<staged, frames>>
    BY <1>0, <1>3, HeadElement DEF DrainWrite, Invoked, readVars
  <2>2. ~FromWriter(m)
    BY <2>1 DEF DeliveryInv, OutboxFrom
  <2>3. /\ m.src = frames /\ m.n <= staged
        /\ \A k \in 1..Len(outbox) : 1 < k /\ outbox[k].kind = "Write" => m.n < outbox[k].msg.n
    BY <2>1 DEF InvocationOrder, OutboxOrder
  <2>4. \A j \in 1..Len(outbox') :
          j + 1 \in 1..Len(outbox) /\ 1 < j + 1 /\ outbox'[j] = outbox[j + 1]
    BY <1>0, <1>3, TailElements
  <2>5. \A j \in 1..Len(outbox') : outbox'[j].kind = "Write" => m.n < outbox'[j].msg.n
    BY <2>3, <2>4
  <2>6. frames \in Nat
    BY <1>0 DEF TypeOK
  <2>7. PastMsg(m)'
    BY <1>3, <2>1, <2>3, <2>5, <2>6 DEF PastMsg
  <2>8. QED
    BY <2>2, <2>7
<1>4. QED
  BY <1>1, <1>2, <1>3, StopSteps

\* A command is given to the stages once,
LEMMA GivenOnce ==
  ASSUME TypeOK, CommandInHand, QueueInv, pc = "encode", NEW a \in 1..Begun
  PROVE  sent[a].msg # Current.msg
<1>1. /\ taken \in Nat /\ taken > 0 /\ taken <= Len(sent) /\ Len(sent) \in Nat
      /\ Begun = taken - 1
  BY DEF TypeOK, CommandInHand, Begun
<1>2. a \in 1..Len(sent) /\ taken \in 1..Len(sent) /\ a # taken
  BY <1>1
<1>3. QED
  BY <1>2, OneCommand DEF Current

\* and so is what a handler staged.
LEMMA StagedOnce ==
  ASSUME TypeOK, OutboxOrder, Invoked, outbox # <<>>, Head(outbox).kind = "Write",
         NEW m \in Msg, PastMsg(m)
  PROVE  m # Head(outbox).msg
<1>1. 1 \in 1..Len(outbox) /\ Head(outbox) = outbox[1]
  BY HeadElement
<1>2. outbox[1].msg.src = frames /\ (m.src = frames => m.n < outbox[1].msg.n)
  BY <1>1 DEF OutboxOrder, PastMsg
<1>3. m.n \in Nat
  BY DEF Msg
<1>4. QED
  BY <1>1, <1>2, <1>3

\* A message in Out has been given to the stages, too.
LEMMA OutIsPast ==
  ASSUME TypeOK, InvocationOrder, NEW i \in 1..Len(Out), ~FromWriter(Out[i])
  PROVE  PastMsg(Out[i])
BY DEF InvocationOrder, FromPast, SentFirst, PastMsg

\* What was dropped is not sent.
Apart == \A m \in stopped : ~Occurs(m, Out)

LEMMA ApartStep ==
  DeliveryInv /\ InvocationOrder /\ StoppedFrom /\ Apart /\ [Next]_vars => Apart'
<1> SUFFICES ASSUME DeliveryInv, InvocationOrder, StoppedFrom, Apart, [Next]_vars,
                    NEW m \in stopped', NEW i \in 1..Len(Out'), Out'[i] = m
             PROVE  FALSE
  BY DEF Apart, Occurs
<1>0. /\ TypeOK /\ CommandInHand /\ HooksInv /\ QueueInv /\ BufferShape /\ WireFrom
      /\ stopped \subseteq Msg /\ OutboxOrder
      /\ Len(Out) \in Nat
  BY OutType DEF DeliveryInv, InvocationOrder, TypeOK
<1>1. CASE m \in stopped
  <2>1. \A h \in 1..Len(Out) : Out[h] # m
    BY <1>1 DEF Apart, Occurs
  <2>2. ~(i \in 1..Len(Out) /\ Out'[i] = Out[i])
    BY <2>1
  <2>3. Out' # Out /\ ~Shorter
    BY <1>0, <2>2 DEF Shorter
  <2>4. \A x : Longer(x) => m = x
    BY <1>0, <2>2 DEF Longer
  <2>5. CASE EncodeCommand /\ Longer(Current.msg)
    <3>1. m = Current.msg /\ pc = "encode" /\ FromWriter(m)
      BY <2>4, <2>5, CurrentFromWriter DEF EncodeCommand, InCommand
    <3>2. PICK a \in 1..Begun : sent[a].msg = m
      BY <1>1, <3>1 DEF StoppedFrom
    <3>3. QED
      BY <1>0, <3>1, <3>2, GivenOnce
  <2>6. CASE DrainWrite /\ outbox # <<>> /\ Head(outbox).kind = "Write"
               /\ Longer(Head(outbox).msg)
    <3>1. m = Head(outbox).msg /\ Invoked /\ ~FromWriter(m)
      BY <1>0, <2>4, <2>6, HeadElement DEF DrainWrite, Invoked, DeliveryInv, OutboxFrom
    <3>2. PastMsg(m) /\ m \in Msg
      BY <1>0, <1>1, <3>1 DEF StoppedFrom
    <3>3. QED
      BY <1>0, <2>6, <3>1, <3>2, StagedOnce
  <2>7. QED
    BY <1>0, <2>3, <2>5, <2>6, OutSteps
<1>2. CASE EncodeCommand /\ pc' = "flush" /\ UNCHANGED <<writeBuf, wire>> /\ m = Current.msg
  <2>1. pc = "encode" /\ FromWriter(m) /\ Out' = Out
    BY <1>2, CurrentFromWriter DEF EncodeCommand, InCommand, Out, Running
  <2>2. PICK a \in 1..Begun : sent[a].msg = m
    BY <1>0, <2>1, OutFromWriters
  <2>3. QED
    BY <1>0, <1>2, <2>1, <2>2, GivenOnce
<1>3. CASE /\ DrainWrite /\ pc' = "drain" /\ UNCHANGED <<writeBuf, wire>>
           /\ outbox # <<>> /\ Head(outbox).kind = "Write" /\ m = Head(outbox).msg
  <2>1. Invoked /\ ~FromWriter(m) /\ Out' = Out
    BY <1>0, <1>3, HeadElement DEF DrainWrite, Invoked, Out, Running, DeliveryInv,
       OutboxFrom
  <2>2. PastMsg(m) /\ m \in Msg
    BY <1>0, <2>1, OutIsPast, OutType
  <2>3. QED
    BY <1>0, <1>3, <2>1, <2>2, StagedOnce
<1>4. QED
  BY <1>1, <1>2, <1>3, StopSteps

-----------------------------------------------------------------------------
(***************************************************************************)
(* The answers.                                                            *)
(***************************************************************************)

\* A writer is told of commands only that the task has dealt with, and never
\* both ways.
ConfirmedFrom ==
  \A m \in confirmed : FromWriter(m) => \E a \in 1..Handled : sent[a].msg = m

AnsweredOnce == denied \cap confirmed = {}

LEMMA ConfirmedFromStep ==
  DeliveryInv /\ ConfirmedFrom /\ [Next]_vars => ConfirmedFrom'
<1> SUFFICES ASSUME DeliveryInv, ConfirmedFrom, [Next]_vars,
                    NEW m \in confirmed', FromWriter(m)
             PROVE  \E a \in 1..Handled' : sent'[a].msg = m
  BY DEF ConfirmedFrom, FromWriter
<1>0. TypeOK /\ HandledGrows
  BY HandledStep DEF DeliveryInv
<1>1. CASE m \in confirmed
  BY <1>0, <1>1 DEF ConfirmedFrom, HandledGrows
<1>2. CASE Answers /\ m \notin confirmed
  <2>1. m = Current.msg
    BY <1>2 DEF Answers, FlushCommand, Fail, Leave
  <2>2. QED
    BY <1>0, <1>2, <2>1 DEF HandledGrows, Current
<1>3. ~(DrainResumes /\ m \notin confirmed)
  <2>1. SUFFICES ASSUME DrainResumes, m \notin confirmed PROVE FALSE
    OBVIOUS
  <2>2. PICK i \in 1..staged : m = HandlerMsg(i)
    BY <2>1 DEF DrainResumes
  <2>3. i \in Nat
    BY <1>0, <2>2 DEF TypeOK
  <2>4. QED
    BY <1>0, <2>2, <2>3, HandlerMsgType
<1>4. QED
  BY <1>0, <1>1, <1>2, <1>3, ConfirmedStep

\* The operation a writer is busy with has not been dealt with.
LEMMA NotYetHandled ==
  ASSUME TypeOK, QueueInv, NEW w \in Writers, NEW a \in 1..Handled,
         writer[w] = "awaiting" \/ writer[w] \in SendKinds
  PROVE  sent[a].msg # Latest(w) /\ FromWriter(Latest(w))
<1>1. Latest(w).src = w /\ Latest(w).n = count[w] /\ count[w] \in Nat
  BY DEF TypeOK, Latest
<1>2. a \in 1..Len(sent) /\ Len(sent) \in Nat /\ Handled \in Int
  BY DEF TypeOK, Handled
<1>3. CASE writer[w] \in SendKinds
  BY <1>1, <1>2, <1>3 DEF QueueInv, Numbered, FromWriter
<1>4. CASE writer[w] = "awaiting"
  <2>1. PICK i \in 1..Len(sent) : i > Handled /\ sent[i].msg = Latest(w)
    BY <1>4 DEF QueueInv, Awaited
  <2>2. a < i
    BY <1>2, <2>1
  <2>3. QED
    BY <1>1, <1>2, <2>1, <2>2 DEF QueueInv, Numbered, FromWriter
<1>5. QED
  BY <1>3, <1>4

LEMMA AnsweredOnceStep ==
  DeliveryInv /\ ConfirmedFrom /\ AnsweredOnce /\ [Next]_vars => AnsweredOnce'
<1> SUFFICES ASSUME DeliveryInv, ConfirmedFrom, AnsweredOnce, [Next]_vars,
                    NEW m \in denied', m \in confirmed'
             PROVE  FALSE
  BY DEF AnsweredOnce
<1>0. TypeOK /\ HooksInv /\ QueueInv /\ DenialsInv
  BY DEF DeliveryInv
<1>1. ~Running'
  <2>1. CASE Running
    <3>1. denied = {} /\ \A w \in Writers : ~Rejected(w)
      BY <1>0, <2>1 DEF DenialsInv, HooksInv, Rejected
    <3>2. QED
      BY <1>0, <3>1, DeniedStep
  <2>2. CASE ~Running
    BY <1>0, <2>2, EndedStep
  <2>3. QED
    BY <2>1, <2>2
<1>2. m \in confirmed
  BY <1>0, <1>1, ConfirmedStep DEF Answers, DrainResumes, Running
<1>3. PICK w \in Writers :
        (writer[w] = "awaiting" \/ writer[w] \in SendKinds) /\ m = Latest(w)
  BY <1>0, <1>2, DeniedStep DEF AnsweredOnce, Release, Awaiting, Rejected
<1>4. FromWriter(m)
  BY <1>0, <1>3 DEF TypeOK, Latest, FromWriter
<1>5. PICK a \in 1..Handled : sent[a].msg = m
  BY <1>2, <1>4 DEF ConfirmedFrom
<1>6. QED
  BY <1>0, <1>3, <1>5, NotYetHandled

-----------------------------------------------------------------------------
(***************************************************************************)
(* What the running task sends is, at any time, a delivery in order of     *)
(* what it accepted.                                                       *)
(***************************************************************************)
RefInv ==
  /\ DeliveryInv /\ WriterPairs /\ InvocationOrder /\ HandlerPairs
  /\ Increasing /\ StoppedFrom /\ Apart /\ ConfirmedFrom /\ AnsweredOnce

LEMMA RefInit == Init => RefInv
<1> SUFFICES ASSUME Init PROVE RefInv
  OBVIOUS
<1>1. DeliveryInv /\ ~Invoked
  BY DeliveryInit DEF Init, Invoked
<1>2. Len(Out) = 0
  <2>1. Out = <<>> \o <<>>
    BY DEF Init, Out, Running
  <2>2. QED
    BY <2>1
<1>3. InvocationOrder /\ HandlerPairs
  BY <1>1, <1>2 DEF InvocationOrder, FromPast, CurrentLast, SentFirst, OutboxOrder,
     HandlerPairs
<1>4. WriterPairs /\ Increasing
  BY DEF Init, WriterPairs, Increasing
<1>5. StoppedFrom /\ Apart /\ ConfirmedFrom /\ AnsweredOnce
  BY DEF Init, StoppedFrom, Apart, ConfirmedFrom, AnsweredOnce
<1>6. QED
  BY <1>1, <1>3, <1>4, <1>5 DEF RefInv

LEMMA RefStep == RefInv /\ [Next]_vars => RefInv'
<1> SUFFICES ASSUME RefInv, [Next]_vars PROVE RefInv'
  OBVIOUS
<1>1. DeliveryInv' /\ WriterPairs' /\ InvocationOrder' /\ HandlerPairs'
  BY DeliveryStep, WriterPairsStep, InvocationOrderStep, HandlerPairsStep DEF RefInv
<1>2. Increasing'
  BY IncreasingStep DEF RefInv, DeliveryInv
<1>3. StoppedFrom' /\ Apart' /\ ConfirmedFrom' /\ AnsweredOnce'
  BY StoppedFromStep, ApartStep, ConfirmedFromStep, AnsweredOnceStep DEF RefInv
<1>4. QED
  BY <1>1, <1>2, <1>3 DEF RefInv

-----------------------------------------------------------------------------
(***************************************************************************)
(* The frame counter.  A command that a stage stops was not stopped before *)
(* (StoppedFrom), so it adds one to both sides.  A failed write leaves     *)
(* part of writeBuf on the wire, so the equation is lost there; the        *)
(* invariant adds that a task that has not ended has no reason yet, and    *)
(* that a graceful reason comes from a state in which the equation held.   *)
(***************************************************************************)
Counted  == framesWritten = Len(wire) + Len(writeBuf) + Cardinality(StoppedCommands)
StatsInv == /\ Running => Counted /\ reason = "none"
            /\ reason \in GracefulReasons => Counted

LEMMA StoppedFinite ==
  ASSUME IsFiniteSet(stopped), [Next]_vars
  PROVE  IsFiniteSet(stopped')
BY StopSteps, FS_AddElement

LEMMA CommandsFinite ==
  ASSUME IsFiniteSet(stopped)
  PROVE  IsFiniteSet(StoppedCommands) /\ Cardinality(StoppedCommands) \in Nat
<1>1. StoppedCommands \subseteq stopped BY DEF StoppedCommands
<1> QED BY <1>1, FS_Subset, FS_CardinalityType

LEMMA StoppedKept ==
  ASSUME UNCHANGED stopped
  PROVE  StoppedCommands' = StoppedCommands
<1>1. \A m : FromWriter(m)' <=> FromWriter(m) BY DEF FromWriter
<1> QED BY <1>1 DEF StoppedCommands

LEMMA FlushBalanced ==
  ASSUME TypeOK, IsFiniteSet(stopped), Counted, FlushOk
  PROVE  Counted'
<1>1. StoppedCommands' = StoppedCommands BY StoppedKept DEF FlushOk
<1>2. Cardinality(StoppedCommands) \in Nat BY CommandsFinite
<1>3. /\ Len(wire') = Len(wire) + Len(writeBuf) /\ Len(writeBuf') = 0
      /\ Len(wire) \in Nat /\ Len(writeBuf) \in Nat /\ framesWritten' = framesWritten
  BY DEF TypeOK, FlushOk
<1> QED BY <1>1, <1>2, <1>3 DEF Counted

LEMMA EncodedBalanced ==
  ASSUME TypeOK, IsFiniteSet(stopped), Counted, NEW m \in Msg, Encoded(m)
  PROVE  Counted'
<1>1. StoppedCommands' = StoppedCommands BY StoppedKept DEF Encoded
<1>2. Cardinality(StoppedCommands) \in Nat BY CommandsFinite
<1>3. /\ Len(writeBuf') = Len(writeBuf) + 1 /\ wire' = wire
      /\ Len(wire) \in Nat /\ Len(writeBuf) \in Nat /\ framesWritten' = framesWritten + 1
  BY DEF TypeOK, Encoded
<1> QED BY <1>1, <1>2, <1>3 DEF Counted

\* A command that a stage stops is counted, and it is another one.
LEMMA StopBalanced ==
  ASSUME RefInv, IsFiniteSet(stopped), Counted, pc = "encode", CommandInHand,
         stopped' = stopped \cup {Current.msg}, framesWritten' = framesWritten + 1,
         UNCHANGED <<wire, writeBuf>>
  PROVE  Counted'
<1>0. TypeOK /\ QueueInv /\ StoppedFrom BY DEF RefInv, DeliveryInv
<1>1. FromWriter(Current.msg)
  BY <1>0, CurrentFromWriter DEF InCommand, RefInv, DeliveryInv
<1>2. Current.msg \notin StoppedCommands
  <2> SUFFICES ASSUME Current.msg \in stopped PROVE FALSE BY DEF StoppedCommands
  <2>1. PICK a \in 1..Begun : sent[a].msg = Current.msg BY <1>0, <1>1 DEF StoppedFrom
  <2> QED BY <1>0, <2>1, GivenOnce
<1>3. StoppedCommands' = StoppedCommands \cup {Current.msg}
  BY <1>1 DEF StoppedCommands, FromWriter
<1>4. /\ Cardinality(StoppedCommands') = Cardinality(StoppedCommands) + 1
      /\ Cardinality(StoppedCommands) \in Nat
  BY <1>2, <1>3, CommandsFinite, FS_AddElement
<1>5. Len(wire) \in Nat /\ Len(writeBuf) \in Nat /\ framesWritten \in Nat
  BY <1>0 DEF TypeOK
<1> QED BY <1>4, <1>5 DEF Counted

\* A message of a handler that a stage stops is not.
LEMMA StopUncounted ==
  ASSUME Counted, NEW m, ~FromWriter(m), stopped' = stopped \cup {m},
         UNCHANGED <<framesWritten, wire, writeBuf>>
  PROVE  Counted'
<1>1. StoppedCommands' = StoppedCommands BY DEF StoppedCommands, FromWriter
<1> QED BY <1>1 DEF Counted

\* A failure is no graceful reason.
LEMMA FailEnds ==
  ASSUME NEW r \in FailureReasons, Fail(r)
  PROVE  StatsInv'
BY DEF Fail, Leave, StatsInv, Running, FailureReasons, GracefulReasons

LEMMA StatsStep ==
  RefInv /\ IsFiniteSet(stopped) /\ StatsInv /\ [Next]_vars => StatsInv'
<1> SUFFICES ASSUME RefInv, IsFiniteSet(stopped), StatsInv, [Next]_vars
             PROVE  StatsInv'
  OBVIOUS
<1>0. TypeOK /\ CommandInHand
  BY DEF RefInv, DeliveryInv
<1>1. ASSUME UNCHANGED writeVars, UNCHANGED reason, Running' => Running
      PROVE  StatsInv'
  BY <1>1, StoppedKept DEF StatsInv, Counted, writeVars
<1>2. ASSUME Running, UNCHANGED writeVars, ~Running' \/ reason' = reason
      PROVE  StatsInv'
  BY <1>2, StoppedKept DEF StatsInv, Counted, writeVars
<1>3. CASE Application \/ Environment \/ UNCHANGED vars
  <2>1. UNCHANGED <<pc, writeVars, reason>>
    BY <1>3 DEF Application, Begin, Enqueue, Rejected, DropSender, Environment,
                PeerSends, PeerCloses, RequestShutdown, IdleElapses, vars,
                lifeVars
  <2>2. QED
    BY <2>1, <1>1 DEF Running
<1>4. CASE ClosedHook \/ Panic
  <2>1. UNCHANGED <<writeVars, reason>> /\ ~Running'
    BY <1>4 DEF ClosedHook, Panic, Running
  <2>2. QED
    BY <2>1, <1>1
<1>5. CASE OpenedHook \/ CheckShutdown \/ SelectShutdown \/ SelectIdle
  <2>1. Running /\ UNCHANGED writeVars /\ (~Running' \/ reason' = reason)
    BY <1>5 DEF OpenedHook, OpenRefused, CheckShutdown, SelectShutdown,
                SelectIdle, Running, Exit, Leave, Stay, lifeVars
  <2>2. QED
    BY <2>1, <1>2
<1>6. CASE SelectRead \/ SelectCommand
  <2>1. Running /\ UNCHANGED writeVars /\ (~Running' \/ reason' = reason)
    BY <1>6 DEF SelectRead, PeerEof, SelectCommand, Running, Exit, Fail, Leave,
                Stay, lifeVars
  <2>2. QED
    BY <2>1, <1>2
<1>7. CASE Decode \/ InboundStages
  <2>1. Running /\ UNCHANGED writeVars /\ (~Running' \/ reason' = reason)
    BY <1>7 DEF Decode, InboundStages, AfterHandled, Running, Exit, Fail, Leave,
                Stay, lifeVars
  <2>2. QED
    BY <2>1, <1>2
<1>8. CASE Handler
  <2>1. Running /\ UNCHANGED <<writeVars, reason>>
    BY <1>8 DEF Handler, HandlerWrites, HandlerFlushes, HandlerAbandonsFlush,
                HandlerCloses, HandlerReturns, HandlerPending, HandlerShares, HandlerRuns,
                HandlerStay, Running, lifeVars
  <2>2. QED
    BY <2>1, <1>2
<1>9. CASE EncodeCommand
  <2>1. Current.msg \in Msg /\ Counted /\ reason = "none" /\ pc = "encode"
    BY <1>0, <1>9, CurrentType DEF EncodeCommand, CommandInHand, StatsInv, Running
  <2>2. CASE Encoded(Current.msg) /\ Stay
    BY <1>0, <2>1, <2>2, EncodedBalanced DEF StatsInv, Stay, lifeVars, GracefulReasons
  <2>3. ASSUME NEW e \in ErrKinds, Fail(outbound_failure(e))
        PROVE  StatsInv'
    BY <2>3, ErrReasons, FailEnds
  <2>4. CASE /\ stopped' = stopped \cup {Current.msg} /\ framesWritten' = framesWritten + 1
             /\ Stay /\ UNCHANGED <<wire, writeBuf>>
    BY <1>0, <2>1, <2>4, StopBalanced DEF StatsInv, Stay, lifeVars, GracefulReasons
  <2>5. QED
    BY <1>9, <2>2, <2>3, <2>4 DEF EncodeCommand
<1>10. CASE DrainWrite
  <2>1. Head(outbox).msg \in Msg /\ Counted /\ reason = "none"
    BY <1>0, <1>10, OutboxType DEF DrainWrite, StatsInv, Running
  <2>2. CASE Encoded(Head(outbox).msg) /\ Stay
    BY <1>0, <2>1, <2>2, EncodedBalanced DEF StatsInv, Stay, lifeVars, GracefulReasons
  <2>3. ASSUME NEW e \in ErrKinds, Fail(handler_failure(e))
        PROVE  StatsInv'
    BY <2>3, ErrReasons, FailEnds
  <2>4. CASE /\ stopped' = stopped \cup {Head(outbox).msg} /\ Stay
             /\ UNCHANGED <<writeBuf, wire, framesWritten>>
    <3>1. Head(outbox) = outbox[1] /\ 1 \in 1..Len(outbox) /\ outbox[1].kind = "Write"
      BY <1>0, <1>10, HeadElement DEF DrainWrite
    <3>2. ~FromWriter(Head(outbox).msg)
      BY <1>10, <3>1 DEF DrainWrite, RefInv, DeliveryInv, OutboxFrom, Invoked
    <3>3. QED
      BY <2>1, <2>4, <3>2, StopUncounted DEF StatsInv, Stay, lifeVars, GracefulReasons
  <2>5. QED
    BY <1>10, <2>2, <2>3, <2>4 DEF DrainWrite
<1>11. CASE FlushCommand
  <2>1. Counted /\ reason = "none"
    BY <1>11 DEF FlushCommand, StatsInv, Running
  <2>2. CASE FlushOk /\ UNCHANGED lifeVars
    BY <1>0, <2>1, <2>2, FlushBalanced DEF StatsInv, lifeVars, GracefulReasons
  <2>3. CASE Fail("IoError")
    BY <2>3, FailEnds DEF FailureReasons
  <2>4. QED
    BY <1>11, <2>2, <2>3 DEF FlushCommand
<1>12. CASE DrainFlush
  <2>1. Counted /\ reason = "none" /\ "Io" \in ErrKinds
    BY <1>12 DEF DrainFlush, StatsInv, Running, ErrKinds
  <2>2. CASE FlushOk /\ Stay
    BY <1>0, <2>1, <2>2, FlushBalanced DEF StatsInv, Stay, lifeVars, GracefulReasons
  <2>3. CASE Fail(handler_failure("Io"))
    BY <2>1, <2>3, ErrReasons, FailEnds
  <2>4. QED
    BY <1>12, <2>2, <2>3 DEF DrainFlush
<1>13. CASE DrainResumes
  <2>1. Running /\ UNCHANGED <<writeVars, reason>>
    BY <1>13 DEF DrainResumes, Running, lifeVars
  <2>2. QED
    BY <2>1, <1>2
<1>14. CASE DrainEnds
  <2>1. Counted /\ reason = "none" /\ "Io" \in ErrKinds
    BY <1>14 DEF DrainEnds, StatsInv, Running, ErrKinds
  <2>2. CASE FlushOk /\ AfterHandled
    <3>1. ~Running' \/ reason' = reason
      BY <2>2 DEF AfterHandled, Exit, Leave, Running, Stay, lifeVars
    <3>2. QED
      BY <1>0, <2>1, <2>2, <3>1, FlushBalanced DEF StatsInv
  <2>3. CASE Fail(handler_failure("Io"))
    BY <2>1, <2>3, ErrReasons, FailEnds
  <2>4. CASE result # "Ok" /\ Fail(handler_failure(result))
    <3>1. result \in ErrKinds
      BY <1>0, <1>14, <2>4 DEF DrainEnds, TypeOK
    <3>2. QED
      BY <2>4, <3>1, ErrReasons, FailEnds
  <2>5. QED
    BY <1>14, <2>2, <2>3, <2>4 DEF DrainEnds, FinalFlush
<1>15. QED
  BY <1>3, <1>4, <1>5, <1>6, <1>7, <1>8, <1>9, <1>10, <1>11, <1>12, <1>13, <1>14
  DEF Next, Task, Select, Drain

\* frames_written counts, whatever the stages stop, the frames encoded and the
\* commands an outbound stage stopped.
THEOREM StatsCorrect == Spec => []StatsAgree
<1>1. Init => RefInv /\ IsFiniteSet(stopped) /\ StatsInv
  <2> SUFFICES ASSUME Init PROVE IsFiniteSet(stopped) /\ StatsInv
    BY RefInit
  <2>1. stopped = {} BY DEF Init
  <2>2. StoppedCommands = {} BY <2>1 DEF StoppedCommands
  <2>3. Len(wire) = 0 /\ Len(writeBuf) = 0 /\ framesWritten = 0 BY DEF Init
  <2> QED BY <2>1, <2>2, <2>3, FS_EmptySet DEF Init, StatsInv, Running, Counted, GracefulReasons
<1>2. RefInv /\ IsFiniteSet(stopped) /\ StatsInv /\ [Next]_vars
        => (RefInv /\ IsFiniteSet(stopped) /\ StatsInv)'
  <2> SUFFICES ASSUME RefInv, IsFiniteSet(stopped), StatsInv, [Next]_vars
               PROVE  RefInv' /\ IsFiniteSet(stopped)' /\ StatsInv'
    OBVIOUS
  <2> QED BY RefStep, StoppedFinite, StatsStep
<1>3. StatsInv => StatsAgree
  BY DEF StatsInv, StatsAgree, Running, Counted
<1>4. QED
  BY <1>1, <1>2, <1>3, PTL DEF Spec

-----------------------------------------------------------------------------
(***************************************************************************)
(* The messages in Out, and what the connection accepted.                  *)
(***************************************************************************)

\* Two messages of one source keep the order of their numbers.
LEMMA OutPairs ==
  ASSUME RefInv, NEW i \in 1..Len(Out), NEW j \in 1..Len(Out), i < j,
         Out[i].src = Out[j].src
  PROVE  Out[i].n < Out[j].n
<1>0. /\ TypeOK /\ CommandInHand /\ QueueInv /\ BufferShape /\ WireFrom /\ Increasing
      /\ wire \in Seq(Msg) /\ Len(wire) \in Nat /\ sent \in Seq(Command)
      /\ taken \in 0..Len(sent) /\ Len(sent) \in Nat /\ Len(Out) \in Nat
  BY OutType DEF RefInv, DeliveryInv, TypeOK
<1>1. CASE ~FromWriter(Out[i])
  <2>1. /\ ~FromWriter(Out[j]) /\ Out[i].src \in Nat
    BY <1>0, <1>1, OutType DEF FromWriter
  <2>2. QED
    BY <1>1, <2>1 DEF RefInv, HandlerPairs
<1>2. CASE FromWriter(Out[i])
  <2>1. FromWriter(Out[j])
    BY <1>2 DEF FromWriter
  <2>2. \E a, b \in 1..Len(sent) : a < b /\ sent[a].msg = Out[i] /\ sent[b].msg = Out[j]
    <3>1. CASE j \in 1..Len(wire) /\ Out[j] = wire[j]
      <4>1. i \in 1..Len(wire)
        BY <1>0, <3>1
      <4>2. i # Len(wire) + 1
        BY <1>0, <4>1
      <4>3. Out[i] = wire[i]
        BY <1>0, <1>2, <4>2, OutFromWriters
      <4>4. PICK a \in 1..Handled, b \in 1..Handled :
              a < b /\ sent[a].msg = wire[i] /\ sent[b].msg = wire[j]
        BY <1>2, <2>1, <3>1, <4>1, <4>3 DEF RefInv, WriterPairs
      <4>5. a \in 1..Len(sent) /\ b \in 1..Len(sent)
        BY <1>0, <4>4 DEF Handled
      <4>6. QED
        BY <3>1, <4>3, <4>4, <4>5
    <3>2. CASE j = Len(wire) + 1 /\ pc = "flush" /\ Out[j] = Current.msg
      <4>1. i \in 1..Len(wire) /\ i # Len(wire) + 1
        BY <1>0, <3>2
      <4>2. Out[i] = wire[i]
        BY <1>0, <1>2, <4>1, OutFromWriters
      <4>3. OnWire(Out[i]) /\ Out[i] \in Msg
        BY <1>0, <4>1, <4>2 DEF OnWire, Occurs
      <4>4. PICK a \in 1..Handled : sent[a].msg = Out[i]
        BY <1>0, <1>2, <4>3 DEF WireFrom
      <4>5. taken > 0 /\ Handled = taken - 1
        BY <1>0, <3>2 DEF CommandInHand, Handled, InCommand
      <4>6. a \in 1..Len(sent) /\ taken \in 1..Len(sent) /\ a < taken
        BY <1>0, <4>4, <4>5
      <4>7. QED
        BY <3>2, <4>4, <4>6 DEF Current
    <3>3. QED
      BY <1>0, <2>1, <3>1, <3>2, OutFromWriters
  <2>3. QED
    BY <1>0, <2>2 DEF Increasing
<1>3. QED
  BY <1>1, <1>2

\* The parts of Accepted.
InQueue(m) == \E a \in 1..Len(sent) : sent[a].kind # "Close" /\ sent[a].msg = m

LEMMA AcceptedParts ==
  ASSUME NEW m
  PROVE  /\ m \in Accepted <=> \/ InQueue(m) \/ Queued(m) \/ Occurs(m, writeBuf)
                               \/ Occurs(m, wire) \/ m \in stopped
         /\ m \in Accepted' <=> \/ InQueue(m)' \/ Queued(m)' \/ Occurs(m, writeBuf')
                                \/ Occurs(m, wire') \/ m \in stopped'
BY DEF Accepted, InQueue, Queued, Occurs

LEMMA OutHas ==
  ASSUME TypeOK, Running, NEW m
  PROVE  Occurs(m, Out) <=> Occurs(m, wire) \/ Occurs(m, writeBuf)
BY ConcatOccurs DEF TypeOK, Out

\* Nothing that is still under way comes before what is sent.
LEMMA NoGap ==
  ASSUME RefInv, Running, NEW i \in 1..Len(Out), NEW m \in Accepted \ stopped,
         m.src = Out[i].src, m.n < Out[i].n
  PROVE  Occurs(m, Out)
<1>0. /\ TypeOK /\ CommandInHand /\ QueueInv /\ BufferShape /\ WireFrom /\ Increasing
      /\ CommandsKept /\ StagedKept /\ OutboxFrom /\ OutboxOrder /\ SentFirst
      /\ taken \in 0..Len(sent) /\ Len(sent) \in Nat /\ Begun \in Int /\ Begun <= taken
  BY DEF RefInv, DeliveryInv, InvocationOrder, TypeOK, Begun
<1>1. CASE InQueue(m)
  <2>1. PICK a \in 1..Len(sent) : sent[a].msg = m
    BY <1>1 DEF InQueue
  <2>2. FromWriter(Out[i])
    BY <1>0, <2>1 DEF QueueInv, Numbered, FromWriter
  <2>3. PICK b \in 1..Begun : sent[b].msg = Out[i]
    BY <1>0, <2>2, OutFromWriters
  <2>4. b \in 1..Len(sent) /\ b <= taken /\ a \in Int
    BY <1>0, <2>3
  <2>5. /\ sent[a].msg.n \in Nat /\ sent[b].msg.n \in Nat
    BY <1>0, <2>4, SentElement
  <2>6. ~(b < a) /\ a # b
    <3>1. /\ sent[a].msg.src = sent[b].msg.src
          /\ sent[a].msg.n < sent[b].msg.n
      BY <2>1, <2>3
    <3>2. a # b
      BY <2>5, <3>1
    <3>3. ASSUME b < a
          PROVE  FALSE
      <4>1. sent[b].msg.n < sent[a].msg.n
        BY <1>0, <2>4, <3>1, <3>3 DEF Increasing
      <4>2. QED
        BY <2>5, <3>1, <4>1
    <3>4. QED
      BY <3>2, <3>3
  <2>7. a \in 1..(taken - 1)
    <3>1. a \in Int /\ 1 <= a /\ b \in Int /\ b <= taken /\ taken \in Int
      BY <1>0, <2>4
    <3>2. a < b
      BY <2>6, <3>1
    <3>3. QED
      BY ONLY <3>1, <3>2
  <2>8. OnWire(m)
    BY <1>0, <2>1, <2>7 DEF CommandsKept, Settled
  <2>9. QED
    BY <1>0, <2>8, OutHas DEF OnWire
<1>2. ~Queued(m)
  <2>1. SUFFICES ASSUME NEW j \in 1..Len(outbox), outbox[j].kind = "Write",
                        outbox[j].msg = m
                 PROVE  FALSE
    BY DEF Queued
  <2>2. Invoked
    <3>1. outbox # <<>>
      BY <2>1
    <3>2. QED
      BY <1>0, <3>1 DEF StagedKept, Good
  <2>3. m.src = frames
    BY <1>0, <2>1, <2>2 DEF OutboxOrder
  <2>4. Out[i].n < m.n
    BY <1>0, <2>1, <2>2, <2>3 DEF SentFirst
  <2>5. m.n \in Nat /\ Out[i].n \in Nat
    <3>1. outbox[j] \in Staged
      BY <1>0, <2>1 DEF TypeOK
    <3>2. m.n \in Nat
      BY <2>1, <3>1 DEF Staged, Msg
    <3>3. Out[i].n \in Nat
      BY <1>0, OutType
    <3>4. QED
      BY <3>2, <3>3
  <2>6. QED
    BY <2>4, <2>5
<1>3. QED
  BY <1>0, <1>1, <1>2, AcceptedParts, OutHas

LEMMA OutInOrder ==
  ASSUME RefInv, Running
  PROVE  Outbound!InOrder(Out)
<1>0. TypeOK /\ Apart /\ Len(Out) \in Nat
        /\ \A i \in 1..Len(Out) : Out[i] \in Msg /\ Out[i].n \in Nat
  BY OutType DEF RefInv, DeliveryInv
<1>1. \A i \in 1..Len(Out) : Out[i] \in Accepted \ stopped
  <2>1. \A i \in 1..Len(Out) : Occurs(Out[i], Out)
    BY DEF Occurs
  <2>2. QED
    BY <1>0, <2>1, AcceptedParts, OutHas DEF Apart
<1>2. ASSUME NEW i \in 1..Len(Out), NEW j \in 1..Len(Out), i # j
      PROVE  Out[i] # Out[j]
  <2>1. i < j \/ j < i
    BY <1>2
  <2>2. QED
    BY <1>0, <2>1, OutPairs
<1>3. ASSUME NEW i \in 1..Len(Out), NEW m \in Accepted \ stopped,
             m.src = Out[i].src, m.n < Out[i].n
      PROVE  \E j \in 1..(i - 1) : Out[j] = m
  <2>1. PICK j \in 1..Len(Out) : Out[j] = m
    BY <1>3, NoGap DEF Occurs
  <2>2. j # i /\ ~(i < j)
    BY <1>0, <1>3, <2>1, OutPairs
  <2>3. j \in 1..(i - 1)
    BY <1>0, <2>2
  <2>4. QED
    BY <2>1, <2>3
<1>4. QED
  BY <1>1, <1>2, <1>3 DEF Outbound!InOrder, Outbound!Delivered

-----------------------------------------------------------------------------
(***************************************************************************)
(* What is accepted.                                                       *)
(***************************************************************************)
LEMMA FlushParts ==
  ASSUME TypeOK, FlushOk \/ FlushFails, NEW m
  PROVE  Occurs(m, writeBuf') \/ Occurs(m, wire') <=> Occurs(m, writeBuf) \/ Occurs(m, wire)
<1>0. writeBuf \in Seq(Msg) /\ wire \in Seq(Msg) /\ ~Occurs(m, <<>>)
  BY DEF TypeOK, Occurs
<1>1. CASE FlushOk
  BY <1>0, <1>1, ConcatOccurs DEF FlushOk
<1>2. CASE FlushFails
  <2>1. PICK k \in 0..(Len(writeBuf) - 1) : wire' = wire \o SubSeq(writeBuf, 1, k)
    BY <1>2 DEF FlushFails
  <2>2. k \in 0..Len(writeBuf) /\ SubSeq(writeBuf, 1, k) \in Seq(Msg)
    BY <1>0, <2>1
  <2>3. Occurs(m, SubSeq(writeBuf, 1, k)) => Occurs(m, writeBuf)
    BY <1>0, <2>2, PrefixOccurs
  <2>4. Occurs(m, wire') <=> Occurs(m, wire) \/ Occurs(m, SubSeq(writeBuf, 1, k))
    BY <1>0, <2>1, <2>2, ConcatOccurs
  <2>5. writeBuf' = writeBuf
    BY <1>2 DEF FlushFails
  <2>6. QED
    BY <2>3, <2>4, <2>5
<1>3. QED
  BY <1>1, <1>2

LEMMA EncodedParts ==
  ASSUME TypeOK, NEW x \in Msg, Encoded(x), NEW m
  PROVE  /\ Occurs(m, writeBuf') <=> Occurs(m, writeBuf) \/ m = x
         /\ Occurs(m, wire') <=> Occurs(m, wire)
         /\ stopped' = stopped
BY AppendOccurs DEF TypeOK, Encoded

\* The outbox loses its first entry, or gets one more.
LEMMA TailQueued ==
  ASSUME TypeOK, outbox # <<>>, outbox' = Tail(outbox), NEW m
  PROVE  Queued(m) <=> Queued(m)' \/ (Head(outbox).kind = "Write" /\ m = Head(outbox).msg)
<1>1. outbox \in Seq(Staged) /\ Len(outbox) \in Nat
  BY DEF TypeOK
<1>2. Len(outbox') = Len(outbox) - 1 /\ Head(outbox) = outbox[1] /\ 1 \in 1..Len(outbox)
  BY <1>1, HeadElement
<1>3. \A j \in 1..Len(outbox') : j + 1 \in 1..Len(outbox) /\ outbox'[j] = outbox[j + 1]
  BY TailElements
<1>4. \A j \in 1..Len(outbox) : j = 1 \/ (j - 1 \in 1..Len(outbox') /\ (j - 1) + 1 = j)
  BY <1>1, <1>2
<1>5. \A j \in 1..Len(outbox) : j = 1 \/ (j - 1 \in 1..Len(outbox') /\ outbox'[j - 1] = outbox[j])
  BY <1>3, <1>4
<1>6. Queued(m) => Queued(m)' \/ (Head(outbox).kind = "Write" /\ m = Head(outbox).msg)
  BY <1>2, <1>5 DEF Queued
<1>7. Queued(m)' \/ (Head(outbox).kind = "Write" /\ m = Head(outbox).msg) => Queued(m)
  BY <1>2, <1>3 DEF Queued
<1>8. QED
  BY <1>6, <1>7

LEMMA PushQueued ==
  ASSUME TypeOK, NEW entry \in Staged, outbox' = Append(outbox, entry), NEW m
  PROVE  Queued(m)' <=> Queued(m) \/ (entry.kind = "Write" /\ m = entry.msg)
<1>1. /\ Len(outbox') = Len(outbox) + 1 /\ outbox'[Len(outbox) + 1] = entry
      /\ \A j \in 1..Len(outbox) : outbox'[j] = outbox[j] /\ j \in 1..Len(outbox')
      /\ \A j \in 1..Len(outbox') : j \in 1..Len(outbox) \/ j = Len(outbox) + 1
      /\ Len(outbox) + 1 \in 1..Len(outbox')
  BY DEF TypeOK
<1>2. QED
  BY <1>1 DEF Queued

LEMMA SentAccepted ==
  ASSUME TypeOK, NEW entry \in Command, sent' = Append(sent, entry), NEW m
  PROVE  InQueue(m)' <=> InQueue(m) \/ (entry.kind # "Close" /\ m = entry.msg)
<1>1. /\ Len(sent') = Len(sent) + 1 /\ sent'[Len(sent) + 1] = entry
      /\ \A j \in 1..Len(sent) : sent'[j] = sent[j] /\ j \in 1..Len(sent')
      /\ \A j \in 1..Len(sent') : j \in 1..Len(sent) \/ j = Len(sent) + 1
      /\ Len(sent) + 1 \in 1..Len(sent')
  BY DEF TypeOK
<1>2. QED
  BY <1>1 DEF InQueue

\* What a running task accepts in a step: a command that the queue takes, or what
\* a handler writes.  Everything else moves messages on.
LEMMA AcceptedSteps ==
  ASSUME RefInv, [Next]_vars
  PROVE  \/ Accepted' = Accepted
         \/ \E w \in Writers : /\ Enqueue(w)
                               /\ Accepted' = Accepted \cup {Latest(w)}
         \/ /\ HandlerWrites
            /\ Accepted' = Accepted \cup {HandlerMsg(staged + 1)}
<1>0. /\ TypeOK /\ CommandInHand /\ HooksInv
      /\ \A m : (InQueue(m)' <=> InQueue(m)) /\ (Queued(m)' <=> Queued(m))
                /\ (Occurs(m, writeBuf') \/ Occurs(m, wire') \/ m \in stopped'
                      <=> Occurs(m, writeBuf) \/ Occurs(m, wire) \/ m \in stopped)
              => (m \in Accepted' <=> m \in Accepted)
  BY AcceptedParts DEF RefInv, DeliveryInv
<1>1. sent' = sent => \A m : InQueue(m)' <=> InQueue(m)
  BY DEF InQueue
<1>2. outbox' = outbox => \A m : Queued(m)' <=> Queued(m)
  BY DEF Queued
<1>3. UNCHANGED <<writeBuf, wire, stopped>> =>
        \A m : Occurs(m, writeBuf') \/ Occurs(m, wire') \/ m \in stopped'
                 <=> Occurs(m, writeBuf) \/ Occurs(m, wire) \/ m \in stopped
  OBVIOUS
<1>4. ASSUME NEW w \in Writers, Enqueue(w)
      PROVE  Accepted' = Accepted \/ Accepted' = Accepted \cup {Latest(w)}
  <2> DEFINE new == [kind |-> writer[w], msg |-> Latest(w)]
  <2>1. /\ new \in Command /\ new.msg = Latest(w) /\ sent' = Append(sent, new)
        /\ UNCHANGED <<outbox, writeBuf, wire, stopped>>
    BY <1>0, <1>4 DEF Enqueue, TypeOK, Command, Msg, Sources, Latest, handlerVars, writeVars
  <2> HIDE DEF new
  <2>2. \A m : InQueue(m)' <=> InQueue(m) \/ (new.kind # "Close" /\ m = Latest(w))
    BY <1>0, <2>1, SentAccepted
  <2>3. CASE new.kind = "Close"
    <3>1. \A m : m \in Accepted' <=> m \in Accepted
      BY <1>0, <1>2, <1>3, <2>1, <2>2, <2>3
    <3>2. QED
      BY <3>1
  <2>4. CASE new.kind # "Close"
    <3>1. \A m : m \in Accepted' <=> m \in Accepted \/ m = Latest(w)
      BY <1>2, <1>3, <2>1, <2>2, <2>4, AcceptedParts
    <3>2. QED
      BY <3>1
  <2>5. QED
    BY <2>3, <2>4
<1>5. CASE HandlerWrites
  <2> DEFINE entry == [kind |-> "Write", msg |-> HandlerMsg(staged + 1)]
  <2>1. /\ entry \in Staged /\ entry.kind = "Write" /\ entry.msg = HandlerMsg(staged + 1)
        /\ outbox' = Append(outbox, entry) /\ UNCHANGED <<sent, writeBuf, wire, stopped>>
    BY <1>0, <1>5, HandlerMsgType DEF HandlerWrites, HandlerStay, queueVars, writeVars,
       Push, Staged, TypeOK
  <2> HIDE DEF entry
  <2>2. \A m : Queued(m)' <=> Queued(m) \/ m = HandlerMsg(staged + 1)
    BY <1>0, <2>1, PushQueued
  <2>3. \A m : m \in Accepted' <=> m \in Accepted \/ m = HandlerMsg(staged + 1)
    BY <1>1, <1>3, <2>1, <2>2, AcceptedParts
  <2>4. QED
    BY <1>5, <2>3
<1>6. CASE HandlerFlushes
  <2> DEFINE entry == [kind |-> "Flush", msg |-> NoMsg]
  <2>1. /\ entry \in Staged /\ entry.kind = "Flush"
        /\ outbox' = Append(outbox, entry) /\ UNCHANGED <<sent, writeBuf, wire, stopped>>
    BY <1>6, Types DEF HandlerFlushes, HandlerStay, queueVars, writeVars, Push, Staged
  <2> HIDE DEF entry
  <2>2. \A m : Queued(m)' <=> Queued(m)
    BY <1>0, <2>1, PushQueued
  <2>3. \A m : m \in Accepted' <=> m \in Accepted
    BY <1>0, <1>1, <1>3, <2>1, <2>2
  <2>4. QED
    BY <2>3
<1>7. CASE EncodeCommand
  <2>1. UNCHANGED <<sent, outbox>>
    BY <1>7 DEF EncodeCommand, Stay, queueVars, handlerVars, Fail, Leave, Release
  <2>2. InQueue(Current.msg) /\ Current.msg \in Msg
    <3>1. taken \in 1..Len(sent) /\ Running
      BY <1>0, <1>7 DEF EncodeCommand, CommandInHand, TypeOK, Running
    <3>2. Current.kind # "Close"
      BY <3>1 DEF RefInv, DeliveryInv, CommandsKept
    <3>3. QED
      BY <1>0, <3>1, <3>2, CurrentType DEF InQueue, Current
  <2>3. \/ UNCHANGED <<writeBuf, wire, stopped>>
        \/ Encoded(Current.msg)
        \/ UNCHANGED <<writeBuf, wire>> /\ stopped' = stopped \cup {Current.msg}
    BY <1>7 DEF EncodeCommand, writeVars
  <2>4. \A m : Occurs(m, writeBuf') \/ Occurs(m, wire') \/ m \in stopped' \/ m = Current.msg
                 <=> Occurs(m, writeBuf) \/ Occurs(m, wire) \/ m \in stopped
                       \/ m = Current.msg
    BY <1>0, <2>2, <2>3, EncodedParts
  <2>5. \A m : m \in Accepted' <=> m \in Accepted
    BY <1>1, <1>2, <2>1, <2>2, <2>4, AcceptedParts
  <2>6. QED
    BY <2>5
<1>8. CASE DrainWrite /\ outbox' # outbox
  <2> DEFINE h == Head(outbox).msg
  <2>1. /\ outbox # <<>> /\ Head(outbox).kind = "Write" /\ outbox' = Tail(outbox)
        /\ sent' = sent
    BY <1>8 DEF DrainWrite, Stay, queueVars, Fail, Leave, Release
  <2>2. h \in Msg
    BY <1>0, <2>1, OutboxType
  <2>3. Encoded(h) \/ (UNCHANGED <<writeBuf, wire>> /\ stopped' = stopped \cup {h})
    BY <1>8 DEF DrainWrite
  <2>4. \A m : Queued(m) <=> Queued(m)' \/ m = h
    BY <1>0, <2>1, TailQueued
  <2> HIDE DEF h
  <2>5. \A m : Occurs(m, writeBuf') \/ Occurs(m, wire') \/ m \in stopped'
                 <=> Occurs(m, writeBuf) \/ Occurs(m, wire) \/ m \in stopped \/ m = h
    BY <1>0, <2>2, <2>3, EncodedParts
  <2>6. \A m : m \in Accepted' <=> m \in Accepted
    BY <1>1, <2>1, <2>4, <2>5, AcceptedParts
  <2>7. QED
    BY <2>6
<1>9. ASSUME sent' = sent, stopped' = stopped,
             UNCHANGED <<writeBuf, wire>> \/ FlushOk \/ FlushFails,
             \A m : Queued(m)' <=> Queued(m)
      PROVE  Accepted' = Accepted
  <2>1. \A m : m \in Accepted' <=> m \in Accepted
    BY <1>0, <1>1, <1>9, FlushParts
  <2>2. QED
    BY <2>1
<1>10. CASE DrainFlush
  <2>1. /\ outbox # <<>> /\ Head(outbox).kind = "Flush" /\ sent' = sent /\ stopped' = stopped
        /\ outbox' = outbox \/ outbox' = Tail(outbox)
        /\ FlushOk \/ FlushFails
    BY <1>10 DEF DrainFlush, Stay, queueVars, Fail, Leave, Release, FlushOk, FlushFails
  <2>2. \A m : Queued(m)' <=> Queued(m)
    BY <1>0, <1>2, <2>1, TailQueued
  <2>3. QED
    BY <1>9, <2>1, <2>2
<1>11. CASE DrainWrite /\ outbox' = outbox
  <2>1. outbox # <<>> => Tail(outbox) # outbox
    <3>1. outbox # <<>> => Len(outbox) \in Nat /\ Len(Tail(outbox)) = Len(outbox) - 1
      BY <1>0 DEF TypeOK
    <3>2. QED
      BY <3>1
  <2>2. UNCHANGED <<writeBuf, wire, stopped, sent>>
    BY <1>11, <2>1 DEF DrainWrite, Fail, Leave, Release, writeVars
  <2>3. QED
    BY <1>2, <1>9, <1>11, <2>2
<1>12. CASE outbox' = outbox /\ sent' = sent /\ ~EncodeCommand /\ ~DrainWrite
  <2>1. stopped' = stopped /\ (UNCHANGED <<writeBuf, wire>> \/ FlushOk \/ FlushFails)
    BY <1>0, <1>12, StopSteps, WriteSteps
  <2>2. QED
    BY <1>2, <1>9, <1>12, <2>1
<1>13. QED
  BY <1>0, <1>4, <1>5, <1>6, <1>7, <1>8, <1>10, <1>11, <1>12, SentGrows, OutboxSteps

-----------------------------------------------------------------------------
(***************************************************************************)
(* The steps of the connection as steps of OutboundStream.                 *)
(***************************************************************************)
LEMMA PrefixInOrder ==
  ASSUME NEW s \in Seq(Msg), NEW t \in Seq(Msg), Outbound!InOrder(t), Len(s) <= Len(t),
         \A i \in 1..Len(s) : s[i] = t[i]
  PROVE  Outbound!InOrder(s)
<1>1. \A i \in 1..Len(s) : i \in 1..Len(t) /\ \A j \in 1..(i - 1) : j \in 1..Len(s)
  OBVIOUS
<1>2. /\ \A i \in 1..Len(t) : t[i] \in Accepted \ stopped
      /\ \A i, j \in 1..Len(t) : i # j => t[i] # t[j]
      /\ \A i \in 1..Len(t) : \A m \in Accepted \ stopped :
           m.src = t[i].src /\ m.n < t[i].n => \E j \in 1..(i - 1) : t[j] = m
  BY DEF Outbound!InOrder, Outbound!Delivered
<1>3. Outbound!Delivered(s) \subseteq Accepted \ stopped
  BY <1>1, <1>2 DEF Outbound!Delivered
<1>4. \A i, j \in 1..Len(s) : i # j => s[i] # s[j]
  BY <1>1, <1>2
<1>5. ASSUME NEW i \in 1..Len(s), NEW m \in Accepted \ stopped,
             m.src = s[i].src, m.n < s[i].n
      PROVE  \E j \in 1..(i - 1) : s[j] = m
  <2>1. i \in 1..Len(t) /\ s[i] = t[i]
    BY <1>1
  <2>2. PICK j \in 1..(i - 1) : t[j] = m
    BY <1>2, <1>5, <2>1
  <2>3. j \in 1..Len(s)
    BY <1>1
  <2>4. QED
    BY <2>2, <2>3
<1>6. QED
  BY <1>3, <1>4, <1>5 DEF Outbound!InOrder

\* What is on the wire comes first in Out.
LEMMA WireFirst ==
  ASSUME TypeOK, TypeOK'
  PROVE  /\ Len(wire) <= Len(Out) /\ \A i \in 1..Len(wire) : wire[i] = Out[i]
         /\ Len(wire') <= Len(Out') /\ \A i \in 1..Len(wire') : wire'[i] = Out'[i]
         /\ Out \in Seq(Msg) /\ Out' \in Seq(Msg)
<1>1. /\ wire \in Seq(Msg) /\ writeBuf \in Seq(Msg)
      /\ wire' \in Seq(Msg) /\ writeBuf' \in Seq(Msg)
  BY DEF TypeOK
<1>2. Len(wire) <= Len(Out) /\ (\A i \in 1..Len(wire) : wire[i] = Out[i]) /\ Out \in Seq(Msg)
  <2>1. CASE Running
    BY <1>1, <2>1, ConcatElements DEF Out
  <2>2. CASE ~Running
    BY <1>1, <2>2 DEF Out
  <2>3. QED
    BY <2>1, <2>2
<1>3. /\ Len(wire') <= Len(Out') /\ (\A i \in 1..Len(wire') : wire'[i] = Out'[i])
      /\ Out' \in Seq(Msg)
  <2>1. CASE Running'
    <3>1. Out' = wire' \o writeBuf'
      BY <2>1 DEF Out
    <3>2. QED
      BY <1>1, <3>1, ConcatElements
  <2>2. CASE ~Running'
    <3>1. Out' = wire'
      BY <2>2 DEF Out
    <3>2. QED
      BY <1>1, <3>1
  <2>3. QED
    BY <2>1, <2>2
<1>4. QED
  BY <1>2, <1>3

LEMMA WireExtends ==
  ASSUME RefInv, Running, [Next]_vars
  PROVE  Outbound!Extends
<1>0. /\ TypeOK /\ CommandInHand /\ HooksInv /\ BufferShape
      /\ wire \in Seq(Msg) /\ Len(wire) \in Nat
  BY DEF RefInv, DeliveryInv, TypeOK
<1>1. TypeOK' /\ wire' \in Seq(Msg)
  <2>1. TypeOK'
    BY <1>0, TypeStep
  <2>2. QED
    BY <2>1 DEF TypeOK
<1>2. PICK t \in Seq(Msg) : wire' = wire \o t
  BY <1>0, WireStep DEF WireGrows
<1>3. Len(wire') >= Len(wire)
  BY <1>0, <1>2, ConcatElements
<1>4. SubSeq(wire', 1, Len(wire)) = wire
  BY <1>0, <1>2
<1>5. Len(wire') <= Len(Out) /\ \A i \in 1..Len(wire') : wire'[i] = Out[i]
  <2>1. CASE wire' = wire
    BY <1>0, <1>1, <2>1, WireFirst
  <2>2. CASE Out' = Out
    BY <1>0, <1>1, <2>2, WireFirst
  <2>3. CASE Shorter
    <3>1. Len(wire') \in Nat /\ Len(Out') \in Nat /\ Len(Out) \in Nat
      BY <1>0, <1>1, WireFirst
    <3>2. Len(wire') <= Len(Out') /\ \A i \in 1..Len(wire') : wire'[i] = Out'[i]
      BY <1>0, <1>1, WireFirst
    <3>3. \A i \in 1..Len(wire') : i \in 1..Len(Out')
      BY <3>1, <3>2
    <3>4. QED
      BY <2>3, <3>1, <3>2, <3>3 DEF Shorter
  <2>4. (EncodeCommand /\ pc' = "flush") \/ (DrainWrite /\ pc' = "drain") => wire' = wire
    BY DEF EncodeCommand, DrainWrite, Encoded, Fail, Leave
  <2>5. QED
    BY <1>0, <2>1, <2>2, <2>3, <2>4, OutSteps
<1>6. Outbound!InOrder(Out) /\ Out \in Seq(Msg)
  BY <1>0, <1>1, OutInOrder, WireFirst
<1>7. Outbound!InOrder(wire')
  BY <1>1, <1>5, <1>6, PrefixInOrder
<1>8. QED
  BY <1>3, <1>4, <1>7 DEF Outbound!Extends

\* Everything under way or settled carries a lower number than the next message
\* of a writer,
LEMMA LatestIsNew ==
  ASSUME RefInv, Running, NEW w \in Writers, writer[w] \in SendKinds,
         NEW k \in Accepted, k.src = w
  PROVE  k.n < count[w]
<1>0. /\ TypeOK /\ CommandInHand /\ QueueInv /\ BufferShape /\ WireFrom /\ OutboxFrom
      /\ Begun \in Int /\ Begun <= Len(sent) /\ Len(sent) \in Nat /\ FromWriter(k)
  BY DEF RefInv, DeliveryInv, TypeOK, Begun, FromWriter
<1>1. \A a \in 1..Begun : a \in 1..Len(sent)
  BY <1>0
<1>2. SUFFICES \E a \in 1..Len(sent) : sent[a].msg = k
  BY <1>0 DEF QueueInv, Numbered
<1>3. CASE InQueue(k)
  BY <1>3 DEF InQueue
<1>4. ~Queued(k)
  BY <1>0 DEF Queued, OutboxFrom
<1>5. CASE Occurs(k, Out)
  BY <1>0, <1>1, <1>5, OutFromWriters DEF Occurs
<1>6. CASE k \in stopped
  BY <1>0, <1>1, <1>6 DEF RefInv, StoppedFrom
<1>7. QED
  BY <1>0, <1>3, <1>4, <1>5, <1>6, AcceptedParts, OutHas

\* and than the next message of a handler.
LEMMA StagedIsNew ==
  ASSUME RefInv, Running, Invoked, NEW k \in Accepted, k.src = frames
  PROVE  k.n <= staged
<1>0. /\ TypeOK /\ CommandInHand /\ QueueInv /\ OutboxFrom /\ InvocationOrder
      /\ ~FromWriter(k)
  BY WritersAssumption DEF RefInv, DeliveryInv, TypeOK, FromWriter
<1>1. ~InQueue(k)
  BY <1>0 DEF InQueue, QueueInv, Numbered, FromWriter
<1>2. CASE Queued(k)
  BY <1>0, <1>2 DEF Queued, InvocationOrder, OutboxOrder
<1>3. CASE Occurs(k, Out)
  BY <1>0, <1>3 DEF Occurs, InvocationOrder, SentFirst
<1>4. CASE k \in stopped
  BY <1>0, <1>4 DEF RefInv, StoppedFrom, PastMsg
<1>5. QED
  BY <1>0, <1>1, <1>2, <1>3, <1>4, AcceptedParts, OutHas

\* The answers of a step, seen from outside.
LEMMA AnswerSteps ==
  ASSUME RefInv, RefInv', [Next]_vars
  PROVE  /\ denied \subseteq denied'
         /\ Running' => denied' = {} /\ denied = {}
         /\ ~Running' => confirmed' = confirmed
         /\ confirmed \subseteq confirmed'
         /\ confirmed' \subseteq Outbound!Delivered(wire') \cup stopped'
         /\ denied' \cap (confirmed' \cup Outbound!Delivered(wire')) = {}
         /\ (rxOpen <=> Running) /\ (rxOpen' <=> Running')
<1>0. TypeOK /\ HooksInv /\ HooksInv' /\ DenialsInv /\ DenialsInv' /\ ConfirmedSettled'
        /\ AnsweredOnce'
  BY DEF RefInv, DeliveryInv
<1>1. \A m : OnWire(m)' <=> m \in Outbound!Delivered(wire')
  BY DEF OnWire, Occurs, Outbound!Delivered
<1>2. denied \subseteq denied'
  BY <1>0, DeniedStep DEF Release, Rejected
<1>3. Running' => denied' = {} /\ denied = {}
  BY <1>0, <1>2 DEF DenialsInv
<1>4. ~Running' => confirmed' = confirmed
  BY <1>0, ConfirmedStep DEF Answers, DrainResumes, Running
<1>5. confirmed \subseteq confirmed'
  BY <1>0, ConfirmedStep DEF Answers, FlushCommand, Fail, Leave, Release, DrainResumes
<1>6. \A m \in confirmed' : m \in Outbound!Delivered(wire') \/ m \in stopped'
  <2>1. \A m \in confirmed' : OnWire(m)' \/ m \in stopped'
    BY <1>0 DEF ConfirmedSettled, Settled, OnWire, Occurs
  <2>2. QED
    BY <1>1, <2>1
<1>7. \A m \in denied' : m \notin confirmed' /\ m \notin Outbound!Delivered(wire')
  <2>1. \A m \in denied' : ~OnWire(m)'
    BY <1>0 DEF DenialsInv, OnWire, Occurs
  <2>2. QED
    BY <1>0, <1>1, <2>1 DEF AnsweredOnce
<1>8. (rxOpen <=> Running) /\ (rxOpen' <=> Running')
  BY <1>0 DEF HooksInv
<1>9. QED
  BY <1>2, <1>3, <1>4, <1>5, <1>6, <1>7, <1>8

LEMMA AcceptedType ==
  ASSUME TypeOK, NEW k \in Accepted
  PROVE  k.n \in Nat
<1>1. /\ \A a \in 1..Len(sent) : sent[a] \in Command
      /\ \A a \in 1..Len(outbox) : outbox[a] \in Staged
      /\ \A a \in 1..Len(writeBuf) : writeBuf[a] \in Msg
      /\ \A a \in 1..Len(wire) : wire[a] \in Msg
      /\ stopped \subseteq Msg
  BY DEF TypeOK
<1>2. k \in Msg
  BY <1>1, AcceptedParts DEF InQueue, Queued, Occurs, Command, Staged
<1>3. QED
  BY <1>2 DEF Msg

\* Every step is one of OutboundStream's: before the end the queue or a handler
\* accepts a message, a stage vetoes one, or the task delivers; the step in which
\* the task ends is the end, and what comes later refuses.
LEMMA StepRefines ==
  ASSUME RefInv, RefInv', [Next]_vars
  PROVE  Outbound!Next
<1>0. /\ TypeOK /\ TypeOK' /\ CommandInHand /\ HooksInv
      /\ rxOpen \in BOOLEAN /\ rxOpen' \in BOOLEAN
  BY DEF RefInv, DeliveryInv, TypeOK
<1>1. (rxOpen <=> Running) /\ (rxOpen' <=> Running')
  BY AnswerSteps
<1>2. (Running' <=> Running) => rxOpen' = rxOpen
  BY <1>0, <1>1
<1>3. Running' => Running
  BY <1>0, EndedStep
<1>4. CASE ~Running
  <2>1. ~Running' /\ UNCHANGED <<wire, stopped, outbox, sent, writeBuf>>
    BY <1>0, <1>4, EndedStep DEF writeVars
  <2>2. Accepted' = Accepted
    BY <2>1 DEF Accepted
  <2>3. ~rxOpen /\ rxOpen' = rxOpen
    BY <1>1, <1>2, <1>4, <2>1
  <2>4. /\ denied \subseteq denied' /\ confirmed' = confirmed
        /\ denied' \cap (confirmed \cup Outbound!Delivered(wire)) = {}
    BY <2>1, AnswerSteps
  <2>5. Outbound!Refuse
    BY <2>1, <2>2, <2>3, <2>4 DEF Outbound!Refuse
  <2>6. QED
    BY <2>5 DEF Outbound!Next
<1>5. CASE Running /\ ~Running'
  <2>1. Outbound!Extends
    BY <1>5, WireExtends
  <2>2. Accepted' = Accepted /\ stopped' = stopped
    <3>1. \A w \in Writers : ~Enqueue(w)
      BY <1>5 DEF Enqueue, Running
    <3>2. ~HandlerWrites
      BY <1>5 DEF HandlerWrites, Running
    <3>3. QED
      BY <1>5, <3>1, <3>2, AcceptedSteps, StopSteps DEF Running
  <2>3. rxOpen /\ rxOpen' = FALSE
    BY <1>0, <1>1, <1>5
  <2>4. /\ denied \subseteq denied' /\ confirmed' = confirmed
        /\ denied' \cap (confirmed \cup Outbound!Delivered(wire')) = {}
    BY <1>5, AnswerSteps
  <2>5. Outbound!End
    BY <2>1, <2>2, <2>3, <2>4 DEF Outbound!End
  <2>6. QED
    BY <2>5 DEF Outbound!Next
<1>6. CASE Running /\ Running'
  <2>1. rxOpen /\ rxOpen' = rxOpen /\ denied' = denied
    BY <1>1, <1>2, <1>6, AnswerSteps
  <2>2. ASSUME NEW w \in Writers, Enqueue(w), Accepted' = Accepted \cup {Latest(w)}
        PROVE  Outbound!Next
    <3> DEFINE m == Latest(w)
    <3>1. /\ writer[w] \in SendKinds /\ UNCHANGED <<wire, stopped, confirmed>>
      BY <2>2 DEF Enqueue, writeVars, answerVars
    <3>2. m.src = w /\ m.n = count[w] /\ m.src \in Sources /\ m.n \in Nat
      BY <1>0 DEF TypeOK, Latest, Sources
    <3>3. \A k \in Accepted : k.src = w => k.n < count[w]
      BY <1>6, <3>1, LatestIsNew
    <3> HIDE DEF m
    <3>4. m \notin Accepted
      BY <3>2, <3>3
    <3>5. Accepted' = Accepted \cup {m}
      BY <2>2 DEF m
    <3>6. m \in Accepted' \ Accepted
      BY <3>4, <3>5
    <3>7. Outbound!Accept
      BY <2>1, <3>1, <3>2, <3>3, <3>5, <3>6 DEF Outbound!Accept
    <3>8. QED
      BY <3>7 DEF Outbound!Next
  <2>3. ASSUME HandlerWrites, Accepted' = Accepted \cup {HandlerMsg(staged + 1)}
        PROVE  Outbound!Next
    <3> DEFINE m == HandlerMsg(staged + 1)
    <3>1. Invoked /\ UNCHANGED <<wire, stopped, confirmed>>
      BY <2>3 DEF HandlerWrites, HandlerRuns, Invoked, HandlerStay, writeVars, answerVars
    <3>2. /\ m.src = frames /\ m.n = staged + 1 /\ m.src \in Sources /\ m.n \in Nat
          /\ staged \in Nat
      BY <1>0 DEF TypeOK, HandlerMsg, Sources
    <3>3. \A k \in Accepted : k.src = frames => k.n <= staged
      BY <1>6, <3>1, StagedIsNew
    <3> HIDE DEF m
    <3>4. m \notin Accepted
      BY <3>2, <3>3
    <3>5. Accepted' = Accepted \cup {m}
      BY <2>3 DEF m
    <3>6. m \in Accepted' \ Accepted
      BY <3>4, <3>5
    <3>7. \A k \in Accepted : k.src = m.src => k.n < m.n
      <4>1. SUFFICES ASSUME NEW k \in Accepted, k.src = m.src PROVE k.n < m.n
        OBVIOUS
      <4>2. k.n \in Nat
        BY <1>0, AcceptedType
      <4>3. QED
        BY <3>2, <3>3, <4>1, <4>2
    <3>8. Outbound!Accept
      BY <2>1, <3>1, <3>2, <3>5, <3>6, <3>7 DEF Outbound!Accept
    <3>9. QED
      BY <3>8 DEF Outbound!Next
  <2>4. ASSUME NEW m, stopped' = stopped \cup {m}, wire' = wire, confirmed' = confirmed,
               m \in Accepted, Accepted' = Accepted
        PROVE  Outbound!Next
    <3>1. m \notin Outbound!Delivered(wire)
      <4>1. ~Occurs(m, Out')
        BY <2>4 DEF RefInv, Apart, Occurs
      <4>2. Out' = wire' \o writeBuf' /\ wire' \in Seq(Msg) /\ writeBuf' \in Seq(Msg)
        BY <1>0, <1>6 DEF Out, TypeOK
      <4>3. ~Occurs(m, wire)
        BY <2>4, <4>1, <4>2, ConcatOccurs
      <4>4. QED
        BY <4>3 DEF Occurs, Outbound!Delivered
    <3>2. m \in Accepted \ Outbound!Delivered(wire)
      BY <2>4, <3>1
    <3>3. Outbound!Veto
      BY <2>1, <2>4, <3>2 DEF Outbound!Veto
    <3>4. QED
      BY <3>3 DEF Outbound!Next
  <2>5. ASSUME Accepted' = Accepted, stopped' = stopped
        PROVE  Outbound!Next
    <3>1. Outbound!Extends
      BY <1>6, WireExtends
    <3>2. /\ confirmed \subseteq confirmed'
          /\ confirmed' \subseteq Outbound!Delivered(wire') \cup stopped
      BY <2>5, AnswerSteps
    <3>3. Outbound!Deliver
      BY <2>1, <2>5, <3>1, <3>2 DEF Outbound!Deliver
    <3>4. QED
      BY <3>3 DEF Outbound!Next
  <2>6. stopped' # stopped => (\A w \in Writers : ~Enqueue(w)) /\ ~HandlerWrites
    BY DEF Enqueue, HandlerWrites, HandlerStay, writeVars
  <2>7. ASSUME NEW m, stopped' = stopped \cup {m}, stopped' # stopped,
               EncodeCommand \/ DrainWrite, UNCHANGED <<writeBuf, wire>>
        PROVE  Outbound!Next
    <3>1. Accepted' = Accepted
      BY <2>6, <2>7, AcceptedSteps
    <3>2. m \in Accepted
      <4>1. m \in Accepted'
        BY <2>7, AcceptedParts
      <4>2. QED
        BY <3>1, <4>1
    <3>3. confirmed' = confirmed
      BY <1>0, <2>7, ConfirmedStep DEF EncodeCommand, DrainWrite, Answers, FlushCommand,
         DrainResumes
    <3>4. QED
      BY <2>4, <2>7, <3>1, <3>2, <3>3
  <2>8. CASE stopped' = stopped
    BY <2>2, <2>3, <2>5, <2>8, AcceptedSteps
  <2>9. CASE stopped' # stopped
    BY <2>7, <2>9, StopSteps
  <2>10. QED
    BY <2>8, <2>9
<1>7. QED
  BY <1>3, <1>4, <1>5, <1>6

LEMMA InitRefines == Init => Outbound!Init
<1> SUFFICES ASSUME Init PROVE Outbound!Init
  OBVIOUS
<1>1. Accepted = {}
  BY DEF Init, Accepted
<1>2. QED
  BY <1>1 DEF Init, Outbound!Init

\* A connection with its queue, outbox, stages, write buffer and failing socket is
\* an outbound stream: it delivers what it accepted from each writer and handler
\* in order and without a gap but for what stages drop, confirms only what it
\* delivered or a stage dropped, and delivers nothing once it has ended.
THEOREM Refines == Spec => ImplementsOutboundStream
<1>1. RefInv /\ [Next]_vars => RefInv' /\ Outbound!Next
  BY RefStep, StepRefines
<1>2. QED
  BY <1>1, RefInit, InitRefines, PTL DEF Spec, ImplementsOutboundStream, Outbound!Spec
=============================================================================
