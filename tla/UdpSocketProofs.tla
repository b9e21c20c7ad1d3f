--------------------------- MODULE UdpSocketProofs ---------------------------
(***************************************************************************)
(* Theorems about UdpSocket, for every set of peers and application tasks, *)
(* every configuration and every set of faults.                            *)
(***************************************************************************)
EXTENDS UdpSocket, SequenceTheorems, TLAPS

\* The SMT backend does not see by itself that TRUE and FALSE are in BOOLEAN.
LEMMA Booleans == \A x : x = TRUE \/ x = FALSE => x \in BOOLEAN
BY Zenon

-----------------------------------------------------------------------------
(***************************************************************************)
(* The builder: whatever the user sets, the configuration is normalized.   *)
(***************************************************************************)
LEMMA NormalizeType ==
  ASSUME NEW c \in [capacity : Nat, max : Nat]
  PROVE  normalize(c) \in Configs
BY DEF normalize, Configs, Larger

LEMMA BuiltType == Built \subseteq Configs
<1> DEFINE Raw == [capacity : Nat, max : Nat]
<1>1. Configs \subseteq Raw
  BY DEF Configs
<1>2. Default \in Raw
  BY SizesAssumption DEF Default
<1>3. \A c \in Raw, v \in Nat : /\ read_buffer_capacity(c, v) \in Raw
                                /\ max_datagram_size(c, v) \in Raw
  <2> SUFFICES ASSUME NEW c \in Raw, NEW v \in Nat
               PROVE  /\ read_buffer_capacity(c, v) \in Raw
                      /\ max_datagram_size(c, v) \in Raw
    OBVIOUS
  <2>1. [c EXCEPT !.capacity = v] \in Raw /\ [c EXCEPT !.max = v] \in Raw
    OBVIOUS
  <2>2. QED
    BY <1>1, <2>1, NormalizeType DEF read_buffer_capacity, max_datagram_size
<1>4. MaxSizes \subseteq Nat /\ Capacities \subseteq Nat
  BY SizesAssumption
<1>5. \A c \in Raw : normalize(c) \in Configs
  BY NormalizeType
<1> HIDE DEF Raw
<1>6. QED
  BY <1>2, <1>3, <1>4, <1>5 DEF Built

-----------------------------------------------------------------------------
(***************************************************************************)
(* Type correctness.                                                       *)
(***************************************************************************)

\* While a command is handled, the queue has handed one out; while a staged
\* message is sent, it is still at the head of the outbox.
InHand ==
  /\ pc \in {"encode", "send"} => taken > 0
  /\ pc = "drainsend" => outbox # <<>> /\ Head(outbox).kind = "WriteTo"

LEMMA CurrentType ==
  ASSUME TypeOK, taken > 0
  PROVE  /\ Current \in Command
         /\ Current.msg \in Msg
         /\ Current.msg.to \in Peers
<1>1. queue \in Seq(Command) /\ taken \in 1..Len(queue)
  BY DEF TypeOK
<1>2. Current \in Command
  BY <1>1 DEF Current
<1>3. QED
  BY <1>2 DEF Command, Msg

LEMMA OutboxType ==
  ASSUME TypeOK, outbox # <<>>
  PROVE  /\ Head(outbox).kind = "WriteTo" =>
              Head(outbox).msg \in Msg /\ Head(outbox).msg.to \in Peers
         /\ Tail(outbox) \in Seq(Staged)
<1>1. outbox \in Seq(Staged)
  BY DEF TypeOK
<1>2. Head(outbox) \in Staged /\ Tail(outbox) \in Seq(Staged)
  BY <1>1
<1>3. QED
  BY <1>2 DEF Staged, Msg

\* What dropping the receiver changes has its type.
Released ==
  /\ rxOpen' \in BOOLEAN
  /\ writer' \in [Writers -> [kind : {"idle", "awaiting"} \cup Kinds, msg : Msg]]
  /\ denied' \subseteq Msg
  /\ UNCHANGED <<queue, taken, count, shared, confirmed>>

LEMMA ReleaseType ==
  ASSUME TypeOK, Release
  PROVE  Released
<1>1. \A w \in Writers : Pending(w) \in Msg /\ writer[w].kind \in
                                   {"idle", "awaiting"} \cup Kinds
  BY DEF TypeOK, Pending
<1>2. denied' \subseteq Msg
  BY <1>1 DEF TypeOK, Release, Awaiting
<1>3. writer' \in [Writers -> [kind : {"idle", "awaiting"} \cup Kinds, msg : Msg]]
  BY <1>1 DEF TypeOK, Release, Idle
<1>4. QED
  BY <1>2, <1>3, Booleans DEF Release, Released

\* The same of an answer, an encoded message and a datagram that goes out.
LEMMA AnswerType ==
  ASSUME TypeOK, taken > 0, NEW ok \in BOOLEAN, Answer(ok)
  PROVE  /\ writer' \in [Writers -> [kind : {"idle", "awaiting"} \cup Kinds, msg : Msg]]
         /\ confirmed' \subseteq Msg
         /\ denied' \subseteq Msg
         /\ UNCHANGED <<count, shared>>
<1>1. Current.msg \in Msg
  BY CurrentType
<1>2. CASE Current.kind = "WriteToAndFlush"
  <2> DEFINE Writing == [kind : {"idle", "awaiting"} \cup Kinds, msg : Msg]
  <2>1. Idle(Current.msg) \in Writing
    BY <1>1 DEF Idle
  <2>2. writer \in [Writers -> Writing]
    BY DEF TypeOK
  <2>3. writer' = [writer EXCEPT ![Current.msg.src] = Idle(Current.msg)]
    BY <1>2 DEF Answer
  <2> HIDE DEF Writing
  <2>4. writer' \in [Writers -> Writing]
    BY <2>1, <2>2, <2>3
  <2>5. confirmed' \subseteq Msg /\ denied' \subseteq Msg
    BY <1>1, <1>2 DEF TypeOK, Answer
  <2>6. QED
    BY <2>4, <2>5 DEF Answer, Writing
<1>3. CASE Current.kind # "WriteToAndFlush"
  BY <1>3 DEF TypeOK, Answer, answerVars
<1>4. QED
  BY <1>2, <1>3

LEMMA EncodedType ==
  ASSUME TypeOK, NEW m \in Msg, Encoded(m)
  PROVE  /\ writeBuf' \in Seq(Msg)
         /\ dropped' \subseteq Msg
         /\ UNCHANGED net
<1>1. writeBuf \in Seq(Msg) /\ Append(writeBuf, m) \in Seq(Msg) /\ dropped \subseteq Msg
  BY DEF TypeOK
<1>2. CASE writeBuf' = Append(writeBuf, m) /\ UNCHANGED <<net, dropped>>
  BY <1>1, <1>2
<1>3. CASE dropped' = dropped \cup {m} /\ UNCHANGED <<writeBuf, net>>
  BY <1>1, <1>3
<1>4. QED
  BY <1>2, <1>3 DEF Encoded

LEMMA FlushType ==
  ASSUME TypeOK, NEW to \in Peers, FlushDatagram(to)
  PROVE  /\ writeBuf' \in Seq(Msg)
         /\ net' \in Seq(Sent)
         /\ UNCHANGED dropped
<1>1. [to |-> to, content |-> writeBuf] \in Sent
  BY DEF TypeOK, Sent
<1>2. net \in Seq(Sent) /\ <<>> \in Seq(Msg)
  BY DEF TypeOK
<1>3. Append(net, [to |-> to, content |-> writeBuf]) \in Seq(Sent)
  BY <1>1, <1>2
<1>4. QED
  BY <1>2, <1>3 DEF FlushDatagram

LEMMA HandlerMsgType ==
  ASSUME TypeOK, NEW to \in Peers
  PROVE  HandlerMsg(to) \in Msg
BY DEF TypeOK, HandlerMsg, Msg

\* What every step of the task but the hooks does to the loop.
LEMMA LoopType ==
  ASSUME TypeOK
  PROVE  /\ End("Ok") \/ End("Err") =>
              /\ pc' \in Steps
              /\ outcome' \in {"running", "Ok", "Err", "Panic"}
              /\ UNCHANGED <<shutdown, hooks>>
         /\ \A s \in Steps : Continue(s) =>
              /\ pc' \in Steps
              /\ UNCHANGED <<shutdown, outcome, hooks>>
BY DEF End, Continue, Steps, lifeVars

LEMMA TypeStep == TypeOK /\ InHand /\ [Next]_vars => TypeOK'
<1> SUFFICES ASSUME TypeOK, InHand, [Next]_vars PROVE TypeOK'
  OBVIOUS
<1> USE DEF TypeOK, queueVars, appVars, handlerVars, sendVars, answerVars,
            lifeVars, Elsewhere, HandlerStay
<1>0. \A s \in {"top", "select", "stages", "handler", "drain", "drainsend",
                "encode", "send"} : s \in Steps
  BY DEF Steps
<1>1. ASSUME NEW w \in Writers, NEW kind \in Kinds, NEW to \in Peers,
             Begin(w, kind, to)
      PROVE  TypeOK'
  <2>1. [src |-> w, n |-> count[w] + 1, to |-> to] \in Msg
    BY DEF Msg
  <2>2. QED
    BY <1>1, <2>1 DEF Begin
<1>2. ASSUME NEW w \in Writers, Enqueue(w)
      PROVE  TypeOK'
  <2>1. writer[w] \in Command
    BY <1>2 DEF Enqueue, Command
  <2>2. queue' \in Seq(Command) /\ Len(queue') = Len(queue) + 1
    BY <1>2, <2>1 DEF Enqueue
  <2>3. taken' \in 0..Len(queue')
    BY <1>2, <2>2 DEF Enqueue
  <2>4. writer' \in [Writers -> [kind : {"idle", "awaiting"} \cup Kinds, msg : Msg]]
    BY <1>2 DEF Enqueue
  <2>5. QED
    BY <1>2, <2>2, <2>3, <2>4 DEF Enqueue
<1>3. ASSUME NEW w \in Writers, Rejected(w)
      PROVE  TypeOK'
  BY <1>3 DEF Rejected, Pending
<1>4. ASSUME HandleUsed
      PROVE  TypeOK'
  BY <1>4 DEF HandleUsed
<1>5. ASSUME StartedHook
      PROVE  TypeOK'
  <2>1. CASE hooks' = Append(hooks, "started")
    BY <1>0, <1>5, <2>1, ReleaseType DEF StartedHook, StartRefused, Steps, Released
  <2>2. CASE StartRefused
    BY <1>5, <2>2, ReleaseType DEF StartedHook, StartRefused, Steps, Released
  <2>3. QED
    BY <1>5, <2>1, <2>2 DEF StartedHook
<1>6. ASSUME StoppedHook
      PROVE  TypeOK'
  BY <1>6, ReleaseType DEF StoppedHook, Steps, Released
<1>7. ASSUME Panic
      PROVE  TypeOK'
  BY <1>7, ReleaseType DEF Panic, Steps, Released
<1>8. ASSUME CheckShutdown
      PROVE  TypeOK'
  BY <1>0, <1>8, LoopType DEF CheckShutdown
<1>9. ASSUME SelectShutdown
      PROVE  TypeOK'
  BY <1>9, LoopType DEF SelectShutdown
<1>10. ASSUME SelectReceive
      PROVE  TypeOK'
  <2>1. ASSUME NEW size \in Sizes
        PROVE  [size |-> size, read |-> Smaller(size, config.capacity)] \in Datagram
    BY SizesAssumption DEF Datagram, Smaller, Configs
  <2>2. ASSUME NEW size \in Sizes, Continue("stages"),
               received' = Append(received,
                  [size |-> size, read |-> Smaller(size, config.capacity)]),
               staged' = <<>>, closeRequested' = FALSE
        PROVE  TypeOK'
    <3>1. received' \in Seq(Datagram)
      BY <2>1, <2>2
    <3>2. staged' \in Seq(Msg) /\ closeRequested' \in BOOLEAN
      BY <2>2, Booleans
    <3>3. pc' \in Steps /\ UNCHANGED <<shutdown, outcome, hooks>>
      BY <1>0, <2>2, LoopType
    <3>4. QED
      BY <1>10, <3>1, <3>2, <3>3 DEF SelectReceive
  <2>3. ASSUME End("Err"), UNCHANGED <<received, staged, closeRequested>>
        PROVE  TypeOK'
    BY <1>10, <2>3, LoopType DEF SelectReceive
  <2>4. QED
    BY <1>10, <2>2, <2>3 DEF SelectReceive
<1>11. ASSUME SelectCommand
      PROVE  TypeOK'
  BY <1>0, <1>11, LoopType DEF SelectCommand
<1>12. ASSUME EncodeCommand
      PROVE  TypeOK'
  <2>1. taken > 0 /\ Current.msg \in Msg /\ FALSE \in BOOLEAN
    BY <1>12, CurrentType, Booleans DEF EncodeCommand, InHand
  <2>2. CASE Encoded(Current.msg) /\ Continue("send") /\ UNCHANGED <<appVars, answerVars>>
    BY <1>0, <1>12, <2>1, <2>2, EncodedType, LoopType DEF EncodeCommand
  <2>3. CASE Answer(FALSE) /\ End("Err") /\ UNCHANGED sendVars
    BY <1>12, <2>1, <2>3, AnswerType, LoopType DEF EncodeCommand
  <2>4. QED
    BY <1>12, <2>2, <2>3 DEF EncodeCommand
<1>13. ASSUME SendCommand
      PROVE  TypeOK'
  <2>1. taken > 0 /\ Current.msg.to \in Peers /\ FALSE \in BOOLEAN /\ TRUE \in BOOLEAN
    BY <1>13, CurrentType, Booleans DEF SendCommand, InHand
  <2>2. CASE FlushDatagram(Current.msg.to) /\ Answer(TRUE) /\ Continue("top")
    <3>1. /\ writer' \in [Writers -> [kind : {"idle", "awaiting"} \cup Kinds, msg : Msg]]
          /\ confirmed' \subseteq Msg /\ denied' \subseteq Msg
          /\ UNCHANGED <<count, shared>>
      BY <2>1, <2>2, AnswerType
    <3>2. writeBuf' \in Seq(Msg) /\ net' \in Seq(Sent) /\ UNCHANGED dropped
      BY <2>1, <2>2, FlushType
    <3>3. pc' \in Steps /\ UNCHANGED <<shutdown, outcome, hooks>>
      BY <1>0, <2>2, LoopType
    <3>4. QED
      BY <1>13, <3>1, <3>2, <3>3 DEF SendCommand
  <2>3. CASE Answer(FALSE) /\ End("Err") /\ UNCHANGED sendVars
    BY <1>13, <2>1, <2>3, AnswerType, LoopType DEF SendCommand
  <2>4. QED
    BY <1>13, <2>2, <2>3 DEF SendCommand
<1>14. ASSUME InboundStages
      PROVE  TypeOK'
  BY <1>0, <1>14, LoopType, Booleans DEF InboundStages, AfterHandled
<1>15. ASSUME NEW to \in Peers, HandlerWrites(to)
      PROVE  TypeOK'
  <2>1. HandlerMsg(to) \in Msg
    BY HandlerMsgType
  <2>2. [kind |-> "WriteTo", msg |-> HandlerMsg(to)] \in Staged
    BY <2>1 DEF Staged
  <2>3. outbox' \in Seq(Staged) /\ staged' \in Seq(Msg)
    BY <1>15, <2>1, <2>2 DEF HandlerWrites, Push
  <2>4. QED
    BY <1>15, <2>3 DEF HandlerWrites
<1>16. ASSUME HandlerFlushes
      PROVE  TypeOK'
  <2>1. [kind |-> "Flush"] \in Staged
    BY DEF Staged
  <2>2. QED
    BY <1>16, <2>1, Booleans DEF HandlerFlushes, Push
<1>17. ASSUME HandlerAbandonsFlush
      PROVE  TypeOK'
  BY <1>17, Booleans DEF HandlerAbandonsFlush
<1>18. ASSUME HandlerCloses
      PROVE  TypeOK'
  BY <1>18, Booleans DEF HandlerCloses
<1>19. ASSUME HandlerShares
      PROVE  TypeOK'
  BY <1>19, Booleans DEF HandlerShares
<1>20. ASSUME HandlerReturns
      PROVE  TypeOK'
  BY <1>0, <1>20 DEF HandlerReturns
<1>21. ASSUME HandlerPending
      PROVE  TypeOK'
  BY <1>0, <1>21 DEF HandlerPending
<1>22. ASSUME DrainWrite
      PROVE  TypeOK'
  <2>1. Head(outbox).msg \in Msg
    BY <1>22, OutboxType DEF DrainWrite
  <2>2. CASE Encoded(Head(outbox).msg) /\ Continue("drainsend")
    BY <1>0, <1>22, <2>1, <2>2, EncodedType, LoopType DEF DrainWrite
  <2>3. CASE End("Err") /\ UNCHANGED sendVars
    BY <1>22, <2>3, LoopType DEF DrainWrite
  <2>4. QED
    BY <1>22, <2>2, <2>3 DEF DrainWrite
<1>23. ASSUME DrainSend
      PROVE  TypeOK'
  <2>1. outbox # <<>> /\ Head(outbox).kind = "WriteTo"
    BY <1>23 DEF DrainSend, InHand
  <2>2. Head(outbox).msg.to \in Peers /\ Tail(outbox) \in Seq(Staged)
    BY <2>1, OutboxType
  <2>3. CASE FlushDatagram(Head(outbox).msg.to) /\ outbox' = Tail(outbox)
               /\ Continue("drain")
    BY <1>0, <1>23, <2>2, <2>3, FlushType, LoopType DEF DrainSend
  <2>4. CASE End("Err") /\ UNCHANGED <<outbox, sendVars>>
    BY <1>23, <2>4, LoopType DEF DrainSend
  <2>5. QED
    BY <1>23, <2>3, <2>4 DEF DrainSend
<1>24. ASSUME DrainFlush
      PROVE  TypeOK'
  <2>1. Tail(outbox) \in Seq(Staged)
    BY <1>24, OutboxType DEF DrainFlush
  <2>2. QED
    BY <1>0, <1>24, <2>1, LoopType DEF DrainFlush
<1>25. ASSUME DrainResumes
      PROVE  TypeOK'
  <2>1. \A i \in 1..Len(staged) : staged[i] \in Msg
    OBVIOUS
  <2>2. confirmed' \subseteq Msg
    BY <1>25, <2>1 DEF DrainResumes
  <2>3. QED
    BY <1>0, <1>25, <2>2, LoopType, Booleans DEF DrainResumes
<1>26. ASSUME DrainEnds
      PROVE  TypeOK'
  BY <1>0, <1>26, LoopType DEF DrainEnds, AfterHandled
<1>27. ASSUME UNCHANGED vars
      PROVE  TypeOK'
  BY <1>27 DEF vars
<1>28. QED
  BY <1>1, <1>2, <1>3, <1>4, <1>5, <1>6, <1>7, <1>8, <1>9, <1>10, <1>11, <1>12,
     <1>13, <1>14, <1>15, <1>16, <1>17, <1>18, <1>19, <1>20, <1>21, <1>22,
     <1>23, <1>24, <1>25, <1>26, <1>27
  DEF Next, Application, Task, Select, Handler, Drain

LEMMA InHandStep == TypeOK /\ InHand /\ [Next]_vars => InHand'
<1> SUFFICES ASSUME TypeOK, InHand, [Next]_vars PROVE InHand'
  OBVIOUS
<1> USE DEF InHand, queueVars, appVars, handlerVars, sendVars, answerVars,
            lifeVars, Elsewhere, HandlerStay, End, Continue
<1>1. taken \in Nat
  BY DEF TypeOK
<1>2. CASE Application
  BY <1>2 DEF Application, Begin, Enqueue, Rejected, HandleUsed
<1>3. CASE StartedHook \/ StoppedHook \/ Panic
  BY <1>3 DEF StartedHook, StartRefused, StoppedHook, Panic
<1>4. CASE CheckShutdown \/ Select
  <2>1. CASE CheckShutdown \/ SelectReceive \/ SelectShutdown
    BY <2>1 DEF CheckShutdown, SelectReceive, SelectShutdown
  <2>2. CASE SelectCommand
    <3>1. taken' > 0
      BY <1>1, <2>2 DEF SelectCommand
    <3>2. pc' # "drainsend"
      BY <2>2 DEF SelectCommand
    <3>3. QED
      BY <3>1, <3>2
  <2>3. QED
    BY <1>4, <2>1, <2>2 DEF Select
<1>5. CASE EncodeCommand \/ SendCommand
  BY <1>5 DEF EncodeCommand, SendCommand
<1>6. CASE InboundStages \/ Handler
  BY <1>6 DEF InboundStages, AfterHandled, Handler, HandlerRuns, HandlerWrites,
     HandlerFlushes, HandlerAbandonsFlush, HandlerCloses, HandlerShares,
     HandlerReturns, HandlerPending
<1>7. CASE Drain
  BY <1>7 DEF Drain, DrainWrite, DrainSend, DrainFlush, DrainResumes, DrainEnds,
     AfterHandled
<1>8. CASE UNCHANGED vars
  BY <1>8 DEF vars
<1>9. QED
  BY <1>2, <1>3, <1>4, <1>5, <1>6, <1>7, <1>8 DEF Next, Task

LEMMA InitType == Init => TypeOK /\ InHand
<1> SUFFICES ASSUME Init PROVE TypeOK /\ InHand
  OBVIOUS
<1>1. \A w \in Writers : NoMsg(w) \in Msg
  BY ActorsAssumption DEF NoMsg, Msg
<1>2. writer \in [Writers -> [kind : {"idle", "awaiting"} \cup Kinds, msg : Msg]]
  BY <1>1 DEF Init, Idle
<1>3. config \in Configs
  BY BuiltType DEF Init
<1>4. rxOpen \in BOOLEAN /\ shared \in BOOLEAN /\ waiting \in BOOLEAN
        /\ closeRequested \in BOOLEAN
  BY ActorsAssumption, Booleans DEF Init
<1>5. QED
  BY <1>2, <1>3, <1>4 DEF Init, TypeOK, InHand, Steps

\* The socket task never leaves its types, and its configuration keeps the
\* buffer at least as large as the largest accepted datagram.
THEOREM TypeCorrect == Spec => []TypeOK
<1>1. Spec => [](TypeOK /\ InHand)
  BY InitType, TypeStep, InHandStep, PTL DEF Spec
<1>2. QED
  BY <1>1, PTL

-----------------------------------------------------------------------------
(***************************************************************************)
(* The shared write_buf.                                                   *)
(***************************************************************************)

\* Between the encoding of a message and the send, write_buf holds that message
\* or nothing; everywhere else in the loop it is empty.
BufferShape ==
  /\ pc \in {"starting", "top", "select", "stages", "handler", "drain", "encode"} =>
       writeBuf = <<>>
  /\ pc = "send" => writeBuf \in {<<>>, <<Current.msg>>}
  /\ pc = "drainsend" => writeBuf \in {<<>>, <<Head(outbox).msg>>}

OneMessage ==
  \A i \in 1..Len(net) : /\ Len(net[i].content) = 1
                         /\ net[i].content[1].to = net[i].to

LEMMA BufferStep ==
  TypeOK /\ InHand /\ BufferShape /\ [Next]_vars => BufferShape'
<1> SUFFICES ASSUME TypeOK, InHand, BufferShape, [Next]_vars PROVE BufferShape'
  OBVIOUS
<1> USE DEF BufferShape, queueVars, appVars, handlerVars, sendVars, answerVars,
            lifeVars, Elsewhere, HandlerStay, End, Continue, Current
<1>1. taken \in 0..Len(queue) /\ queue \in Seq(Command)
  BY DEF TypeOK
<1>2. ASSUME NEW w \in Writers, NEW kind \in Kinds, NEW to \in Peers,
             Begin(w, kind, to)
      PROVE  BufferShape'
  BY <1>2 DEF Begin
<1>3. ASSUME NEW w \in Writers, Enqueue(w)
      PROVE  BufferShape'
  <2>1. taken > 0 => queue'[taken'] = queue[taken]
    <3>1. writer[w] \in Command
      BY <1>3 DEF Enqueue, TypeOK, Command
    <3>2. QED
      BY <1>1, <1>3, <3>1 DEF Enqueue
  <2>2. QED
    BY <1>3, <2>1 DEF Enqueue, InHand
<1>4. ASSUME NEW w \in Writers, Rejected(w)
      PROVE  BufferShape'
  BY <1>4 DEF Rejected
<1>5. CASE HandleUsed
  BY <1>5 DEF HandleUsed
<1>6. CASE StartedHook \/ StoppedHook \/ Panic
  BY <1>6 DEF StartedHook, StartRefused, StoppedHook, Panic
<1>7. CASE CheckShutdown \/ Select
  BY <1>7 DEF CheckShutdown, Select, SelectReceive, SelectCommand, SelectShutdown
<1>8. CASE EncodeCommand
  <2>1. writeBuf = <<>> /\ Current.msg \in Msg
    BY <1>8, CurrentType DEF EncodeCommand, InHand
  <2>2. Append(writeBuf, Current.msg) = <<Current.msg>>
    BY <2>1
  <2>3. UNCHANGED <<queue, taken>> /\ pc' \in {"send", "stopping"}
    BY <1>8 DEF EncodeCommand
  <2>4. pc' = "send" => writeBuf' \in {Append(writeBuf, Current.msg), writeBuf}
    BY <1>8 DEF EncodeCommand, Encoded
  <2>5. QED
    BY <2>1, <2>2, <2>3, <2>4
<1>9. CASE SendCommand
  BY <1>9 DEF SendCommand, FlushDatagram
<1>10. CASE InboundStages \/ Handler
  BY <1>10 DEF InboundStages, AfterHandled, Handler, HandlerRuns, HandlerWrites,
     HandlerFlushes, HandlerAbandonsFlush, HandlerCloses, HandlerShares,
     HandlerReturns, HandlerPending
<1>11. CASE DrainWrite
  BY <1>11 DEF DrainWrite, Encoded
<1>12. CASE DrainSend \/ DrainFlush \/ DrainResumes \/ DrainEnds
  BY <1>12 DEF DrainSend, FlushDatagram, DrainFlush, DrainResumes, DrainEnds, AfterHandled
<1>13. CASE UNCHANGED vars
  BY <1>13 DEF vars
<1>14. QED
  BY <1>2, <1>3, <1>4, <1>5, <1>6, <1>7, <1>8, <1>9, <1>10, <1>11, <1>12, <1>13
  DEF Next, Application, Task, Drain

\* Only a message that write_buf holds alone goes out, and to its destination.
LEMMA OneMessageStep ==
  TypeOK /\ InHand /\ BufferShape /\ OneMessage /\ [Next]_vars => OneMessage'
<1> SUFFICES ASSUME TypeOK, InHand, BufferShape, OneMessage, [Next]_vars
             PROVE  OneMessage'
  OBVIOUS
<1> USE DEF queueVars, appVars, handlerVars, sendVars, answerVars, lifeVars,
            Elsewhere, HandlerStay
<1>1. ASSUME NEW m \in Msg, writeBuf \in {<<>>, <<m>>}, FlushDatagram(m.to)
      PROVE  OneMessage'
  <2>1. CASE writeBuf = <<>>
    BY <1>1, <2>1 DEF FlushDatagram, OneMessage
  <2>2. CASE writeBuf = <<m>>
    <3> DEFINE sent == [to |-> m.to, content |-> <<m>>]
    <3>1. net' = Append(net, sent)
      BY <1>1, <2>2 DEF FlushDatagram
    <3>2. net \in Seq(Sent) /\ sent \in Sent
      BY DEF TypeOK, Sent, Msg
    <3>3. Len(sent.content) = 1 /\ sent.content[1].to = sent.to
      OBVIOUS
    <3> HIDE DEF sent
    <3>4. /\ Len(net') = Len(net) + 1
          /\ \A i \in 1..Len(net) : net'[i] = net[i]
          /\ net'[Len(net) + 1] = sent
      BY <3>1, <3>2
    <3>5. \A i \in 1..Len(net') : i \in 1..Len(net) \/ i = Len(net) + 1
      BY <3>2, <3>4
    <3>6. QED
      BY <3>3, <3>4, <3>5 DEF OneMessage
  <2>3. QED
    BY <1>1, <2>1, <2>2
<1>2. UNCHANGED net => OneMessage'
  BY DEF OneMessage
<1>3. CASE SendCommand
  <2>1. Current.msg \in Msg /\ writeBuf \in {<<>>, <<Current.msg>>}
    BY <1>3, CurrentType DEF SendCommand, InHand, BufferShape
  <2>2. FlushDatagram(Current.msg.to) \/ UNCHANGED net
    BY <1>3 DEF SendCommand
  <2>3. QED
    BY <1>1, <1>2, <2>1, <2>2
<1>4. CASE DrainSend
  <2>1. Head(outbox).msg \in Msg /\ writeBuf \in {<<>>, <<Head(outbox).msg>>}
    BY <1>4, OutboxType DEF DrainSend, InHand, BufferShape
  <2>2. FlushDatagram(Head(outbox).msg.to) \/ UNCHANGED net
    BY <1>4 DEF DrainSend
  <2>3. QED
    BY <1>1, <1>2, <2>1, <2>2
<1>5. CASE Application
  BY <1>2, <1>5 DEF Application, Begin, Enqueue, Rejected, HandleUsed
<1>6. CASE StartedHook \/ StoppedHook \/ Panic \/ CheckShutdown \/ Select
  BY <1>2, <1>6 DEF StartedHook, StoppedHook, Panic, CheckShutdown, Select,
     SelectReceive, SelectCommand, SelectShutdown
<1>7. CASE EncodeCommand \/ DrainWrite
  BY <1>2, <1>7 DEF EncodeCommand, DrainWrite, Encoded
<1>8. CASE InboundStages \/ Handler
  BY <1>2, <1>8 DEF InboundStages, Handler, HandlerWrites,
     HandlerFlushes, HandlerAbandonsFlush, HandlerCloses, HandlerShares,
     HandlerReturns, HandlerPending
<1>9. CASE DrainFlush \/ DrainResumes \/ DrainEnds
  BY <1>2, <1>9 DEF DrainFlush, DrainResumes, DrainEnds
<1>10. CASE UNCHANGED vars
  BY <1>2, <1>10 DEF vars
<1>11. QED
  BY <1>3, <1>4, <1>5, <1>6, <1>7, <1>8, <1>9, <1>10 DEF Next, Task, Drain

\* One buffer serves every peer and the handler as well as the channel, and yet
\* no datagram ever carries two messages or goes to another's destination.
THEOREM DatagramsAreWhole == Spec => []OneDatagramPerMessage
<1>1. Init => TypeOK /\ InHand /\ BufferShape /\ OneMessage
  BY InitType DEF Init, BufferShape, OneMessage
<1>2. TypeOK /\ InHand /\ BufferShape /\ OneMessage /\ [Next]_vars =>
        (TypeOK /\ InHand /\ BufferShape /\ OneMessage)'
  BY TypeStep, InHandStep, BufferStep, OneMessageStep
<1>3. BufferShape /\ OneMessage => OneDatagramPerMessage
  BY DEF BufferShape, OneMessage, OneDatagramPerMessage
<1>4. QED
  BY <1>1, <1>2, <1>3, PTL DEF Spec

-----------------------------------------------------------------------------
(***************************************************************************)
(* The size check.                                                         *)
(***************************************************************************)

\* What reached the pipeline was cut to the buffer and checked after that.
CutAndChecked ==
  \A i \in 1..Len(received) :
    /\ received[i].read = Smaller(received[i].size, config.capacity)
    /\ received[i].read <= config.max

LEMMA CutStep == TypeOK /\ CutAndChecked /\ [Next]_vars => CutAndChecked'
<1> SUFFICES ASSUME TypeOK, CutAndChecked, [Next]_vars PROVE CutAndChecked'
  OBVIOUS
<1> USE DEF queueVars, appVars, handlerVars, sendVars, answerVars, lifeVars,
            Elsewhere, HandlerStay
<1>1. UNCHANGED <<received, config>> => CutAndChecked'
  BY DEF CutAndChecked
<1>2. CASE SelectReceive
  <2>1. ASSUME NEW size \in Sizes, ~TooLarge(size), UNCHANGED config,
               received' = Append(received,
                  [size |-> size, read |-> Smaller(size, config.capacity)])
        PROVE  CutAndChecked'
    <3> DEFINE datagram == [size |-> size, read |-> Smaller(size, config.capacity)]
    <3>1. received \in Seq(Datagram) /\ config \in Configs
      BY DEF TypeOK
    <3>2. /\ Len(received') = Len(received) + 1
          /\ \A i \in 1..Len(received) : received'[i] = received[i]
          /\ received'[Len(received) + 1] = datagram
      BY <2>1, <3>1
    <3>3. datagram.read <= config.max
      BY <2>1, <3>1, SizesAssumption DEF TooLarge, Smaller, Configs
    <3>4. QED
      BY <2>1, <3>1, <3>2, <3>3 DEF CutAndChecked
  <2>2. QED
    BY <1>1, <1>2, <2>1 DEF SelectReceive
<1>3. CASE Application
  BY <1>1, <1>3 DEF Application, Begin, Enqueue, Rejected, HandleUsed
<1>4. CASE StartedHook \/ StoppedHook \/ Panic \/ CheckShutdown \/ SelectCommand
             \/ SelectShutdown
  BY <1>1, <1>4 DEF StartedHook, StoppedHook, Panic, CheckShutdown,
     SelectCommand, SelectShutdown
<1>5. CASE EncodeCommand \/ SendCommand \/ Drain
  BY <1>1, <1>5 DEF EncodeCommand, SendCommand, Drain, DrainWrite, DrainSend,
     DrainFlush, DrainResumes, DrainEnds
<1>6. CASE InboundStages \/ Handler
  BY <1>1, <1>6 DEF InboundStages, Handler, HandlerWrites,
     HandlerFlushes, HandlerAbandonsFlush, HandlerCloses, HandlerShares,
     HandlerReturns, HandlerPending
<1>7. CASE UNCHANGED vars
  BY <1>1, <1>7 DEF vars
<1>8. QED
  BY <1>2, <1>3, <1>4, <1>5, <1>6, <1>7 DEF Next, Task, Select

\* Whatever the builder is given and whatever comes in, the pipeline never sees
\* more than the maximum, and with a larger buffer it sees no cut datagram.
THEOREM PipelineSeesWholeDatagrams == Spec => []WholeDatagrams
<1>1. Init => TypeOK /\ InHand /\ CutAndChecked
  BY InitType DEF Init, CutAndChecked
<1>2. TypeOK /\ InHand /\ CutAndChecked /\ [Next]_vars =>
        (TypeOK /\ InHand /\ CutAndChecked)'
  BY TypeStep, InHandStep, CutStep
<1>3. TypeOK /\ CutAndChecked => WholeDatagrams
  <2> SUFFICES ASSUME TypeOK, CutAndChecked, NEW i \in 1..Len(received)
               PROVE  /\ received[i].read <= config.max
                      /\ config.capacity > config.max =>
                           received[i].read = received[i].size
    BY DEF WholeDatagrams
  <2>1. config.capacity \in Nat /\ config.max \in Nat
    BY DEF TypeOK, Configs
  <2>2. received[i].size \in Nat
    <3>1. received \in Seq(Datagram)
      BY DEF TypeOK
    <3>2. received[i] \in Datagram
      BY <3>1
    <3>3. QED
      BY <3>2 DEF Datagram
  <2>3. /\ received[i].read = Smaller(received[i].size, config.capacity)
        /\ received[i].read <= config.max
    BY DEF CutAndChecked
  <2>4. QED
    BY <2>1, <2>2, <2>3 DEF Smaller
<1>4. QED
  BY <1>1, <1>2, <1>3, PTL DEF Spec

-----------------------------------------------------------------------------
(***************************************************************************)
(* The Life hooks.                                                         *)
(***************************************************************************)

LEMMA AppendOne ==
  ASSUME NEW a, NEW b
  PROVE  Append(<<a>>, b) = <<a, b>>
<1> DEFINE s == Append(<<a>>, b)
           t == <<a, b>>
<1>1. <<a>> \in Seq({a, b}) /\ t \in Seq({a, b}) /\ s \in Seq({a, b})
  OBVIOUS
<1>2. Len(s) = 2 /\ s[1] = a /\ s[2] = b
  OBVIOUS
<1>3. Len(t) = 2 /\ t[1] = a /\ t[2] = b
  OBVIOUS
<1> HIDE DEF s, t
<1>4. s = t
  BY <1>1, <1>2, <1>3, SeqEqual
<1>5. QED
  BY <1>4 DEF s, t

\* Which hooks ran is a function of where the task is, except at the end: a
\* refused start leaves none, a panic may leave the started hook alone.
HooksInv ==
  /\ pc = "starting" => hooks = <<>>
  /\ pc \notin {"starting", "stopped"} => hooks = <<"started">>
  /\ pc = "stopped" =>
       /\ hooks \in {<<>>, <<"started">>, <<"started", "stopped">>}
       /\ hooks = <<"started">> => outcome = "Panic"
       /\ outcome = "Ok" => hooks = <<"started", "stopped">>
       /\ Awaiting = {}
  /\ rxOpen <=> pc # "stopped"
  /\ outcome = "running" <=> pc \notin {"stopping", "stopped"}

LEMMA HooksStep == TypeOK /\ HooksInv /\ [Next]_vars => HooksInv'
<1> SUFFICES ASSUME TypeOK, HooksInv, [Next]_vars PROVE HooksInv'
  OBVIOUS
<1> USE DEF HooksInv, queueVars, appVars, handlerVars, sendVars, answerVars,
            lifeVars, Elsewhere, HandlerStay
<1>1. rxOpen /\ UNCHANGED <<rxOpen, hooks>> /\ pc # "starting" /\ pc' \notin {"starting", "stopped"}
        /\ (outcome' = "running" <=> pc' # "stopping") => HooksInv'
  OBVIOUS
<1>2. CASE CheckShutdown \/ Select \/ EncodeCommand \/ SendCommand \/ InboundStages
             \/ Drain
  BY <1>1, <1>2 DEF CheckShutdown, Select, SelectReceive, SelectCommand,
     SelectShutdown, EncodeCommand, SendCommand, InboundStages, AfterHandled,
     Drain, DrainWrite, DrainSend, DrainFlush, DrainResumes, DrainEnds, End, Continue
<1>3. CASE Handler
  BY <1>1, <1>3 DEF Handler, HandlerRuns, HandlerWrites,
     HandlerFlushes, HandlerAbandonsFlush, HandlerCloses, HandlerShares,
     HandlerReturns, HandlerPending
<1>4. Release => Awaiting' = {}
  <2> SUFFICES ASSUME Release, NEW w \in Writers, writer'[w].kind = "awaiting"
               PROVE  FALSE
    BY DEF Awaiting
  <2>1. writer'[w] = IF w \in Awaiting THEN Idle(Pending(w)) ELSE writer[w]
    BY DEF Release
  <2>2. QED
    BY <2>1 DEF Awaiting, Idle
<1>5. CASE StartedHook
  <2>1. Append(<<>>, "started") = <<"started">>
    OBVIOUS
  <2>0. <<>> # <<"started">>
    OBVIOUS
  <2>2. CASE StartRefused
    <3>1. /\ pc' = "stopped" /\ outcome' = "Err" /\ hooks' = <<>>
          /\ ~rxOpen' /\ Awaiting' = {}
      BY <1>4, <1>5, <2>2 DEF StartedHook, StartRefused, Release
    <3>2. QED
      BY <2>0, <3>1
  <2>3. CASE /\ pc' = "top"
             /\ hooks' = Append(hooks, "started")
             /\ UNCHANGED <<queueVars, appVars, answerVars, shutdown, outcome>>
    BY <1>5, <2>1, <2>3 DEF StartedHook
  <2>4. QED
    BY <1>5, <2>2, <2>3 DEF StartedHook
<1>6. CASE StoppedHook
  <2>1. Append(<<"started">>, "stopped") = <<"started", "stopped">>
    BY AppendOne
  <2>2. <<"started">> # <<"started", "stopped">>
    OBVIOUS
  <2>3. QED
    BY <1>4, <1>6, <2>1, <2>2 DEF StoppedHook, Release
<1>7. CASE Panic
  BY <1>4, <1>7 DEF Panic, Release
<1>8. CASE Application
  <2>1. ASSUME NEW w \in Writers, NEW kind \in Kinds, NEW to \in Peers, Begin(w, kind, to)
        PROVE  pc = "stopped" => Awaiting' \subseteq Awaiting
    BY <2>1 DEF Begin, Awaiting, TypeOK, Kinds
  <2>2. ASSUME NEW w \in Writers, Rejected(w)
        PROVE  Awaiting' \subseteq Awaiting
    BY <2>2 DEF Rejected, Awaiting, TypeOK
  <2>3. QED
   BY <1>8, <2>1, <2>2 DEF Application, Begin, Enqueue, Rejected, HandleUsed, Awaiting
<1>9. CASE UNCHANGED vars
  BY <1>9 DEF vars, Awaiting
<1>10. QED
  BY <1>2, <1>3, <1>5, <1>6, <1>7, <1>8, <1>9 DEF Next, Task

\* Whatever fails, the stopped hook runs exactly when the started hook did and no
\* panic unwound the task, and when the task is over nobody waits for an answer.
THEOREM HooksPairUp == Spec => []LifePaired
<1>1. Init => TypeOK /\ InHand /\ HooksInv
  BY InitType DEF Init, HooksInv
<1>2. TypeOK /\ InHand /\ HooksInv /\ [Next]_vars => (TypeOK /\ InHand /\ HooksInv)'
  BY TypeStep, InHandStep, HooksStep
<1>3. HooksInv => LifePaired
  BY DEF HooksInv, LifePaired
<1>4. QED
  BY <1>1, <1>2, <1>3, PTL DEF Spec

-----------------------------------------------------------------------------
(***************************************************************************)
(* The command queue.                                                      *)
(***************************************************************************)

\* The commands the task has dealt with; while it encodes and sends one, that
\* one is not yet among them.
InCommand == pc \in {"encode", "send"}
Handled   == IF InCommand THEN taken - 1 ELSE taken

\* A writer numbers its operations, so no two commands carry the same message,
\* and none carries that of an operation that has not been queued yet.
Numbered ==
  /\ \A w \in Writers : writer[w].msg.src = w /\ writer[w].msg.n = count[w]
  /\ \A i \in 1..Len(queue) :
       LET m == queue[i].msg
       IN /\ m.src \in Writers
          /\ m.n <= count[m.src]
          /\ writer[m.src].kind \in Kinds => m.n < count[m.src]
  /\ \A i, j \in 1..Len(queue) : i < j => queue[i].msg # queue[j].msg

\* A flush command that has no answer yet is the one its writer waits for.
Expected ==
  rxOpen =>
    \A i \in 1..Len(queue) :
      i > Handled /\ queue[i].kind = "WriteToAndFlush" =>
        /\ writer[queue[i].msg.src].kind = "awaiting"
        /\ writer[queue[i].msg.src].msg = queue[i].msg

\* Whoever waits has its command still in the queue or in the task's hands.
Awaited ==
  \A w \in Writers : writer[w].kind = "awaiting" =>
    \E i \in 1..Len(queue) :
      i > Handled /\ queue[i].kind = "WriteToAndFlush" /\ queue[i].msg = writer[w].msg

QueueInv == Numbered /\ Expected /\ Awaited

\* The steps that leave the queue and the calls of the application alone.
Aside ==
  /\ UNCHANGED <<queue, taken, rxOpen, writer, count, denied>>
  /\ InCommand' <=> InCommand

LEMMA AsideSteps ==
  HandleUsed \/ CheckShutdown \/ SelectShutdown \/ SelectReceive
    \/ InboundStages \/ Handler \/ Drain \/ UNCHANGED vars => Aside
<1> USE DEF Aside, InCommand, queueVars, appVars, handlerVars, sendVars,
            answerVars, lifeVars, Elsewhere, HandlerStay, End, Continue
<1>1. HandleUsed \/ CheckShutdown \/ SelectShutdown \/ SelectReceive
        \/ InboundStages => Aside
  BY DEF HandleUsed, CheckShutdown, SelectShutdown, SelectReceive,
     InboundStages, AfterHandled
<1>2. Handler => Aside
  BY DEF Handler, HandlerRuns, HandlerWrites, HandlerFlushes, HandlerAbandonsFlush,
     HandlerCloses, HandlerShares, HandlerReturns, HandlerPending
<1>3. Drain => Aside
  BY DEF Drain, DrainWrite, DrainSend, DrainFlush, DrainResumes, DrainEnds,
     AfterHandled
<1>4. UNCHANGED vars => Aside
  BY DEF vars
<1>5. QED
  BY <1>1, <1>2, <1>3, <1>4

\* The steps that drop the receiver: a refused start, the end and a panic.
Releasing == Release /\ pc' = "stopped" /\ UNCHANGED <<net, dropped, staged>>

LEMMA ReleasingSteps ==
  /\ StoppedHook \/ Panic => Releasing
  /\ StartedHook => Aside \/ Releasing
<1> USE DEF Releasing, Aside, InCommand, queueVars, appVars, handlerVars,
            sendVars, answerVars, lifeVars
<1>1. StoppedHook \/ Panic => Releasing
  BY DEF StoppedHook, Panic
<1>2. StartedHook => Aside \/ Releasing
  BY DEF StartedHook, StartRefused
<1>3. QED
  BY <1>1, <1>2

\* What dropping the receiver does to one writer.
LEMMA ReleaseWriter ==
  ASSUME TypeOK, Release, NEW w \in Writers
  PROVE  /\ writer'[w].msg = writer[w].msg
         /\ writer'[w].kind # "awaiting"
         /\ writer'[w].kind \in Kinds => writer[w].kind \in Kinds
<1>1. writer'[w] = IF w \in Awaiting THEN Idle(Pending(w)) ELSE writer[w]
  BY DEF Release
<1>2. QED
  BY <1>1 DEF Awaiting, Idle, Pending, Kinds

\* What an answer does to the writers: its own goes on, with the same message.
LEMMA AnswerWriter ==
  ASSUME TypeOK, QueueInv, rxOpen, taken > 0, InCommand, NEW ok, Answer(ok),
         NEW w \in Writers
  PROVE  /\ writer'[w].msg = writer[w].msg
         /\ \/ writer'[w] = writer[w]
            \/ writer'[w].kind = "idle" /\ Current.kind = "WriteToAndFlush"
                 /\ w = Current.msg.src
         /\ Current.kind = "WriteToAndFlush" => writer'[Current.msg.src].kind = "idle"
<1>1. queue \in Seq(Command) /\ taken \in 1..Len(queue) /\ Current = queue[taken]
  BY DEF TypeOK, Current
<1>2. Current.msg.src \in Writers
  BY <1>1 DEF QueueInv, Numbered
<1>3. CASE Current.kind = "WriteToAndFlush"
  <2>1. writer' = [writer EXCEPT ![Current.msg.src] = Idle(Current.msg)]
    BY <1>3 DEF Answer
  <2>2. writer[Current.msg.src].msg = Current.msg
    BY <1>1, <1>3 DEF QueueInv, Expected, Handled
  <2>3. QED
    BY <1>2, <1>3, <2>1, <2>2 DEF Idle, TypeOK
<1>4. CASE Current.kind # "WriteToAndFlush"
  BY <1>4 DEF Answer
<1>5. QED
  BY <1>3, <1>4

\* A writer that goes on or begins its next operation keeps the numbering.
LEMMA NumberedKept ==
  ASSUME TypeOK, Numbered, UNCHANGED queue,
         \A w \in Writers :
           /\ writer'[w].msg.src = w /\ writer'[w].msg.n = count'[w]
           /\ count'[w] = count[w] \/ count'[w] = count[w] + 1
           /\ writer'[w].kind \in Kinds =>
                writer[w].kind \in Kinds \/ count'[w] = count[w] + 1
  PROVE  Numbered'
<1>1. ASSUME NEW i \in 1..Len(queue)
      PROVE  /\ queue[i].msg.src \in Writers
             /\ queue[i].msg.n <= count'[queue[i].msg.src]
             /\ writer'[queue[i].msg.src].kind \in Kinds =>
                  queue[i].msg.n < count'[queue[i].msg.src]
  <2> DEFINE w == queue[i].msg.src
             n == queue[i].msg.n
  <2>1. w \in Writers /\ n <= count[w] /\ (writer[w].kind \in Kinds => n < count[w])
    BY DEF Numbered
  <2>2. count[w] \in Nat /\ n \in Nat
    <3>1. queue[i] \in Command /\ count \in [Writers -> Nat]
      BY DEF TypeOK
    <3>2. QED
      BY <2>1, <3>1 DEF Command, Msg
  <2> HIDE DEF w, n
  <2>3. n <= count'[w] /\ (writer'[w].kind \in Kinds => n < count'[w])
    BY <2>1, <2>2
  <2>4. QED
    BY <2>1, <2>3 DEF w, n
<1>2. QED
  BY <1>1 DEF Numbered

LEMMA QueueStep ==
  TypeOK /\ InHand /\ HooksInv /\ QueueInv /\ [Next]_vars => QueueInv'
<1> SUFFICES ASSUME TypeOK, InHand, HooksInv, QueueInv, [Next]_vars
             PROVE  QueueInv'
  OBVIOUS
<1>0. /\ queue \in Seq(Command) /\ taken \in 0..Len(queue)
      /\ count \in [Writers -> Nat]
      /\ writer \in [Writers -> [kind : {"idle", "awaiting"} \cup Kinds, msg : Msg]]
  BY DEF TypeOK
<1>1. ASSUME NEW w \in Writers, NEW kind \in Kinds, NEW to \in Peers,
             Begin(w, kind, to)
      PROVE  QueueInv'
  <2>1. /\ writer[w].kind = "idle"
        /\ writer'[w].msg.src = w /\ writer'[w].msg.n = count'[w]
        /\ writer'[w].kind = kind /\ kind # "awaiting"
        /\ count'[w] = count[w] + 1
        /\ \A v \in Writers \ {w} : writer'[v] = writer[v] /\ count'[v] = count[v]
        /\ UNCHANGED <<pc, queue, taken, rxOpen>>
    BY <1>0, <1>1 DEF Begin, queueVars, Kinds
  <2>2. Numbered'
    <3>1. \A v \in Writers : writer[v].msg.src = v /\ writer[v].msg.n = count[v]
      BY DEF QueueInv, Numbered
    <3>2. ASSUME NEW v \in Writers
          PROVE  /\ writer'[v].msg.src = v /\ writer'[v].msg.n = count'[v]
                 /\ count'[v] = count[v] \/ count'[v] = count[v] + 1
                 /\ writer'[v].kind \in Kinds =>
                      writer[v].kind \in Kinds \/ count'[v] = count[v] + 1
      <4>1. CASE v = w
        BY <2>1, <4>1
      <4>2. CASE v # w
        <5>1. writer'[v] = writer[v] /\ count'[v] = count[v]
          BY <2>1, <4>2
        <5>2. QED
          BY <3>1, <5>1
      <4>3. QED
        BY <4>1, <4>2
    <3>3. QED
      BY <2>1, <3>2, NumberedKept DEF QueueInv
  <2>3. \A i \in 1..Len(queue) : queue[i].msg.src \in Writers
    BY DEF QueueInv, Numbered
  <2>4. Expected'
    BY <1>0, <2>1, <2>3 DEF QueueInv, Expected, Handled, InCommand
  <2>5. Awaited'
    BY <1>0, <2>1 DEF QueueInv, Awaited, Handled, InCommand
  <2>6. QED
    BY <2>2, <2>4, <2>5 DEF QueueInv
<1>2. ASSUME NEW w \in Writers, Enqueue(w)
      PROVE  QueueInv'
  <2>1. writer[w] \in Command /\ queue' = Append(queue, writer[w])
    BY <1>0, <1>2 DEF Enqueue, Command
  <2>2. /\ Len(queue') = Len(queue) + 1
        /\ \A i \in 1..Len(queue) : queue'[i] = queue[i]
        /\ queue'[Len(queue) + 1] = writer[w]
    BY <1>0, <2>1
  <2>3. /\ writer[w].kind \in Kinds
        /\ writer'[w].msg = writer[w].msg
        /\ writer'[w].kind =
             IF writer[w].kind = "WriteToAndFlush" THEN "awaiting" ELSE "idle"
        /\ \A v \in Writers \ {w} : writer'[v] = writer[v]
        /\ UNCHANGED <<pc, taken, rxOpen, count>>
    BY <1>0, <1>2 DEF Enqueue
  <2>4. \A i \in 1..Len(queue') : i \in 1..Len(queue) \/ i = Len(queue) + 1
    BY <1>0, <2>2
  <2>5. \A i \in 1..Len(queue) : queue[i].msg # writer[w].msg
    BY <1>0, <2>3 DEF QueueInv, Numbered
  <2>6. Numbered'
    <3>1. \A v \in Writers : writer'[v].msg.src = v /\ writer'[v].msg.n = count'[v]
      BY <2>3 DEF QueueInv, Numbered
    <3>2. writer'[w].kind \notin Kinds
      BY <2>3 DEF Kinds
    <3>3. \A i \in 1..Len(queue') :
             /\ queue'[i].msg.src \in Writers
             /\ queue'[i].msg.n <= count'[queue'[i].msg.src]
             /\ writer'[queue'[i].msg.src].kind \in Kinds =>
                  queue'[i].msg.n < count'[queue'[i].msg.src]
      <4>1. ASSUME NEW i \in 1..Len(queue)
            PROVE  /\ queue[i].msg.src \in Writers
                   /\ queue[i].msg.n <= count[queue[i].msg.src]
                   /\ writer'[queue[i].msg.src].kind \in Kinds =>
                        queue[i].msg.n < count[queue[i].msg.src]
        BY <2>3, <3>2 DEF QueueInv, Numbered
      <4>2. writer[w].msg.src = w /\ writer[w].msg.n <= count[w]
        BY <1>0 DEF QueueInv, Numbered
      <4>3. ASSUME NEW i \in 1..Len(queue')
            PROVE  /\ queue'[i].msg.src \in Writers
                   /\ queue'[i].msg.n <= count[queue'[i].msg.src]
                   /\ writer'[queue'[i].msg.src].kind \in Kinds =>
                        queue'[i].msg.n < count[queue'[i].msg.src]
        <5>1. CASE i \in 1..Len(queue)
          <6>1. queue'[i] = queue[i]
            BY <2>2, <5>1
          <6>2. QED
            BY <4>1, <5>1, <6>1
        <5>2. CASE i = Len(queue) + 1
          <6>1. queue'[i].msg = writer[w].msg
            BY <2>2, <5>2
          <6>2. QED
            BY <3>2, <4>2, <6>1
        <5>3. QED
          BY <2>4, <5>1, <5>2
      <4>4. count' = count
        BY <2>3
      <4>5. QED
        BY <4>3, <4>4
    <3>4. \A i, j \in 1..Len(queue') : i < j => queue'[i].msg # queue'[j].msg
      <4>1. ASSUME NEW i \in 1..Len(queue'), NEW j \in 1..Len(queue'), i < j
            PROVE  queue'[i].msg # queue'[j].msg
        <5>1. i \in 1..Len(queue) /\ queue'[i] = queue[i]
          BY <1>0, <2>2, <4>1
        <5>2. CASE j \in 1..Len(queue)
          <6>1. queue'[j] = queue[j]
            BY <2>2, <5>2
          <6>2. QED
            BY <4>1, <5>1, <5>2, <6>1 DEF QueueInv, Numbered
        <5>3. CASE j = Len(queue) + 1
          <6>1. queue'[j].msg = writer[w].msg
            BY <2>2, <5>3
          <6>2. QED
            BY <2>5, <5>1, <6>1
        <5>4. QED
          BY <2>4, <5>2, <5>3
      <4>2. QED
        BY <4>1
    <3>5. QED
      BY <3>1, <3>3, <3>4 DEF Numbered
  <2>7. Expected'
    <3>1. ASSUME NEW i \in 1..Len(queue), rxOpen, i > Handled,
                 queue[i].kind = "WriteToAndFlush"
          PROVE  writer'[queue[i].msg.src] = writer[queue[i].msg.src]
      BY <2>3, <3>1, <2>5 DEF QueueInv, Expected, Numbered, Kinds
    <3>2. queue'[Len(queue) + 1].kind = "WriteToAndFlush" =>
            writer'[w].kind = "awaiting" /\ writer'[w].msg = writer[w].msg
      BY <2>2, <2>3
    <3>3. writer[w].msg.src = w
      BY DEF QueueInv, Numbered
    <3>4. Handled' = Handled
      BY <2>3 DEF Handled, InCommand
    <3>5. QED
      BY <2>2, <2>3, <2>4, <3>1, <3>2, <3>3, <3>4 DEF QueueInv, Expected
  <2>8. Awaited'
    <3>1. Handled' = Handled /\ Handled <= Len(queue)
      BY <1>0, <2>3 DEF Handled, InCommand
    <3>2. Handled < Len(queue) + 1 /\ Len(queue) + 1 \in 1..Len(queue')
           /\ \A i \in 1..Len(queue) : i \in 1..Len(queue')
      BY <1>0, <2>2, <3>1 DEF Handled
    <3>3. \A v \in Writers \ {w} : writer'[v].kind = "awaiting" =>
            \E i \in 1..Len(queue') :
              /\ i > Handled' /\ queue'[i].kind = "WriteToAndFlush"
              /\ queue'[i].msg = writer'[v].msg
      BY <2>2, <2>3, <3>1, <3>2 DEF QueueInv, Awaited
    <3>4. writer'[w].kind = "awaiting" =>
            \E i \in 1..Len(queue') :
              /\ i > Handled' /\ queue'[i].kind = "WriteToAndFlush"
              /\ queue'[i].msg = writer'[w].msg
      BY <2>2, <2>3, <3>1, <3>2
    <3>5. QED
      BY <3>3, <3>4 DEF Awaited
  <2>9. QED
    BY <2>6, <2>7, <2>8 DEF QueueInv
<1>3. ASSUME NEW w \in Writers, Rejected(w)
      PROVE  QueueInv'
  <2>1. /\ ~rxOpen /\ writer'[w].msg = writer[w].msg /\ writer'[w].kind = "idle"
        /\ \A v \in Writers \ {w} : writer'[v] = writer[v]
        /\ UNCHANGED <<pc, queue, taken, rxOpen, count>>
    BY <1>0, <1>3 DEF Rejected, queueVars
  <2>2. "idle" \notin Kinds
    BY DEF Kinds
  <2>3. Numbered'
    <3>1. \A v \in Writers : writer[v].msg.src = v /\ writer[v].msg.n = count[v]
      BY DEF QueueInv, Numbered
    <3>2. ASSUME NEW v \in Writers
          PROVE  /\ writer'[v].msg = writer[v].msg
                 /\ writer'[v].kind \in Kinds => writer[v].kind \in Kinds
      BY <2>1, <2>2
    <3>3. QED
      BY <2>1, <3>1, <3>2, NumberedKept DEF QueueInv
  <2>4. Expected' /\ Awaited'
    BY <1>0, <2>1 DEF QueueInv, Expected, Awaited, Handled, InCommand
  <2>5. QED
    BY <2>3, <2>4 DEF QueueInv
<1>4. ASSUME Aside
      PROVE  QueueInv'
  <2>1. Handled' = Handled
    BY <1>4 DEF Aside, Handled
  <2>2. QED
    BY <1>4, <2>1 DEF Aside, QueueInv, Numbered, Expected, Awaited
<1>5. ASSUME Releasing
      PROVE  QueueInv'
  <2>1. UNCHANGED <<queue, taken, count>> /\ ~rxOpen'
    BY <1>5 DEF Releasing, Release
  <2>2. \A w \in Writers : /\ writer'[w].msg = writer[w].msg
                           /\ writer'[w].kind # "awaiting"
                           /\ writer'[w].kind \in Kinds => writer[w].kind \in Kinds
    BY <1>5, ReleaseWriter DEF Releasing
  <2>3. Numbered'
    BY <2>1, <2>2 DEF QueueInv, Numbered
  <2>4. QED
    BY <2>1, <2>2, <2>3 DEF QueueInv, Expected, Awaited
<1>6. ASSUME SelectCommand
      PROVE  QueueInv'
  <2>1. /\ taken' = taken + 1 /\ taken < Len(queue) /\ ~InCommand
        /\ UNCHANGED <<queue, rxOpen, writer, count>>
        /\ IF queue[taken + 1].kind = "Close" THEN ~InCommand' ELSE InCommand'
    BY <1>6 DEF SelectCommand, InCommand, End, Continue, appVars
  <2>2. Numbered'
    BY <2>1 DEF QueueInv, Numbered
  <2>3. CASE queue[taken + 1].kind = "Close"
    <3>1. Handled' = taken + 1 /\ Handled = taken
      BY <2>1, <2>3 DEF Handled
    <3>2. Expected'
      BY <1>0, <2>1, <3>1 DEF QueueInv, Expected
    <3>3. Awaited'
      <4> SUFFICES ASSUME NEW w \in Writers, writer[w].kind = "awaiting"
                   PROVE  \E i \in 1..Len(queue) :
                            /\ i > taken + 1 /\ queue[i].kind = "WriteToAndFlush"
                            /\ queue[i].msg = writer[w].msg
        BY <2>1, <3>1 DEF Awaited
      <4>1. PICK i \in 1..Len(queue) :
              /\ i > taken /\ queue[i].kind = "WriteToAndFlush"
              /\ queue[i].msg = writer[w].msg
        BY <3>1 DEF QueueInv, Awaited
      <4>2. i # taken + 1
        BY <2>3, <4>1
      <4>3. QED
        BY <1>0, <4>1, <4>2
    <3>4. QED
      BY <2>2, <3>2, <3>3 DEF QueueInv
  <2>4. CASE queue[taken + 1].kind # "Close"
    <3>1. Handled' = Handled
      BY <1>0, <2>1, <2>4 DEF Handled
    <3>2. QED
      BY <2>1, <2>2, <3>1 DEF QueueInv, Expected, Awaited
  <2>5. QED
    BY <2>3, <2>4
\* An answered or failed command: the task is through with it.
<1>7. ASSUME rxOpen, InCommand, ~InCommand', UNCHANGED <<queue, taken, rxOpen, count>>,
             \E ok \in BOOLEAN : Answer(ok)
      PROVE  QueueInv'
  <2>1. taken > 0 /\ Current = queue[taken] /\ Handled = taken - 1 /\ Handled' = taken
    BY <1>7 DEF InHand, InCommand, Current, Handled
  <2>2. PICK ok \in BOOLEAN : Answer(ok)
    BY <1>7
  <2>3. \A w \in Writers :
          /\ writer'[w].msg = writer[w].msg
          /\ \/ writer'[w] = writer[w]
             \/ writer'[w].kind = "idle" /\ Current.kind = "WriteToAndFlush"
                  /\ w = Current.msg.src
          /\ Current.kind = "WriteToAndFlush" => writer'[Current.msg.src].kind = "idle"
    BY <1>7, <2>1, <2>2, AnswerWriter
  <2>4. "idle" \notin Kinds
    BY DEF Kinds
  <2>5. Numbered'
    BY <1>0, <1>7, <2>3, <2>4, NumberedKept DEF QueueInv, Numbered
  <2>6. Expected'
    <3> SUFFICES ASSUME NEW i \in 1..Len(queue), i > taken,
                        queue[i].kind = "WriteToAndFlush"
                 PROVE  /\ writer'[queue[i].msg.src].kind = "awaiting"
                        /\ writer'[queue[i].msg.src].msg = queue[i].msg
      BY <1>7, <2>1 DEF Expected
    <3>1. /\ queue[i].msg.src \in Writers
          /\ writer[queue[i].msg.src].kind = "awaiting"
          /\ writer[queue[i].msg.src].msg = queue[i].msg
      BY <1>0, <1>7, <2>1 DEF QueueInv, Numbered, Expected
    <3>2. queue[taken].msg # queue[i].msg
      BY <1>0, <2>1 DEF QueueInv, Numbered
    <3>3. Current.kind = "WriteToAndFlush" => Current.msg.src # queue[i].msg.src
      BY <1>0, <1>7, <2>1, <3>1, <3>2 DEF QueueInv, Expected
    <3>4. QED
      BY <2>3, <3>1, <3>3
  <2>7. Awaited'
    <3> SUFFICES ASSUME NEW w \in Writers, writer'[w].kind = "awaiting"
                 PROVE  \E i \in 1..Len(queue) :
                          /\ i > taken /\ queue[i].kind = "WriteToAndFlush"
                          /\ queue[i].msg = writer[w].msg
      BY <1>7, <2>1, <2>3 DEF Awaited
    <3>1. writer'[w] = writer[w]
      BY <2>3
    <3>2. PICK i \in 1..Len(queue) :
            /\ i > taken - 1 /\ queue[i].kind = "WriteToAndFlush"
            /\ queue[i].msg = writer[w].msg
      BY <2>1, <3>1 DEF QueueInv, Awaited
    <3>3. i # taken
      BY <2>1, <2>3, <3>1, <3>2 DEF QueueInv, Numbered
    <3>4. QED
      BY <1>0, <3>2, <3>3
  <2>8. QED
    BY <2>5, <2>6, <2>7 DEF QueueInv
<1>8. ASSUME EncodeCommand
      PROVE  QueueInv'
  <2>1. CASE Encoded(Current.msg) /\ Continue("send") /\ UNCHANGED <<appVars, answerVars>>
    <3>1. Aside
      BY <1>8, <2>1 DEF EncodeCommand, Aside, InCommand, Continue, queueVars, appVars,
         answerVars
    <3>2. QED
      BY <1>4, <3>1
  <2>2. CASE Answer(FALSE) /\ End("Err")
    <3>1. rxOpen /\ InCommand /\ ~InCommand' /\ UNCHANGED <<queue, taken, rxOpen, count>>
      BY <1>8, <2>2 DEF EncodeCommand, HooksInv, InCommand, End, queueVars, Answer
    <3>2. QED
      BY <1>7, <2>2, <3>1, Booleans
  <2>3. QED
    BY <1>8, <2>1, <2>2 DEF EncodeCommand
<1>9. ASSUME SendCommand
      PROVE  QueueInv'
  <2>1. \E ok \in BOOLEAN : Answer(ok)
    BY <1>9, Booleans DEF SendCommand
  <2>2. rxOpen /\ InCommand /\ ~InCommand' /\ UNCHANGED <<queue, taken, rxOpen, count>>
    BY <1>9 DEF SendCommand, HooksInv, InCommand, End, Continue, queueVars, Answer
  <2>3. QED
    BY <1>7, <2>1, <2>2
<1>10. QED
  BY <1>1, <1>2, <1>3, <1>4, <1>5, <1>6, <1>8, <1>9, AsideSteps, ReleasingSteps
  DEF Next, Application, Task, Select

-----------------------------------------------------------------------------
(***************************************************************************)
(* What is on the network, and where it came from.                         *)
(***************************************************************************)

\* An encoded message that has no byte is recorded as dropped.
EmptyIsDropped ==
  /\ pc = "send" /\ writeBuf = <<>> => Current.msg \in dropped
  /\ pc = "drainsend" /\ writeBuf = <<>> => Head(outbox).msg \in dropped

LEMMA EmptyIsDroppedStep ==
  TypeOK /\ InHand /\ EmptyIsDropped /\ [Next]_vars => EmptyIsDropped'
<1> SUFFICES ASSUME TypeOK, InHand, EmptyIsDropped, [Next]_vars
             PROVE  EmptyIsDropped'
  OBVIOUS
<1> USE DEF EmptyIsDropped, queueVars, appVars, handlerVars, sendVars, answerVars,
            lifeVars, Elsewhere, HandlerStay, End, Continue, Current
<1>1. taken \in 0..Len(queue) /\ queue \in Seq(Command) /\ writeBuf \in Seq(Msg)
  BY DEF TypeOK
<1>2. ASSUME NEW w \in Writers, Enqueue(w)
      PROVE  EmptyIsDropped'
  <2>1. taken > 0 => queue'[taken'] = queue[taken]
    <3>1. writer[w] \in Command
      BY <1>2 DEF Enqueue, TypeOK, Command
    <3>2. QED
      BY <1>1, <1>2, <3>1 DEF Enqueue
  <2>2. QED
    BY <1>2, <2>1 DEF Enqueue, InHand
<1>3. ASSUME NEW m \in Msg, Encoded(m)
      PROVE  writeBuf' = <<>> => m \in dropped'
  BY <1>1, <1>3 DEF Encoded
<1>4. CASE EncodeCommand
  <2>1. Current.msg \in Msg
    BY <1>4, CurrentType DEF EncodeCommand, InHand
  <2>2. QED
    BY <1>3, <1>4, <2>1 DEF EncodeCommand
<1>5. CASE DrainWrite
  <2>1. Head(outbox).msg \in Msg
    BY <1>5, OutboxType DEF DrainWrite
  <2>2. QED
    BY <1>3, <1>5, <2>1 DEF DrainWrite
<1>6. CASE StartedHook \/ StoppedHook \/ Panic \/ CheckShutdown \/ Select
             \/ SendCommand \/ InboundStages
  BY <1>6 DEF StartedHook, StartRefused, StoppedHook, Panic, CheckShutdown, Select,
     SelectReceive, SelectCommand, SelectShutdown, SendCommand, InboundStages,
     AfterHandled
<1>7. CASE Handler
  BY <1>7 DEF Handler, HandlerRuns, HandlerWrites, HandlerFlushes,
     HandlerAbandonsFlush, HandlerCloses, HandlerShares, HandlerReturns, HandlerPending
<1>8. CASE DrainSend \/ DrainFlush \/ DrainResumes \/ DrainEnds
  BY <1>8 DEF DrainSend, DrainFlush, DrainResumes, DrainEnds, AfterHandled
<1>9. CASE UNCHANGED vars
  BY <1>9 DEF vars
<1>10. CASE HandleUsed \/ \E w \in Writers : Rejected(w)
                          \/ \E kind \in Kinds, to \in Peers : Begin(w, kind, to)
  BY <1>10 DEF HandleUsed, Rejected, Begin
<1>11. QED
  BY <1>2, <1>4, <1>5, <1>6, <1>7, <1>8, <1>9, <1>10
  DEF Next, Application, Task, Drain

\* Sending puts on the network what write_buf holds, and takes nothing away.
LEMMA FlushNet ==
  ASSUME TypeOK, NEW to \in Peers, FlushDatagram(to), NEW m \in Msg
  PROVE  OnNet(m)' <=> OnNet(m) \/ \E k \in 1..Len(writeBuf) : writeBuf[k] = m
<1>1. CASE writeBuf = <<>>
  BY <1>1 DEF FlushDatagram, OnNet
<1>2. CASE writeBuf # <<>>
  <2> DEFINE sent == [to |-> to, content |-> writeBuf]
  <2>1. net' = Append(net, sent)
    BY <1>2 DEF FlushDatagram
  <2>2. net \in Seq(Sent) /\ sent \in Sent /\ sent.content = writeBuf
    BY DEF TypeOK, Sent
  <2> HIDE DEF sent
  <2>3. /\ Len(net') = Len(net) + 1
        /\ \A i \in 1..Len(net) : net'[i] = net[i]
        /\ net'[Len(net) + 1] = sent
    BY <2>1, <2>2
  <2>4. \A i \in 1..Len(net') : i \in 1..Len(net) \/ i = Len(net) + 1
    BY <2>2, <2>3
  <2>5. Len(net) + 1 \in 1..Len(net') /\ \A i \in 1..Len(net) : i \in 1..Len(net')
    BY <2>2, <2>3
  <2>6. QED
    BY <2>2, <2>3, <2>4, <2>5 DEF OnNet
<1>3. QED
  BY <1>1, <1>2

\* What a step adds to the network is the message in hand, and a message once
\* sent or dropped stays so.
Adds(m) ==
  \/ pc = "send" /\ pc' = "top" /\ m = Current.msg
  \/ pc = "drainsend" /\ pc' = "drain" /\ m = Head(outbox).msg

NetGrows ==
  \A m \in Msg : /\ Settled(m) => Settled(m)'
                 /\ OnNet(m)' => OnNet(m) \/ Adds(m)

LEMMA NetStep ==
  TypeOK /\ InHand /\ BufferShape /\ [Next]_vars => NetGrows
<1> SUFFICES ASSUME TypeOK, InHand, BufferShape, [Next]_vars
             PROVE  NetGrows
  OBVIOUS
<1> USE DEF queueVars, appVars, handlerVars, sendVars, answerVars, lifeVars,
            Elsewhere, HandlerStay
<1>1. UNCHANGED net /\ dropped \subseteq dropped' => NetGrows
  BY DEF NetGrows, Settled, OnNet
<1>2. CASE SendCommand
  <2>1. Current.msg \in Msg /\ Current.msg.to \in Peers
          /\ writeBuf \in {<<>>, <<Current.msg>>}
    BY <1>2, CurrentType DEF SendCommand, InHand, BufferShape
  <2>2. CASE FlushDatagram(Current.msg.to) /\ Continue("top")
    <3> SUFFICES ASSUME NEW m \in Msg
                 PROVE  /\ Settled(m) => Settled(m)'
                        /\ OnNet(m)' => OnNet(m) \/ Adds(m)
      BY DEF NetGrows
    <3>1. OnNet(m)' <=> OnNet(m) \/ \E k \in 1..Len(writeBuf) : writeBuf[k] = m
      BY <2>1, <2>2, FlushNet
    <3>2. (\E k \in 1..Len(writeBuf) : writeBuf[k] = m) => m = Current.msg
      BY <2>1
    <3>3. pc = "send" /\ pc' = "top" /\ UNCHANGED dropped
      BY <1>2, <2>2 DEF SendCommand, Continue, FlushDatagram
    <3>4. QED
      BY <3>1, <3>2, <3>3 DEF Settled, Adds
  <2>3. CASE UNCHANGED sendVars
    BY <1>1, <2>3
  <2>4. QED
    BY <1>2, <2>2, <2>3 DEF SendCommand
<1>3. CASE DrainSend
  <2>1. Head(outbox).msg \in Msg /\ Head(outbox).msg.to \in Peers
          /\ writeBuf \in {<<>>, <<Head(outbox).msg>>}
    BY <1>3, OutboxType DEF DrainSend, InHand, BufferShape
  <2>2. CASE FlushDatagram(Head(outbox).msg.to) /\ Continue("drain")
    <3> SUFFICES ASSUME NEW m \in Msg
                 PROVE  /\ Settled(m) => Settled(m)'
                        /\ OnNet(m)' => OnNet(m) \/ Adds(m)
      BY DEF NetGrows
    <3>1. OnNet(m)' <=> OnNet(m) \/ \E k \in 1..Len(writeBuf) : writeBuf[k] = m
      BY <2>1, <2>2, FlushNet
    <3>2. (\E k \in 1..Len(writeBuf) : writeBuf[k] = m) => m = Head(outbox).msg
      BY <2>1
    <3>3. pc = "drainsend" /\ pc' = "drain" /\ UNCHANGED dropped
      BY <1>3, <2>2 DEF DrainSend, Continue, FlushDatagram
    <3>4. QED
      BY <3>1, <3>2, <3>3 DEF Settled, Adds
  <2>3. CASE UNCHANGED sendVars
    BY <1>1, <2>3
  <2>4. QED
    BY <1>3, <2>2, <2>3 DEF DrainSend
<1>4. CASE Application
  BY <1>1, <1>4 DEF Application, Begin, Enqueue, Rejected, HandleUsed
<1>5. CASE StartedHook \/ StoppedHook \/ Panic \/ CheckShutdown \/ Select
  BY <1>1, <1>5 DEF StartedHook, StoppedHook, Panic, CheckShutdown, Select,
     SelectReceive, SelectCommand, SelectShutdown
<1>6. CASE EncodeCommand \/ DrainWrite
  BY <1>1, <1>6 DEF EncodeCommand, DrainWrite, Encoded
<1>7. CASE InboundStages \/ Handler
  BY <1>1, <1>7 DEF InboundStages, Handler, HandlerWrites, HandlerFlushes,
     HandlerAbandonsFlush, HandlerCloses, HandlerShares, HandlerReturns, HandlerPending
<1>8. CASE DrainFlush \/ DrainResumes \/ DrainEnds
  BY <1>1, <1>8 DEF DrainFlush, DrainResumes, DrainEnds
<1>9. CASE UNCHANGED vars
  BY <1>1, <1>9 DEF vars
<1>10. QED
  BY <1>2, <1>3, <1>4, <1>5, <1>6, <1>7, <1>8, <1>9 DEF Next, Task, Drain

\* The queue only grows, and the task deals with one command after another.
HandledGrows ==
  /\ Handled \in 0..Len(queue)
  /\ Handled' \in {Handled, Handled + 1}
  /\ Handled' \in 0..Len(queue')
  /\ \A a \in 1..Handled : queue'[a] = queue[a]
  /\ pc = "send" /\ pc' = "top" => Handled' = taken /\ queue' = queue

LEMMA HandledStep ==
  TypeOK /\ InHand /\ [Next]_vars => HandledGrows
<1> SUFFICES ASSUME TypeOK, InHand, [Next]_vars
             PROVE  HandledGrows
  OBVIOUS
<1>1. queue \in Seq(Command) /\ taken \in 0..Len(queue)
  BY DEF TypeOK
<1>2. Handled \in 0..Len(queue) /\ (InCommand => Handled = taken - 1 /\ taken > 0)
  BY <1>1 DEF Handled, InHand, InCommand
<1>3. Aside => HandledGrows
  BY <1>2 DEF Aside, HandledGrows, Handled, InCommand
<1>4. UNCHANGED <<queue, taken>> /\ pc' \notin {"top", "encode", "send"} => HandledGrows
  BY <1>1, <1>2 DEF HandledGrows, Handled, InCommand
<1>5. ASSUME NEW w \in Writers, Enqueue(w)
      PROVE  HandledGrows
  <2>1. writer[w] \in Command /\ queue' = Append(queue, writer[w])
    BY <1>5 DEF Enqueue, TypeOK, Command
  <2>2. Len(queue') = Len(queue) + 1 /\ \A i \in 1..Len(queue) : queue'[i] = queue[i]
    BY <1>1, <2>1
  <2>3. UNCHANGED <<pc, taken>>
    BY <1>5 DEF Enqueue
  <2>4. Handled' = Handled
    BY <2>3 DEF Handled, InCommand
  <2>5. QED
    BY <1>1, <1>2, <2>2, <2>3, <2>4 DEF HandledGrows
<1>6. ASSUME NEW w \in Writers,
             Rejected(w) \/ \E kind \in Kinds, to \in Peers : Begin(w, kind, to)
      PROVE  HandledGrows
  <2>1. UNCHANGED <<pc, queue, taken>>
    BY <1>6 DEF Rejected, Begin, queueVars
  <2>2. QED
    BY <1>2, <2>1 DEF HandledGrows, Handled, InCommand
<1>7. CASE SelectCommand
  <2>1. pc = "select" /\ taken' = taken + 1 /\ taken < Len(queue) /\ queue' = queue
    BY <1>7 DEF SelectCommand
  <2>2. pc' \in {"stopping", "encode"}
    BY <1>7 DEF SelectCommand, End, Continue
  <2>3. QED
    BY <1>1, <2>1, <2>2 DEF HandledGrows, Handled, InCommand
<1>8. CASE EncodeCommand \/ SendCommand
  <2>1. /\ pc \in {"encode", "send"} /\ UNCHANGED <<queue, taken>>
        /\ pc' \in {"send", "top", "stopping"}
    BY <1>8 DEF EncodeCommand, SendCommand, End, Continue, queueVars
  <2>2. QED
    BY <1>1, <1>2, <2>1 DEF HandledGrows, Handled, InCommand
<1>9. Releasing => HandledGrows
  BY <1>4 DEF Releasing, Release
<1>10. QED
  BY <1>3, <1>5, <1>6, <1>7, <1>8, <1>9, AsideSteps, ReleasingSteps
  DEF Next, Application, Task, Select

-----------------------------------------------------------------------------
(***************************************************************************)
(* Answers.                                                                *)
(***************************************************************************)

\* What a writer wrote is on the network only once its command was handled, and
\* what handlers stage is never taken for a writer's.
NetFromQueue ==
  /\ \A m \in Msg : OnNet(m) /\ FromWriter(m) =>
       \E a \in 1..Handled : queue[a].msg = m
  /\ \A j \in 1..Len(outbox) : outbox[j].kind = "WriteTo" => ~FromWriter(outbox[j].msg)

LEMMA TailElements ==
  ASSUME TypeOK, outbox # <<>>, NEW j \in 1..Len(Tail(outbox))
  PROVE  j + 1 \in 1..Len(outbox) /\ Tail(outbox)[j] = outbox[j + 1]
BY DEF TypeOK

LEMMA HeadElement ==
  ASSUME TypeOK, outbox # <<>>
  PROVE  1 \in 1..Len(outbox) /\ Head(outbox) = outbox[1]
BY DEF TypeOK

LEMMA NetFromQueueStep ==
  TypeOK /\ InHand /\ BufferShape /\ NetFromQueue /\ [Next]_vars => NetFromQueue'
<1> SUFFICES ASSUME TypeOK, InHand, BufferShape, NetFromQueue, [Next]_vars
             PROVE  NetFromQueue'
  OBVIOUS
<1>1. \A m \in Msg : OnNet(m)' /\ FromWriter(m) =>
        \E a \in 1..Handled' : queue'[a].msg = m
  <2> SUFFICES ASSUME NEW m \in Msg, OnNet(m)', FromWriter(m)
               PROVE  \E a \in 1..Handled' : queue'[a].msg = m
    OBVIOUS
  <2>1. HandledGrows /\ NetGrows
    BY HandledStep, NetStep
  <2>2. CASE OnNet(m)
    BY <2>1, <2>2 DEF HandledGrows, NetFromQueue
  <2>3. CASE pc = "send" /\ pc' = "top" /\ m = Current.msg
    <3>1. taken > 0 /\ Handled' = taken /\ queue' = queue /\ Handled' \in Nat
      BY <2>1, <2>3 DEF InHand, HandledGrows
    <3>2. QED
      BY <2>3, <3>1 DEF Current
  <2>4. CASE pc = "drainsend" /\ m = Head(outbox).msg
    BY <2>4, HeadElement DEF InHand, NetFromQueue
  <2>5. QED
    BY <2>1, <2>2, <2>3, <2>4 DEF NetGrows, Adds
<1>2. \A j \in 1..Len(outbox') : outbox'[j].kind = "WriteTo" => ~FromWriter(outbox'[j].msg)
  <2> USE DEF queueVars, appVars, handlerVars, sendVars, answerVars,
              lifeVars, Elsewhere, HandlerStay
  <2>0. outbox \in Seq(Staged) /\ Len(received) \in Nat
    BY DEF TypeOK
  <2>1. UNCHANGED outbox => \A j \in 1..Len(outbox') : outbox'[j].kind = "WriteTo" =>
          ~FromWriter(outbox'[j].msg)
    BY DEF NetFromQueue
  <2>2. ASSUME NEW to \in Peers, HandlerWrites(to)
        PROVE  \A j \in 1..Len(outbox') : outbox'[j].kind = "WriteTo" =>
                 ~FromWriter(outbox'[j].msg)
    <3>1. HandlerMsg(to) \in Msg /\ ~FromWriter(HandlerMsg(to))
      BY <2>0, HandlerMsgType, ActorsAssumption DEF HandlerMsg, FromWriter
    <3>2. [kind |-> "WriteTo", msg |-> HandlerMsg(to)] \in Staged
      BY <3>1 DEF Staged
    <3>3. outbox' = Append(outbox, [kind |-> "WriteTo", msg |-> HandlerMsg(to)])
      BY <2>2 DEF HandlerWrites, Push
    <3>4. QED
      BY <2>0, <3>1, <3>2, <3>3 DEF NetFromQueue
  <2>3. ASSUME HandlerFlushes
        PROVE  \A j \in 1..Len(outbox') : outbox'[j].kind = "WriteTo" =>
                 ~FromWriter(outbox'[j].msg)
    <3>1. [kind |-> "Flush"] \in Staged /\ outbox' = Append(outbox, [kind |-> "Flush"])
      BY <2>3 DEF HandlerFlushes, Push, Staged
    <3>2. QED
      BY <2>0, <3>1 DEF NetFromQueue
  <2>4. outbox # <<>> /\ outbox' = Tail(outbox) =>
          \A j \in 1..Len(outbox') : outbox'[j].kind = "WriteTo" =>
            ~FromWriter(outbox'[j].msg)
    BY TailElements DEF NetFromQueue
  <2>5. CASE DrainWrite \/ DrainSend \/ DrainFlush \/ DrainResumes \/ DrainEnds
    BY <2>1, <2>4, <2>5 DEF DrainWrite, DrainSend, DrainFlush, DrainResumes,
       DrainEnds, InHand
  <2>6. CASE Application
    BY <2>1, <2>6 DEF Application, Begin, Enqueue, Rejected, HandleUsed
  <2>7. CASE StartedHook \/ StoppedHook \/ Panic \/ CheckShutdown \/ Select
               \/ EncodeCommand \/ SendCommand \/ InboundStages
    BY <2>1, <2>7 DEF StartedHook, StoppedHook, Panic, CheckShutdown, Select,
       SelectReceive, SelectCommand, SelectShutdown, EncodeCommand, SendCommand,
       InboundStages
  <2>8. CASE HandlerAbandonsFlush \/ HandlerCloses \/ HandlerShares
               \/ HandlerReturns \/ HandlerPending
    BY <2>1, <2>8 DEF HandlerAbandonsFlush, HandlerCloses, HandlerShares,
       HandlerReturns, HandlerPending
  <2>9. CASE UNCHANGED vars
    BY <2>1, <2>9 DEF vars
  <2>10. QED
    BY <2>2, <2>3, <2>5, <2>6, <2>7, <2>8, <2>9 DEF Next, Task, Handler, Drain
<1>3. QED
  BY <1>1, <1>2 DEF NetFromQueue, FromWriter

-----------------------------------------------------------------------------
(***************************************************************************)
(* Nothing is lost on the way.                                             *)
(***************************************************************************)

Invoked == pc \in {"handler", "drain", "drainsend"}
Good    == pc # "stopped" /\ outcome \in {"running", "Ok"}
Held(m) == \/ Settled(m)
           \/ \E j \in 1..Len(outbox) : outbox[j].kind = "WriteTo" /\ outbox[j].msg = m
Written(m) == \E i \in 1..Len(staged) : staged[i] = m

\* What the handler staged is in its outbox until it is sent or dropped, the
\* outbox is empty between two invocations, and every command taken was sent or
\* dropped unless an error ended the loop.
KeptInv ==
  /\ Invoked => \A m \in Msg : Written(m) => Held(m)
  /\ Good /\ ~Invoked => outbox = <<>> /\ \A m \in Msg : Written(m) => Settled(m)
  /\ Good => \A a \in 1..Handled : queue[a].kind # "Close" => Settled(queue[a].msg)

\* A send that succeeds settles the message in hand.
LEMMA SendSettles ==
  ASSUME TypeOK, NEW m \in Msg, writeBuf \in {<<>>, <<m>>},
         writeBuf = <<>> => m \in dropped, FlushDatagram(m.to)
  PROVE  Settled(m)'
<1>1. CASE writeBuf = <<>>
  BY <1>1 DEF Settled, FlushDatagram
<1>2. CASE writeBuf = <<m>>
  <2>1. m.to \in Peers
    BY DEF Msg
  <2>2. 1 \in 1..Len(writeBuf) /\ writeBuf[1] = m
    BY <1>2
  <2>3. OnNet(m)'
    BY <2>1, <2>2, FlushNet
  <2>4. QED
    BY <2>3 DEF Settled
<1>3. QED
  BY <1>1, <1>2

LEMMA HeldIsMessage ==
  ASSUME TypeOK
  PROVE  /\ \A i \in 1..Len(staged) : staged[i] \in Msg
         /\ \A a \in 1..Len(queue) : queue[a].msg \in Msg
<1>1. staged \in Seq(Msg) /\ queue \in Seq(Command)
  BY DEF TypeOK
<1>2. \A a \in 1..Len(queue) : queue[a] \in Command
  BY <1>1
<1>3. QED
  BY <1>1, <1>2 DEF Command

\* One command more is handled only when it is a Close or its datagram is sent,
\* unless the loop ends with an error.
LEMMA QueueKeptStep ==
  /\ TypeOK /\ InHand /\ BufferShape /\ HooksInv /\ EmptyIsDropped
  /\ KeptInv /\ [Next]_vars
  => (Good => \A a \in 1..Handled : queue[a].kind # "Close" => Settled(queue[a].msg))'
<1> SUFFICES ASSUME TypeOK, InHand, BufferShape, HooksInv, EmptyIsDropped,
                    KeptInv, [Next]_vars, Good',
                    NEW a \in 1..Handled', queue'[a].kind # "Close",
                    NEW m, m = queue'[a].msg
             PROVE  Settled(m)'
  BY DEF Settled, OnNet
<1>0. NetGrows /\ HandledGrows
  BY NetStep, HandledStep
<1>1. Handled \in 0..Len(queue) /\ Handled' \in {Handled, Handled + 1}
  BY <1>0 DEF HandledGrows
<1>2. ASSUME Good, Handled' = Handled
      PROVE  Settled(m)'
  <2>1. a \in 1..Handled /\ queue'[a] = queue[a] /\ a \in 1..Len(queue)
    BY <1>0, <1>1, <1>2 DEF HandledGrows
  <2>2. Settled(m) /\ m \in Msg
    BY <1>2, <2>1, HeldIsMessage DEF KeptInv
  <2>3. QED
    BY <1>0, <2>2 DEF NetGrows
<1>3. ASSUME Good, a \in 1..Handled
      PROVE  Settled(m)'
  <2>1. queue'[a] = queue[a] /\ a \in 1..Len(queue)
    BY <1>0, <1>1, <1>3 DEF HandledGrows
  <2>2. Settled(m) /\ m \in Msg
    BY <1>3, <2>1, HeldIsMessage DEF KeptInv
  <2>3. QED
    BY <1>0, <2>2 DEF NetGrows
<1>4. a \in 1..Handled \/ a = Handled'
  BY <1>1
<1>5. ASSUME Aside
      PROVE  Handled' = Handled
  BY <1>5 DEF Aside, Handled
<1>6. ASSUME NEW w \in Writers,
             Enqueue(w) \/ Rejected(w) \/ \E kind \in Kinds, to \in Peers : Begin(w, kind, to)
      PROVE  Settled(m)'
  <2>1. Handled' = Handled /\ Good
    BY <1>6 DEF Enqueue, Rejected, Begin, Handled, InCommand, Good, queueVars, lifeVars
  <2>2. QED
    BY <1>2, <2>1
<1>7. CASE HandleUsed
  BY <1>2, <1>5, <1>7, AsideSteps DEF HandleUsed, Good
<1>8. CASE StartedHook
  <2>1. Aside /\ Good
    BY <1>8, ReleasingSteps DEF Releasing, HooksInv, StartedHook, Good
  <2>2. QED
    BY <1>2, <1>5, <2>1
<1>9. CASE CheckShutdown \/ SelectShutdown \/ SelectReceive \/ InboundStages
             \/ Handler \/ Drain
  <2>1. Aside
    BY <1>9, AsideSteps
  <2>2. pc \notin {"stopping", "stopped"}
    BY <1>9 DEF CheckShutdown, SelectShutdown, SelectReceive, InboundStages, Handler,
       HandlerWrites, HandlerRuns, HandlerFlushes, HandlerAbandonsFlush, HandlerCloses,
       HandlerShares, HandlerReturns, HandlerPending, Drain, DrainWrite, DrainSend,
       DrainFlush, DrainResumes, DrainEnds
  <2>3. Good
    BY <2>2 DEF HooksInv, Good
  <2>4. QED
    BY <1>2, <1>5, <2>1, <2>3
<1>10. CASE StoppedHook \/ Panic
  BY <1>10, ReleasingSteps DEF Releasing, Good
<1>11. CASE SelectCommand
  <2>1. /\ pc = "select" /\ Good /\ taken' = taken + 1 /\ queue' = queue
        /\ IF queue[taken + 1].kind = "Close" THEN pc' = "stopping" ELSE pc' = "encode"
    BY <1>11 DEF SelectCommand, End, Continue, HooksInv, Good
  <2>2. CASE queue[taken + 1].kind = "Close"
    <3>1. Handled' = taken + 1
      BY <2>1, <2>2 DEF Handled, InCommand
    <3>2. a # Handled'
      BY <2>1, <2>2, <3>1
    <3>3. QED
      BY <1>3, <1>4, <2>1, <3>2
  <2>3. CASE queue[taken + 1].kind # "Close"
    <3>1. Handled' = Handled
      BY <1>1, <2>1, <2>3 DEF Handled, InCommand, TypeOK
    <3>2. QED
      BY <1>2, <2>1, <3>1
  <2>4. QED
    BY <2>2, <2>3
<1>12. CASE EncodeCommand
  <2>1. pc = "encode" /\ pc' = "send" /\ taken' = taken
    BY <1>12 DEF EncodeCommand, End, Continue, Good, queueVars
  <2>2. Handled' = Handled /\ Good
    BY <2>1 DEF Handled, InCommand, HooksInv, Good
  <2>3. QED
    BY <1>2, <2>2
<1>13. CASE SendCommand
  <2>1. /\ pc = "send" /\ pc' = "top" /\ UNCHANGED <<queue, taken>>
        /\ FlushDatagram(Current.msg.to)
    BY <1>13 DEF SendCommand, End, Continue, Good, queueVars
  <2>2. Handled' = taken /\ taken > 0 /\ Good
    BY <2>1 DEF Handled, InCommand, HooksInv, Good, InHand
  <2>3. CASE a = Handled'
    <3>1. m = Current.msg /\ m \in Msg
      BY <2>1, <2>2, <2>3, CurrentType DEF Current
    <3>2. writeBuf \in {<<>>, <<m>>} /\ (writeBuf = <<>> => m \in dropped)
      BY <2>1, <3>1 DEF BufferShape, EmptyIsDropped
    <3>3. QED
      BY <2>1, <3>1, <3>2, SendSettles
  <2>4. QED
    BY <1>3, <1>4, <2>2, <2>3
<1>14. CASE UNCHANGED vars
  BY <1>2, <1>5, <1>14, AsideSteps DEF vars, Good, lifeVars
<1>15. QED
  BY <1>6, <1>7, <1>8, <1>9, <1>10, <1>11, <1>12, <1>13, <1>14
  DEF Next, Application, Task, Select

\* A staged message leaves the outbox only when it is sent or dropped.
LEMMA StagedKeptStep ==
  /\ TypeOK /\ InHand /\ BufferShape /\ HooksInv /\ EmptyIsDropped
  /\ KeptInv /\ [Next]_vars
  => /\ Invoked' => \A m \in Msg : Written(m)' => Held(m)'
     /\ Good' /\ ~Invoked' => outbox' = <<>> /\ \A m \in Msg : Written(m)' => Settled(m)'
<1> DEFINE Goal == /\ Invoked' => \A m \in Msg : Written(m)' => Held(m)'
                   /\ Good' /\ ~Invoked' =>
                        outbox' = <<>> /\ \A m \in Msg : Written(m)' => Settled(m)'
<1> SUFFICES ASSUME TypeOK, InHand, BufferShape, HooksInv, EmptyIsDropped,
                    KeptInv, [Next]_vars
             PROVE  Goal
  OBVIOUS
<1>0. \A m \in Msg : Settled(m) => Settled(m)'
  BY NetStep DEF NetGrows
<1>1. ASSUME UNCHANGED <<outbox, staged>>, Invoked' <=> Invoked, Good' => Good
      PROVE  Goal
  BY <1>0, <1>1 DEF KeptInv, Written, Held
<1>2. CASE Application
  BY <1>1, <1>2 DEF Application, Begin, Enqueue, Rejected, HandleUsed, handlerVars,
     lifeVars, Invoked, Good
<1>3. CASE StartedHook \/ CheckShutdown \/ SelectShutdown \/ SelectCommand
             \/ EncodeCommand \/ SendCommand
  <2>1. UNCHANGED handlerVars /\ Good /\ ~Invoked /\ ~Invoked'
    BY <1>3 DEF StartedHook, StartRefused, CheckShutdown, SelectShutdown, SelectCommand,
       EncodeCommand, SendCommand, HooksInv, Good, Invoked, End, Continue
  <2>2. QED
    BY <1>1, <2>1 DEF handlerVars
<1>4. CASE StoppedHook \/ Panic
  BY <1>4 DEF StoppedHook, Panic, Good, Invoked
<1>5. CASE SelectReceive
  <2>1. outbox' = outbox /\ Good /\ ~Invoked /\ ~Invoked'
    BY <1>5 DEF SelectReceive, HooksInv, Good, Invoked, End, Continue
  <2>2. staged' = <<>> \/ staged' = staged
    BY <1>5 DEF SelectReceive
  <2>3. staged' = <<>> => ~ \E m \in Msg : Written(m)'
    BY DEF Written
  <2>4. QED
    BY <1>0, <2>1, <2>2, <2>3 DEF KeptInv, Written
<1>6. CASE InboundStages
  <2>1. UNCHANGED <<outbox, staged>> /\ Good /\ ~Invoked
    BY <1>6 DEF InboundStages, HooksInv, Good, Invoked
  <2>2. QED
    BY <1>0, <2>1 DEF KeptInv, Written, Held
<1>7. CASE Handler
  <2>1. Invoked /\ Invoked' /\ UNCHANGED <<net, dropped>>
    BY <1>7 DEF Handler, HandlerRuns, HandlerWrites, HandlerFlushes,
       HandlerAbandonsFlush, HandlerCloses, HandlerShares, HandlerReturns,
       HandlerPending, HandlerStay, Invoked, sendVars
  <2>2. outbox \in Seq(Staged) /\ staged \in Seq(Msg)
    BY DEF TypeOK
  <2>3. ASSUME NEW to \in Peers, HandlerWrites(to)
        PROVE  Goal
    <3> DEFINE new == HandlerMsg(to)
               entry == [kind |-> "WriteTo", msg |-> new]
    <3>1. new \in Msg /\ entry \in Staged /\ entry.kind = "WriteTo" /\ entry.msg = new
      BY HandlerMsgType DEF Staged
    <3>2. staged' = Append(staged, new) /\ outbox' = Append(outbox, entry)
      BY <2>3 DEF HandlerWrites, Push
    <3> HIDE DEF new, entry
    <3>3. /\ Len(outbox') = Len(outbox) + 1
          /\ \A j \in 1..Len(outbox) : outbox'[j] = outbox[j]
          /\ outbox'[Len(outbox) + 1] = entry
      BY <2>2, <3>1, <3>2
    <3>4. \A m \in Msg : Written(m)' => Written(m) \/ m = new
      BY <2>2, <3>1, <3>2 DEF Written
    <3>5. \A m \in Msg : Held(m) \/ m = new => Held(m)'
      <4>1. /\ Len(outbox) + 1 \in 1..Len(outbox')
            /\ \A j \in 1..Len(outbox) : j \in 1..Len(outbox')
        BY <2>2, <3>3
      <4>2. QED
        BY <1>0, <3>1, <3>3, <4>1 DEF Held
    <3>6. QED
      BY <2>1, <3>4, <3>5 DEF KeptInv
  <2>4. CASE HandlerFlushes
    <3> DEFINE entry == [kind |-> "Flush"]
    <3>1. entry \in Staged /\ outbox' = Append(outbox, entry) /\ staged' = staged
      BY <2>4 DEF HandlerFlushes, Push, Staged
    <3> HIDE DEF entry
    <3>2. /\ \A j \in 1..Len(outbox) : outbox'[j] = outbox[j]
          /\ \A j \in 1..Len(outbox) : j \in 1..Len(outbox')
      BY <2>2, <3>1
    <3>3. \A m \in Msg : Held(m) => Held(m)'
      BY <1>0, <3>2 DEF Held
    <3>4. QED
      BY <2>1, <3>1, <3>3 DEF KeptInv, Written
  <2>5. CASE HandlerAbandonsFlush \/ HandlerCloses \/ HandlerShares
               \/ HandlerReturns \/ HandlerPending
    <3>1. UNCHANGED <<outbox, staged>>
      BY <2>5 DEF HandlerAbandonsFlush, HandlerCloses, HandlerShares, HandlerReturns,
         HandlerPending, handlerVars
    <3>2. QED
      BY <1>0, <2>1, <3>1 DEF KeptInv, Written, Held
  <2>6. QED
    BY <1>7, <2>3, <2>4, <2>5 DEF Handler
\* The drain takes an entry from the outbox when it has settled it.
<1>8. ASSUME outbox # <<>>, outbox' = Tail(outbox), staged' = staged, Invoked, Invoked',
             Head(outbox).kind = "WriteTo" =>
               \E h \in Msg : h = Head(outbox).msg /\ Settled(h)'
      PROVE  Goal
  <2>1. outbox \in Seq(Staged)
    BY DEF TypeOK
  <2>2. \A j \in 1..Len(outbox) :
          j = 1 \/ (j - 1 \in 1..Len(outbox') /\ outbox'[j - 1] = outbox[j])
    BY <1>8, <2>1
  <2>3. ASSUME NEW m \in Msg, Held(m)
        PROVE  Held(m)'
    <3>1. CASE Settled(m)
      BY <1>0, <3>1 DEF Held
    <3>2. ASSUME NEW j \in 1..Len(outbox), outbox[j].kind = "WriteTo", outbox[j].msg = m
          PROVE  Held(m)'
      <4>1. CASE j = 1
        BY <1>8, <2>1, <3>2, <4>1 DEF Held
      <4>2. CASE j # 1
        BY <2>2, <3>2, <4>2 DEF Held
      <4>3. QED
        BY <4>1, <4>2
    <3>3. QED
      BY <2>3, <3>1, <3>2 DEF Held
  <2>4. QED
    BY <1>8, <2>3 DEF KeptInv, Written
<1>9. CASE DrainWrite
  <2>1. UNCHANGED <<outbox, staged>> /\ Invoked /\ pc' \in {"drainsend", "stopping"}
          /\ (pc' = "stopping" => ~Good')
    BY <1>9 DEF DrainWrite, Invoked, Good, End, Continue, handlerVars
  <2>2. QED
    BY <1>0, <2>1 DEF KeptInv, Written, Held, Invoked
<1>10. CASE DrainSend
  <2>1. CASE FlushDatagram(Head(outbox).msg.to) /\ outbox' = Tail(outbox)
               /\ Continue("drain")
    <3>1. /\ outbox # <<>> /\ Head(outbox).msg \in Msg
          /\ writeBuf \in {<<>>, <<Head(outbox).msg>>}
          /\ writeBuf = <<>> => Head(outbox).msg \in dropped
      BY <1>10, OutboxType DEF DrainSend, InHand, BufferShape, EmptyIsDropped
    <3>2. Invoked /\ Invoked' /\ staged' = staged
      BY <1>10, <2>1 DEF DrainSend, Invoked, Continue
    <3>3. \E h \in Msg : h = Head(outbox).msg /\ Settled(h)'
      BY <2>1, <3>1, SendSettles
    <3>4. QED
      BY <1>8, <2>1, <3>1, <3>2, <3>3
  <2>2. CASE End("Err")
    BY <2>2 DEF End, Good, Invoked
  <2>3. QED
    BY <1>10, <2>1, <2>2 DEF DrainSend
<1>11. CASE DrainFlush
  <2>1. /\ outbox # <<>> /\ outbox' = Tail(outbox) /\ staged' = staged
        /\ Head(outbox).kind # "WriteTo" /\ Invoked /\ Invoked'
    BY <1>11 DEF DrainFlush, Invoked, Continue
  <2>2. QED
    BY <1>8, <2>1
<1>12. CASE DrainResumes \/ DrainEnds
  <2>1. Invoked /\ outbox = <<>> /\ UNCHANGED <<outbox, staged>>
    BY <1>12 DEF DrainResumes, DrainEnds, Invoked, handlerVars
  <2>2. \A m \in Msg : Held(m) => Settled(m)
    BY <2>1 DEF Held
  <2>3. QED
    BY <1>0, <2>1, <2>2 DEF KeptInv, Written, Held
<1>13. CASE UNCHANGED vars
  BY <1>1, <1>13 DEF vars, handlerVars, lifeVars, Invoked, Good
<1>14. QED
  BY <1>2, <1>3, <1>4, <1>5, <1>6, <1>7, <1>9, <1>10, <1>11, <1>12, <1>13
  DEF Next, Task, Select, Drain

\* An answer is an error only when the task ends.
DenialsEnd == denied # {} => pc \in {"stopping", "stopped"}

\* A command that has not been handled is not on the network.
LEMMA NotYetSent ==
  ASSUME TypeOK, QueueInv, NetFromQueue, NEW i \in 1..Len(queue), i > Handled
  PROVE  queue[i].msg \in Msg /\ ~OnNet(queue[i].msg)
<1>1. queue[i].msg \in Msg /\ FromWriter(queue[i].msg)
  BY HeldIsMessage DEF QueueInv, Numbered, FromWriter
<1>2. Handled \in Int /\ Handled <= Len(queue)
  BY DEF TypeOK, Handled
<1>3. \A a \in 1..Handled : a \in 1..Len(queue) /\ a < i
  BY <1>2
<1>4. \A a \in 1..Handled : queue[a].msg # queue[i].msg
  BY <1>3 DEF QueueInv, Numbered
<1>5. QED
  BY <1>1, <1>4 DEF NetFromQueue

LEMMA DeniedStep ==
  /\ TypeOK /\ InHand /\ BufferShape /\ HooksInv /\ QueueInv /\ NetFromQueue
  /\ AnswersAreTruthful /\ DenialsEnd /\ [Next]_vars
  => DenialsEnd' /\ \A m \in denied' : ~OnNet(m)'
<1> SUFFICES ASSUME TypeOK, InHand, BufferShape, HooksInv, QueueInv, NetFromQueue,
                    AnswersAreTruthful, DenialsEnd, [Next]_vars
             PROVE  DenialsEnd' /\ \A m \in denied' : ~OnNet(m)'
  OBVIOUS
<1> USE DEF queueVars, appVars, handlerVars, sendVars, answerVars, lifeVars,
            Elsewhere, HandlerStay
<1>0. denied \subseteq Msg /\ NetGrows
  BY NetStep DEF TypeOK
\* Only a step of a running task sends.
<1>1. ASSUME denied' = denied, pc' = pc \/ pc \notin {"stopping", "stopped"}
                                      \/ pc' = "stopped"
      PROVE  DenialsEnd' /\ \A m \in denied' : ~OnNet(m)'
  BY <1>0, <1>1 DEF AnswersAreTruthful, DenialsEnd, NetGrows, Adds
<1>2. ASSUME pc' \in {"stopping", "stopped"},
             \A m \in denied' : m \in denied \/ (m \in Msg /\ ~OnNet(m))
      PROVE  DenialsEnd' /\ \A m \in denied' : ~OnNet(m)'
  BY <1>0, <1>2 DEF AnswersAreTruthful, DenialsEnd, NetGrows, Adds
<1>3. ASSUME NEW w \in Writers, Rejected(w)
      PROVE  DenialsEnd' /\ \A m \in denied' : ~OnNet(m)'
  <2>1. /\ pc' = pc /\ pc = "stopped" /\ writer[w].kind \in Kinds
        /\ \A m \in denied' : m \in denied \/ m = writer[w].msg
    BY <1>3 DEF Rejected, HooksInv, Pending
  <2>2. writer[w].msg \in Msg /\ FromWriter(writer[w].msg) /\ writer[w].msg.n = count[w]
          /\ writer[w].msg.src = w
    BY DEF TypeOK, QueueInv, Numbered, FromWriter
  <2>3. ASSUME NEW a \in 1..Handled
        PROVE  queue[a].msg # writer[w].msg
    <3>1. a \in 1..Len(queue)
      BY DEF Handled, TypeOK
    <3>2. queue[a].msg.src = w => queue[a].msg.n < count[w]
      BY <2>1, <3>1 DEF QueueInv, Numbered
    <3>3. QED
      BY <2>2, <3>2 DEF TypeOK
  <2>4. ~OnNet(writer[w].msg)
    BY <2>2, <2>3 DEF NetFromQueue
  <2>5. QED
    BY <1>2, <2>1, <2>2, <2>4
<1>4. ASSUME Releasing
      PROVE  DenialsEnd' /\ \A m \in denied' : ~OnNet(m)'
  <2>1. pc' = "stopped" /\ denied' = denied \cup {Pending(w) : w \in Awaiting}
    BY <1>4 DEF Releasing, Release
  <2>2. ASSUME NEW w \in Awaiting
        PROVE  Pending(w) \in Msg /\ ~OnNet(Pending(w))
    <3>1. PICK i \in 1..Len(queue) : i > Handled /\ queue[i].msg = writer[w].msg
      BY DEF Awaiting, QueueInv, Awaited
    <3>2. QED
      BY <3>1, NotYetSent DEF Pending
  <2>3. QED
    BY <1>2, <2>1, <2>2
<1>5. ASSUME InCommand, UNCHANGED net, pc' = "stopping", Answer(FALSE)
      PROVE  DenialsEnd' /\ \A m \in denied' : ~OnNet(m)'
  <2>1. taken \in 1..Len(queue) /\ taken > Handled /\ Current = queue[taken]
    BY <1>5 DEF InHand, InCommand, Handled, TypeOK, Current
  <2>2. Current.msg \in Msg /\ ~OnNet(Current.msg)
    BY <2>1, NotYetSent
  <2>3. \A m \in denied' : m \in denied \/ m = Current.msg
    BY <1>5 DEF Answer
  <2>4. QED
    BY <1>2, <1>5, <2>2, <2>3
<1>6. CASE EncodeCommand
  <2>1. CASE Continue("send") /\ UNCHANGED <<appVars, answerVars>>
    BY <1>1, <1>6, <2>1 DEF EncodeCommand
  <2>2. CASE Answer(FALSE) /\ End("Err") /\ UNCHANGED sendVars
    BY <1>5, <1>6, <2>2 DEF EncodeCommand, End, InCommand
  <2>3. QED
    BY <1>6, <2>1, <2>2 DEF EncodeCommand
<1>7. CASE SendCommand
  <2>1. CASE Answer(TRUE)
    BY <1>1, <1>7, <2>1 DEF SendCommand, Answer
  <2>2. CASE Answer(FALSE) /\ End("Err") /\ UNCHANGED sendVars
    BY <1>5, <1>7, <2>2 DEF SendCommand, End, InCommand
  <2>3. QED
    BY <1>7, <2>1, <2>2 DEF SendCommand
<1>8. ASSUME NEW w \in Writers,
             Enqueue(w) \/ \E kind \in Kinds, to \in Peers : Begin(w, kind, to)
      PROVE  DenialsEnd' /\ \A m \in denied' : ~OnNet(m)'
  BY <1>1, <1>8 DEF Enqueue, Begin
<1>9. CASE HandleUsed \/ UNCHANGED vars
  BY <1>1, <1>9 DEF HandleUsed, vars
<1>10. ASSUME Aside, pc \notin {"stopping", "stopped"}
       PROVE  DenialsEnd' /\ \A m \in denied' : ~OnNet(m)'
  BY <1>1, <1>10 DEF Aside
<1>11. CASE StartedHook
  BY <1>4, <1>10, <1>11, ReleasingSteps DEF StartedHook
<1>12. CASE CheckShutdown \/ SelectShutdown \/ SelectReceive \/ InboundStages
             \/ Handler \/ Drain
  <2>1. Aside
    BY <1>12, AsideSteps
  <2>2. pc \notin {"stopping", "stopped"}
    BY <1>12 DEF CheckShutdown, SelectShutdown, SelectReceive, InboundStages, Handler,
       HandlerWrites, HandlerRuns, HandlerFlushes, HandlerAbandonsFlush, HandlerCloses,
       HandlerShares, HandlerReturns, HandlerPending, Drain, DrainWrite, DrainSend,
       DrainFlush, DrainResumes, DrainEnds
  <2>3. QED
    BY <1>10, <2>1, <2>2
<1>13. CASE SelectCommand
  BY <1>1, <1>13 DEF SelectCommand
<1>14. CASE StoppedHook \/ Panic
  BY <1>4, <1>14, ReleasingSteps
<1>15. QED
  BY <1>3, <1>6, <1>7, <1>8, <1>9, <1>11, <1>12, <1>13, <1>14
  DEF Next, Application, Task, Select

\* A flush answered Ok: its message was settled by the send just made, or, for
\* a handler's flush, by the drain that emptied its outbox.
LEMMA ConfirmedStep ==
  /\ TypeOK /\ InHand /\ BufferShape /\ EmptyIsDropped /\ KeptInv
  /\ AnswersAreTruthful /\ [Next]_vars
  => \A m \in confirmed' : Settled(m)'
<1> SUFFICES ASSUME TypeOK, InHand, BufferShape, EmptyIsDropped, KeptInv,
                    AnswersAreTruthful, [Next]_vars
             PROVE  \A m \in confirmed' : Settled(m)'
  OBVIOUS
<1> USE DEF queueVars, appVars, handlerVars, sendVars, answerVars, lifeVars,
            Elsewhere, HandlerStay
<1>0. confirmed \subseteq Msg /\ \A m \in Msg : Settled(m) => Settled(m)'
  BY NetStep DEF TypeOK, NetGrows
<1>1. ASSUME \A m \in confirmed' : m \in confirmed \/ (m \in Msg /\ Settled(m)')
      PROVE  \A m \in confirmed' : Settled(m)'
  BY <1>0, <1>1 DEF AnswersAreTruthful
<1>2. confirmed' = confirmed => \A m \in confirmed' : Settled(m)'
  BY <1>1
<1>3. CASE SendCommand
  <2>1. CASE FlushDatagram(Current.msg.to) /\ Answer(TRUE)
    <3>1. /\ Current.msg \in Msg /\ writeBuf \in {<<>>, <<Current.msg>>}
          /\ writeBuf = <<>> => Current.msg \in dropped
      BY <1>3, CurrentType DEF SendCommand, InHand, BufferShape, EmptyIsDropped
    <3>2. \A m \in confirmed' : m \in confirmed \/ m = Current.msg
      BY <2>1 DEF Answer
    <3>3. \A m \in Msg : m = Current.msg => Settled(m)'
      BY <2>1, <3>1, SendSettles
    <3>4. QED
      BY <1>1, <3>1, <3>2, <3>3
  <2>2. CASE Answer(FALSE)
    BY <1>2, <2>2 DEF Answer
  <2>3. QED
    BY <1>3, <2>1, <2>2 DEF SendCommand
<1>4. CASE DrainResumes
  <2>1. outbox = <<>> /\ pc = "drain"
    BY <1>4 DEF DrainResumes
  <2>2. \A m \in Msg : Written(m) => Settled(m)
    BY <2>1 DEF KeptInv, Held, Invoked
  <2>3. \A m \in confirmed' : m \in confirmed \/ (m \in Msg /\ Written(m))
    BY <1>4, HeldIsMessage DEF DrainResumes, Written
  <2>4. QED
    BY <1>0, <1>1, <2>2, <2>3
<1>5. CASE EncodeCommand
  BY <1>2, <1>5 DEF EncodeCommand, Answer
<1>6. CASE Application
  BY <1>2, <1>6 DEF Application, Begin, Enqueue, Rejected, HandleUsed
<1>7. CASE StartedHook \/ StoppedHook \/ Panic
  BY <1>2, <1>7 DEF StartedHook, StartRefused, StoppedHook, Panic, Release
<1>8. CASE CheckShutdown \/ Select \/ InboundStages
  BY <1>2, <1>8 DEF CheckShutdown, Select, SelectReceive, SelectCommand,
     SelectShutdown, InboundStages
<1>9. CASE Handler
  BY <1>2, <1>9 DEF Handler, HandlerWrites, HandlerFlushes, HandlerAbandonsFlush,
     HandlerCloses, HandlerShares, HandlerReturns, HandlerPending
<1>10. CASE DrainWrite \/ DrainSend \/ DrainFlush \/ DrainEnds
  BY <1>2, <1>10 DEF DrainWrite, DrainSend, DrainFlush, DrainEnds
<1>11. CASE UNCHANGED vars
  BY <1>2, <1>11 DEF vars
<1>12. QED
  BY <1>3, <1>4, <1>5, <1>6, <1>7, <1>8, <1>9, <1>10, <1>11 DEF Next, Task, Drain

\* Everything the three theorems below rest on.
DeliveryInv ==
  /\ TypeOK /\ InHand /\ BufferShape /\ HooksInv /\ QueueInv
  /\ EmptyIsDropped /\ NetFromQueue /\ KeptInv /\ DenialsEnd
  /\ AnswersAreTruthful

LEMMA DeliveryInit == Init => DeliveryInv
<1> SUFFICES ASSUME Init PROVE DeliveryInv
  OBVIOUS
<1>1. TypeOK /\ InHand
  BY InitType
<1>2. BufferShape /\ HooksInv /\ EmptyIsDropped /\ NetFromQueue /\ DenialsEnd
        /\ AnswersAreTruthful
  BY DEF Init, BufferShape, HooksInv, EmptyIsDropped, NetFromQueue, OnNet, DenialsEnd,
     AnswersAreTruthful
<1>3. QueueInv
  <2>1. \A w \in Writers : /\ writer[w].msg.src = w /\ writer[w].msg.n = 0
                           /\ writer[w].kind = "idle" /\ count[w] = 0
    BY DEF Init, Idle, NoMsg
  <2>2. 1..Len(queue) = {}
    BY DEF Init
  <2>3. QED
    BY <2>1, <2>2 DEF QueueInv, Numbered, Expected, Awaited
<1>4. KeptInv
  BY DEF Init, KeptInv, Invoked, Written, Handled, InCommand
<1>5. QED
  BY <1>1, <1>2, <1>3, <1>4 DEF DeliveryInv

LEMMA DeliveryStep == DeliveryInv /\ [Next]_vars => DeliveryInv'
<1> SUFFICES ASSUME DeliveryInv, [Next]_vars PROVE DeliveryInv'
  OBVIOUS
<1>1. TypeOK' /\ InHand' /\ BufferShape' /\ HooksInv' /\ QueueInv' /\ EmptyIsDropped'
        /\ NetFromQueue'
  BY TypeStep, InHandStep, BufferStep, HooksStep, QueueStep, EmptyIsDroppedStep,
     NetFromQueueStep DEF DeliveryInv
<1>2. KeptInv'
  BY QueueKeptStep, StagedKeptStep DEF DeliveryInv, KeptInv, Invoked, Good, Written,
     Held, Settled, OnNet
<1>3. DenialsEnd' /\ \A m \in denied' : ~OnNet(m)'
  BY DeniedStep DEF DeliveryInv
<1>4. \A m \in confirmed' : Settled(m)'
  BY ConfirmedStep DEF DeliveryInv
<1>5. AnswersAreTruthful'
  BY <1>3, <1>4 DEF AnswersAreTruthful, Settled, OnNet
<1>6. QED
  BY <1>1, <1>2, <1>3, <1>5 DEF DeliveryInv

\* Whatever fails and however the calls of the writers and the handler interleave,
\* an Ok answer means that the message was sent or dropped by a stage, an error
\* that it was not sent.
THEOREM AnswersTruthful == Spec => []AnswersAreTruthful
<1>1. DeliveryInv => AnswersAreTruthful
  BY DEF DeliveryInv
<1>2. QED
  BY <1>1, DeliveryInit, DeliveryStep, PTL DEF Spec

\* A loop that ends without an error has sent or dropped every command it took
\* and every message its last handler staged.
THEOREM NothingLost == Spec => []NothingHeldBack
<1>1. DeliveryInv => NothingHeldBack
  <2> SUFFICES ASSUME DeliveryInv,
                      pc \in {"top", "select"} \/ (pc = "stopping" /\ outcome = "Ok")
               PROVE  /\ \A a \in 1..taken : queue[a].kind # "Close" => Settled(queue[a].msg)
                      /\ \A i \in 1..Len(staged) : Settled(staged[i])
    BY DEF NothingHeldBack
  <2>1. Good /\ ~Invoked /\ Handled = taken
    BY DEF DeliveryInv, HooksInv, Good, Invoked, Handled, InCommand
  <2>2. \A i \in 1..Len(staged) : staged[i] \in Msg /\ Written(staged[i])
    BY HeldIsMessage DEF Written, DeliveryInv
  <2>3. QED
    BY <2>1, <2>2 DEF DeliveryInv, KeptInv
<1>2. QED
  BY <1>1, DeliveryInit, DeliveryStep, PTL DEF Spec

-----------------------------------------------------------------------------
(***************************************************************************)
(* The order of the datagrams.                                             *)
(***************************************************************************)

\* Where the handlers' datagrams stand.  None belongs to an invocation still to
\* come; what the current one sent ends the network, in the order of its writes,
\* and what it has in its outbox comes after that, in the same order.
FromPast ==
  \A i \in 1..Len(net) : ~FromWriter(MsgAt(i)) =>
    /\ MsgAt(i).src <= Len(received)
    /\ pc = "stages" => MsgAt(i).src < Len(received)

CurrentLast ==
  Invoked =>
    \A i, h \in 1..Len(net) :
      i <= h /\ MsgAt(i).src = Len(received) => MsgAt(h).src = Len(received)

SentFirst ==
  Invoked =>
    \A i \in 1..Len(net) : MsgAt(i).src = Len(received) =>
      /\ MsgAt(i).n <= Len(staged)
      /\ \A j \in 1..Len(outbox) :
           outbox[j].kind = "WriteTo" => MsgAt(i).n < outbox[j].msg.n

OutboxOrder ==
  Invoked =>
    \A j \in 1..Len(outbox) : outbox[j].kind = "WriteTo" =>
      /\ outbox[j].msg.src = Len(received)
      /\ outbox[j].msg.n <= Len(staged)
      /\ \A k \in 1..Len(outbox) :
           j < k /\ outbox[k].kind = "WriteTo" => outbox[j].msg.n < outbox[k].msg.n

InvocationOrder == FromPast /\ CurrentLast /\ SentFirst /\ OutboxOrder

WriterPairs ==
  \A i, j \in 1..Len(net) : i < j /\ FromWriter(MsgAt(i)) /\ FromWriter(MsgAt(j)) =>
    \E a, b \in 1..Handled :
      a < b /\ queue[a].msg = MsgAt(i) /\ queue[b].msg = MsgAt(j)

HandlerPairs ==
  \A i, j \in 1..Len(net) : i < j /\ ~FromWriter(MsgAt(i)) /\ ~FromWriter(MsgAt(j)) =>
    /\ \/ MsgAt(i).src < MsgAt(j).src
       \/ MsgAt(i).src = MsgAt(j).src /\ MsgAt(i).n < MsgAt(j).n
    /\ MsgAt(i).src = MsgAt(j).src => \A h \in i..j : MsgAt(h).src = MsgAt(i).src

LEMMA MsgAtType ==
  ASSUME TypeOK, OneMessage, NEW i \in 1..Len(net)
  PROVE  /\ MsgAt(i) \in Msg /\ OnNet(MsgAt(i))
         /\ MsgAt(i).n \in Nat
         /\ ~FromWriter(MsgAt(i)) <=> MsgAt(i).src \in Nat
<1>1. net[i] \in Sent /\ Len(net[i].content) = 1
  BY DEF TypeOK, OneMessage
<1>2. net[i].content \in Seq(Msg) /\ 1 \in 1..Len(net[i].content)
  BY <1>1 DEF Sent
<1>3. MsgAt(i) \in Msg /\ OnNet(MsgAt(i))
  BY <1>2 DEF MsgAt, OnNet
<1>4. QED
  BY <1>3, ActorsAssumption DEF Msg, FromWriter

\* A send leaves the network as it is or adds one datagram with one message.
SendsOne(m) ==
  /\ Len(net') = Len(net) + 1
  /\ \A i \in 1..Len(net) : net'[i] = net[i]
  /\ net'[Len(net) + 1].content[1] = m

LEMMA FlushSendsOne ==
  ASSUME TypeOK, NEW m \in Msg, writeBuf \in {<<>>, <<m>>}, FlushDatagram(m.to)
  PROVE  net' = net \/ SendsOne(m)
<1>1. CASE writeBuf = <<m>>
  <2> DEFINE sent == [to |-> m.to, content |-> <<m>>]
  <2>1. net' = Append(net, sent)
    BY <1>1 DEF FlushDatagram
  <2>2. net \in Seq(Sent) /\ sent \in Sent /\ sent.content[1] = m
    BY DEF TypeOK, Sent, Msg
  <2> HIDE DEF sent
  <2>3. QED
    BY <2>1, <2>2 DEF SendsOne
<1>2. QED
  BY <1>1 DEF FlushDatagram

\* The steps that send nothing and neither write nor receive.
Idles ==
  /\ UNCHANGED <<net, received, outbox, staged>>
  /\ Invoked' => Invoked
  /\ pc' = "stages" => pc = "stages"

LEMMA IdleSteps ==
  \/ Application \/ StartedHook \/ StoppedHook \/ Panic
  \/ CheckShutdown \/ SelectCommand \/ SelectShutdown \/ EncodeCommand
  \/ HandlerAbandonsFlush \/ HandlerCloses \/ HandlerShares
  \/ HandlerReturns \/ HandlerPending
  \/ DrainWrite \/ DrainResumes \/ DrainEnds \/ UNCHANGED vars
  => Idles
<1> USE DEF Idles, Invoked, queueVars, appVars, handlerVars, sendVars, answerVars,
            lifeVars, Elsewhere, HandlerStay, End, Continue
<1>1. Application => Idles
  BY DEF Application, Begin, Enqueue, Rejected, HandleUsed
<1>2. StartedHook \/ StoppedHook \/ Panic \/ CheckShutdown \/ SelectCommand
        \/ SelectShutdown => Idles
  BY DEF StartedHook, StartRefused, StoppedHook, Panic, CheckShutdown,
     SelectCommand, SelectShutdown
<1>3. EncodeCommand \/ DrainWrite => Idles
  BY DEF EncodeCommand, DrainWrite, Encoded
<1>4. HandlerAbandonsFlush \/ HandlerCloses \/ HandlerShares
        \/ HandlerReturns \/ HandlerPending => Idles
  BY DEF HandlerAbandonsFlush, HandlerCloses, HandlerShares, HandlerReturns,
     HandlerPending, HandlerRuns
<1>5. DrainResumes \/ DrainEnds => Idles
  BY DEF DrainResumes, DrainEnds, AfterHandled
<1>6. UNCHANGED vars => Idles
  BY DEF vars
<1>7. QED
  BY <1>1, <1>2, <1>3, <1>4, <1>5, <1>6

LEMMA OutboxEntry ==
  ASSUME TypeOK, NEW j \in 1..Len(outbox), outbox[j].kind = "WriteTo"
  PROVE  outbox[j].msg \in Msg /\ outbox[j].msg.n \in Nat
<1>1. outbox[j] \in Staged
  BY DEF TypeOK
<1>2. QED
  BY <1>1 DEF Staged, Msg

LEMMA InvocationOrderStep ==
  DeliveryInv /\ OneMessage /\ InvocationOrder /\ [Next]_vars => InvocationOrder'
<1> SUFFICES ASSUME DeliveryInv, OneMessage, InvocationOrder, [Next]_vars
             PROVE  InvocationOrder'
  OBVIOUS
<1> USE DEF queueVars, appVars, handlerVars, sendVars, answerVars, lifeVars,
            Elsewhere, HandlerStay
<1>0. TypeOK /\ InHand /\ BufferShape /\ HooksInv /\ KeptInv /\ NetFromQueue
  BY DEF DeliveryInv
<1>1. /\ received \in Seq(Datagram) /\ Len(received) \in Nat
      /\ staged \in Seq(Msg) /\ Len(staged) \in Nat
      /\ outbox \in Seq(Staged) /\ net \in Seq(Sent)
  BY <1>0 DEF TypeOK
<1>2. /\ \A i \in 1..Len(net) : /\ MsgAt(i).n \in Nat
                                /\ ~FromWriter(MsgAt(i)) <=> MsgAt(i).src \in Nat
      /\ \A j \in 1..Len(outbox) : outbox[j].kind = "WriteTo" => outbox[j].msg.n \in Nat
  BY <1>0, MsgAtType, OutboxEntry
<1>3. Idles => InvocationOrder'
  BY DEF Idles, InvocationOrder, FromPast, CurrentLast, SentFirst, OutboxOrder, MsgAt
<1>4. CASE SelectReceive
  <2>1. net' = net /\ ~Invoked'
    BY <1>4 DEF SelectReceive, Invoked, End, Continue
  <2>2. \/ \E datagram : received' = Append(received, datagram)
        \/ received' = received /\ pc' = "stopping"
    BY <1>4 DEF SelectReceive, End
  <2>3. \/ Len(received') = Len(received) + 1
        \/ received' = received /\ pc' = "stopping"
    BY <1>1, <2>2
  <2>4. QED
    BY <1>1, <1>2, <2>1, <2>3 DEF InvocationOrder, FromPast, CurrentLast, SentFirst,
       OutboxOrder, MsgAt, FromWriter
<1>5. CASE InboundStages
  <2>1. UNCHANGED <<net, received, outbox, staged>> /\ outbox = <<>> /\ pc = "stages"
          /\ pc' # "stages"
    BY <1>0, <1>5 DEF InboundStages, KeptInv, HooksInv, Good, Invoked, AfterHandled,
       End, Continue
  <2>2. \A i \in 1..Len(net) : MsgAt(i).src # Len(received)
    BY <1>1, <1>2, <2>1 DEF InvocationOrder, FromPast
  <2>3. QED
    BY <2>1, <2>2 DEF InvocationOrder, FromPast, CurrentLast, SentFirst, OutboxOrder, MsgAt
<1>6. ASSUME NEW to \in Peers, HandlerWrites(to)
      PROVE  InvocationOrder'
  <2> DEFINE new == HandlerMsg(to)
             entry == [kind |-> "WriteTo", msg |-> new]
  <2>1. /\ new \in Msg /\ entry \in Staged /\ entry.kind = "WriteTo" /\ entry.msg = new
        /\ new.src = Len(received) /\ new.n = Len(staged) + 1
    BY <1>0, HandlerMsgType DEF Staged, HandlerMsg
  <2>2. staged' = Append(staged, new) /\ outbox' = Append(outbox, entry)
    BY <1>6 DEF HandlerWrites, Push
  <2>3. Invoked /\ Invoked' /\ pc' # "stages" /\ UNCHANGED <<net, received>>
    BY <1>6 DEF HandlerWrites, HandlerRuns, Invoked
  <2> HIDE DEF new, entry
  <2>4. /\ Len(staged') = Len(staged) + 1
        /\ Len(outbox') = Len(outbox) + 1
        /\ \A j \in 1..Len(outbox) : outbox'[j] = outbox[j]
        /\ outbox'[Len(outbox) + 1] = entry
        /\ \A j \in 1..Len(outbox') : j \in 1..Len(outbox) \/ j = Len(outbox) + 1
    BY <1>1, <2>1, <2>2
  <2>5. FromPast' /\ CurrentLast'
    BY <2>3 DEF InvocationOrder, FromPast, CurrentLast, MsgAt, FromWriter
  <2>6. SentFirst'
    <3> SUFFICES ASSUME NEW i \in 1..Len(net), MsgAt(i).src = Len(received)
                 PROVE  /\ MsgAt(i).n <= Len(staged')
                        /\ \A j \in 1..Len(outbox') :
                             outbox'[j].kind = "WriteTo" => MsgAt(i).n < outbox'[j].msg.n
      BY <2>3 DEF SentFirst, MsgAt
    <3>1. /\ MsgAt(i).n \in Nat /\ MsgAt(i).n <= Len(staged)
          /\ \A j \in 1..Len(outbox) :
               outbox[j].kind = "WriteTo" => MsgAt(i).n < outbox[j].msg.n
      BY <1>2, <2>3 DEF InvocationOrder, SentFirst
    <3>2. MsgAt(i).n <= Len(staged') /\ MsgAt(i).n < new.n
      BY <1>1, <2>1, <2>4, <3>1
    <3>3. QED
      BY <2>1, <2>4, <3>1, <3>2
  <2>7. OutboxOrder'
    <3> SUFFICES ASSUME NEW j \in 1..Len(outbox'), outbox'[j].kind = "WriteTo"
                 PROVE  /\ outbox'[j].msg.src = Len(received)
                        /\ outbox'[j].msg.n <= Len(staged')
                        /\ \A k \in 1..Len(outbox') :
                             j < k /\ outbox'[k].kind = "WriteTo" =>
                               outbox'[j].msg.n < outbox'[k].msg.n
      BY <2>3 DEF OutboxOrder
    <3>1. CASE j \in 1..Len(outbox)
      <4>1. /\ outbox'[j].msg.src = Len(received) /\ outbox'[j].msg.n <= Len(staged)
            /\ outbox'[j].msg.n \in Nat
            /\ \A k \in 1..Len(outbox) :
                 j < k /\ outbox[k].kind = "WriteTo" => outbox'[j].msg.n < outbox[k].msg.n
        BY <1>2, <2>3, <2>4, <3>1 DEF InvocationOrder, OutboxOrder
      <4>2. outbox'[j].msg.n <= Len(staged') /\ outbox'[j].msg.n < new.n
        BY <1>1, <2>1, <2>4, <4>1
      <4>3. QED
        BY <2>1, <2>4, <4>1, <4>2
    <3>2. CASE j = Len(outbox) + 1
      BY <1>1, <2>1, <2>4, <3>2
    <3>3. QED
      BY <2>4, <3>1, <3>2
  <2>8. QED
    BY <2>5, <2>6, <2>7 DEF InvocationOrder
<1>7. CASE HandlerFlushes
  <2> DEFINE entry == [kind |-> "Flush"]
  <2>1. entry \in Staged /\ entry.kind # "WriteTo" /\ outbox' = Append(outbox, entry)
    BY <1>7 DEF HandlerFlushes, Push, Staged
  <2>2. Invoked /\ pc' # "stages" /\ UNCHANGED <<net, received, staged>>
    BY <1>7 DEF HandlerFlushes, HandlerRuns, Invoked
  <2> HIDE DEF entry
  <2>3. /\ \A j \in 1..Len(outbox) : outbox'[j] = outbox[j]
        /\ \A j \in 1..Len(outbox') : j \in 1..Len(outbox) \/ outbox'[j] = entry
    BY <1>1, <2>1
  <2>4. QED
    BY <2>1, <2>2, <2>3 DEF InvocationOrder, FromPast, CurrentLast, SentFirst,
       OutboxOrder, MsgAt, Invoked
<1>8. CASE SendCommand
  <2>1. CASE FlushDatagram(Current.msg.to)
    <3>1. Current.msg \in Msg /\ writeBuf \in {<<>>, <<Current.msg>>}
      BY <1>0, <1>8, CurrentType DEF SendCommand, InHand, BufferShape
    <3>2. net' = net \/ SendsOne(Current.msg)
      BY <1>0, <2>1, <3>1, FlushSendsOne
    <3>3. FromWriter(Current.msg)
      BY <1>0, <1>8 DEF SendCommand, InHand, TypeOK, DeliveryInv, QueueInv, Numbered,
         FromWriter, Current
    <3>4. ~Invoked' /\ pc' # "stages" /\ received' = received
      BY <1>8 DEF SendCommand, Invoked, End, Continue
    <3>5. \A i \in 1..Len(net') : i \in 1..Len(net) \/ i = Len(net) + 1 \/ net' = net
      BY <1>1, <3>2 DEF SendsOne
    <3>6. QED
      BY <3>2, <3>3, <3>4, <3>5 DEF InvocationOrder, FromPast, CurrentLast,
         SentFirst, OutboxOrder, MsgAt, FromWriter, SendsOne
  <2>2. CASE UNCHANGED sendVars /\ End("Err")
    BY <1>8, <2>2 DEF SendCommand, InvocationOrder, FromPast, CurrentLast,
       SentFirst, OutboxOrder, MsgAt, Invoked, End
  <2>3. QED
    BY <1>8, <2>1, <2>2 DEF SendCommand
<1>9. ASSUME outbox # <<>>, outbox' = Tail(outbox)
      PROVE  \A j \in 1..Len(outbox') :
                j + 1 \in 1..Len(outbox) /\ outbox'[j] = outbox[j + 1] /\ 1 < j + 1
  BY <1>0, <1>9, TailElements
\* What remains of an outbox is in order.
<1>10. ASSUME outbox # <<>>, outbox' = Tail(outbox), Invoked, UNCHANGED <<received, staged>>
       PROVE  OutboxOrder'
  <2> SUFFICES ASSUME NEW j \in 1..Len(outbox'), outbox'[j].kind = "WriteTo"
               PROVE  /\ outbox'[j].msg.src = Len(received)
                      /\ outbox'[j].msg.n <= Len(staged)
                      /\ \A k \in 1..Len(outbox') :
                           j < k /\ outbox'[k].kind = "WriteTo" =>
                             outbox'[j].msg.n < outbox'[k].msg.n
    BY <1>10 DEF OutboxOrder
  <2>1. j + 1 \in 1..Len(outbox) /\ outbox'[j] = outbox[j + 1] /\ j \in Int
    BY <1>9, <1>10
  <2>2. /\ outbox'[j].msg.src = Len(received) /\ outbox'[j].msg.n <= Len(staged)
        /\ \A k \in 1..Len(outbox) :
             j + 1 < k /\ outbox[k].kind = "WriteTo" => outbox'[j].msg.n < outbox[k].msg.n
    BY <1>10, <2>1 DEF InvocationOrder, OutboxOrder
  <2>3. ASSUME NEW k \in 1..Len(outbox'), j < k, outbox'[k].kind = "WriteTo"
        PROVE  outbox'[j].msg.n < outbox'[k].msg.n
    <3>1. k + 1 \in 1..Len(outbox) /\ outbox'[k] = outbox[k + 1] /\ j + 1 < k + 1
      BY <1>9, <1>10, <2>1, <2>3
    <3>2. QED
      BY <2>2, <2>3, <3>1
  <2>4. QED
    BY <2>2, <2>3
<1>11. CASE DrainFlush
  <2>1. /\ outbox # <<>> /\ outbox' = Tail(outbox) /\ Invoked /\ pc' # "stages"
        /\ UNCHANGED <<net, received, staged>>
    BY <1>11 DEF DrainFlush, Invoked, Continue
  <2>2. FromPast' /\ CurrentLast'
    BY <2>1 DEF InvocationOrder, FromPast, CurrentLast, MsgAt
  <2>3. SentFirst'
    BY <1>9, <2>1 DEF InvocationOrder, SentFirst, MsgAt
  <2>4. QED
    BY <1>10, <2>1, <2>2, <2>3 DEF InvocationOrder
<1>12. CASE DrainSend
  <2>1. CASE FlushDatagram(Head(outbox).msg.to) /\ outbox' = Tail(outbox)
               /\ Continue("drain")
    <3> DEFINE m == Head(outbox).msg
    <3>1. /\ outbox # <<>> /\ Head(outbox).kind = "WriteTo" /\ m \in Msg
          /\ writeBuf \in {<<>>, <<m>>}
      BY <1>0, <1>12, OutboxType DEF DrainSend, InHand, BufferShape
    <3>2. net' = net \/ SendsOne(m)
      BY <1>0, <2>1, <3>1, FlushSendsOne
    <3>3. Invoked /\ pc' # "stages" /\ UNCHANGED <<received, staged>>
      BY <1>12, <2>1 DEF DrainSend, Invoked, Continue
    <3>4. /\ m.src = Len(received) /\ m.n <= Len(staged) /\ m.n \in Nat
          /\ \A k \in 1..Len(outbox) :
               1 < k /\ outbox[k].kind = "WriteTo" => m.n < outbox[k].msg.n
      BY <1>0, <1>2, <3>1, <3>3, HeadElement DEF InvocationOrder, OutboxOrder
    <3> HIDE DEF m
    <3>5. \A j \in 1..Len(outbox') : j + 1 \in 1..Len(outbox)
             /\ outbox'[j] = outbox[j + 1] /\ 1 < j + 1
      BY <1>9, <2>1, <3>1
    <3>6. OutboxOrder'
      BY <1>10, <2>1, <3>1, <3>3
    <3>7. ASSUME NEW i \in 1..Len(net), MsgAt(i).src = Len(received)
          PROVE  /\ MsgAt(i).n <= Len(staged)
                 /\ \A j \in 1..Len(outbox') :
                      outbox'[j].kind = "WriteTo" => MsgAt(i).n < outbox'[j].msg.n
      BY <3>3, <3>5, <3>7 DEF InvocationOrder, SentFirst
    <3>8. CASE net' = net
      <4>1. FromPast' /\ CurrentLast'
        BY <3>3, <3>8 DEF InvocationOrder, FromPast, CurrentLast, MsgAt
      <4>2. SentFirst'
        BY <3>3, <3>7, <3>8 DEF SentFirst, MsgAt
      <4>3. QED
        BY <3>6, <4>1, <4>2 DEF InvocationOrder
    <3>9. CASE SendsOne(m)
      <4>1. /\ Len(net') = Len(net) + 1 /\ Len(net) \in Nat
            /\ \A i \in 1..Len(net') : i \in 1..Len(net) \/ i = Len(net) + 1
            /\ \A i \in 1..Len(net) : net'[i].content[1] = MsgAt(i)
            /\ net'[Len(net) + 1].content[1] = m
        BY <1>1, <3>9 DEF SendsOne, MsgAt
      <4>2. FromPast'
        <5>1. \A i \in 1..Len(net) : ~FromWriter(MsgAt(i)) => MsgAt(i).src <= Len(received)
          BY DEF InvocationOrder, FromPast
        <5>2. \A i \in 1..Len(net') : ~FromWriter(net'[i].content[1]) =>
                net'[i].content[1].src <= Len(received)
          BY <1>1, <3>4, <4>1, <5>1
        <5>3. QED
          BY <3>3, <5>2 DEF FromPast, MsgAt, FromWriter
      <4>3. CurrentLast'
        <5>1. \A i, h \in 1..Len(net) : i <= h /\ MsgAt(i).src = Len(received) =>
                MsgAt(h).src = Len(received)
          BY <3>3 DEF InvocationOrder, CurrentLast
        <5>2. ASSUME NEW i \in 1..Len(net'), NEW h \in 1..Len(net'), i <= h,
                     net'[i].content[1].src = Len(received)
              PROVE  net'[h].content[1].src = Len(received)
          <6>1. CASE h = Len(net) + 1
            BY <3>4, <4>1, <6>1
          <6>2. CASE h \in 1..Len(net)
            <7>1. i \in 1..Len(net)
              BY <4>1, <5>2, <6>2
            <7>2. QED
              BY <4>1, <5>1, <5>2, <6>2, <7>1
          <6>3. QED
            BY <4>1, <6>1, <6>2
        <5>3. QED
          BY <3>3, <5>2 DEF CurrentLast, MsgAt
      <4>4. SentFirst'
        <5>1. ASSUME NEW i \in 1..Len(net'), net'[i].content[1].src = Len(received)
              PROVE  /\ net'[i].content[1].n <= Len(staged)
                     /\ \A j \in 1..Len(outbox') : outbox'[j].kind = "WriteTo" =>
                          net'[i].content[1].n < outbox'[j].msg.n
          <6>1. CASE i \in 1..Len(net)
            BY <3>7, <4>1, <5>1, <6>1
          <6>2. CASE i = Len(net) + 1
            BY <3>4, <3>5, <4>1, <6>2
          <6>3. QED
            BY <4>1, <6>1, <6>2
        <5>2. QED
          BY <3>3, <5>1 DEF SentFirst, MsgAt
      <4>5. QED
        BY <3>6, <4>2, <4>3, <4>4 DEF InvocationOrder
    <3>10. QED
      BY <3>2, <3>8, <3>9
  <2>2. CASE UNCHANGED <<outbox, sendVars>> /\ End("Err")
    BY <1>12, <2>2 DEF DrainSend, InvocationOrder, FromPast, CurrentLast,
       SentFirst, OutboxOrder, MsgAt, Invoked, End
  <2>3. QED
    BY <1>12, <2>1, <2>2 DEF DrainSend
<1>13. QED
  BY <1>3, <1>4, <1>5, <1>6, <1>7, <1>8, <1>11, <1>12, IdleSteps
  DEF Next, Task, Select, Handler, Drain

\* The only two steps that send.
LEMMA WhoSends ==
  ASSUME DeliveryInv, [Next]_vars
  PROVE  \/ net' = net
         \/ pc = "send" /\ pc' = "top" /\ FromWriter(Current.msg) /\ SendsOne(Current.msg)
         \/ pc = "drainsend" /\ outbox # <<>> /\ Head(outbox).kind = "WriteTo"
              /\ SendsOne(Head(outbox).msg)
<1> USE DEF sendVars
<1>0. TypeOK /\ InHand /\ BufferShape
  BY DEF DeliveryInv
<1>1. CASE SendCommand
  <2>1. Current.msg \in Msg /\ writeBuf \in {<<>>, <<Current.msg>>}
    BY <1>0, <1>1, CurrentType DEF SendCommand, InHand, BufferShape
  <2>2. FromWriter(Current.msg)
    BY <1>0, <1>1 DEF SendCommand, InHand, TypeOK, DeliveryInv, QueueInv, Numbered,
       FromWriter, Current
  <2>3. \/ net' = net
        \/ pc = "send" /\ pc' = "top" /\ FlushDatagram(Current.msg.to)
    BY <1>1 DEF SendCommand, Continue
  <2>4. QED
    BY <1>0, <2>1, <2>2, <2>3, FlushSendsOne
<1>2. CASE DrainSend
  <2>1. /\ pc = "drainsend" /\ outbox # <<>> /\ Head(outbox).kind = "WriteTo"
        /\ Head(outbox).msg \in Msg /\ writeBuf \in {<<>>, <<Head(outbox).msg>>}
    BY <1>0, <1>2, OutboxType DEF DrainSend, InHand, BufferShape
  <2>2. net' = net \/ FlushDatagram(Head(outbox).msg.to)
    BY <1>2 DEF DrainSend
  <2>3. QED
    BY <1>0, <2>1, <2>2, FlushSendsOne
<1>3. CASE SelectReceive \/ InboundStages \/ HandlerFlushes \/ DrainFlush
             \/ \E to \in Peers : HandlerWrites(to)
  BY <1>3 DEF SelectReceive, InboundStages, HandlerFlushes, DrainFlush, HandlerWrites,
     HandlerStay
<1>4. Idles => net' = net
  BY DEF Idles
<1>5. QED
  BY <1>1, <1>2, <1>3, <1>4, IdleSteps DEF Next, Task, Select, Handler, Drain

LEMMA WriterPairsStep ==
  DeliveryInv /\ OneMessage /\ WriterPairs /\ [Next]_vars => WriterPairs'
<1> SUFFICES ASSUME DeliveryInv, OneMessage, WriterPairs, [Next]_vars,
                    NEW i \in 1..Len(net'), NEW j \in 1..Len(net'), i < j,
                    FromWriter(net'[i].content[1]), FromWriter(net'[j].content[1])
             PROVE  \E a, b \in 1..Handled' :
                      a < b /\ queue'[a].msg = net'[i].content[1]
                            /\ queue'[b].msg = net'[j].content[1]
  BY DEF WriterPairs, MsgAt, FromWriter
<1>0. TypeOK /\ InHand /\ NetFromQueue /\ HandledGrows
  BY HandledStep DEF DeliveryInv
<1>1. /\ Handled \in Nat /\ Handled' \in Nat /\ Handled <= Handled'
      /\ \A a \in 1..Handled : a \in 1..Handled' /\ queue'[a] = queue[a]
  BY <1>0 DEF HandledGrows
<1>2. ASSUME i \in 1..Len(net), j \in 1..Len(net),
             net'[i] = net[i], net'[j] = net[j]
      PROVE  \E a, b \in 1..Handled' :
               a < b /\ queue'[a].msg = net'[i].content[1]
                     /\ queue'[b].msg = net'[j].content[1]
  <2>1. PICK a \in 1..Handled, b \in 1..Handled :
          a < b /\ queue[a].msg = MsgAt(i) /\ queue[b].msg = MsgAt(j)
    BY <1>2 DEF WriterPairs, MsgAt
  <2>2. QED
    BY <1>1, <1>2, <2>1 DEF MsgAt
<1>3. CASE net' = net
  BY <1>2, <1>3
<1>4. ASSUME NEW m, SendsOne(m), FromWriter(m) => pc = "send" /\ pc' = "top" /\ m = Current.msg
      PROVE  \E a, b \in 1..Handled' :
               a < b /\ queue'[a].msg = net'[i].content[1]
                     /\ queue'[b].msg = net'[j].content[1]
  <2>0. Len(net) \in Nat /\ Len(net') = Len(net) + 1 /\ net'[Len(net) + 1].content[1] = m
          /\ \A h \in 1..Len(net) : net'[h] = net[h]
    BY <1>0, <1>4 DEF TypeOK, SendsOne
  <2>1. CASE j \in 1..Len(net)
    <3>1. i \in 1..Len(net)
      BY <2>0, <2>1
    <3>2. QED
      BY <1>2, <2>0, <2>1, <3>1
  <2>2. CASE j = Len(net) + 1
    <3>1. i \in 1..Len(net) /\ net'[i] = net[i] /\ net'[j].content[1] = m
      BY <2>0, <2>2
    <3>2. PICK a \in 1..Handled : queue[a].msg = net'[i].content[1]
      BY <1>0, <3>1, MsgAtType DEF NetFromQueue, MsgAt
    <3>3. /\ pc = "send" /\ m = queue[taken].msg /\ Handled' = taken /\ queue' = queue
          /\ Handled = taken - 1 /\ taken > 0
      BY <1>0, <1>4, <3>1 DEF HandledGrows, Current, Handled, InCommand, InHand
    <3>4. a \in 1..Handled' /\ taken \in 1..Handled' /\ a < taken
      BY <1>1, <3>3
    <3>5. QED
      BY <3>1, <3>2, <3>3, <3>4
  <2>3. QED
    BY <2>0, <2>1, <2>2
<1>5. CASE pc = "drainsend" /\ outbox # <<>> /\ Head(outbox).kind = "WriteTo"
             /\ SendsOne(Head(outbox).msg)
  <2>1. ~FromWriter(Head(outbox).msg)
    BY <1>0, <1>5, HeadElement DEF NetFromQueue
  <2>2. QED
    BY <1>4, <1>5, <2>1
<1>6. QED
  BY <1>3, <1>4, <1>5, WhoSends

LEMMA HandlerPairsStep ==
  DeliveryInv /\ OneMessage /\ InvocationOrder /\ HandlerPairs /\ [Next]_vars => HandlerPairs'
<1> DEFINE At(i) == net'[i].content[1]
<1> SUFFICES ASSUME DeliveryInv, OneMessage, InvocationOrder, HandlerPairs, [Next]_vars,
                    NEW i \in 1..Len(net'), NEW j \in 1..Len(net'), i < j,
                    ~FromWriter(At(i)), ~FromWriter(At(j))
             PROVE  /\ \/ At(i).src < At(j).src
                       \/ At(i).src = At(j).src /\ At(i).n < At(j).n
                    /\ At(i).src = At(j).src => \A h \in i..j : At(h).src = At(i).src
  BY DEF HandlerPairs, MsgAt, FromWriter
<1>0. TypeOK /\ InHand
  BY DEF DeliveryInv
<1>1. ASSUME j \in 1..Len(net), \A h \in 1..Len(net) : net'[h] = net[h]
      PROVE  /\ \/ At(i).src < At(j).src
                \/ At(i).src = At(j).src /\ At(i).n < At(j).n
             /\ At(i).src = At(j).src => \A h \in i..j : At(h).src = At(i).src
  <2>1. i \in 1..Len(net) /\ \A h \in i..j : h \in 1..Len(net)
    BY <1>1
  <2>2. \A h \in 1..Len(net) : At(h) = MsgAt(h)
    BY <1>1 DEF MsgAt
  <2> HIDE DEF At
  <2>3. QED
    BY <1>1, <2>1, <2>2 DEF HandlerPairs
<1>2. ASSUME NEW m, SendsOne(m), j = Len(net) + 1, At(j) = m
      PROVE  /\ \/ At(i).src < At(j).src
                \/ At(i).src = At(j).src /\ At(i).n < At(j).n
             /\ At(i).src = At(j).src => \A h \in i..j : At(h).src = At(i).src
  <2>1. pc = "drainsend" /\ outbox # <<>> /\ Head(outbox).kind = "WriteTo"
          /\ m = Head(outbox).msg
    <3>1. ~FromWriter(m)
      BY <1>2
    <3>2. net' # net
      BY <1>0, <1>2 DEF SendsOne, TypeOK
    <3>3. net'[Len(net) + 1].content[1] = m
      BY <1>2
    <3>4. QED
      BY <1>2, <3>1, <3>2, <3>3, WhoSends DEF SendsOne
  <2>2. Len(net) \in Nat /\ \A h \in 1..Len(net) : At(h) = MsgAt(h)
    BY <1>0, <1>2 DEF TypeOK, SendsOne, MsgAt
  <2>3. 1 \in 1..Len(outbox) /\ Head(outbox) = outbox[1] /\ Len(received) \in Nat
    BY <1>0, <2>1, HeadElement DEF TypeOK
  <2>4. m.src = Len(received)
    BY <2>1, <2>3 DEF InvocationOrder, OutboxOrder, Invoked
  <2>5. i \in 1..Len(net) /\ ~FromWriter(MsgAt(i)) /\ At(i) = MsgAt(i)
    BY <1>2, <2>2
  <2>6. MsgAt(i).src \in Nat /\ MsgAt(i).src <= Len(received)
    BY <1>0, <2>5, MsgAtType DEF InvocationOrder, FromPast
  <2>7. MsgAt(i).src = Len(received) => MsgAt(i).n < m.n
    BY <2>1, <2>3, <2>5 DEF InvocationOrder, SentFirst, Invoked
  <2>8. ASSUME MsgAt(i).src = Len(received), NEW h \in i..j
        PROVE  At(h).src = Len(received)
    <3>1. CASE h = j
      BY <1>2, <2>4, <3>1
    <3>2. CASE h \in 1..Len(net)
      BY <2>1, <2>2, <2>5, <2>8, <3>2 DEF InvocationOrder, CurrentLast, Invoked
    <3>3. QED
      BY <1>2, <2>2, <3>1, <3>2
  <2> HIDE DEF At
  <2>9. QED
    BY <1>2, <2>3, <2>4, <2>5, <2>6, <2>7, <2>8
<1>3. CASE net' = net
  BY <1>1, <1>3
<1>4. ASSUME NEW m, SendsOne(m)
      PROVE  /\ \/ At(i).src < At(j).src
                \/ At(i).src = At(j).src /\ At(i).n < At(j).n
             /\ At(i).src = At(j).src => \A h \in i..j : At(h).src = At(i).src
  <2>1. Len(net) \in Nat /\ Len(net') = Len(net) + 1 /\ At(Len(net) + 1) = m
          /\ \A h \in 1..Len(net) : net'[h] = net[h]
    BY <1>0, <1>4 DEF TypeOK, SendsOne
  <2> HIDE DEF At
  <2>2. j \in 1..Len(net) \/ j = Len(net) + 1
    BY <2>1
  <2>3. QED
    BY <1>1, <1>2, <1>4, <2>1, <2>2
<1>5. QED
  BY <1>3, <1>4, WhoSends

\* Whoever sends when: the network carries commands in the order of the queue,
\* the handlers' datagrams in the order of the inbound datagrams and of their
\* writes, and nothing between the datagrams of one invocation.
THEOREM DatagramOrder == Spec => []SendOrder
<1> DEFINE OrderInv == /\ DeliveryInv /\ OneMessage
                       /\ InvocationOrder /\ WriterPairs /\ HandlerPairs
<1>1. Init => OrderInv
  BY DeliveryInit DEF Init, OneMessage, InvocationOrder, FromPast, CurrentLast,
     SentFirst, OutboxOrder, WriterPairs, HandlerPairs, Invoked
<1>2. OrderInv /\ [Next]_vars => OrderInv'
  BY DeliveryStep, OneMessageStep, InvocationOrderStep, WriterPairsStep,
     HandlerPairsStep DEF DeliveryInv
<1>3. OrderInv => SendOrder
  <2> SUFFICES ASSUME DeliveryInv, WriterPairs, HandlerPairs,
                      NEW i \in 1..Len(net), NEW j \in 1..Len(net), i < j
               PROVE  /\ FromWriter(MsgAt(i)) /\ FromWriter(MsgAt(j)) =>
                           \E a, b \in 1..taken :
                             a < b /\ queue[a].msg = MsgAt(i) /\ queue[b].msg = MsgAt(j)
                      /\ ~FromWriter(MsgAt(i)) /\ ~FromWriter(MsgAt(j)) =>
                           /\ \/ MsgAt(i).src < MsgAt(j).src
                              \/ MsgAt(i).src = MsgAt(j).src /\ MsgAt(i).n < MsgAt(j).n
                           /\ MsgAt(i).src = MsgAt(j).src =>
                                \A h \in i..j : MsgAt(h).src = MsgAt(i).src
    BY DEF SendOrder
  <2>1. \A a \in 1..Handled : a \in 1..taken
    BY DEF DeliveryInv, TypeOK, Handled
  <2>2. QED
    BY <2>1 DEF WriterPairs, HandlerPairs
<1>4. QED
  BY <1>1, <1>2, <1>3, PTL DEF Spec
=============================================================================
