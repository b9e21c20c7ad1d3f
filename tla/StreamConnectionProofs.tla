----------------------- MODULE StreamConnectionProofs -----------------------
(***************************************************************************)
(* Theorems about StreamConnection, for every set of application tasks,    *)
(* every queue capacity and frame size, and every set of faults: types,    *)
(* the order of the lifecycle, the read buffer, and what is promised about *)
(* messages, that is whose flush may be answered Ok or Err and what is     *)
(* lost when the task ends.  StreamRefinementProofs goes on with the order *)
(* of the messages.                                                        *)
(***************************************************************************)
EXTENDS StreamConnection, SequenceTheorems, TLAPS

\* The SMT backend does not see by itself that TRUE and FALSE are in BOOLEAN.
LEMMA Booleans == \A x : x = TRUE \/ x = FALSE => x \in BOOLEAN
BY Zenon

LEMMA Types == NoMsg \in Msg
BY DEF NoMsg, Msg, Sources

-----------------------------------------------------------------------------
(***************************************************************************)
(* Type correctness.                                                       *)
(***************************************************************************)

\* The command that is being handled is one of sent.
LEMMA CurrentType ==
  ASSUME TypeOK, taken > 0
  PROVE  Current \in Command /\ Current.msg \in Msg
<1>1. sent \in Seq(Command) /\ taken \in 1..Len(sent)
  BY DEF TypeOK
<1>2. Current \in Command
  BY <1>1 DEF Current
<1>3. QED
  BY <1>2 DEF Command

LEMMA OutboxType ==
  ASSUME TypeOK, outbox # <<>>
  PROVE  Head(outbox).msg \in Msg /\ Tail(outbox) \in Seq(Staged)
<1>1. outbox \in Seq(Staged)
  BY DEF TypeOK
<1>2. Head(outbox) \in Staged /\ Tail(outbox) \in Seq(Staged)
  BY <1>1
<1>3. QED
  BY <1>2 DEF Staged

\* Every error is classified as a failure.
LEMMA ErrReasons ==
  ASSUME NEW e \in ErrKinds
  PROVE  /\ decode_failure(e) \in FailureReasons
         /\ outbound_failure(e) \in FailureReasons
         /\ handler_failure(e) \in FailureReasons
BY DEF ErrKinds, decode_failure, outbound_failure, handler_failure,
       FailureReasons

\* What dropping the runtime changes has its type.
LEMMA ReleaseType ==
  ASSUME TypeOK, Release
  PROVE  /\ rxOpen' \in BOOLEAN
         /\ senders' \subseteq Writers \cup {Ctx}
         /\ writer' \in [Writers -> {"idle", "awaiting"} \cup SendKinds]
         /\ denied' \subseteq Msg
         /\ UNCHANGED <<sent, count, confirmed>>
<1>1. \A w \in Awaiting : w \in Writers /\ Latest(w) \in Msg
  BY DEF TypeOK, Awaiting, Latest, Msg, Sources
<1>2. denied' \subseteq Msg
  BY <1>1 DEF TypeOK, Release
<1>3. writer' \in [Writers -> {"idle", "awaiting"} \cup SendKinds]
  BY DEF TypeOK, Release
<1>4. QED
  BY <1>2, <1>3, Booleans DEF TypeOK, Release

\* The same of everything that leaving the task touches.
Left ==
  /\ pc' = "closing"
  /\ reason' \in CloseReasons \cup {"none"}
  /\ outcome' \in {"running", "Ok", "Err", "Panic"}
  /\ rxOpen' \in BOOLEAN
  /\ senders' \subseteq Writers \cup {Ctx}
  /\ writer' \in [Writers -> {"idle", "awaiting"} \cup SendKinds]
  /\ denied' \subseteq Msg
  /\ UNCHANGED <<sent, count, confirmed, hooks>>

LEMMA LeaveType ==
  ASSUME TypeOK, NEW r \in CloseReasons, NEW o \in {"Ok", "Err"}, Leave(r, o)
  PROVE  Left
BY ReleaseType DEF Leave, Left

LEMMA ExitType ==
  ASSUME TypeOK
  PROVE  /\ Exit("ServerShutdown") => Left
         /\ Exit("IdleTimeout") => Left
         /\ Exit("PeerClosed") => Left
         /\ Exit("ChannelClosed") => Left
         /\ Exit("LocalClosed") => Left
         /\ Exit("HandlerClosed") => Left
BY LeaveType DEF Exit, CloseReasons, GracefulReasons

LEMMA FailType ==
  ASSUME TypeOK
  PROVE  /\ Fail("FrameTooLarge") => Left
         /\ Fail("IoError") => Left
         /\ \A e \in ErrKinds : /\ Fail(decode_failure(e)) => Left
                                /\ Fail(outbound_failure(e)) => Left
                                /\ Fail(handler_failure(e)) => Left
<1>1. \A r \in FailureReasons : Fail(r) => Left
  BY LeaveType DEF Fail, CloseReasons
<1>2. QED
  BY <1>1, ErrReasons DEF FailureReasons

\* While a command is handled, the queue has handed one out.
CommandInHand == pc \in {"encode", "flush"} => taken > 0

LEMMA FlushType ==
  ASSUME TypeOK, FlushOk \/ FlushFails
  PROVE  /\ writeBuf' \in Seq(Msg)
         /\ wire' \in Seq(Msg)
         /\ UNCHANGED <<framesWritten, stopped>>
<1>1. writeBuf \in Seq(Msg) /\ wire \in Seq(Msg) /\ <<>> \in Seq(Msg)
  BY DEF TypeOK
<1>2. CASE FlushOk
  BY <1>1, <1>2 DEF FlushOk
<1>3. CASE FlushFails
  <2>1. PICK k \in 0..(Len(writeBuf) - 1) : wire' = wire \o SubSeq(writeBuf, 1, k)
    BY <1>3 DEF FlushFails
  <2>2. SubSeq(writeBuf, 1, k) \in Seq(Msg)
    BY <1>1, <2>1
  <2>3. QED
    BY <1>1, <1>3, <2>1, <2>2 DEF FlushFails
<1>4. QED
  BY <1>2, <1>3

LEMMA EncodedType ==
  ASSUME TypeOK, NEW m \in Msg, Encoded(m)
  PROVE  /\ writeBuf' \in Seq(Msg)
         /\ framesWritten' \in Nat
         /\ UNCHANGED <<wire, stopped>>
BY DEF TypeOK, Encoded

LEMMA AfterHandledType ==
  ASSUME TypeOK, AfterHandled
  PROVE  /\ UNCHANGED taken
         /\ \/ Left
            \/ pc' = "decode" /\ Stay
<1>1. CASE closeRequested
  BY <1>1, ExitType DEF AfterHandled
<1>2. CASE ~closeRequested
  BY <1>2 DEF AfterHandled, Stay, queueVars
<1>3. QED
  BY <1>1, <1>2

LEMMA TypeStep == TypeOK /\ CommandInHand /\ [Next]_vars => TypeOK'
<1> SUFFICES ASSUME TypeOK, CommandInHand, [Next]_vars PROVE TypeOK'
  OBVIOUS
<1> USE DEF TypeOK, Left, queueVars, appVars, handlerVars, writeVars,
            answerVars, peerVars, readVars, signalVars, lifeVars, SendKinds
<1>1. ASSUME NEW w \in Writers, NEW kind \in SendKinds, Begin(w, kind)
      PROVE  TypeOK'
  BY <1>1 DEF Begin
<1>2. ASSUME NEW w \in Writers, Enqueue(w)
      PROVE  TypeOK'
  BY <1>2 DEF Enqueue, Command, Msg, Sources, Latest
<1>3. ASSUME NEW w \in Writers, Rejected(w)
      PROVE  TypeOK'
  BY <1>3 DEF Rejected, Msg, Sources, Latest
<1>4. ASSUME NEW w \in Writers, DropSender(w)
      PROVE  TypeOK'
  BY <1>4 DEF DropSender
<1>5. ASSUME PeerSends
      PROVE  TypeOK'
  BY <1>5 DEF PeerSends
<1>6. ASSUME PeerCloses
      PROVE  TypeOK'
  BY <1>6, Booleans DEF PeerCloses
<1>7. ASSUME RequestShutdown
      PROVE  TypeOK'
  BY <1>7 DEF RequestShutdown
<1>8. ASSUME IdleElapses
      PROVE  TypeOK'
  BY <1>8, Booleans DEF IdleElapses
<1>9. ASSUME OpenedHook
      PROVE  TypeOK'
  <2>1. CASE pc' = "top" /\ hooks' = Append(hooks, "opened")
    BY <1>9, <2>1, ReleaseType DEF OpenedHook, OpenRefused, Steps
  <2>2. CASE OpenRefused
    BY <1>9, <2>2, ReleaseType DEF OpenedHook, OpenRefused, Steps
  <2>3. QED
    BY <1>9, <2>1, <2>2 DEF OpenedHook
<1>10. ASSUME CheckShutdown
      PROVE  TypeOK'
  BY <1>10, ExitType DEF CheckShutdown, Stay, Steps
<1>11. ASSUME SelectShutdown
      PROVE  TypeOK'
  BY <1>11, ExitType DEF SelectShutdown, Steps
<1>12. ASSUME SelectIdle
      PROVE  TypeOK'
  BY <1>12, ExitType DEF SelectIdle, Serve, Steps
<1>13. ASSUME SelectRead
      PROVE  TypeOK'
  BY <1>13, ExitType, FailType DEF SelectRead, PeerEof, Serve, Stay, Steps
<1>14. ASSUME SelectCommand
      PROVE  TypeOK'
  BY <1>14, ExitType DEF SelectCommand, Serve, Steps
<1>15. ASSUME EncodeCommand
      PROVE  TypeOK'
  <2>1. taken > 0 /\ Current.msg \in Msg
    BY <1>15, CurrentType DEF EncodeCommand, CommandInHand
  <2>2. CASE Encoded(Current.msg) /\ pc' = "flush" /\ Stay
    BY <1>15, <2>1, <2>2, EncodedType DEF EncodeCommand, Stay, Steps
  <2>3. CASE stopped' = stopped \cup {Current.msg} /\ pc' = "flush" /\ Stay
             /\ framesWritten' = framesWritten + 1 /\ UNCHANGED <<wire, writeBuf>>
    BY <1>15, <2>1, <2>3 DEF EncodeCommand, Stay, Steps
  <2>4. CASE (\E e \in ErrKinds : Fail(outbound_failure(e)))
             /\ UNCHANGED <<taken, writeVars>>
    BY <1>15, <2>4, FailType DEF EncodeCommand, Steps
  <2>5. QED
    BY <1>15, <2>2, <2>3, <2>4 DEF EncodeCommand
<1>16. ASSUME FlushCommand
      PROVE  TypeOK'
  <2>1. taken > 0 /\ Current \in Command /\ Current.msg \in Msg
    BY <1>16, CurrentType DEF FlushCommand, CommandInHand
  <2>2. CASE FlushOk /\ pc' = "top"
    <3>1. /\ confirmed' \subseteq Msg
          /\ writer' \in [Writers -> {"idle", "awaiting"} \cup SendKinds]
      BY <1>16, <2>1, <2>2 DEF FlushCommand, Fail, Leave
    <3>2. QED
      BY <1>16, <2>2, <3>1, FlushType DEF FlushCommand, Steps, Fail, Leave
  <2>3. CASE FlushFails /\ Fail("IoError")
    BY <1>16, <2>3, FlushType, FailType DEF FlushCommand, Steps
  <2>4. QED
    BY <1>16, <2>2, <2>3 DEF FlushCommand
<1>17. ASSUME Decode
      PROVE  TypeOK'
  <2>1. CASE /\ FrameReady
             /\ readBuf' = readBuf - FrameLen
             /\ frames' = frames + 1
             /\ staged' = 0
             /\ pc' = "stages"
             /\ Stay
             /\ UNCHANGED idle
    <3>1. readBuf - FrameLen \in Nat
      BY <2>1, SizesAssumption DEF FrameReady
    <3>2. QED
      BY <1>17, <2>1, <3>1 DEF Decode, Stay, Steps
  <2>2. CASE /\ pc' = "top"
             /\ idle' = FALSE
             /\ Stay
             /\ UNCHANGED <<readVars, staged>>
    BY <1>17, <2>2, Booleans DEF Decode, Stay, Steps
  <2>3. CASE /\ \E e \in ErrKinds : Fail(decode_failure(e))
             /\ UNCHANGED <<taken, readVars, staged, idle>>
    BY <1>17, <2>3, FailType DEF Decode, Steps
  <2>4. QED
    BY <1>17, <2>1, <2>2, <2>3 DEF Decode
<1>18. ASSUME InboundStages
      PROVE  TypeOK'
  BY <1>18, ExitType, FailType, Booleans DEF InboundStages, AfterHandled, Stay, Steps
<1>19. ASSUME HandlerWrites
      PROVE  TypeOK'
  BY <1>19 DEF HandlerWrites, HandlerStay, Push, Staged,
              HandlerMsg, Msg, Sources
<1>20. ASSUME HandlerFlushes
      PROVE  TypeOK'
  BY <1>20, Types, Booleans DEF HandlerFlushes, HandlerStay, Push, Staged
<1>21. ASSUME HandlerAbandonsFlush
      PROVE  TypeOK'
  BY <1>21, Booleans DEF HandlerAbandonsFlush, HandlerStay
<1>22. ASSUME HandlerCloses
      PROVE  TypeOK'
  BY <1>22, Booleans DEF HandlerCloses, HandlerStay
<1>23. ASSUME HandlerPending
      PROVE  TypeOK'
  BY <1>23 DEF HandlerPending, HandlerStay, Steps
<1>24. ASSUME HandlerReturns
      PROVE  TypeOK'
  BY <1>24 DEF HandlerReturns, HandlerStay, Steps
<1>25. ASSUME DrainWrite
      PROVE  TypeOK'
  <2>1. Head(outbox).msg \in Msg /\ Tail(outbox) \in Seq(Staged)
    BY <1>25, OutboxType DEF DrainWrite
  <2>2. CASE Encoded(Head(outbox).msg) /\ outbox' = Tail(outbox) /\ Stay
             /\ UNCHANGED pc
    <3>1. UNCHANGED <<staged, waiting, result, closeRequested, peerVars,
                      readVars, signalVars>>
      BY <1>25 DEF DrainWrite
    <3>2. QED
      BY <2>1, <2>2, <3>1, EncodedType DEF Stay
  <2>3. CASE stopped' = stopped \cup {Head(outbox).msg} /\ outbox' = Tail(outbox)
             /\ Stay /\ UNCHANGED <<pc, writeBuf, wire, framesWritten>>
    BY <1>25, <2>1, <2>3 DEF DrainWrite, Stay
  <2>4. CASE (\E e \in ErrKinds : Fail(handler_failure(e)))
             /\ UNCHANGED <<taken, writeVars, outbox>>
    BY <1>25, <2>4, FailType DEF DrainWrite, Steps
  <2>5. QED
    BY <1>25, <2>2, <2>3, <2>4 DEF DrainWrite
<1>26. ASSUME DrainFlush
      PROVE  TypeOK'
  <2>1. Tail(outbox) \in Seq(Staged) /\ "Io" \in ErrKinds
    BY <1>26, OutboxType DEF DrainFlush, ErrKinds
  <2>2. CASE FlushOk /\ outbox' = Tail(outbox) /\ Stay /\ UNCHANGED pc
    BY <1>26, <2>1, <2>2, FlushType DEF DrainFlush, Stay
  <2>3. CASE FlushFails /\ Fail(handler_failure("Io"))
             /\ UNCHANGED <<taken, outbox>>
    BY <1>26, <2>1, <2>3, FlushType, FailType DEF DrainFlush, Steps
  <2>4. QED
    BY <1>26, <2>2, <2>3 DEF DrainFlush
<1>27. ASSUME DrainResumes
      PROVE  TypeOK'
  BY <1>27, Booleans DEF DrainResumes, HandlerMsg, Msg, Sources, Steps
<1>28. ASSUME DrainEnds
      PROVE  TypeOK'
  <2>1. /\ UNCHANGED <<handlerVars, peerVars, readVars, signalVars, taken>>
        /\ FlushOk \/ FlushFails
        /\ \/ Left
           \/ pc' = "decode" /\ Stay
    <3>1. CASE FlushOk /\ result = "Ok" /\ AfterHandled
      BY <1>28, <3>1, AfterHandledType DEF DrainEnds
    <3>2. CASE FlushOk /\ result # "Ok" /\ Fail(handler_failure(result))
               /\ UNCHANGED taken
      <4>1. result \in ErrKinds
        BY <1>28, <3>2 DEF DrainEnds
      <4>2. QED
        BY <1>28, <3>2, <4>1, FailType DEF DrainEnds
    <3>3. CASE FlushFails /\ Fail(handler_failure("Io")) /\ UNCHANGED taken
      <4>1. "Io" \in ErrKinds
        BY DEF ErrKinds
      <4>2. QED
        BY <1>28, <3>3, <4>1, FailType DEF DrainEnds
    <3>4. QED
      BY <1>28, <3>1, <3>2, <3>3 DEF DrainEnds, FinalFlush
  <2>2. QED
    BY <2>1, FlushType DEF Stay, Steps
<1>29. ASSUME Panic
      PROVE  TypeOK'
  BY <1>29, ReleaseType DEF Panic, Steps
<1>30. ASSUME ClosedHook
      PROVE  TypeOK'
  BY <1>30 DEF ClosedHook, Steps
<1>31. ASSUME NEW w \in Writers, HandlerShares(w)
      PROVE  TypeOK'
  BY <1>31 DEF HandlerShares
<1>32. CASE UNCHANGED vars
  BY <1>32 DEF vars
<1>33. QED
  BY <1>1, <1>2, <1>3, <1>4, <1>5, <1>6, <1>7, <1>8, <1>9,
     <1>10, <1>11, <1>12, <1>13, <1>14, <1>15, <1>16, <1>17, <1>18,
     <1>19, <1>20, <1>21, <1>22, <1>23, <1>24, <1>25, <1>26, <1>27,
     <1>28, <1>29, <1>30, <1>31, <1>32
  DEF Next, Application, Environment, Task, Select, Handler, Drain

LEMMA HandStep == TypeOK /\ CommandInHand /\ [Next]_vars => CommandInHand'
<1> SUFFICES ASSUME TypeOK, CommandInHand, [Next]_vars,
                    pc' \in {"encode", "flush"}
             PROVE  taken' > 0
  BY DEF CommandInHand
<1>1. CASE SelectCommand
  BY <1>1, ExitType DEF SelectCommand, TypeOK, Left
<1>2. CASE EncodeCommand
  BY <1>2 DEF EncodeCommand, CommandInHand, Stay, queueVars, Fail, Leave
<1>3. ASSUME Application \/ Environment \/ UNCHANGED vars
      PROVE  pc' = pc /\ taken' = taken
  BY <1>3 DEF Application, Begin, Enqueue, Rejected, DropSender, Environment,
              PeerSends, PeerCloses, RequestShutdown, IdleElapses, vars,
              queueVars
<1>4. ~(OpenedHook \/ ClosedHook \/ CheckShutdown \/ SelectShutdown
          \/ SelectIdle \/ Panic)
  BY DEF OpenedHook, OpenRefused, ClosedHook, CheckShutdown, SelectShutdown,
         SelectIdle, Panic, Exit, Leave
<1>5. ~(SelectRead \/ Decode \/ InboundStages \/ FlushCommand)
  BY DEF SelectRead, PeerEof, Decode, InboundStages, AfterHandled, FlushCommand,
         Exit, Fail, Leave
<1>6. ~Handler
  BY DEF Handler, HandlerWrites, HandlerFlushes, HandlerAbandonsFlush,
         HandlerCloses, HandlerReturns, HandlerPending, HandlerShares, HandlerRuns
<1>7. ~Drain
  BY DEF Drain, DrainWrite, DrainFlush, DrainResumes, DrainEnds, AfterHandled,
         Exit, Fail, Leave
<1>8. QED
  BY <1>1, <1>2, <1>3, <1>4, <1>5, <1>6, <1>7
  DEF Next, Task, Select, CommandInHand

LEMMA InitType == Init => TypeOK /\ CommandInHand
BY Booleans DEF Init, TypeOK, Steps, SendKinds, CommandInHand

\* Every variable keeps its type.
THEOREM TypeCorrect == Spec => []TypeOK
BY InitType, TypeStep, HandStep, PTL DEF Spec

-----------------------------------------------------------------------------
(***************************************************************************)
(* A requested shutdown is prompt.  The inductive invariant says where the *)
(* one late branch can leave the task: anywhere but in select!, which only *)
(* CheckShutdown enters, and not once the request is visible.              *)
(***************************************************************************)
PromptInv ==
  /\ late \in {0, 1}
  /\ late = 1 => pc # "select" /\ shutdown # "no"

LEMMA PromptStep == PromptInv /\ [Next]_vars => PromptInv'
<1> SUFFICES ASSUME PromptInv, [Next]_vars PROVE PromptInv'
  OBVIOUS
<1> USE DEF signalVars
<1>1. CASE SelectRead \/ SelectCommand \/ SelectIdle
  <2>1. pc = "select" /\ Serve /\ UNCHANGED shutdown
    BY <1>1 DEF SelectRead, SelectCommand, SelectIdle
  <2>2. pc' # "select"
    BY <1>1 DEF SelectRead, PeerEof, SelectCommand, SelectIdle, Exit, Fail, Leave
  <2>3. QED
    BY <2>1, <2>2 DEF PromptInv, Serve
<1>2. CASE CheckShutdown
  BY <1>2 DEF PromptInv, CheckShutdown, Exit, Leave
<1>3. CASE RequestShutdown
  BY <1>3 DEF PromptInv, RequestShutdown
<1>4. ASSUME Application \/ PeerSends \/ PeerCloses \/ IdleElapses
             \/ UNCHANGED vars
      PROVE  UNCHANGED <<pc, late, shutdown>>
  BY <1>4 DEF Application, Begin, Enqueue, Rejected, DropSender, PeerSends,
              PeerCloses, IdleElapses, vars
<1>5. ASSUME OpenedHook \/ ClosedHook \/ SelectShutdown \/ Panic
      PROVE  pc' # "select" /\ UNCHANGED <<late, shutdown>>
  BY <1>5 DEF OpenedHook, OpenRefused, ClosedHook, SelectShutdown, Panic, Exit,
              Leave
<1>6. ASSUME EncodeCommand \/ FlushCommand \/ Decode \/ InboundStages
      PROVE  pc' # "select" /\ UNCHANGED <<late, shutdown>>
  BY <1>6 DEF EncodeCommand, FlushCommand, Decode, InboundStages, AfterHandled,
              Exit, Fail, Leave
<1>7. ASSUME Handler
      PROVE  pc' # "select" /\ UNCHANGED <<late, shutdown>>
  BY <1>7 DEF Handler, HandlerWrites, HandlerFlushes, HandlerAbandonsFlush,
              HandlerCloses, HandlerReturns, HandlerPending, HandlerShares, HandlerRuns,
              HandlerStay
<1>8. ASSUME Drain
      PROVE  pc' # "select" /\ UNCHANGED <<late, shutdown>>
  BY <1>8 DEF Drain, DrainWrite, DrainFlush, DrainResumes, DrainEnds,
              AfterHandled, Exit, Fail, Leave
<1>9. QED
  BY <1>1, <1>2, <1>3, <1>4, <1>5, <1>6, <1>7, <1>8
  DEF PromptInv, Next, Environment, Task, Select

\* After a requested shutdown at most one more select branch is served.
THEOREM ShutdownPrompt == Spec => []ShutdownIsPrompt
<1>1. Init => PromptInv
  BY DEF Init, PromptInv
<1>2. PromptInv => ShutdownIsPrompt
  BY DEF PromptInv, ShutdownIsPrompt
<1>3. QED
  BY <1>1, <1>2, PromptStep, PTL DEF Spec

-----------------------------------------------------------------------------
\* The task has not ended.
Running  == pc \notin {"closing", "closed"}

-----------------------------------------------------------------------------
(***************************************************************************)
(* The Life hooks.                                                         *)
(***************************************************************************)

LEMMA AppendOne ==
  ASSUME NEW a, NEW b
  PROVE  Append(<<a>>, b) = <<a, b>>
<1> DEFINE s == Append(<<a>>, b)
           t == <<a, b>>
<1>1. <<a>> \in Seq({a, b}) /\ t \in Seq({a, b}) /\ s \in Seq({a, b})
  OBVIOUS
<1>2. Len(s) = 2 /\ s[1] = a /\ s[2] = b
  OBVIOUS
<1>3. Len(t) = 2 /\ t[1] = a /\ t[2] = b
  OBVIOUS
<1> HIDE DEF s, t
<1>4. s = t
  BY <1>1, <1>2, <1>3, SeqEqual
<1>5. QED
  BY <1>4 DEF s, t

\* Which hooks ran is a function of where the task is, except at the end: a
\* refused opening leaves none, a panic may leave the opened hook alone.
HooksRan ==
  /\ pc = "opening" => hooks = <<>>
  /\ pc \notin {"opening", "closed"} => hooks = <<"opened">>
  /\ pc = "closed" =>
       /\ hooks \in {<<>>, <<"opened">>, <<"opened", "closed">>}
       /\ hooks = <<"opened">> => outcome = "Panic"
       /\ outcome = "Ok" => hooks = <<"opened", "closed">>

\* A running task has no result yet; one that ended has dropped its receiver and
\* left no call waiting, and Ok comes with a reason that is no failure.
HooksInv ==
  /\ HooksRan
  /\ rxOpen <=> Running
  /\ Running => reason = "none" /\ outcome = "running"
  /\ outcome = "Ok" => reason \in GracefulReasons
  /\ ~rxOpen => Awaiting = {}

LEMMA ReleaseAnswers == Release => Awaiting' = {}
<1> SUFFICES ASSUME Release, NEW w \in Writers, writer'[w] = "awaiting"
             PROVE  FALSE
  BY DEF Awaiting
<1>1. writer'[w] = IF w \in Awaiting THEN "idle" ELSE writer[w]
  BY DEF Release
<1>2. QED
  BY <1>1 DEF Awaiting

\* A step of the running task that neither ends it nor touches its hooks.
Continues ==
  /\ Running /\ Running' /\ UNCHANGED <<rxOpen, reason, outcome, hooks>>
  /\ pc = "opening" <=> pc' = "opening"

\* The loop, wherever it stands, goes on or ends in one of two ways.
Ends == \/ \E r \in FailureReasons : Fail(r)
        \/ \E r \in GracefulReasons : Exit(r)

LEMMA LoopSteps ==
  ASSUME TypeOK,
         CheckShutdown \/ Select \/ EncodeCommand \/ FlushCommand \/ Decode
           \/ InboundStages \/ Handler \/ Drain
  PROVE  Running /\ pc # "opening" /\ (Continues \/ Ends)
<1> USE DEF Continues, Running, Stay, queueVars, appVars, handlerVars, lifeVars
<1>1. \A e \in ErrKinds : /\ Fail(decode_failure(e)) => Ends
                          /\ Fail(outbound_failure(e)) => Ends
                          /\ Fail(handler_failure(e)) => Ends
  BY ErrReasons DEF Ends
<1>2. /\ Fail("FrameTooLarge") \/ Fail("IoError") => Ends
      /\ Exit("ServerShutdown") \/ Exit("IdleTimeout") \/ Exit("PeerClosed") => Ends
      /\ Exit("ChannelClosed") \/ Exit("LocalClosed") \/ Exit("HandlerClosed") => Ends
  BY DEF Ends, FailureReasons, GracefulReasons
<1>3. ASSUME AfterHandled
      PROVE  Ends \/ (pc' = "decode" /\ Stay)
  <2>1. CASE closeRequested
    <3>1. Exit("HandlerClosed")
      BY <1>3, <2>1 DEF AfterHandled
    <3>2. QED
      BY <1>2, <3>1
  <2>2. CASE ~closeRequested
    BY <1>3, <2>2 DEF AfterHandled
  <2>3. QED
    BY <2>1, <2>2
<1>4. CASE CheckShutdown \/ SelectShutdown \/ SelectIdle
  BY <1>2, <1>4 DEF CheckShutdown, SelectShutdown, SelectIdle
<1>5. CASE SelectRead
  BY <1>2, <1>5 DEF SelectRead, PeerEof
<1>6. CASE SelectCommand
  BY <1>2, <1>6 DEF SelectCommand
<1>7. CASE EncodeCommand
  BY <1>1, <1>7 DEF EncodeCommand
<1>8. CASE FlushCommand
  BY <1>2, <1>8 DEF FlushCommand
<1>9. CASE Decode
  BY <1>1, <1>9 DEF Decode
<1>10. CASE InboundStages
  BY <1>1, <1>3, <1>10 DEF InboundStages
<1>11. CASE Handler
  BY <1>11 DEF Handler, HandlerRuns, HandlerWrites, HandlerFlushes,
     HandlerAbandonsFlush, HandlerCloses, HandlerShares, HandlerReturns,
     HandlerPending, HandlerStay
<1>12. CASE DrainWrite
  BY <1>1, <1>12 DEF DrainWrite
<1>13. CASE DrainFlush
  <2>1. "Io" \in ErrKinds
    BY DEF ErrKinds
  <2>2. QED
    BY <1>1, <1>13, <2>1 DEF DrainFlush
<1>14. CASE DrainResumes
  BY <1>14 DEF DrainResumes
<1>15. CASE DrainEnds
  <2>1. "Io" \in ErrKinds /\ (result \notin {"running", "Ok"} => result \in ErrKinds)
    BY DEF ErrKinds, TypeOK
  <2>2. AfterHandled \/ Ends
    <3>1. CASE result = "Ok" /\ AfterHandled
      BY <3>1
    <3>2. CASE result # "Ok" /\ Fail(handler_failure(result))
      <4>1. result \in ErrKinds
        BY <1>15, <2>1, <3>2 DEF DrainEnds
      <4>2. QED
        BY <1>1, <3>2, <4>1
    <3>3. CASE Fail(handler_failure("Io"))
      BY <1>1, <2>1, <3>3
    <3>4. QED
      BY <1>15, <3>1, <3>2, <3>3 DEF DrainEnds
  <2>3. pc = "drain"
    BY <1>15 DEF DrainEnds
  <2>4. QED
    BY <1>3, <2>2, <2>3
<1>16. QED
  BY <1>4, <1>5, <1>6, <1>7, <1>8, <1>9, <1>10, <1>11, <1>12, <1>13, <1>14, <1>15
  DEF Select, Drain

LEMMA HooksInit == Init => HooksInv
BY DEF Init, HooksInv, HooksRan, Running

LEMMA HooksStep == TypeOK /\ HooksInv /\ [Next]_vars => HooksInv'
<1> SUFFICES ASSUME TypeOK, HooksInv, [Next]_vars PROVE HooksInv'
  OBVIOUS
<1> USE DEF HooksInv, HooksRan, Running
<1>1. CASE Continues
  BY <1>1 DEF Continues
<1>2. ASSUME Running, pc # "opening", Ends
      PROVE  HooksInv'
  <2>1. \E r, o : Leave(r, o) /\ (o = "Ok" => r \in GracefulReasons)
    BY <1>2 DEF Ends, Fail, Exit
  <2>2. /\ pc' = "closing" /\ hooks' = hooks /\ ~rxOpen' /\ Awaiting' = {}
        /\ outcome' = "Ok" => reason' \in GracefulReasons
    BY <2>1, ReleaseAnswers DEF Leave, Release
  <2>3. hooks = <<"opened">>
    BY <1>2
  <2>4. HooksRan'
    BY <2>2, <2>3
  <2>5. QED
    BY <2>2, <2>4
<1>3. CASE OpenedHook
  <2>1. Append(<<>>, "opened") = <<"opened">> /\ <<>> # <<"opened">>
    OBVIOUS
  <2>2. CASE OpenRefused
    <3>1. /\ pc' = "closed" /\ outcome' = "Err" /\ hooks' = <<>>
          /\ ~rxOpen' /\ Awaiting' = {}
      BY <1>3, <2>2, ReleaseAnswers DEF OpenedHook, OpenRefused, Release
    <3>2. QED
      BY <2>1, <3>1
  <2>3. CASE /\ pc' = "top"
             /\ hooks' = Append(hooks, "opened")
             /\ UNCHANGED <<queueVars, appVars, answerVars, reason, outcome>>
    BY <1>3, <2>1, <2>3 DEF OpenedHook, queueVars
  <2>4. QED
    BY <1>3, <2>2, <2>3 DEF OpenedHook
<1>4. CASE ClosedHook
  <2>1. Append(<<"opened">>, "closed") = <<"opened", "closed">>
    BY AppendOne
  <2>2. <<"opened">> # <<"opened", "closed">>
    OBVIOUS
  <2>3. /\ pc = "closing" /\ pc' = "closed" /\ hooks' = <<"opened", "closed">>
        /\ UNCHANGED <<rxOpen, reason>> /\ outcome' \in {outcome, "Err"}
        /\ Awaiting' = Awaiting
    BY <1>4, <2>1 DEF ClosedHook, queueVars, appVars, Awaiting
  <2>4. QED
    BY <2>2, <2>3
<1>5. CASE Panic
  <2>1. /\ pc' = "closed" /\ outcome' = "Panic" /\ UNCHANGED hooks /\ ~rxOpen'
        /\ Awaiting' = {} /\ pc \in UserCode
    BY <1>5, ReleaseAnswers DEF Panic, Release
  <2>2. hooks \in {<<>>, <<"opened">>}
    BY <2>1 DEF UserCode
  <2>3. HooksRan'
    BY <2>1, <2>2
  <2>4. QED
    BY <2>1, <2>3
<1>6. ASSUME UNCHANGED <<pc, rxOpen, lifeVars>>, ~rxOpen => Awaiting' \subseteq Awaiting
      PROVE  HooksInv'
  BY <1>6 DEF lifeVars
<1>7. CASE Application
  <2>1. ASSUME NEW w \in Writers, NEW kind \in SendKinds, Begin(w, kind)
        PROVE  Awaiting' \subseteq Awaiting
    BY <2>1 DEF Begin, Awaiting, TypeOK, SendKinds
  <2>2. ASSUME NEW w \in Writers, Rejected(w)
        PROVE  Awaiting' \subseteq Awaiting
    BY <2>2 DEF Rejected, Awaiting, TypeOK
  <2>3. QED
    BY <1>6, <1>7, <2>1, <2>2
    DEF Application, Begin, Enqueue, Rejected, DropSender, Awaiting, queueVars, appVars
<1>8. CASE Environment \/ UNCHANGED vars
  BY <1>6, <1>8 DEF Environment, PeerSends, PeerCloses, RequestShutdown, IdleElapses,
     vars, Awaiting, queueVars, appVars
<1>9. QED
  BY <1>1, <1>2, <1>3, <1>4, <1>5, <1>7, <1>8, LoopSteps DEF Next, Task

\* Whatever fails, the closed hook runs exactly when the opened hook did and no
\* panic unwound the task, and then nobody waits for an answer any more.
THEOREM HooksPairUp == Spec => []LifePaired
<1>1. Init => TypeOK /\ CommandInHand /\ HooksInv
  BY InitType, HooksInit
<1>2. TypeOK /\ CommandInHand /\ HooksInv /\ [Next]_vars
        => (TypeOK /\ CommandInHand /\ HooksInv)'
  BY TypeStep, HandStep, HooksStep
<1>3. HooksInv => LifePaired
  <2>1. /\ <<"opened">> # <<"opened", "closed">>
        /\ <<>> # <<"opened", "closed">> /\ <<>> # <<"opened">>
    OBVIOUS
  <2>2. QED
    BY <2>1 DEF HooksInv, HooksRan, LifePaired, Running
<1>4. QED
  BY <1>1, <1>2, <1>3, PTL DEF Spec

-----------------------------------------------------------------------------
(***************************************************************************)
(* Inbound frames.  Every unit the peer sent is in the socket, in the read *)
(* buffer or in a frame; the buffer holds less than a frame wherever the   *)
(* decode loop is not at work.                                             *)
(***************************************************************************)
Balance == arrived = unread + readBuf + frames * FrameLen
AtLoop  == pc \in {"decode", "stages", "handler", "drain"}

FramesInv ==
  /\ Balance
  /\ Running /\ ~AtLoop => readBuf < FrameLen
  /\ reason = "PeerClosed" => unread = 0 /\ readBuf < FrameLen

LEMMA NextFrame ==
  ASSUME NEW n \in Nat
  PROVE  /\ n * FrameLen \in Nat
         /\ (n + 1) * FrameLen = n * FrameLen + FrameLen
BY SizesAssumption

LEMMA FramesStep == TypeOK /\ HooksInv /\ FramesInv /\ [Next]_vars => FramesInv'
<1> SUFFICES ASSUME TypeOK, HooksInv, FramesInv, [Next]_vars PROVE FramesInv'
  OBVIOUS
<1> USE DEF FramesInv, AtLoop, Running, Stay, peerVars, readVars, lifeVars
<1>0. /\ frames \in Nat /\ readBuf \in Nat /\ unread \in Nat /\ arrived \in Nat
      /\ FrameLen \in Nat \ {0}
  BY SizesAssumption DEF TypeOK
\* A step that moves no unit, unless it leaves the decode loop.
<1>1. ASSUME UNCHANGED <<arrived, unread, readBuf, frames>>,
             reason' = reason \/ reason' # "PeerClosed",
             ~Running' \/ AtLoop' \/ (Running /\ ~AtLoop)
      PROVE  FramesInv'
  <2>1. Balance'
    BY <1>1 DEF Balance
  <2>2. QED
    BY <1>1, <2>1
<1>2. CASE Application \/ PeerCloses \/ RequestShutdown \/ IdleElapses \/ UNCHANGED vars
  <2>1. UNCHANGED <<pc, arrived, unread, readBuf, frames, reason>>
    BY <1>2 DEF Application, Begin, Enqueue, Rejected, DropSender, PeerCloses,
       RequestShutdown, IdleElapses, vars
  <2>2. Balance'
    BY <2>1 DEF Balance
  <2>3. QED
    BY <2>1, <2>2
<1>3. CASE PeerSends
  <2>1. /\ arrived' = arrived + 1 /\ unread' = unread + 1
        /\ UNCHANGED <<pc, readBuf, frames, reason>> /\ reason = "none"
    BY <1>3 DEF PeerSends, Alive, HooksInv
  <2> DEFINE decoded == frames * FrameLen
  <2>2. decoded' = decoded /\ decoded \in Nat
    BY <1>0, <2>1, NextFrame
  <2> HIDE DEF decoded
  <2>3. arrived' = unread' + readBuf' + decoded'
    BY <1>0, <2>1, <2>2 DEF Balance, decoded
  <2>4. QED
    BY <2>1, <2>3 DEF Balance, decoded
<1>4. CASE OpenedHook \/ ClosedHook \/ Panic
  BY <1>1, <1>4 DEF OpenedHook, OpenRefused, ClosedHook, Panic
<1>5. CASE CheckShutdown \/ SelectShutdown \/ SelectIdle \/ SelectCommand
  BY <1>1, <1>5 DEF CheckShutdown, SelectShutdown, SelectIdle, SelectCommand, Exit, Leave
<1>6. CASE EncodeCommand \/ FlushCommand
  <2>1. \A e \in ErrKinds : outbound_failure(e) # "PeerClosed"
    BY ErrReasons DEF FailureReasons
  <2>2. QED
    BY <1>1, <1>6, <2>1 DEF EncodeCommand, FlushCommand, Fail, Leave
<1>7. CASE InboundStages \/ Handler \/ Drain
  <2>1. \A e \in ErrKinds : handler_failure(e) # "PeerClosed"
    BY ErrReasons DEF FailureReasons
  <2>2. /\ UNCHANGED <<arrived, unread, readBuf, frames>>
        /\ reason' = reason \/ reason' # "PeerClosed"
        /\ ~Running' \/ AtLoop'
    <3>1. CASE InboundStages
      BY <2>1, <3>1 DEF InboundStages, AfterHandled, Exit, Fail, Leave
    <3>2. CASE Handler
      BY <3>2 DEF Handler, HandlerRuns, HandlerWrites, HandlerFlushes,
         HandlerAbandonsFlush, HandlerCloses, HandlerShares, HandlerReturns,
         HandlerPending, HandlerStay
    <3>3. CASE DrainWrite \/ DrainFlush \/ DrainResumes
      <4>1. "Io" \in ErrKinds
        BY DEF ErrKinds
      <4>2. QED
        BY <2>1, <3>3, <4>1 DEF DrainWrite, DrainFlush, DrainResumes, Fail, Leave
    <3>4. CASE DrainEnds
      <4>1. "Io" \in ErrKinds /\ (result \notin {"running", "Ok"} => result \in ErrKinds)
        BY DEF ErrKinds, TypeOK
      <4>2. QED
        BY <2>1, <3>4, <4>1 DEF DrainEnds, AfterHandled, Exit, Fail, Leave
    <3>5. QED
      BY <1>7, <3>1, <3>2, <3>3, <3>4 DEF Drain
  <2>3. QED
    BY <1>1, <2>2
<1>8. CASE SelectRead
  <2>1. CASE \E n \in 1..unread :
               /\ unread'  = unread - n
               /\ readBuf' = readBuf + n
               /\ IF readBuf + n > MaxFrameSize
                    THEN Fail("FrameTooLarge") /\ UNCHANGED taken
                    ELSE pc' = "decode" /\ Stay
    <3>1. PICK n \in 1..unread : unread' = unread - n /\ readBuf' = readBuf + n
      BY <2>1
    <3>2. UNCHANGED <<arrived, frames>>
      BY <1>8 DEF SelectRead
    <3> DEFINE decoded == frames * FrameLen
    <3>3. decoded' = decoded /\ decoded \in Nat
      BY <1>0, <3>2, NextFrame
    <3> HIDE DEF decoded
    <3>4. arrived' = unread' + readBuf' + decoded'
      BY <1>0, <3>1, <3>2, <3>3 DEF Balance, decoded
    <3>5. /\ ~Running' \/ AtLoop'
          /\ reason' # "PeerClosed"
      BY <1>8, <2>1 DEF SelectRead, Fail, Leave, HooksInv
    <3>6. QED
      BY <3>4, <3>5 DEF Balance, decoded
  <2>2. CASE unread = 0 /\ PeerEof /\ UNCHANGED <<unread, readBuf>>
    <3>1. UNCHANGED <<arrived, frames>> /\ readBuf < FrameLen /\ pc' = "closing"
      BY <1>8, <2>2 DEF SelectRead, PeerEof, Exit, Leave
    <3>2. Balance'
      BY <2>2, <3>1 DEF Balance
    <3>3. QED
      BY <2>2, <3>1, <3>2
  <2>3. CASE Fail("IoError") /\ UNCHANGED <<unread, readBuf>>
    BY <1>1, <1>8, <2>3 DEF SelectRead, Fail, Leave
  <2>4. QED
    BY <1>8, <2>1, <2>2, <2>3 DEF SelectRead
<1>9. CASE Decode
  <2>1. CASE FrameReady /\ readBuf' = readBuf - FrameLen /\ frames' = frames + 1
               /\ pc' = "stages" /\ Stay
    <3>1. UNCHANGED <<arrived, unread>> /\ reason = "none" /\ reason' = reason
            /\ readBuf - FrameLen \in Nat
      BY <1>0, <1>9, <2>1 DEF Decode, HooksInv, FrameReady
    <3> DEFINE decoded == frames * FrameLen
    <3>2. decoded' = decoded + FrameLen /\ decoded \in Nat
      BY <1>0, <2>1, NextFrame
    <3> HIDE DEF decoded
    <3>3. arrived' = unread' + readBuf' + decoded'
      BY <1>0, <2>1, <3>1, <3>2 DEF Balance, decoded
    <3>4. QED
      BY <2>1, <3>1, <3>3 DEF Balance, decoded
  <2>2. CASE ~FrameReady /\ pc' = "top" /\ Stay /\ UNCHANGED readVars
    <3>1. UNCHANGED <<arrived, unread>> /\ reason' = "none" /\ readBuf < FrameLen
      BY <1>0, <1>9, <2>2 DEF Decode, HooksInv, FrameReady
    <3>2. Balance'
      BY <2>2, <3>1 DEF Balance
    <3>3. QED
      BY <2>2, <3>1, <3>2
  <2>3. ASSUME NEW e \in ErrKinds, Fail(decode_failure(e)), UNCHANGED readVars
        PROVE  FramesInv'
    BY <1>1, <1>9, <2>3, ErrReasons DEF Decode, Fail, Leave, FailureReasons
  <2>4. QED
    BY <1>9, <2>1, <2>2, <2>3 DEF Decode
<1>10. QED
  BY <1>2, <1>3, <1>4, <1>5, <1>6, <1>7, <1>8, <1>9
  DEF Next, Environment, Task, Select

\* Frames of any size, read in pieces of any size: when the task waits for input
\* it has decoded every complete frame, and a peer that closed had all of its
\* complete frames decoded.
THEOREM FramesDecoded == Spec => []NoFrameLeftBehind
<1>1. Init => TypeOK /\ CommandInHand /\ HooksInv /\ FramesInv
  <2>1. Init => TypeOK /\ CommandInHand /\ HooksInv
    BY InitType, HooksInit
  <2>2. Init => FramesInv
    BY SizesAssumption DEF Init, FramesInv, Balance, AtLoop, Running
  <2>3. QED
    BY <2>1, <2>2
<1>2. TypeOK /\ CommandInHand /\ HooksInv /\ FramesInv /\ [Next]_vars
        => (TypeOK /\ CommandInHand /\ HooksInv /\ FramesInv)'
  BY TypeStep, HandStep, HooksStep, FramesStep
<1>3. TypeOK /\ FramesInv => NoFrameLeftBehind
  <2> SUFFICES ASSUME TypeOK, FramesInv PROVE NoFrameLeftBehind
    OBVIOUS
  <2>1. pc \in {"top", "select"} => readBuf < FrameLen
    BY DEF FramesInv, Running, AtLoop
  <2>2. ASSUME reason = "PeerClosed"
        PROVE  arrived < (frames + 1) * FrameLen
    <3> DEFINE decoded == frames * FrameLen
    <3>1. /\ arrived = readBuf + decoded /\ readBuf < FrameLen
          /\ (frames + 1) * FrameLen = decoded + FrameLen
          /\ decoded \in Nat /\ readBuf \in Nat /\ FrameLen \in Nat
      <4>1. frames \in Nat /\ readBuf \in Nat /\ FrameLen \in Nat
        BY SizesAssumption DEF TypeOK
      <4>2. decoded \in Nat /\ (frames + 1) * FrameLen = decoded + FrameLen
        BY <4>1, NextFrame
      <4>3. arrived = 0 + readBuf + decoded /\ readBuf < FrameLen
        BY <2>2 DEF FramesInv, Balance
      <4> HIDE DEF decoded
      <4>4. QED
        BY <4>1, <4>2, <4>3
    <3> HIDE DEF decoded
    <3>2. QED
      BY <3>1
  <2>3. QED
    BY <2>1, <2>2 DEF NoFrameLeftBehind
<1>4. QED
  BY <1>1, <1>2, <1>3, PTL DEF Spec

-----------------------------------------------------------------------------
(***************************************************************************)
(* The steps, as the command queue and the callers see them.               *)
(***************************************************************************)

\* The commands the task has dealt with; while it encodes and flushes one, that
\* one is not yet among them.
InCommand == pc \in {"encode", "flush"}
Handled   == IF InCommand THEN taken - 1 ELSE taken

\* The steps that leave the queue and the calls of the application alone.
Aside ==
  /\ UNCHANGED <<sent, taken, rxOpen, writer, count, denied>>
  /\ InCommand' <=> InCommand
  /\ Running' <=> Running

\* The steps that drop the receiver.  A Close is taken in such a step.
Releasing ==
  /\ Release /\ ~Running'
  /\ \/ taken' = taken
     \/ /\ pc = "select" /\ taken < Len(sent) /\ taken' = taken + 1
        /\ sent[taken + 1].kind = "Close"

\* The task takes a command to write.
Takes ==
  /\ pc = "select" /\ pc' = "encode"
  /\ taken < Len(sent) /\ taken' = taken + 1 /\ sent[taken + 1].kind # "Close"
  /\ UNCHANGED <<sent, rxOpen, writer, count, denied>>

\* The task has written a command, and answers it.
Answers == FlushCommand /\ FlushOk /\ pc' = "top"

Calls(w) == (\E kind \in SendKinds : Begin(w, kind)) \/ Enqueue(w) \/ Rejected(w)

LEMMA StepKinds ==
  ASSUME TypeOK, [Next]_vars
  PROVE  Aside \/ Releasing \/ Takes \/ Answers \/ \E w \in Writers : Calls(w)
<1> USE DEF Aside, Releasing, Running, InCommand, Stay, Exit, Fail, Leave, queueVars,
            appVars, answerVars, lifeVars
<1>1. CASE Application
  <2>1. \A w \in Writers : DropSender(w) => Aside
    BY DEF DropSender
  <2>2. QED
    BY <1>1, <2>1 DEF Application, Calls
<1>2. CASE Environment
  BY <1>2 DEF Environment, PeerSends, PeerCloses, RequestShutdown, IdleElapses
<1>3. CASE OpenedHook \/ ClosedHook \/ CheckShutdown
  BY <1>3 DEF OpenedHook, OpenRefused, ClosedHook, CheckShutdown
<1>4. CASE Panic
  BY <1>4 DEF Panic
<1>5. CASE SelectRead \/ SelectShutdown \/ SelectIdle
  BY <1>5 DEF SelectRead, PeerEof, SelectShutdown, SelectIdle
<1>6. CASE SelectCommand
  <2>1. taken # Len(sent) => taken < Len(sent)
    BY DEF TypeOK
  <2>2. QED
    BY <1>6, <2>1 DEF SelectCommand, Takes
<1>7. CASE EncodeCommand
  BY <1>7 DEF EncodeCommand
<1>8. CASE FlushCommand
  BY <1>8 DEF FlushCommand, Answers
<1>9. CASE Decode
  BY <1>9 DEF Decode
<1>10. ASSUME AfterHandled, pc \notin {"encode", "flush", "closing", "closed"}
       PROVE  Aside \/ Releasing
  <2>1. CASE closeRequested
    BY <1>10, <2>1 DEF AfterHandled
  <2>2. CASE ~closeRequested
    BY <1>10, <2>2 DEF AfterHandled
  <2>3. QED
    BY <2>1, <2>2
<1>11. CASE InboundStages
  BY <1>10, <1>11 DEF InboundStages
<1>12. CASE Handler
  BY <1>12 DEF Handler, HandlerRuns, HandlerWrites, HandlerFlushes,
     HandlerAbandonsFlush, HandlerCloses, HandlerShares, HandlerReturns,
     HandlerPending, HandlerStay
<1>13. CASE DrainWrite \/ DrainFlush \/ DrainResumes
  BY <1>13 DEF DrainWrite, DrainFlush, DrainResumes
<1>14. CASE DrainEnds
  BY <1>10, <1>14 DEF DrainEnds
<1>15. CASE UNCHANGED vars
  BY <1>15 DEF vars
<1>16. QED
  BY <1>1, <1>2, <1>3, <1>4, <1>5, <1>6, <1>7, <1>8, <1>9, <1>11, <1>12, <1>13,
     <1>14, <1>15 DEF Next, Task, Select, Drain

-----------------------------------------------------------------------------
(***************************************************************************)
(* The command queue.                                                      *)
(***************************************************************************)

\* A writer numbers its operations, so no two commands carry the same message,
\* and none carries that of an operation that has not been queued yet.
Numbered ==
  /\ \A i \in 1..Len(sent) :
       /\ sent[i].msg.src \in Writers
       /\ sent[i].msg.n <= count[sent[i].msg.src]
       /\ writer[sent[i].msg.src] \in SendKinds =>
            sent[i].msg.n < count[sent[i].msg.src]
  /\ \A i, j \in 1..Len(sent) : i < j => sent[i].msg # sent[j].msg

\* Whoever waits has its command still in the queue or in the task's hands.
Awaited ==
  \A w \in Writers : writer[w] = "awaiting" =>
    \E i \in 1..Len(sent) :
      i > Handled /\ sent[i].kind = "WriteAndFlush" /\ sent[i].msg = Latest(w)

QueueInv == Numbered /\ Awaited

LEMMA SentElement ==
  ASSUME TypeOK, NEW i \in 1..Len(sent)
  PROVE  /\ sent[i] \in Command /\ sent[i].msg \in Msg /\ sent[i].msg.n \in Nat
         /\ \A w \in Writers : count[w] \in Nat
<1>1. sent[i] \in Command
  BY DEF TypeOK
<1>2. QED
  BY <1>1 DEF TypeOK, Command, Msg

\* A writer that goes on or begins its next operation keeps the numbering.
LEMMA NumberedKept ==
  ASSUME TypeOK, Numbered, UNCHANGED sent,
         \A w \in Writers :
           /\ count'[w] = count[w] \/ count'[w] = count[w] + 1
           /\ writer'[w] \in SendKinds =>
                writer[w] \in SendKinds \/ count'[w] = count[w] + 1
  PROVE  Numbered'
<1>1. ASSUME NEW i \in 1..Len(sent)
      PROVE  /\ sent[i].msg.src \in Writers
             /\ sent[i].msg.n <= count'[sent[i].msg.src]
             /\ writer'[sent[i].msg.src] \in SendKinds =>
                  sent[i].msg.n < count'[sent[i].msg.src]
  <2> DEFINE w == sent[i].msg.src
             n == sent[i].msg.n
  <2>1. w \in Writers /\ n <= count[w] /\ (writer[w] \in SendKinds => n < count[w])
    BY DEF Numbered
  <2>2. count[w] \in Nat /\ n \in Nat
    BY <2>1, SentElement
  <2> HIDE DEF w, n
  <2>3. n <= count'[w] /\ (writer'[w] \in SendKinds => n < count'[w])
    BY <2>1, <2>2
  <2>4. QED
    BY <2>1, <2>3 DEF w, n
<1>2. QED
  BY <1>1 DEF Numbered

\* A writer whose operation and wait are as before still has its command queued.
LEMMA AwaitedKept ==
  ASSUME Awaited, UNCHANGED sent, Handled' = Handled,
         \A w \in Writers : writer'[w] = "awaiting" =>
           writer[w] = "awaiting" /\ count'[w] = count[w]
  PROVE  Awaited'
BY DEF Awaited, Latest

LEMMA QueueStep ==
  TypeOK /\ CommandInHand /\ HooksInv /\ QueueInv /\ [Next]_vars => QueueInv'
<1> SUFFICES ASSUME TypeOK, CommandInHand, HooksInv, QueueInv, [Next]_vars
             PROVE  QueueInv'
  OBVIOUS
<1>0. /\ sent \in Seq(Command) /\ Len(sent) \in Nat /\ taken \in 0..Len(sent)
      /\ count \in [Writers -> Nat]
      /\ writer \in [Writers -> {"idle", "awaiting"} \cup SendKinds]
      /\ Numbered /\ Awaited
  BY DEF TypeOK, QueueInv
<1>1. ASSUME NEW w \in Writers, NEW kind \in SendKinds, Begin(w, kind)
      PROVE  QueueInv'
  <2>1. /\ writer'[w] = kind /\ kind # "awaiting" /\ count'[w] = count[w] + 1
        /\ \A v \in Writers \ {w} : writer'[v] = writer[v] /\ count'[v] = count[v]
        /\ UNCHANGED <<pc, sent, taken>>
    BY <1>0, <1>1 DEF Begin, queueVars, SendKinds
  <2>2. Numbered'
    <3>1. ASSUME NEW v \in Writers
          PROVE  /\ count'[v] = count[v] \/ count'[v] = count[v] + 1
                 /\ writer'[v] \in SendKinds =>
                      writer[v] \in SendKinds \/ count'[v] = count[v] + 1
      <4>1. CASE v = w
        BY <2>1, <4>1
      <4>2. CASE v # w
        BY <2>1, <4>2
      <4>3. QED
        BY <4>1, <4>2
    <3>2. QED
      BY <1>0, <2>1, <3>1, NumberedKept
  <2>3. Awaited'
    BY <1>0, <2>1, AwaitedKept DEF Handled, InCommand
  <2>4. QED
    BY <2>2, <2>3 DEF QueueInv
<1>2. ASSUME NEW w \in Writers, Enqueue(w)
      PROVE  QueueInv'
  <2> DEFINE new == [kind |-> writer[w], msg |-> Latest(w)]
  <2>1. /\ new \in Command /\ new.kind = writer[w] /\ new.msg = Latest(w)
        /\ new.msg.src = w /\ new.msg.n = count[w]
    BY <1>0, <1>2 DEF Enqueue, Command, Msg, Sources, Latest
  <2>2. sent' = Append(sent, new)
    BY <1>2 DEF Enqueue
  <2> HIDE DEF new
  <2>3. /\ Len(sent') = Len(sent) + 1
        /\ \A i \in 1..Len(sent) : sent'[i] = sent[i]
        /\ sent'[Len(sent) + 1] = new
        /\ \A i \in 1..Len(sent') : i \in 1..Len(sent) \/ i = Len(sent) + 1
    BY <1>0, <2>1, <2>2
  <2>4. /\ writer[w] \in SendKinds
        /\ writer'[w] = IF writer[w] = "WriteAndFlush" THEN "awaiting" ELSE "idle"
        /\ writer'[w] \notin SendKinds
        /\ \A v \in Writers \ {w} : writer'[v] = writer[v]
        /\ UNCHANGED <<pc, taken, count>>
    BY <1>0, <1>2 DEF Enqueue, SendKinds
  <2>5. ASSUME NEW i \in 1..Len(sent)
        PROVE  sent[i].msg # new.msg
    <3>1. sent[i].msg.src = w => sent[i].msg.n < count[w]
      BY <1>0, <2>4 DEF Numbered
    <3>2. QED
      BY <1>0, <2>1, <3>1
  <2>6. ASSUME NEW i \in 1..Len(sent')
        PROVE  /\ sent'[i].msg.src \in Writers
               /\ sent'[i].msg.n <= count[sent'[i].msg.src]
               /\ writer'[sent'[i].msg.src] \in SendKinds =>
                    sent'[i].msg.n < count[sent'[i].msg.src]
    <3>1. CASE i \in 1..Len(sent)
      <4>1. sent'[i] = sent[i]
        BY <2>3, <3>1
      <4>2. /\ sent[i].msg.src \in Writers
            /\ sent[i].msg.n <= count[sent[i].msg.src]
            /\ writer[sent[i].msg.src] \in SendKinds =>
                 sent[i].msg.n < count[sent[i].msg.src]
        BY <1>0, <3>1 DEF Numbered
      <4>3. QED
        BY <2>4, <4>1, <4>2
    <3>2. CASE i = Len(sent) + 1
      <4>1. sent'[i].msg.src = w /\ sent'[i].msg.n = count[w]
        BY <2>1, <2>3, <3>2
      <4>2. QED
        BY <1>0, <2>4, <4>1
    <3>3. QED
      BY <2>3, <3>1, <3>2
  <2>7. ASSUME NEW i \in 1..Len(sent'), NEW j \in 1..Len(sent'), i < j
        PROVE  sent'[i].msg # sent'[j].msg
    <3>1. i \in 1..Len(sent) /\ sent'[i] = sent[i]
      BY <1>0, <2>3, <2>7
    <3>2. CASE j \in 1..Len(sent)
      <4>1. sent'[j] = sent[j]
        BY <2>3, <3>2
      <4>2. QED
        BY <1>0, <2>7, <3>1, <3>2, <4>1 DEF Numbered
    <3>3. CASE j = Len(sent) + 1
      BY <2>3, <2>5, <3>1, <3>3
    <3>4. QED
      BY <2>3, <3>2, <3>3
  <2>8. Numbered'
    BY <2>4, <2>6, <2>7 DEF Numbered
  <2>9. Awaited'
    <3>1. Handled' = Handled /\ Handled < Len(sent) + 1
      BY <1>0, <2>4 DEF Handled, InCommand
    <3>2. Len(sent) + 1 \in 1..Len(sent') /\ \A i \in 1..Len(sent) : i \in 1..Len(sent')
      BY <1>0, <2>3
    <3>3. ASSUME NEW v \in Writers, writer'[v] = "awaiting"
          PROVE  \E i \in 1..Len(sent') :
                   /\ i > Handled /\ sent'[i].kind = "WriteAndFlush"
                   /\ sent'[i].msg = Latest(v)
      <4>1. CASE v = w
        BY <2>1, <2>3, <2>4, <3>1, <3>2, <3>3, <4>1
      <4>2. CASE v # w
        <5>1. PICK i \in 1..Len(sent) :
                i > Handled /\ sent[i].kind = "WriteAndFlush" /\ sent[i].msg = Latest(v)
          BY <1>0, <2>4, <3>3, <4>2 DEF Awaited
        <5>2. QED
          BY <2>3, <3>2, <5>1
      <4>3. QED
        BY <4>1, <4>2
    <3>4. \A v \in Writers : Latest(v)' = Latest(v)
      BY <2>4 DEF Latest
    <3>5. QED
      BY <3>1, <3>3, <3>4 DEF Awaited, Latest
  <2>10. QED
    BY <2>8, <2>9 DEF QueueInv
<1>3. ASSUME NEW w \in Writers, Rejected(w)
      PROVE  QueueInv'
  <2>1. /\ writer'[w] = "idle" /\ \A v \in Writers \ {w} : writer'[v] = writer[v]
        /\ UNCHANGED <<pc, sent, taken, count>> /\ "idle" \notin SendKinds
    BY <1>0, <1>3 DEF Rejected, queueVars, SendKinds
  <2>2. \A v \in Writers : /\ writer'[v] \in SendKinds => writer[v] \in SendKinds
                           /\ writer'[v] = "awaiting" => writer[v] = "awaiting"
    BY <2>1
  <2>3. Numbered'
    BY <1>0, <2>1, <2>2, NumberedKept
  <2>4. Awaited'
    BY <1>0, <2>1, <2>2, AwaitedKept DEF Handled, InCommand
  <2>5. QED
    BY <2>3, <2>4 DEF QueueInv
<1>4. ASSUME Aside
      PROVE  QueueInv'
  <2>1. Handled' = Handled
    BY <1>4 DEF Aside, Handled
  <2>2. Numbered'
    BY <1>0, <1>4, NumberedKept DEF Aside
  <2>3. Awaited'
    BY <1>0, <1>4, <2>1, AwaitedKept DEF Aside
  <2>4. QED
    BY <2>2, <2>3 DEF QueueInv
<1>5. ASSUME Releasing
      PROVE  QueueInv'
  <2>1. UNCHANGED <<sent, count>> /\ Awaiting' = {}
    BY <1>5, ReleaseAnswers DEF Releasing, Release
  <2>2. \A w \in Writers : writer'[w] \in SendKinds => writer[w] \in SendKinds
    BY <1>5 DEF Releasing, Release, SendKinds
  <2>3. Numbered'
    BY <1>0, <2>1, <2>2, NumberedKept
  <2>4. Awaited'
    BY <2>1 DEF Awaited, Awaiting
  <2>5. QED
    BY <2>3, <2>4 DEF QueueInv
<1>6. ASSUME Takes
      PROVE  QueueInv'
  <2>1. UNCHANGED <<sent, writer, count>> /\ Handled' = Handled
    BY <1>0, <1>6 DEF Takes, Handled, InCommand
  <2>2. QED
    BY <1>0, <2>1, NumberedKept, AwaitedKept DEF QueueInv
<1>7. ASSUME Answers
      PROVE  QueueInv'
  <2>1. /\ pc = "flush" /\ pc' = "top" /\ UNCHANGED <<sent, taken, count>>
        /\ taken > 0 /\ taken \in 1..Len(sent) /\ Current = sent[taken]
    BY <1>0, <1>7 DEF Answers, FlushCommand, Fail, Leave, queueVars, CommandInHand,
       Current
  <2>2. Current.msg.src \in Writers
    BY <1>0, <2>1 DEF Numbered
  <2>3. IF Current.kind = "WriteAndFlush"
          THEN writer' = [writer EXCEPT ![Current.msg.src] = "idle"]
          ELSE writer' = writer
    BY <1>7 DEF Answers, FlushCommand, Fail, Leave
  <2>4. \A w \in Writers :
          /\ writer'[w] = writer[w] \/ writer'[w] = "idle"
          /\ Current.kind = "WriteAndFlush" /\ w = Current.msg.src => writer'[w] = "idle"
    BY <1>0, <2>2, <2>3
  <2>5. Numbered'
    BY <1>0, <2>1, <2>4, NumberedKept DEF SendKinds
  <2>6. Handled = taken - 1 /\ Handled' = taken
    BY <2>1 DEF Handled, InCommand
  <2>7. ASSUME NEW w \in Writers, writer'[w] = "awaiting"
        PROVE  \E i \in 1..Len(sent) :
                 i > taken /\ sent[i].kind = "WriteAndFlush" /\ sent[i].msg = Latest(w)
    <3>1. writer[w] = "awaiting"
      BY <2>4, <2>7
    <3>2. PICK i \in 1..Len(sent) :
            i > taken - 1 /\ sent[i].kind = "WriteAndFlush" /\ sent[i].msg = Latest(w)
      BY <1>0, <2>6, <3>1 DEF Awaited
    <3>3. i # taken
      <4>1. SUFFICES ASSUME i = taken PROVE FALSE
        OBVIOUS
      <4>2. Current.kind = "WriteAndFlush" /\ Current.msg.src = w
        BY <2>1, <3>2, <4>1 DEF Latest
      <4>3. QED
        BY <2>4, <2>7, <4>2
    <3>4. i > taken
      BY <2>1, <3>2, <3>3
    <3>5. QED
      BY <3>2, <3>4
  <2>8. \A w \in Writers : Latest(w)' = Latest(w)
    BY <2>1 DEF Latest
  <2>9. Awaited'
    BY <2>1, <2>6, <2>7, <2>8 DEF Awaited, Latest
  <2>10. QED
    BY <2>5, <2>9 DEF QueueInv
<1>8. QED
  BY <1>1, <1>2, <1>3, <1>4, <1>5, <1>6, <1>7, StepKinds DEF Calls

-----------------------------------------------------------------------------
(***************************************************************************)
(* The write buffer and the socket.                                        *)
(***************************************************************************)
Invoked == pc \in {"handler", "drain"}

LEMMA ConcatOccurs ==
  ASSUME NEW s \in Seq(Msg), NEW t \in Seq(Msg), NEW m
  PROVE  Occurs(m, s \o t) <=> Occurs(m, s) \/ Occurs(m, t)
<1>1. /\ Len(s) \in Nat /\ Len(t) \in Nat /\ Len(s \o t) = Len(s) + Len(t)
      /\ \A i \in 1..Len(s) : i \in 1..Len(s \o t) /\ (s \o t)[i] = s[i]
      /\ \A i \in 1..Len(t) : i + Len(s) \in 1..Len(s \o t) /\ (s \o t)[i + Len(s)] = t[i]
  OBVIOUS
<1>2. \A i \in 1..Len(s \o t) :
        i \in 1..Len(s) \/ (i - Len(s) \in 1..Len(t) /\ (i - Len(s)) + Len(s) = i)
  BY <1>1
<1>3. Occurs(m, s) \/ Occurs(m, t) => Occurs(m, s \o t)
  BY <1>1 DEF Occurs
<1>4. ASSUME Occurs(m, s \o t)
      PROVE  Occurs(m, s) \/ Occurs(m, t)
  <2>1. PICK i \in 1..Len(s \o t) : (s \o t)[i] = m
    BY <1>4 DEF Occurs
  <2>2. CASE i \in 1..Len(s)
    BY <1>1, <2>1, <2>2 DEF Occurs
  <2>3. CASE i - Len(s) \in 1..Len(t) /\ (i - Len(s)) + Len(s) = i
    <3>1. t[i - Len(s)] = m
      BY <1>1, <2>1, <2>3
    <3>2. QED
      BY <2>3, <3>1 DEF Occurs
  <2>4. QED
    BY <1>2, <2>2, <2>3
<1>5. QED
  BY <1>3, <1>4

LEMMA AppendOccurs ==
  ASSUME NEW s \in Seq(Msg), NEW x \in Msg, NEW m
  PROVE  Occurs(m, Append(s, x)) <=> Occurs(m, s) \/ m = x
<1>1. /\ Len(s) \in Nat /\ Len(Append(s, x)) = Len(s) + 1
      /\ \A i \in 1..Len(s) : Append(s, x)[i] = s[i]
      /\ Append(s, x)[Len(s) + 1] = x
  OBVIOUS
<1>2. /\ \A i \in 1..Len(Append(s, x)) : i \in 1..Len(s) \/ i = Len(s) + 1
      /\ \A i \in 1..Len(s) : i \in 1..Len(Append(s, x))
      /\ Len(s) + 1 \in 1..Len(Append(s, x))
  BY <1>1
<1>3. QED
  BY <1>1, <1>2 DEF Occurs

LEMMA PrefixOccurs ==
  ASSUME NEW t \in Seq(Msg), NEW k \in 0..Len(t), NEW m, Occurs(m, SubSeq(t, 1, k))
  PROVE  Occurs(m, t)
<1>1. /\ Len(t) \in Nat /\ Len(SubSeq(t, 1, k)) = k
      /\ \A i \in 1..k : SubSeq(t, 1, k)[i] = t[i]
  OBVIOUS
<1>2. PICK i \in 1..Len(SubSeq(t, 1, k)) : SubSeq(t, 1, k)[i] = m
  BY DEF Occurs
<1>3. i \in 1..Len(t) /\ t[i] = m
  BY <1>1, <1>2
<1>4. QED
  BY <1>3 DEF Occurs

\* Nobody but a writer's command uses write_buf outside of an invocation, and
\* that command only while it is flushed; during an invocation only what its
\* handler staged is in there.
BufferShape ==
  /\ Running /\ ~Invoked /\ pc # "flush" => writeBuf = <<>>
  /\ pc = "flush" => \/ writeBuf = <<Current.msg>>
                     \/ writeBuf = <<>> /\ Current.msg \in stopped
  /\ Invoked => \A m \in Msg : Occurs(m, writeBuf) => ~FromWriter(m)

\* What handlers stage is never taken for a writer's message.
OutboxFrom ==
  \A j \in 1..Len(outbox) : outbox[j].kind = "Write" => ~FromWriter(outbox[j].msg)

LEMMA TailElements ==
  ASSUME TypeOK, outbox # <<>>, NEW j \in 1..Len(Tail(outbox))
  PROVE  j + 1 \in 1..Len(outbox) /\ Tail(outbox)[j] = outbox[j + 1]
BY DEF TypeOK

LEMMA HeadElement ==
  ASSUME TypeOK, outbox # <<>>
  PROVE  1 \in 1..Len(outbox) /\ Head(outbox) = outbox[1]
BY DEF TypeOK

LEMMA HandlerMsgType ==
  ASSUME TypeOK, NEW i \in Nat
  PROVE  HandlerMsg(i) \in Msg /\ ~FromWriter(HandlerMsg(i))
BY WritersAssumption DEF TypeOK, HandlerMsg, Msg, Sources, FromWriter

\* The steps of the task that neither stage nor drain.
LEMMA OutboxSteps ==
  ASSUME [Next]_vars
  PROVE  \/ UNCHANGED <<outbox, staged, frames>>
         \/ Decode /\ outbox' = outbox
         \/ HandlerWrites \/ HandlerFlushes \/ DrainWrite \/ DrainFlush
<1> USE DEF handlerVars, readVars
<1>1. CASE Application
  BY <1>1 DEF Application, Begin, Enqueue, Rejected, DropSender
<1>2. CASE Environment
  BY <1>2 DEF Environment, PeerSends, PeerCloses, RequestShutdown, IdleElapses
<1>3. CASE OpenedHook \/ ClosedHook \/ Panic \/ CheckShutdown \/ Select
  BY <1>3 DEF OpenedHook, ClosedHook, Panic, CheckShutdown, Select, SelectRead,
     SelectCommand, SelectShutdown, SelectIdle
<1>4. CASE EncodeCommand \/ FlushCommand \/ InboundStages \/ Decode
  BY <1>4 DEF EncodeCommand, FlushCommand, InboundStages, Decode
<1>5. CASE Handler
  BY <1>5 DEF Handler, HandlerAbandonsFlush, HandlerCloses, HandlerShares,
     HandlerReturns, HandlerPending, HandlerStay
<1>6. CASE DrainResumes \/ DrainEnds
  BY <1>6 DEF DrainResumes, DrainEnds
<1>7. CASE UNCHANGED vars
  BY <1>7 DEF vars
<1>8. QED
  BY <1>1, <1>2, <1>3, <1>4, <1>5, <1>6, <1>7 DEF Next, Task, Drain

LEMMA OutboxFromStep ==
  TypeOK /\ OutboxFrom /\ [Next]_vars => OutboxFrom'
<1> SUFFICES ASSUME TypeOK, OutboxFrom, [Next]_vars PROVE OutboxFrom'
  OBVIOUS
<1>0. outbox \in Seq(Staged)
  BY DEF TypeOK
<1>1. CASE outbox' = outbox
  BY <1>1 DEF OutboxFrom, FromWriter
<1>2. CASE HandlerWrites
  <2> DEFINE m == HandlerMsg(staged + 1)
             entry == [kind |-> "Write", msg |-> m]
  <2>1. m \in Msg /\ ~FromWriter(m) /\ entry \in Staged
    BY HandlerMsgType DEF TypeOK, Staged
  <2>2. outbox' = Append(outbox, entry) /\ entry.msg = m
    BY <1>2 DEF HandlerWrites, Push
  <2> HIDE DEF m, entry
  <2>3. QED
    BY <1>0, <2>1, <2>2 DEF OutboxFrom, FromWriter
<1>3. CASE HandlerFlushes
  <2> DEFINE entry == [kind |-> "Flush", msg |-> NoMsg]
  <2>1. entry \in Staged /\ outbox' = Append(outbox, entry) /\ entry.kind = "Flush"
    BY <1>3, Types DEF HandlerFlushes, Push, Staged
  <2> HIDE DEF entry
  <2>2. QED
    BY <1>0, <2>1 DEF OutboxFrom, FromWriter
<1>4. CASE DrainWrite \/ DrainFlush
  <2>1. outbox' = outbox \/ (outbox # <<>> /\ outbox' = Tail(outbox))
    BY <1>4 DEF DrainWrite, DrainFlush
  <2>2. QED
    BY <1>1, <2>1, TailElements DEF OutboxFrom, FromWriter
<1>5. QED
  BY <1>1, <1>2, <1>3, <1>4, OutboxSteps

\* The command in hand does not change under the task.
LEMMA CurrentKept ==
  ASSUME TypeOK, taken > 0,
         UNCHANGED <<sent, taken>> \/ \E w \in Writers : Enqueue(w)
  PROVE  Current' = Current
<1>1. CASE UNCHANGED <<sent, taken>>
  BY <1>1 DEF Current
<1>2. ASSUME NEW w \in Writers, Enqueue(w)
      PROVE  Current' = Current
  <2> DEFINE new == [kind |-> writer[w], msg |-> Latest(w)]
  <2>1. new \in Command /\ sent' = Append(sent, new) /\ taken' = taken
    BY <1>2 DEF Enqueue, TypeOK, Command, Msg, Sources, Latest
  <2> HIDE DEF new
  <2>2. sent'[taken] = sent[taken]
    BY <2>1 DEF TypeOK
  <2>3. QED
    BY <2>1, <2>2 DEF Current
<1>3. QED
  BY <1>1, <1>2

LEMMA BufferStep ==
  TypeOK /\ CommandInHand /\ OutboxFrom /\ BufferShape /\ [Next]_vars => BufferShape'
<1> SUFFICES ASSUME TypeOK, CommandInHand, OutboxFrom, BufferShape, [Next]_vars,
                    Running'
             PROVE  BufferShape'
  BY DEF BufferShape, Running, Invoked
<1> USE DEF Running, Invoked, writeVars, Stay
<1>0. writeBuf \in Seq(Msg) /\ \A m : ~Occurs(m, <<>>)
  BY DEF TypeOK, Occurs
<1>1. writeBuf' = <<>> /\ pc' # "flush" => BufferShape'
  BY <1>0 DEF BufferShape
<1>2. CASE Application
  <2>1. pc = "flush" => Current' = Current
    <3>1. pc = "flush" => taken > 0
      BY DEF CommandInHand
    <3>2. UNCHANGED <<sent, taken>> \/ \E w \in Writers : Enqueue(w)
      BY <1>2 DEF Application, Begin, Rejected, DropSender, queueVars
    <3>3. QED
      BY <3>1, <3>2, CurrentKept
  <2>2. UNCHANGED <<pc, writeBuf, stopped>>
    BY <1>2 DEF Application, Begin, Enqueue, Rejected, DropSender
  <2>3. QED
    BY <2>1, <2>2 DEF BufferShape, Occurs, FromWriter
<1>3. CASE Environment \/ UNCHANGED vars
  <2>1. UNCHANGED <<pc, writeBuf, stopped, sent, taken>>
    BY <1>3 DEF Environment, PeerSends, PeerCloses, RequestShutdown, IdleElapses,
       vars, queueVars
  <2>2. QED
    BY <2>1 DEF BufferShape, Occurs, FromWriter, Current
<1>4. CASE OpenedHook \/ ClosedHook \/ Panic \/ CheckShutdown \/ Select
  <2>1. UNCHANGED writeVars /\ pc \in {"opening", "top", "select"} /\ pc' # "flush"
    BY <1>4 DEF OpenedHook, OpenRefused, ClosedHook, Panic, CheckShutdown, Select,
       SelectRead, PeerEof, SelectCommand, SelectShutdown, SelectIdle, Exit, Fail, Leave
  <2>2. QED
    BY <1>1, <2>1 DEF BufferShape
<1>5. CASE Decode \/ InboundStages
  <2>1. UNCHANGED writeVars /\ pc \in {"decode", "stages"} /\ pc' # "flush"
    BY <1>5 DEF Decode, InboundStages, AfterHandled, Exit, Fail, Leave
  <2>2. QED
    BY <1>1, <2>1 DEF BufferShape
<1>6. CASE EncodeCommand
  <2>1. Current.msg \in Msg /\ writeBuf = <<>> /\ Current' = Current /\ pc' = "flush"
    BY <1>6, CurrentType DEF EncodeCommand, CommandInHand, BufferShape, Fail, Leave,
       Current, queueVars
  <2>2. \/ writeBuf' = <<Current.msg>>
        \/ writeBuf' = <<>> /\ Current.msg \in stopped'
    BY <1>6, <2>1 DEF EncodeCommand, Encoded, Fail, Leave
  <2>3. QED
    BY <2>1, <2>2 DEF BufferShape
<1>7. CASE FlushCommand \/ DrainFlush \/ DrainEnds
  <2>1. writeBuf' = <<>> /\ pc' # "flush"
    BY <1>7 DEF FlushCommand, DrainFlush, DrainEnds, FinalFlush, AfterHandled, FlushOk,
       Exit, Fail, Leave
  <2>2. QED
    BY <1>1, <2>1
<1>8. ASSUME Invoked, Invoked', writeBuf' = writeBuf
      PROVE  BufferShape'
  BY <1>8 DEF BufferShape, Occurs, FromWriter
<1>9. CASE Handler \/ DrainResumes
  BY <1>8, <1>9 DEF Handler, HandlerRuns, HandlerWrites, HandlerFlushes,
     HandlerAbandonsFlush, HandlerCloses, HandlerShares, HandlerReturns,
     HandlerPending, HandlerStay, DrainResumes
<1>10. CASE DrainWrite
  <2> DEFINE h == Head(outbox).msg
  <2>1. /\ outbox # <<>> /\ Head(outbox).kind = "Write" /\ pc = "drain" /\ pc' = "drain"
        /\ writeBuf' = writeBuf \/ writeBuf' = Append(writeBuf, h)
    BY <1>10 DEF DrainWrite, Encoded, Fail, Leave
  <2>2. h \in Msg /\ ~FromWriter(h)
    BY <2>1, OutboxType, HeadElement DEF OutboxFrom
  <2> HIDE DEF h
  <2>3. CASE writeBuf' = Append(writeBuf, h)
    <3>1. \A m \in Msg : Occurs(m, writeBuf') => ~FromWriter(m)
      BY <1>0, <2>1, <2>2, <2>3, AppendOccurs DEF BufferShape
    <3>2. QED
      BY <2>1, <3>1 DEF BufferShape, FromWriter, Occurs
  <2>4. QED
    BY <1>8, <2>1, <2>3
<1>11. QED
  BY <1>2, <1>3, <1>4, <1>5, <1>6, <1>7, <1>9, <1>10 DEF Next, Task, Drain

\* What reaches the socket in one step: the command that is flushed, or, during
\* an invocation, some of what is in the buffer.
WireGrows ==
  \E t \in Seq(Msg) :
    /\ wire' = wire \o t
    /\ \/ t = <<>>
       \/ Answers /\ t = writeBuf
       \/ pc = "drain" /\ \A m \in Msg : Occurs(m, t) => Occurs(m, writeBuf)

LEMMA WireStep ==
  ASSUME TypeOK, BufferShape, [Next]_vars
  PROVE  WireGrows /\ stopped \subseteq stopped'
<1> USE DEF writeVars
<1>0. writeBuf \in Seq(Msg) /\ wire \in Seq(Msg) /\ <<>> \in Seq(Msg)
  BY DEF TypeOK
<1>1. wire' = wire => WireGrows
  <2>1. wire \o <<>> = wire
    BY <1>0
  <2>2. QED
    BY <1>0, <2>1 DEF WireGrows
<1>2. UNCHANGED writeVars => WireGrows /\ stopped \subseteq stopped'
  BY <1>1
<1>3. ASSUME FlushOk, Answers \/ pc = "drain"
      PROVE  WireGrows /\ stopped \subseteq stopped'
  BY <1>0, <1>3 DEF WireGrows, FlushOk
<1>4. ASSUME FlushFails, pc \in {"flush", "drain"}
      PROVE  WireGrows /\ stopped \subseteq stopped'
  <2>1. stopped' = stopped
    BY <1>4 DEF FlushFails
  <2>2. PICK k \in 0..(Len(writeBuf) - 1) : wire' = wire \o SubSeq(writeBuf, 1, k)
    BY <1>4 DEF FlushFails
  <2>3. k \in 0..Len(writeBuf) /\ SubSeq(writeBuf, 1, k) \in Seq(Msg)
    BY <1>0, <2>2
  <2>4. CASE pc = "flush"
    <3>1. k = 0
      <4>1. writeBuf = <<Current.msg>> \/ writeBuf = <<>>
        BY <2>4 DEF BufferShape
      <4>2. Len(writeBuf) = 1 \/ Len(writeBuf) = 0
        BY <4>1
      <4>3. CASE Len(writeBuf) = 1
        BY <2>2, <4>3
      <4>4. CASE Len(writeBuf) = 0
        BY <2>2, <4>4
      <4>5. QED
        BY <4>2, <4>3, <4>4
    <3>2. SubSeq(writeBuf, 1, k) = <<>>
      BY <1>0, <3>1
    <3>3. QED
      BY <1>0, <2>1, <2>2, <3>2 DEF WireGrows
  <2>5. CASE pc = "drain"
    <3>1. \A m \in Msg : Occurs(m, SubSeq(writeBuf, 1, k)) => Occurs(m, writeBuf)
      BY <1>0, <2>3, PrefixOccurs
    <3>2. QED
      BY <2>1, <2>2, <2>3, <2>5, <3>1 DEF WireGrows
  <2>6. QED
    BY <1>4, <2>4, <2>5
<1>5. CASE FlushCommand
  BY <1>3, <1>4, <1>5 DEF FlushCommand, Answers
<1>6. CASE DrainFlush \/ DrainEnds
  BY <1>3, <1>4, <1>6 DEF DrainFlush, DrainEnds, FinalFlush
<1>7. CASE EncodeCommand \/ DrainWrite
  <2>1. wire' = wire /\ stopped \subseteq stopped'
    BY <1>7 DEF EncodeCommand, DrainWrite, Encoded
  <2>2. QED
    BY <1>1, <2>1
<1>8. CASE Application \/ Environment \/ UNCHANGED vars
  BY <1>2, <1>8 DEF Application, Begin, Enqueue, Rejected, DropSender, Environment,
     PeerSends, PeerCloses, RequestShutdown, IdleElapses, vars
<1>9. CASE OpenedHook \/ ClosedHook \/ Panic \/ CheckShutdown \/ Select
  BY <1>2, <1>9 DEF OpenedHook, ClosedHook, Panic, CheckShutdown, Select, SelectRead,
     SelectCommand, SelectShutdown, SelectIdle
<1>10. CASE Decode \/ InboundStages \/ Handler \/ DrainResumes
  BY <1>2, <1>10 DEF Decode, InboundStages, Handler, HandlerWrites, HandlerFlushes,
     HandlerAbandonsFlush, HandlerCloses, HandlerShares, HandlerReturns,
     HandlerPending, HandlerStay, DrainResumes
<1>11. QED
  BY <1>5, <1>6, <1>7, <1>8, <1>9, <1>10 DEF Next, Task, Drain

\* A message once written or dropped stays so, and one that is written in a step
\* was in the buffer.
LEMMA SettledStep ==
  ASSUME TypeOK, BufferShape, [Next]_vars, NEW m \in Msg
  PROVE  /\ OnWire(m) => OnWire(m)'
         /\ Settled(m) => Settled(m)'
         /\ OnWire(m)' => \/ OnWire(m)
                          \/ Answers /\ Occurs(m, writeBuf)
                          \/ pc = "drain" /\ Occurs(m, writeBuf)
<1>0. wire \in Seq(Msg) /\ stopped \subseteq stopped'
  BY WireStep DEF TypeOK
<1>1. PICK t \in Seq(Msg) :
        /\ wire' = wire \o t
        /\ \/ t = <<>>
           \/ Answers /\ t = writeBuf
           \/ pc = "drain" /\ \A x \in Msg : Occurs(x, t) => Occurs(x, writeBuf)
  BY WireStep DEF WireGrows
<1>2. Occurs(m, wire') <=> Occurs(m, wire) \/ Occurs(m, t)
  BY <1>0, <1>1, ConcatOccurs
<1>3. ~Occurs(m, <<>>)
  BY DEF Occurs
<1>4. OnWire(m)' <=> Occurs(m, wire')
  BY DEF OnWire, Occurs
<1>5. QED
  BY <1>0, <1>1, <1>2, <1>3, <1>4 DEF OnWire, Settled

\* A successful flush writes what is in the buffer.
LEMMA FlushSettles ==
  ASSUME TypeOK, FlushOk, NEW m \in Msg, Occurs(m, writeBuf) \/ Settled(m)
  PROVE  Settled(m)'
<1>1. writeBuf \in Seq(Msg) /\ wire \in Seq(Msg) /\ wire' = wire \o writeBuf
        /\ stopped' = stopped
  BY DEF TypeOK, FlushOk
<1>2. Occurs(m, wire') <=> Occurs(m, wire) \/ Occurs(m, writeBuf)
  BY <1>1, ConcatOccurs
<1>3. OnWire(m)' <=> Occurs(m, wire')
  BY DEF OnWire, Occurs
<1>4. QED
  BY <1>1, <1>2, <1>3 DEF OnWire, Settled

-----------------------------------------------------------------------------
(***************************************************************************)
(* What the end of the task leaves as it is.                               *)
(***************************************************************************)
Good == Running \/ reason \in GracefulReasons

\* Once the task has ended nothing is written, taken or staged any more.
LEMMA EndedStep ==
  ASSUME TypeOK, HooksInv, ~Running, [Next]_vars
  PROVE  /\ ~Running'
         /\ UNCHANGED <<sent, taken, reason, writeVars, outbox, staged, frames>>
<1> USE DEF Running, handlerVars, readVars, queueVars, lifeVars
<1>1. pc \in {"closing", "closed"} /\ ~rxOpen
  BY DEF HooksInv
<1>2. CASE Application
  BY <1>1, <1>2 DEF Application, Begin, Enqueue, Rejected, DropSender
<1>3. CASE Environment
  BY <1>1, <1>3 DEF Environment, PeerSends, PeerCloses, RequestShutdown, IdleElapses
<1>4. CASE ClosedHook \/ Panic
  BY <1>4 DEF ClosedHook, Panic, Release
<1>5. CASE UNCHANGED vars
  BY <1>1, <1>5 DEF vars
<1>6. ~OpenedHook /\ ~CheckShutdown /\ ~Select /\ ~EncodeCommand /\ ~FlushCommand
        /\ ~Decode /\ ~InboundStages /\ ~Handler /\ ~Drain
  BY <1>1 DEF OpenedHook, CheckShutdown, Select, SelectRead, SelectCommand,
     SelectShutdown, SelectIdle, EncodeCommand, FlushCommand, Decode, InboundStages,
     Handler, HandlerRuns, HandlerWrites, HandlerFlushes, HandlerAbandonsFlush,
     HandlerCloses, HandlerShares, HandlerReturns, HandlerPending, Drain, DrainWrite,
     DrainFlush, DrainResumes, DrainEnds
<1>7. QED
  BY <1>2, <1>3, <1>4, <1>5, <1>6 DEF Next, Task

\* A task that ends for a reason that is no failure is not in the middle of a
\* command, and has nothing left in its outbox and its buffer.
LEMMA GracefulEnd ==
  ASSUME TypeOK, HooksInv, BufferShape, Running, ~Running',
         reason' \in GracefulReasons, [Next]_vars
  PROVE  /\ ~InCommand
         /\ UNCHANGED <<sent, outbox, staged, frames>>
         /\ \/ UNCHANGED writeVars /\ ~Invoked /\ writeBuf = <<>>
            \/ FlushOk /\ outbox = <<>>
<1> USE DEF Running, InCommand, Invoked, handlerVars, readVars, Stay
<1>0. /\ reason = "none"
      /\ \A r \in FailureReasons : ~Fail(r)
      /\ \A e \in ErrKinds : /\ ~Fail(decode_failure(e)) /\ ~Fail(outbound_failure(e))
                             /\ ~Fail(handler_failure(e))
  BY ErrReasons DEF HooksInv, Fail, Leave, FailureReasons, GracefulReasons
<1>1. reason' # reason /\ "Io" \in ErrKinds /\ ~Fail("IoError") /\ ~Fail("FrameTooLarge")
        /\ \A r \in CloseReasons : Exit(r) => sent' = sent
  BY <1>0 DEF GracefulReasons, ErrKinds, FailureReasons, Exit, Leave, Release
<1>2. ~(Application \/ Environment \/ OpenedHook \/ ClosedHook \/ Panic \/ UNCHANGED vars)
  BY <1>1 DEF Application, Begin, Enqueue, Rejected, DropSender, Environment, PeerSends,
     PeerCloses, RequestShutdown, IdleElapses, OpenedHook, OpenRefused, ClosedHook,
     Panic, vars, lifeVars
<1>3. CASE CheckShutdown \/ Select
  <2>1. UNCHANGED <<writeVars, outbox, staged, frames>> /\ pc \in {"top", "select"}
    BY <1>3 DEF CheckShutdown, Select, SelectRead, SelectCommand, SelectShutdown,
       SelectIdle
  <2>2. sent' = sent
    BY <1>3 DEF CheckShutdown, Select, SelectRead, PeerEof, SelectCommand,
       SelectShutdown, SelectIdle, Exit, Fail, Leave, Release, queueVars
  <2>3. QED
    BY <2>1, <2>2 DEF BufferShape
<1>4. ~EncodeCommand /\ ~Decode
  BY <1>0 DEF EncodeCommand, Decode
<1>5. ~FlushCommand
  BY <1>1 DEF FlushCommand
<1>6. ~Handler
  BY DEF Handler, HandlerWrites, HandlerFlushes, HandlerAbandonsFlush, HandlerRuns,
     HandlerCloses, HandlerShares, HandlerReturns, HandlerPending
<1>7. AfterHandled => sent' = sent
  BY DEF AfterHandled, Exit, Leave, Release, queueVars
<1>8. CASE InboundStages
  <2>1. AfterHandled /\ UNCHANGED <<handlerVars, writeVars, readVars>> /\ pc = "stages"
    BY <1>0, <1>8 DEF InboundStages
  <2>2. QED
    BY <1>7, <2>1 DEF BufferShape
<1>9. ~DrainWrite /\ ~DrainFlush /\ ~DrainResumes
  BY <1>0, <1>1 DEF DrainWrite, DrainFlush, DrainResumes
<1>10. CASE DrainEnds
  <2>1. result \notin {"running", "Ok"} => result \in ErrKinds
    BY DEF TypeOK
  <2>2. FlushOk /\ AfterHandled
    BY <1>0, <1>1, <1>10, <2>1 DEF DrainEnds, FinalFlush
  <2>3. QED
    BY <1>7, <1>10, <2>2 DEF DrainEnds
<1>11. QED
  BY <1>2, <1>3, <1>4, <1>5, <1>6, <1>8, <1>9, <1>10 DEF Next, Task, Drain

LEMMA GoodStep ==
  ASSUME TypeOK, HooksInv, [Next]_vars, Good'
  PROVE  Good
BY EndedStep DEF Good

\* What was taken stays as it is; one command more is taken in select! only.
LEMMA TakenStep ==
  ASSUME TypeOK, [Next]_vars
  PROVE  /\ \A a \in 1..taken : a \in 1..Len(sent) /\ sent'[a] = sent[a]
         /\ \/ taken' = taken /\ (taken > 0 => Current' = Current)
            \/ /\ pc = "select" /\ taken' = taken + 1 /\ Current' = sent[taken + 1]
               /\ Releasing \/ Takes
               /\ Takes <=> Current'.kind # "Close"
<1>0. sent \in Seq(Command) /\ taken \in 0..Len(sent)
  BY DEF TypeOK
<1>1. CASE UNCHANGED <<sent, taken>>
  BY <1>0, <1>1 DEF Current
<1>2. ASSUME NEW w \in Writers, Calls(w)
      PROVE  /\ \A a \in 1..taken : a \in 1..Len(sent) /\ sent'[a] = sent[a]
             /\ taken' = taken
  <2>1. CASE Enqueue(w)
    <3> DEFINE new == [kind |-> writer[w], msg |-> Latest(w)]
    <3>1. new \in Command /\ sent' = Append(sent, new) /\ taken' = taken
      BY <2>1 DEF Enqueue, TypeOK, Command, Msg, Sources, Latest
    <3> HIDE DEF new
    <3>2. QED
      BY <1>0, <3>1
  <2>2. CASE Rejected(w) \/ \E kind \in SendKinds : Begin(w, kind)
    BY <1>0, <2>2 DEF Rejected, Begin, queueVars
  <2>3. QED
    BY <1>2, <2>1, <2>2 DEF Calls
<1>3. CASE Aside \/ Answers
  BY <1>1, <1>3 DEF Aside, Answers, FlushCommand, Fail, Leave, queueVars
<1>4. CASE Takes
  BY <1>0, <1>4 DEF Takes, Current
<1>5. CASE Releasing
  <2>1. sent' = sent
    BY <1>5 DEF Releasing, Release
  <2>2. CASE taken' = taken
    BY <1>1, <2>1, <2>2
  <2>3. CASE /\ pc = "select" /\ taken < Len(sent) /\ taken' = taken + 1
             /\ sent[taken + 1].kind = "Close"
    BY <1>0, <1>5, <2>1, <2>3 DEF Takes, Current
  <2>4. QED
    BY <1>5, <2>2, <2>3 DEF Releasing
<1>6. QED
  BY <1>0, <1>2, <1>3, <1>4, <1>5, StepKinds DEF Current

\* How the task leaves a command: by answering it, or by ending.
LEMMA CommandLeft ==
  ASSUME TypeOK, [Next]_vars, InCommand, ~InCommand'
  PROVE  Answers \/ (Running /\ ~Running')
<1>1. \A w \in Writers : Calls(w) => pc' = pc
  BY DEF Calls, Begin, Enqueue, Rejected
<1>2. QED
  BY <1>1, StepKinds DEF Aside, Releasing, Takes, InCommand, Running

-----------------------------------------------------------------------------
(***************************************************************************)
(* Nothing is lost on the way.                                             *)
(***************************************************************************)

\* Every command before the last one taken was written or dropped by a stage; so
\* was the last one, unless the task is at work on it or failed.
CommandsKept ==
  /\ \A a \in 1..(taken - 1) : sent[a].kind # "Close" /\ Settled(sent[a].msg)
  /\ Running /\ taken > 0 => Current.kind # "Close"
  /\ Good /\ ~InCommand /\ taken > 0 /\ Current.kind # "Close" => Settled(Current.msg)

LEMMA CommandsKeptStep ==
  /\ TypeOK /\ CommandInHand /\ HooksInv /\ BufferShape /\ CommandsKept /\ [Next]_vars
  => CommandsKept'
<1> SUFFICES ASSUME TypeOK, CommandInHand, HooksInv, BufferShape, CommandsKept,
                    [Next]_vars
             PROVE  CommandsKept'
  OBVIOUS
<1>0. /\ sent \in Seq(Command) /\ taken \in 0..Len(sent)
      /\ \A a \in 1..Len(sent) : sent[a].msg \in Msg
      /\ taken > 0 => Current = sent[taken] /\ Current.msg \in Msg
  BY SentElement, CurrentType DEF TypeOK, Current
<1>1. \A m \in Msg : Settled(m) => Settled(m)'
  BY SettledStep
<1>2. ASSUME NEW a \in 1..(taken' - 1), NEW m, m = sent'[a].msg
      PROVE  sent'[a].kind # "Close" /\ Settled(m)'
  <2>1. CASE a \in 1..(taken - 1)
    <3>1. a \in 1..taken /\ a \in 1..Len(sent) /\ sent'[a] = sent[a]
      BY <1>0, <2>1, TakenStep
    <3>2. QED
      BY <1>0, <1>1, <1>2, <2>1, <3>1 DEF CommandsKept
  <2>2. CASE a = taken /\ pc = "select"
    <3>1. taken > 0 /\ a \in 1..taken /\ sent'[a] = Current
      BY <1>0, <1>2, <2>2, TakenStep
    <3>2. Running /\ ~InCommand /\ Good
      BY <2>2 DEF Running, InCommand, Good
    <3>3. Current.kind # "Close" /\ Settled(Current.msg)
      BY <3>1, <3>2 DEF CommandsKept
    <3>4. QED
      BY <1>0, <1>1, <1>2, <3>1, <3>3
  <2>3. taken' = taken \/ (taken' = taken + 1 /\ pc = "select")
    BY TakenStep
  <2>4. QED
    BY <1>0, <1>2, <2>1, <2>2, <2>3
<1>3. ASSUME Running', taken' > 0
      PROVE  Current'.kind # "Close"
  <2>1. Running
    BY <1>3, EndedStep
  <2>2. ~Releasing
    BY <1>3 DEF Releasing
  <2>3. QED
    BY <1>3, <2>1, <2>2, TakenStep DEF CommandsKept
<1>4. ASSUME Good', ~InCommand', taken' > 0, Current'.kind # "Close",
             NEW m, m = Current'.msg
      PROVE  Settled(m)'
  <2>1. Good
    BY <1>4, GoodStep
  <2>2. taken' = taken /\ taken > 0 /\ m = Current.msg /\ m \in Msg
          /\ Current.kind # "Close"
    <3>1. ~Takes
      BY <1>4 DEF Takes, InCommand
    <3>2. QED
      BY <1>0, <1>4, <3>1, TakenStep
  <2>3. CASE ~InCommand
    BY <1>1, <2>1, <2>2, <2>3 DEF CommandsKept
  <2>4. CASE Answers
    <3>1. pc = "flush" /\ FlushOk
      BY <2>4 DEF Answers, FlushCommand
    <3>2. Occurs(m, writeBuf) \/ Settled(m)
      <4>1. CASE writeBuf = <<Current.msg>>
        <5>1. 1 \in 1..Len(writeBuf) /\ writeBuf[1] = m
          BY <2>2, <4>1
        <5>2. QED
          BY <5>1 DEF Occurs
      <4>2. CASE Current.msg \in stopped
        BY <2>2, <4>2 DEF Settled
      <4>3. QED
        BY <3>1, <4>1, <4>2 DEF BufferShape
    <3>3. QED
      BY <2>2, <3>1, <3>2, FlushSettles
  <2>5. ~(InCommand /\ Running /\ ~Running')
    BY <1>4, GracefulEnd DEF Good
  <2>6. QED
    BY <1>4, <2>3, <2>4, <2>5, CommandLeft
<1>5. QED
  BY <1>2, <1>3, <1>4 DEF CommandsKept, Settled, OnWire, Occurs

\* What a handler has staged stays within reach of the socket until it is
\* settled: in the outbox or, while the task runs, in the write buffer.
Queued(m)  == \E j \in 1..Len(outbox) : outbox[j].kind = "Write" /\ outbox[j].msg = m
Held(m)    == Settled(m) \/ (Running /\ Occurs(m, writeBuf)) \/ Queued(m)
Written(m) == \E i \in 1..staged : m = HandlerMsg(i)

StagedKept ==
  Good => /\ \A m \in Msg : Written(m) => Held(m)
          /\ ~Invoked => outbox = <<>>

\* What is in the buffer of a task that goes on stays there or is written.
LEMMA BufferKept ==
  ASSUME TypeOK, [Next]_vars, Running', NEW m \in Msg, Occurs(m, writeBuf)
  PROVE  Settled(m)' \/ Occurs(m, writeBuf')
<1> USE DEF writeVars
<1>1. ASSUME NEW x \in Msg, Encoded(x)
      PROVE  Occurs(m, writeBuf')
  <2>1. writeBuf \in Seq(Msg) /\ writeBuf' = Append(writeBuf, x)
    BY <1>1 DEF TypeOK, Encoded
  <2>2. QED
    BY <2>1, AppendOccurs
<1>2. CASE EncodeCommand
  <2>1. writeBuf' = writeBuf \/ writeBuf' = Append(writeBuf, Current.msg)
    BY <1>2 DEF EncodeCommand, Encoded
  <2>2. writeBuf \in Seq(Msg)
    BY DEF TypeOK
  <2>3. CASE writeBuf' = Append(writeBuf, Current.msg)
    <3>1. \A i \in 1..Len(writeBuf) :
             i \in 1..Len(Append(writeBuf, Current.msg))
               /\ Append(writeBuf, Current.msg)[i] = writeBuf[i]
      BY <2>2
    <3>2. QED
      BY <2>3, <3>1 DEF Occurs
  <2>4. QED
    BY <2>1, <2>3
<1>3. CASE FlushCommand \/ DrainFlush \/ DrainEnds
  <2>1. FlushOk
    BY <1>3 DEF FlushCommand, DrainFlush, DrainEnds, FinalFlush, Fail, Leave, Running
  <2>2. QED
    BY <2>1, FlushSettles
<1>4. CASE DrainWrite
  <2>1. Head(outbox).msg \in Msg
    BY <1>4, OutboxType DEF DrainWrite
  <2>2. writeBuf' = writeBuf \/ Encoded(Head(outbox).msg)
    BY <1>4 DEF DrainWrite
  <2>3. QED
    BY <1>1, <2>1, <2>2
<1>5. CASE Application \/ Environment \/ UNCHANGED vars
  BY <1>5 DEF Application, Begin, Enqueue, Rejected, DropSender, Environment,
     PeerSends, PeerCloses, RequestShutdown, IdleElapses, vars
<1>6. CASE OpenedHook \/ ClosedHook \/ Panic \/ CheckShutdown \/ Select
  BY <1>6 DEF OpenedHook, ClosedHook, Panic, CheckShutdown, Select, SelectRead,
     SelectCommand, SelectShutdown, SelectIdle
<1>7. CASE Decode \/ InboundStages \/ Handler \/ DrainResumes
  BY <1>7 DEF Decode, InboundStages, Handler, HandlerWrites, HandlerFlushes,
     HandlerAbandonsFlush, HandlerCloses, HandlerShares, HandlerReturns,
     HandlerPending, HandlerStay, DrainResumes
<1>8. QED
  BY <1>2, <1>3, <1>4, <1>5, <1>6, <1>7 DEF Next, Task, Drain

\* An invocation that is over, in a task that goes on, leaves an empty outbox.
LEMMA InvocationEnds ==
  ASSUME Invoked, ~Invoked', Running', [Next]_vars
  PROVE  outbox = <<>> /\ outbox' = <<>>
<1> USE DEF Invoked, Running, handlerVars
<1>1. ~Application /\ ~Environment /\ ~UNCHANGED vars
  BY DEF Application, Begin, Enqueue, Rejected, DropSender, Environment, PeerSends,
     PeerCloses, RequestShutdown, IdleElapses, vars
<1>2. ~OpenedHook /\ ~ClosedHook /\ ~Panic /\ ~CheckShutdown /\ ~Select
        /\ ~EncodeCommand /\ ~FlushCommand /\ ~Decode /\ ~InboundStages
  BY DEF OpenedHook, ClosedHook, Panic, CheckShutdown, Select, SelectRead,
     SelectCommand, SelectShutdown, SelectIdle, EncodeCommand, FlushCommand, Decode,
     InboundStages
<1>3. ~Handler /\ ~DrainWrite /\ ~DrainFlush /\ ~DrainResumes
  BY DEF Handler, HandlerWrites, HandlerFlushes, HandlerAbandonsFlush, HandlerRuns,
     HandlerCloses, HandlerShares, HandlerReturns, HandlerPending, DrainWrite,
     DrainFlush, DrainResumes, Fail, Leave
<1>4. DrainEnds => outbox = <<>> /\ outbox' = outbox
  BY DEF DrainEnds
<1>5. QED
  BY <1>1, <1>2, <1>3, <1>4 DEF Next, Task, Drain

\* What is settled or in the buffer stays within reach.
LEMMA HeldKept ==
  ASSUME TypeOK, HooksInv, BufferShape, [Next]_vars, Good', NEW m \in Msg,
         Settled(m) \/ (Running /\ Occurs(m, writeBuf))
  PROVE  Settled(m)' \/ (Running' /\ Occurs(m, writeBuf'))
<1>1. CASE Settled(m)
  BY <1>1, SettledStep
<1>2. CASE Running /\ Running' /\ Occurs(m, writeBuf)
  BY <1>2, BufferKept
<1>3. CASE Running /\ ~Running' /\ Occurs(m, writeBuf)
  <2>1. writeBuf = <<>> \/ FlushOk
    BY <1>3, GracefulEnd DEF Good
  <2>2. writeBuf # <<>>
    BY <1>3 DEF Occurs
  <2>3. QED
    BY <1>3, <2>1, <2>2, FlushSettles
<1>4. QED
  BY <1>1, <1>2, <1>3

LEMMA StagedStep ==
  TypeOK /\ HooksInv /\ BufferShape /\ StagedKept /\ [Next]_vars => StagedKept'
<1> SUFFICES ASSUME TypeOK, HooksInv, BufferShape, StagedKept, [Next]_vars, Good'
             PROVE  /\ \A m \in Msg : Written(m)' => Held(m)'
                    /\ ~Invoked' => outbox' = <<>>
  BY DEF StagedKept, Written, Held, HandlerMsg, Settled, OnWire, Occurs, Queued
<1>0. /\ Good /\ outbox \in Seq(Staged) /\ staged \in Nat
      /\ \A m \in Msg : Written(m) => Held(m)
      /\ ~Invoked => outbox = <<>>
  BY GoodStep DEF StagedKept, TypeOK
<1>1. ASSUME NEW m \in Msg, Held(m), Queued(m) => Queued(m)'
      PROVE  Held(m)'
  BY <1>1, HeldKept DEF Held, Running, Occurs
<1>2. ~Running' => ~Invoked' /\ (outbox' = <<>> \/ ~Running)
  <2>1. ASSUME Running, ~Running' PROVE outbox' = <<>>
    BY <1>0, <2>1, GracefulEnd DEF Good
  <2>2. QED
    BY <2>1 DEF Running, Invoked
<1>3. CASE UNCHANGED <<outbox, staged, frames>>
  <2>1. \A m \in Msg : (Written(m)' => Written(m)) /\ (Queued(m) => Queued(m)')
    BY <1>3 DEF Written, HandlerMsg, Queued
  <2>2. ~Invoked' => outbox' = <<>>
    <3>1. CASE ~Invoked
      BY <1>0, <1>3, <3>1
    <3>2. CASE Invoked /\ Running'
      BY <3>2, InvocationEnds
    <3>3. CASE Invoked /\ ~Running'
      BY <1>2, <3>3 DEF Invoked, Running
    <3>4. QED
      BY <3>1, <3>2, <3>3
  <2>3. QED
    BY <1>0, <1>1, <2>1, <2>2
<1>4. CASE Decode /\ outbox' = outbox /\ ~UNCHANGED <<staged, frames>>
  <2>1. staged' = 0 /\ pc = "decode"
    BY <1>4 DEF Decode, readVars
  <2>2. \A m \in Msg : ~Written(m)'
    BY <2>1 DEF Written
  <2>3. QED
    BY <1>0, <1>4, <2>1, <2>2 DEF Invoked
<1>5. CASE HandlerWrites
  <2> DEFINE x == HandlerMsg(staged + 1)
             entry == [kind |-> "Write", msg |-> x]
  <2>1. entry \in Staged /\ entry.kind = "Write" /\ entry.msg = x
    BY <1>0, HandlerMsgType DEF Staged
  <2>2. outbox' = Append(outbox, entry) /\ staged' = staged + 1 /\ frames' = frames
          /\ Invoked'
    BY <1>5 DEF HandlerWrites, Push, HandlerStay, readVars, HandlerRuns, Invoked
  <2>3. \A m \in Msg : Written(m)' => Written(m) \/ m = x
    BY <1>0, <2>2 DEF Written, HandlerMsg
  <2> HIDE DEF entry, x
  <2>4. /\ \A j \in 1..Len(outbox) : j \in 1..Len(outbox') /\ outbox'[j] = outbox[j]
        /\ Len(outbox) + 1 \in 1..Len(outbox') /\ outbox'[Len(outbox) + 1] = entry
    BY <1>0, <2>1, <2>2
  <2>5. \A m \in Msg : Queued(m) \/ m = x => Queued(m)'
    BY <2>1, <2>4 DEF Queued
  <2>6. \A m \in Msg : Written(m)' => Held(m)'
    BY <1>0, <1>1, <2>3, <2>5 DEF Held
  <2>7. QED
    BY <2>2, <2>6
<1>6. CASE HandlerFlushes
  <2> DEFINE entry == [kind |-> "Flush", msg |-> NoMsg]
  <2>1. entry \in Staged /\ outbox' = Append(outbox, entry) /\ Invoked'
          /\ UNCHANGED <<staged, frames>>
    BY <1>6, Types DEF HandlerFlushes, Push, Staged, HandlerStay, readVars, HandlerRuns,
       Invoked
  <2> HIDE DEF entry
  <2>2. \A j \in 1..Len(outbox) : j \in 1..Len(outbox') /\ outbox'[j] = outbox[j]
    BY <1>0, <2>1
  <2>3. \A m \in Msg : (Written(m)' => Written(m)) /\ (Queued(m) => Queued(m)')
    BY <2>1, <2>2 DEF Written, HandlerMsg, Queued
  <2>4. QED
    BY <1>0, <1>1, <2>1, <2>3
<1>7. ASSUME outbox # <<>>, outbox' = Tail(outbox), Invoked', UNCHANGED <<staged, frames>>,
             \A m \in Msg : Head(outbox).kind = "Write" /\ m = Head(outbox).msg => Held(m)'
      PROVE  /\ \A m \in Msg : Written(m)' => Held(m)'
             /\ ~Invoked' => outbox' = <<>>
  <2>1. Head(outbox) = outbox[1] /\ \A j \in 1..Len(outbox) :
          j = 1 \/ (j - 1 \in 1..Len(outbox') /\ outbox'[j - 1] = outbox[j])
    BY <1>0, <1>7
  <2>2. \A m \in Msg : Queued(m) =>
          Queued(m)' \/ (Head(outbox).kind = "Write" /\ m = Head(outbox).msg)
    BY <2>1 DEF Queued
  <2>3. \A m \in Msg : Written(m)' => Written(m)
    BY <1>7 DEF Written, HandlerMsg
  <2>4. QED
    BY <1>0, <1>1, <1>7, <2>2, <2>3
<1>8. CASE DrainWrite /\ ~UNCHANGED <<outbox, staged, frames>>
  <2>1. /\ outbox # <<>> /\ outbox' = Tail(outbox) /\ Invoked' /\ Running'
        /\ UNCHANGED <<staged, frames>> /\ Head(outbox).msg \in Msg
        /\ \/ Encoded(Head(outbox).msg)
           \/ stopped' = stopped \cup {Head(outbox).msg}
    BY <1>8, OutboxType DEF DrainWrite, Invoked, Running, readVars
  <2>2. ASSUME NEW m \in Msg, m = Head(outbox).msg
        PROVE  Held(m)'
    <3>1. CASE Encoded(m)
      <4>1. writeBuf \in Seq(Msg) /\ writeBuf' = Append(writeBuf, m)
        BY <3>1 DEF TypeOK, Encoded
      <4>2. Occurs(m, writeBuf')
        BY <4>1, AppendOccurs
      <4>3. QED
        BY <2>1, <4>2 DEF Held, Occurs
    <3>2. CASE m \in stopped'
      BY <3>2 DEF Held, Settled
    <3>3. QED
      BY <2>1, <2>2, <3>1, <3>2
  <2>3. QED
    BY <1>7, <2>1, <2>2
<1>9. CASE DrainFlush /\ ~UNCHANGED <<outbox, staged, frames>>
  <2>1. /\ outbox # <<>> /\ outbox' = Tail(outbox) /\ Invoked'
        /\ UNCHANGED <<staged, frames>> /\ Head(outbox).kind = "Flush"
    BY <1>9 DEF DrainFlush, Invoked, readVars
  <2>2. QED
    BY <1>7, <2>1
<1>10. QED
  BY <1>3, <1>4, <1>5, <1>6, <1>8, <1>9, OutboxSteps

\* While the handler waits for its flush, the flush is the last entry of the
\* outbox; once it has been drained nothing is left to be written.
FlushPending ==
  Invoked /\ waiting =>
    \/ outbox = <<>> /\ writeBuf = <<>>
    \/ outbox # <<>> /\ outbox[Len(outbox)].kind = "Flush"

LEMMA FlushPendingStep ==
  TypeOK /\ FlushPending /\ [Next]_vars => FlushPending'
<1> SUFFICES ASSUME TypeOK, FlushPending, [Next]_vars, Invoked', waiting'
             PROVE  \/ outbox' = <<>> /\ writeBuf' = <<>>
                    \/ outbox' # <<>> /\ outbox'[Len(outbox')].kind = "Flush"
  BY DEF FlushPending
<1> USE DEF Invoked, handlerVars, writeVars, HandlerStay
<1>0. outbox \in Seq(Staged)
  BY DEF TypeOK
<1>1. ASSUME Invoked, waiting, UNCHANGED <<outbox, writeBuf>>
      PROVE  \/ outbox' = <<>> /\ writeBuf' = <<>>
             \/ outbox' # <<>> /\ outbox'[Len(outbox')].kind = "Flush"
  BY <1>1 DEF FlushPending
<1>2. CASE Application \/ Environment \/ UNCHANGED vars
  <2>1. UNCHANGED <<pc, waiting, outbox, writeBuf>>
    BY <1>2 DEF Application, Begin, Enqueue, Rejected, DropSender, Environment,
       PeerSends, PeerCloses, RequestShutdown, IdleElapses, vars
  <2>2. QED
    BY <1>1, <2>1
<1>3. ~OpenedHook /\ ~ClosedHook /\ ~Panic /\ ~CheckShutdown /\ ~Select
        /\ ~EncodeCommand /\ ~FlushCommand
  <2>1. ~OpenedHook /\ ~ClosedHook /\ ~Panic /\ ~CheckShutdown
    BY DEF OpenedHook, OpenRefused, ClosedHook, Panic, CheckShutdown, Exit, Leave
  <2>2. ~Select
    BY DEF Select, SelectRead, PeerEof, SelectCommand, SelectShutdown, SelectIdle, Exit,
       Fail, Leave
  <2>3. ~EncodeCommand /\ ~FlushCommand
    BY DEF EncodeCommand, FlushCommand, Fail, Leave
  <2>4. QED
    BY <2>1, <2>2, <2>3
<1>4. ~Decode /\ ~InboundStages /\ ~DrainEnds /\ ~DrainResumes
  BY DEF Decode, InboundStages, DrainEnds, DrainResumes, AfterHandled, Exit, Fail, Leave
<1>5. CASE HandlerWrites \/ HandlerAbandonsFlush \/ HandlerCloses \/ HandlerReturns
             \/ \E w \in Writers : HandlerShares(w)
  BY <1>5 DEF HandlerWrites, HandlerAbandonsFlush, HandlerCloses, HandlerReturns,
     HandlerShares, HandlerRuns
<1>6. CASE HandlerPending
  BY <1>1, <1>6 DEF HandlerPending
<1>7. CASE HandlerFlushes
  <2> DEFINE entry == [kind |-> "Flush", msg |-> NoMsg]
  <2>1. entry \in Staged /\ outbox' = Append(outbox, entry) /\ entry.kind = "Flush"
    BY <1>7, Types DEF HandlerFlushes, Push, Staged
  <2> HIDE DEF entry
  <2>2. Len(outbox') = Len(outbox) + 1 /\ outbox'[Len(outbox) + 1] = entry
          /\ Len(outbox) \in Nat
    BY <1>0, <2>1
  <2>3. outbox' # <<>>
    BY <2>2
  <2>4. QED
    BY <2>1, <2>2, <2>3
<1>8. ASSUME pc = "drain", outbox # <<>>, outbox' = Tail(outbox), waiting
      PROVE  /\ \/ outbox' = <<>> /\ Head(outbox).kind = "Flush"
                \/ outbox' # <<>> /\ outbox'[Len(outbox')].kind = "Flush"
  <2>1. outbox[Len(outbox)].kind = "Flush"
    BY <1>8 DEF FlushPending
  <2>2. Len(outbox) \in Nat \ {0} /\ Len(outbox') = Len(outbox) - 1
    BY <1>0, <1>8
  <2>3. CASE Len(outbox) = 1
    <3>1. Head(outbox) = outbox[1] /\ outbox' = <<>>
      BY <1>0, <1>8, <2>2, <2>3
    <3>2. QED
      BY <2>1, <2>3, <3>1
  <2>4. CASE Len(outbox) > 1
    <3>1. Len(outbox') \in Nat /\ Len(outbox') >= 1
      BY <2>2, <2>4
    <3>2. outbox' # <<>>
      BY <3>1
    <3>3. Len(outbox') \in 1..Len(Tail(outbox))
      BY <1>8, <3>1
    <3>4. outbox'[Len(outbox')] = outbox[Len(outbox)]
      BY <1>8, <2>2, <3>3, TailElements
    <3>5. QED
      BY <2>1, <3>2, <3>4
  <2>5. QED
    BY <2>2, <2>3, <2>4
<1>9. CASE DrainWrite
  BY <1>8, <1>9 DEF DrainWrite, Fail, Leave
<1>10. CASE DrainFlush
  <2>1. /\ pc = "drain" /\ outbox # <<>> /\ outbox' = Tail(outbox) /\ waiting
        /\ FlushOk
    BY <1>10 DEF DrainFlush, Fail, Leave
  <2>2. writeBuf' = <<>>
    BY <2>1 DEF FlushOk
  <2>3. QED
    BY <1>8, <2>1, <2>2
<1>11. QED
  BY <1>2, <1>3, <1>4, <1>5, <1>6, <1>7, <1>9, <1>10 DEF Next, Task, Handler, Drain

-----------------------------------------------------------------------------
(***************************************************************************)
(* What is on the wire, and what is answered.                              *)
(***************************************************************************)

\* A writer's message on the wire is that of a command the task has dealt with.
WireFrom ==
  \A m \in Msg : OnWire(m) /\ FromWriter(m) => \E a \in 1..Handled : sent[a].msg = m

\* The commands dealt with stay so.
HandledGrows ==
  /\ Handled \in Nat /\ Handled' \in Nat /\ Handled <= Handled'
  /\ \A a \in 1..Handled : a \in 1..Handled' /\ a \in 1..Len(sent) /\ sent'[a] = sent[a]
  /\ Answers => Handled' = taken /\ Handled = taken - 1 /\ sent' = sent
                  /\ taken \in 1..Len(sent)

LEMMA HandledStep ==
  ASSUME TypeOK, CommandInHand, [Next]_vars
  PROVE  HandledGrows
<1>0. taken \in 0..Len(sent) /\ taken' \in 0..Len(sent') /\ Len(sent) \in Nat
        /\ Len(sent') \in Nat /\ (InCommand => taken > 0)
  <2>1. TypeOK'
    BY TypeStep
  <2>2. taken \in 0..Len(sent) /\ sent \in Seq(Command)
    BY DEF TypeOK
  <2>3. taken' \in 0..Len(sent') /\ sent' \in Seq(Command)
    BY <2>1 DEF TypeOK
  <2>4. InCommand => taken > 0
    BY DEF CommandInHand, InCommand
  <2>5. QED
    BY <2>2, <2>3, <2>4
<1>1. Handled \in Nat /\ Handled <= taken
  BY <1>0 DEF Handled
<1>2. ASSUME Handled' \in Nat, Handled <= Handled'
      PROVE  \A a \in 1..Handled : a \in 1..Handled' /\ a \in 1..Len(sent)
                                     /\ sent'[a] = sent[a]
  <2>1. \A a \in 1..Handled : a \in 1..taken /\ a \in 1..Handled'
    BY <1>0, <1>1, <1>2
  <2>2. QED
    BY <2>1, TakenStep
<1>3. Handled' \in Nat /\ Handled <= Handled'
  <2>1. CASE Aside
    BY <1>1, <2>1 DEF Aside, Handled
  <2>2. CASE Releasing
    <3>1. Handled' = taken'
      BY <2>2 DEF Releasing, Handled, InCommand, Running
    <3>2. taken' = taken \/ taken' = taken + 1
      BY <2>2 DEF Releasing
    <3>3. QED
      BY <1>0, <1>1, <3>1, <3>2
  <2>3. CASE Takes
    BY <1>0, <2>3 DEF Takes, Handled, InCommand
  <2>4. CASE Answers
    BY <1>0, <2>4 DEF Answers, FlushCommand, Fail, Leave, queueVars, Handled, InCommand
  <2>5. ASSUME NEW w \in Writers, Calls(w)
        PROVE  Handled' = Handled
    BY <2>5 DEF Calls, Begin, Enqueue, Rejected, queueVars, Handled, InCommand
  <2>6. QED
    BY <1>1, <2>1, <2>2, <2>3, <2>4, <2>5, StepKinds
<1>4. Answers => Handled' = taken /\ Handled = taken - 1 /\ sent' = sent
                   /\ taken \in 1..Len(sent)
  BY <1>0 DEF Answers, FlushCommand, Fail, Leave, queueVars, Handled, InCommand
<1>5. QED
  BY <1>1, <1>2, <1>3, <1>4 DEF HandledGrows

\* What the task flushes for a command.
LEMMA AnswerBuffer ==
  ASSUME TypeOK, BufferShape, Answers, NEW m, Occurs(m, writeBuf)
  PROVE  writeBuf = <<Current.msg>> /\ m = Current.msg
<1>1. writeBuf = <<Current.msg>> \/ writeBuf = <<>>
  BY DEF BufferShape, Answers, FlushCommand
<1>2. writeBuf # <<>>
  BY DEF Occurs
<1>3. QED
  BY <1>1, <1>2 DEF Occurs

LEMMA WireFromStep ==
  TypeOK /\ CommandInHand /\ BufferShape /\ WireFrom /\ [Next]_vars => WireFrom'
<1> SUFFICES ASSUME TypeOK, CommandInHand, BufferShape, WireFrom, [Next]_vars,
                    NEW m \in Msg, OnWire(m)', FromWriter(m)
             PROVE  \E a \in 1..Handled' : sent'[a].msg = m
  BY DEF WireFrom, FromWriter
<1>0. HandledGrows
  BY HandledStep
<1>1. CASE OnWire(m)
  BY <1>0, <1>1 DEF WireFrom, HandledGrows
<1>2. CASE Answers /\ Occurs(m, writeBuf)
  BY <1>0, <1>2, AnswerBuffer DEF HandledGrows, Current
<1>3. ~(pc = "drain" /\ Occurs(m, writeBuf))
  BY DEF BufferShape, Invoked
<1>4. QED
  BY <1>1, <1>2, <1>3, SettledStep

\* The operation a writer is busy with has not reached the wire.
LEMMA NotYetSent ==
  ASSUME TypeOK, QueueInv, WireFrom, NEW w \in Writers,
         writer[w] = "awaiting" \/ writer[w] \in SendKinds
  PROVE  Latest(w) \in Msg /\ FromWriter(Latest(w)) /\ ~OnWire(Latest(w))
<1>1. Latest(w) \in Msg /\ FromWriter(Latest(w)) /\ Latest(w).src = w
        /\ Latest(w).n = count[w] /\ count[w] \in Nat
  BY DEF TypeOK, Latest, Msg, Sources, FromWriter
<1>2. SUFFICES ASSUME OnWire(Latest(w)) PROVE FALSE
  BY <1>1
<1>3. PICK a \in 1..Handled : sent[a].msg = Latest(w)
  BY <1>1, <1>2 DEF WireFrom
<1>4. a \in 1..Len(sent) /\ Len(sent) \in Nat /\ Handled \in Int
  BY DEF TypeOK, Handled
<1>5. CASE writer[w] \in SendKinds
  BY <1>1, <1>3, <1>4, <1>5 DEF QueueInv, Numbered
<1>6. CASE writer[w] = "awaiting"
  <2>1. PICK i \in 1..Len(sent) : i > Handled /\ sent[i].msg = Latest(w)
    BY <1>6 DEF QueueInv, Awaited
  <2>2. a < i
    BY <1>4, <2>1
  <2>3. QED
    BY <1>3, <1>4, <2>1, <2>2 DEF QueueInv, Numbered
<1>7. QED
  BY <1>5, <1>6

\* An error is answered when the task is over, and never for what the socket
\* took.
DenialsInv ==
  /\ denied # {} => ~Running
  /\ \A m \in denied : ~OnWire(m)

LEMMA DeniedStep ==
  ASSUME TypeOK, [Next]_vars
  PROVE  \/ denied' = denied
         \/ Release /\ ~Running'
         \/ \E w \in Writers : Rejected(w)
BY StepKinds DEF Aside, Releasing, Takes, Answers, FlushCommand, Fail, Leave, Calls, Begin,
   Enqueue, answerVars

LEMMA DenialsStep ==
  /\ TypeOK /\ HooksInv /\ QueueInv /\ BufferShape /\ WireFrom /\ DenialsInv
  /\ [Next]_vars
  => DenialsInv'
<1> SUFFICES ASSUME TypeOK, HooksInv, QueueInv, BufferShape, WireFrom, DenialsInv,
                    [Next]_vars, NEW m \in denied'
             PROVE  ~Running' /\ ~OnWire(m)'
  BY DEF DenialsInv, OnWire, Occurs
<1>1. CASE Running
  <2>1. denied = {} /\ \A w \in Writers : ~Rejected(w)
    BY <1>1 DEF DenialsInv, HooksInv, Rejected
  <2>2. Release /\ ~Running'
    BY <2>1, DeniedStep
  <2>3. PICK w \in Writers : writer[w] = "awaiting" /\ m = Latest(w)
    BY <2>1, <2>2 DEF Release, Awaiting
  <2>4. m \in Msg /\ FromWriter(m) /\ ~OnWire(m)
    BY <2>3, NotYetSent
  <2>5. ~Answers
    BY <2>2 DEF Answers, Running
  <2>6. ~(pc = "drain" /\ Occurs(m, writeBuf))
    BY <2>4 DEF BufferShape, Invoked
  <2>7. QED
    BY <2>2, <2>4, <2>5, <2>6, SettledStep
<1>2. CASE ~Running
  <2>1. ~Running' /\ wire' = wire
    BY <1>2, EndedStep DEF writeVars
  <2>2. OnWire(m)' <=> OnWire(m)
    BY <2>1 DEF OnWire, Occurs
  <2>3. CASE m \in denied
    BY <2>1, <2>2, <2>3 DEF DenialsInv
  <2>4. CASE m \notin denied
    <3>1. PICK w \in Writers :
            /\ writer[w] = "awaiting" \/ writer[w] \in SendKinds
            /\ m = Latest(w)
      BY <2>4, DeniedStep DEF Release, Awaiting, Rejected
    <3>2. QED
      BY <2>1, <2>2, <3>1, NotYetSent
  <2>5. QED
    BY <2>3, <2>4
<1>3. QED
  BY <1>1, <1>2

LEMMA ConfirmedStep ==
  ASSUME TypeOK, [Next]_vars
  PROVE  confirmed' = confirmed \/ Answers \/ DrainResumes
<1> USE DEF answerVars, Stay, HandlerStay, Exit, Fail, Leave, Release
<1>1. CASE Application \/ Environment \/ UNCHANGED vars
  BY <1>1 DEF Application, Begin, Enqueue, Rejected, DropSender, Environment,
     PeerSends, PeerCloses, RequestShutdown, IdleElapses, vars
<1>2. CASE OpenedHook \/ ClosedHook \/ Panic \/ CheckShutdown
  BY <1>2 DEF OpenedHook, OpenRefused, ClosedHook, Panic, CheckShutdown
<1>3. CASE Select
  BY <1>3 DEF Select, SelectRead, PeerEof, SelectCommand, SelectShutdown, SelectIdle
<1>4. CASE EncodeCommand \/ Decode
  BY <1>4 DEF EncodeCommand, Decode
<1>5. CASE FlushCommand
  BY <1>5 DEF FlushCommand, Answers
<1>6. AfterHandled => confirmed' = confirmed
  <2>1. CASE closeRequested
    BY <2>1 DEF AfterHandled
  <2>2. CASE ~closeRequested
    BY <2>2 DEF AfterHandled
  <2>3. QED
    BY <2>1, <2>2
<1>7. CASE InboundStages
  BY <1>6, <1>7 DEF InboundStages
<1>8. CASE Handler
  BY <1>8 DEF Handler, HandlerWrites, HandlerFlushes, HandlerAbandonsFlush, HandlerCloses,
     HandlerShares, HandlerReturns, HandlerPending
<1>9. CASE DrainWrite \/ DrainFlush
  BY <1>9 DEF DrainWrite, DrainFlush
<1>10. CASE DrainEnds
  BY <1>6, <1>10 DEF DrainEnds
<1>11. QED
  BY <1>1, <1>2, <1>3, <1>4, <1>5, <1>7, <1>8, <1>9, <1>10 DEF Next, Task, Drain

\* An Ok is answered only for what is settled.
ConfirmedSettled == \A m \in confirmed : Settled(m)

LEMMA ConfirmedSettledStep ==
  /\ TypeOK /\ BufferShape /\ StagedKept /\ FlushPending /\ ConfirmedSettled
  /\ CommandInHand /\ [Next]_vars
  => ConfirmedSettled'
<1> SUFFICES ASSUME TypeOK, CommandInHand, BufferShape, StagedKept, FlushPending,
                    ConfirmedSettled, [Next]_vars, NEW m \in confirmed'
             PROVE  Settled(m)'
  BY DEF ConfirmedSettled, Settled, OnWire, Occurs
<1>1. m \in Msg
  <2>1. TypeOK'
    BY TypeStep
  <2>2. QED
    BY <2>1 DEF TypeOK
<1>2. CASE Settled(m)
  BY <1>1, <1>2, SettledStep
<1>3. CASE ~Settled(m) /\ Answers
  <2>1. FlushOk /\ pc = "flush" /\ m = Current.msg
    BY <1>3 DEF Answers, FlushCommand, Fail, Leave, ConfirmedSettled
  <2>2. Occurs(m, writeBuf)
    BY <1>3, <2>1 DEF BufferShape, Settled, Occurs
  <2>3. QED
    BY <1>1, <2>1, <2>2, FlushSettles
<1>4. CASE ~Settled(m) /\ DrainResumes
  <2>1. waiting /\ Written(m) /\ Invoked /\ outbox = <<>> /\ Running
    BY <1>4 DEF DrainResumes, ConfirmedSettled, Written, Invoked, Running
  <2>2. writeBuf = <<>> /\ Held(m)
    BY <1>1, <2>1 DEF FlushPending, StagedKept, Good
  <2>3. QED
    BY <1>4, <2>1, <2>2 DEF Held, Occurs, Queued
<1>5. QED
  BY <1>2, <1>3, <1>4, ConfirmedStep DEF ConfirmedSettled

-----------------------------------------------------------------------------
(***************************************************************************)
(* The whole invariant, and what it says of answers and losses.            *)
(***************************************************************************)
DeliveryInv ==
  /\ TypeOK /\ CommandInHand /\ HooksInv /\ QueueInv
  /\ OutboxFrom /\ BufferShape /\ CommandsKept /\ StagedKept /\ FlushPending
  /\ WireFrom /\ DenialsInv /\ ConfirmedSettled

LEMMA DeliveryInit == Init => DeliveryInv
<1> SUFFICES ASSUME Init PROVE DeliveryInv
  OBVIOUS
<1>1. TypeOK /\ CommandInHand /\ HooksInv
  BY InitType, HooksInit
<1>2. QueueInv
  BY DEF Init, QueueInv, Numbered, Awaited
<1>3. OutboxFrom /\ BufferShape /\ FlushPending
  BY DEF Init, OutboxFrom, BufferShape, FlushPending, Invoked
<1>4. CommandsKept /\ StagedKept
  BY DEF Init, CommandsKept, StagedKept, Written
<1>5. WireFrom /\ DenialsInv /\ ConfirmedSettled
  BY DEF Init, WireFrom, DenialsInv, ConfirmedSettled, OnWire, Occurs
<1>6. QED
  BY <1>1, <1>2, <1>3, <1>4, <1>5 DEF DeliveryInv

LEMMA DeliveryStep == DeliveryInv /\ [Next]_vars => DeliveryInv'
BY TypeStep, HandStep, HooksStep, QueueStep, OutboxFromStep, BufferStep,
   CommandsKeptStep, StagedStep, FlushPendingStep, WireFromStep, DenialsStep,
   ConfirmedSettledStep DEF DeliveryInv

\* Whatever fails and whoever writes when: Ok is answered only for a message
\* that the socket took or a stage dropped, an error only for one that the
\* socket did not take.
THEOREM AnswersTruthful == Spec => []AnswersAreTruthful
<1>1. DeliveryInv => AnswersAreTruthful
  BY DEF DeliveryInv, DenialsInv, ConfirmedSettled, AnswersAreTruthful
<1>2. QED
  BY <1>1, DeliveryInit, DeliveryStep, PTL DEF Spec

\* A task that is about to wait, or that ended for a reason that is no failure,
\* has written every command it took and everything its last handler staged, but
\* for what an outbound stage dropped.
THEOREM NothingLost == Spec => []NothingHeldBack
<1>1. DeliveryInv => NothingHeldBack
  <2> SUFFICES ASSUME DeliveryInv, pc \in {"top", "select"} \/ reason \in GracefulReasons
               PROVE  /\ \A a \in 1..taken : sent[a].kind # "Close" => Settled(sent[a].msg)
                      /\ \A i \in 1..staged : Settled(HandlerMsg(i))
    BY DEF NothingHeldBack
  <2>1. TypeOK /\ Good /\ ~InCommand /\ ~Invoked /\ (Running => writeBuf = <<>>)
    BY DEF DeliveryInv, HooksInv, BufferShape, Good, InCommand, Invoked, Running,
       GracefulReasons
  <2>2. ASSUME NEW a \in 1..taken, sent[a].kind # "Close"
        PROVE  Settled(sent[a].msg)
    <3>1. taken \in Nat /\ (a \in 1..(taken - 1) \/ (a = taken /\ taken > 0))
      BY <2>1 DEF TypeOK
    <3>2. QED
      BY <2>1, <2>2, <3>1 DEF DeliveryInv, CommandsKept, Current
  <2>3. ASSUME NEW i \in 1..staged
        PROVE  Settled(HandlerMsg(i))
    <3>1. HandlerMsg(i) \in Msg /\ Written(HandlerMsg(i))
      BY <2>1, HandlerMsgType DEF Written
    <3>2. Held(HandlerMsg(i)) /\ outbox = <<>>
      BY <2>1, <3>1 DEF DeliveryInv, StagedKept
    <3>3. QED
      BY <2>1, <3>2 DEF Held, Queued, Occurs
  <2>4. QED
    BY <2>2, <2>3
<1>2. QED
  BY <1>1, DeliveryInit, DeliveryStep, PTL DEF Spec
=============================================================================
