-------------------------- MODULE StreamConnection --------------------------
(***************************************************************************)
(* One TCP connection task of rs-netty together with everything that acts  *)
(* on it: the application tasks that hold a Channel, the peer, the user's  *)
(* handler, the shutdown signal, the idle timer and the Life hooks.        *)
(*                                                                         *)
(* The code is transport/tcp/connection.rs (the task), the poll loop and   *)
(* outbox drain of pipeline/stream/runtime.rs, the handler's outbox in     *)
(* context/stream.rs, the command queue in channel/stream.rs and           *)
(* transport/shutdown.rs.                                                  *)
(*                                                                         *)
(* An action is the code between two await points.  Bytes are counted, not *)
(* carried: the peer sends units, FrameLen of them make a frame, and a     *)
(* written message is one element of writeBuf and then of wire.            *)
(*                                                                         *)
(* The tokio queue is kept whole in sent, with taken as the read index, so *)
(* that properties can speak of every command it ever accepted.            *)
(***************************************************************************)
EXTENDS Integers, Sequences, FiniteSets

CONSTANTS
  Writers,     (* Application tasks that may hold a clone of the Channel.  *)
  QueueCap,    (* outbound_queue_size: capacity of the command queue.      *)
  FrameLen,    (* Units of one inbound frame.                              *)
  MaxFrameSize,(* max_frame_size, in units.                                *)
  OnServer,    (* TRUE when shutdown_rx is Some (client connections: None).*)
  HasIdle,     (* TRUE when idle_timeout is configured.                    *)
  Stops,       (* Pipeline sides whose stages may answer Flow::Stop.       *)
  Faults,      (* Where this instance lets an operation fail.              *)
  MaxOps,      (* Bound: channel operations of one application task.       *)
  MaxUnits,    (* Bound: units sent by the peer.                           *)
  MaxStaged,   (* Bound: messages staged by one handler invocation.        *)
  MaxOutbox    (* Bound: entries waiting in the handler's outbox.          *)

AllFaults == {"opened", "closed", "read", "decode", "stages", "outbound",
              "write", "handler", "panic"}

ASSUME WritersAssumption == Writers \cap Nat = {}
ASSUME SizesAssumption   == /\ QueueCap \in Nat \ {0}
                            /\ FrameLen \in Nat \ {0}
                            /\ MaxFrameSize \in Nat
ASSUME SwitchAssumption  == /\ OnServer \in BOOLEAN
                            /\ HasIdle \in BOOLEAN
                            /\ Stops \subseteq {"inbound", "outbound"}
                            /\ Faults \subseteq AllFaults
ASSUME BoundsAssumption  == /\ MaxOps \in Nat
                            /\ MaxUnits \in Nat
                            /\ MaxStaged \in Nat
                            /\ MaxOutbox \in Nat

VARIABLES
  pc,             (* Where the connection task is.                         *)
  sent,           (* Every command the queue accepted, in order (history). *)
  taken,          (* How many of them rx.recv() has returned.              *)
  rxOpen,         (* The task still owns the receiver.                     *)
  senders,        (* Who holds a sender of the queue.                      *)
  writer,         (* What each application task is doing.                  *)
  count,          (* Channel operations each application task has begun.   *)
  outbox,         (* StreamOutboxHandle: what the handler has staged.      *)
  staged,         (* Messages staged by the current handler invocation.    *)
  waiting,        (* The handler awaits the answer of a flush.             *)
  result,         (* What the handler returned, or "running".              *)
  closeRequested, (* Context::close_requested.                             *)
  writeBuf,       (* Messages encoded and not yet written to the socket.   *)
  wire,           (* Messages written to the socket.                       *)
  framesWritten,  (* ConnectionStats::frames_written.                      *)
  stopped,        (* Messages an outbound stage dropped (history).         *)
  confirmed,      (* Messages whose flush was answered Ok (history).       *)
  denied,         (* Messages whose flush was answered Err (history).      *)
  arrived,        (* Units the peer has sent.                              *)
  unread,         (* Units in the socket, not read yet.                    *)
  peerOpen,       (* The peer has not closed its side.                     *)
  readBuf,        (* Units in read_buf.                                    *)
  frames,         (* Frames decoded: ConnectionStats::frames_read.         *)
  shutdown,       (* The watch channel as the task sees it.                *)
  late,           (* Select branches served after the request (history).   *)
  idle,           (* The idle timer has elapsed.                           *)
  reason,         (* CloseReason, or "none".                               *)
  outcome,        (* What the task returned, or "running".                 *)
  hooks           (* Life hooks that ran, in order (history).              *)

queueVars   == <<sent, taken, rxOpen, senders>>
appVars     == <<writer, count>>
handlerVars == <<outbox, staged, waiting, result, closeRequested>>
writeVars   == <<writeBuf, wire, framesWritten, stopped>>
answerVars  == <<confirmed, denied>>
peerVars    == <<arrived, unread, peerOpen>>
readVars    == <<readBuf, frames>>
signalVars  == <<shutdown, late, idle>>
lifeVars    == <<reason, outcome, hooks>>

vars == <<pc, queueVars, appVars, handlerVars, writeVars, answerVars,
          peerVars, readVars, signalVars, lifeVars>>

-----------------------------------------------------------------------------
(***************************************************************************)
(* Messages are told apart by where they come from: the n-th operation of  *)
(* an application task, or the n-th message staged by the handler of one   *)
(* inbound frame, whose source is the number of the frame.                 *)
(***************************************************************************)
Sources == Writers \cup Nat
Msg     == [src : Sources, n : Nat]
NoMsg   == [src |-> 0, n |-> 0]

SendKinds == {"Write", "WriteAndFlush", "Close"}
Command   == [kind : SendKinds, msg : Msg]
Staged    == [kind : {"Write", "Flush"}, msg : Msg]   \* a Flush has NoMsg

Ctx == "ctx"   \* the Channel clone inside the connection's own Context

ErrKinds == {"Decode", "Encode", "Io", "FrameTooLarge", "Other"}

GracefulReasons == {"PeerClosed", "LocalClosed", "ChannelClosed",
                    "HandlerClosed", "ServerShutdown", "IdleTimeout"}
FailureReasons  == {"IoError", "DecodeError", "EncodeError", "FrameTooLarge",
                    "HandlerError"}
CloseReasons    == GracefulReasons \cup FailureReasons

Steps == {"opening", "top", "select", "encode", "flush", "decode", "stages",
          "handler", "drain", "closing", "closed"}

QueueLen     == Len(sent) - taken
Current      == sent[taken]             \* the command handle_command works on
Latest(w)    == [src |-> w, n |-> count[w]]
HandlerMsg(i) == [src |-> frames, n |-> i]
FromWriter(m) == m.src \in Writers

\* recv() yields: a command, or None once every sender is gone
RecvReady == taken < Len(sent) \/ senders = {}

HasFlush == \E i \in 1..Len(outbox) : outbox[i].kind = "Flush"

\* decode_failure, outbound_failure and handler_failure
decode_failure(e) ==
  CASE e = "Decode"        -> "DecodeError"
    [] e = "FrameTooLarge" -> "FrameTooLarge"
    [] e = "Io"            -> "IoError"
    [] OTHER               -> "HandlerError"

outbound_failure(e) ==
  CASE e = "Encode"        -> "EncodeError"
    [] e = "Io"            -> "IoError"
    [] e = "FrameTooLarge" -> "FrameTooLarge"
    [] OTHER               -> "HandlerError"

handler_failure(e) ==
  CASE e = "Decode"        -> "DecodeError"
    [] e = "Encode"        -> "EncodeError"
    [] e = "Io"            -> "IoError"
    [] e = "FrameTooLarge" -> "FrameTooLarge"
    [] OTHER               -> "HandlerError"

-----------------------------------------------------------------------------
(***************************************************************************)
(* Leaving the task.  Dropping the runtime drops the receiver: commands    *)
(* still queued are dropped with their answer senders, so every            *)
(* application task that awaits an answer gets an error.  This happens     *)
(* before the closed hook is called.                                       *)
(***************************************************************************)
Awaiting == {w \in Writers : writer[w] = "awaiting"}

\* Mutation: the queue is dropped without its answer senders
ReleaseForgetsAnswers ==
  /\ rxOpen'  = FALSE
  /\ senders' = senders \ {Ctx}
  /\ UNCHANGED <<sent, appVars, answerVars>>

\* Mutation: the receiver outlives the task
ReleaseKeepsReceiver ==
  /\ senders' = senders \ {Ctx}
  /\ UNCHANGED <<sent, rxOpen, appVars, answerVars>>

Release ==
  /\ rxOpen'  = FALSE
  /\ senders' = senders \ {Ctx}
  /\ writer'  = [w \in Writers |->
                   IF w \in Awaiting THEN "idle" ELSE writer[w]]
  /\ denied'  = denied \cup {Latest(w) : w \in Awaiting}
  /\ UNCHANGED <<sent, count, confirmed>>

Leave(r, o) ==
  /\ pc'      = "closing"
  /\ reason'  = r
  /\ outcome' = o
  /\ Release
  /\ UNCHANGED hooks

Fail(r) == Leave(r, "Err")
Exit(r) == Leave(r, "Ok")

Stay == UNCHANGED <<queueVars, appVars, answerVars, lifeVars>>

\* A branch of select! is served; late counts those after the request.
Serve == late' = IF shutdown = "no" THEN late ELSE late + 1

-----------------------------------------------------------------------------
(***************************************************************************)
(* Application tasks: Channel::write, write_and_flush and close.  Begin is *)
(* the call; the send waits for queue capacity, then the command is in the *)
(* queue (Enqueue) or the receiver is gone (Rejected).  write_and_flush    *)
(* goes on to await its answer.                                            *)
(***************************************************************************)
Begin(w, kind) ==
  /\ writer[w] = "idle"
  /\ w \in senders
  /\ count[w] < MaxOps
  /\ writer' = [writer EXCEPT ![w] = kind]
  /\ count'  = [count EXCEPT ![w] = @ + 1]
  /\ UNCHANGED <<pc, queueVars, handlerVars, writeVars, answerVars, peerVars,
                 readVars, signalVars, lifeVars>>

Enqueue(w) ==
  /\ writer[w] \in SendKinds
  /\ rxOpen
  /\ QueueLen < QueueCap
  /\ sent'   = Append(sent, [kind |-> writer[w], msg |-> Latest(w)])
  /\ writer' = [writer EXCEPT ![w] =
                  IF @ = "WriteAndFlush" THEN "awaiting" ELSE "idle"]
  /\ UNCHANGED <<pc, taken, rxOpen, senders, count, handlerVars, writeVars,
                 answerVars, peerVars, readVars, signalVars, lifeVars>>

Rejected(w) ==
  /\ writer[w] \in SendKinds
  /\ ~rxOpen
  /\ writer' = [writer EXCEPT ![w] = "idle"]
  /\ denied' = IF writer[w] = "WriteAndFlush" THEN denied \cup {Latest(w)}
                                              ELSE denied
  /\ UNCHANGED <<pc, queueVars, count, handlerVars, writeVars, confirmed,
                 peerVars, readVars, signalVars, lifeVars>>

DropSender(w) ==
  /\ writer[w] = "idle"
  /\ w \in senders
  /\ senders' = senders \ {w}
  /\ UNCHANGED <<pc, sent, taken, rxOpen, appVars, handlerVars, writeVars,
                 answerVars, peerVars, readVars, signalVars, lifeVars>>

(***************************************************************************)
(* The peer, the server that owns the task, and time.  What they do once   *)
(* the task has dropped its socket concerns nobody.                        *)
(***************************************************************************)
Alive == pc \notin {"closing", "closed"}

PeerSends ==
  /\ Alive
  /\ peerOpen
  /\ arrived < MaxUnits
  /\ arrived' = arrived + 1
  /\ unread'  = unread + 1
  /\ UNCHANGED <<pc, queueVars, appVars, handlerVars, writeVars, answerVars,
                 peerOpen, readVars, signalVars, lifeVars>>

PeerCloses ==
  /\ Alive
  /\ peerOpen
  /\ peerOpen' = FALSE
  /\ UNCHANGED <<pc, queueVars, appVars, handlerVars, writeVars, answerVars,
                 arrived, unread, readVars, signalVars, lifeVars>>

RequestShutdown ==
  /\ Alive
  /\ OnServer
  /\ shutdown = "no"
  /\ shutdown' = "signalled"
  /\ UNCHANGED <<pc, queueVars, appVars, handlerVars, writeVars, answerVars,
                 peerVars, readVars, late, idle, lifeVars>>

IdleElapses ==
  /\ HasIdle
  /\ ~idle
  /\ Alive /\ pc # "opening"     \* the timer starts with the loop
  /\ idle' = TRUE
  /\ UNCHANGED <<pc, queueVars, appVars, handlerVars, writeVars, answerVars,
                 peerVars, readVars, shutdown, late, lifeVars>>

-----------------------------------------------------------------------------
(***************************************************************************)
(* run_stream_connection_with_life: a failing opened hook ends the task    *)
(* before the loop and without a closed hook; otherwise the closed hook    *)
(* runs once, and its error replaces an Ok result only.                    *)
(***************************************************************************)
\* Mutation: the closed hook runs for a connection that never opened
OpenRefusedClosing ==
  /\ pc' = "closing"
  /\ outcome' = "Err"
  /\ Release
  /\ UNCHANGED <<taken, reason, hooks>>

OpenRefused ==
  /\ pc' = "closed"
  /\ outcome' = "Err"
  /\ Release
  /\ UNCHANGED <<taken, reason, hooks>>

OpenedHook ==
  /\ pc = "opening"
  /\ \/ /\ pc' = "top"
        /\ hooks' = Append(hooks, "opened")
        /\ UNCHANGED <<queueVars, appVars, answerVars, reason, outcome>>
     \/ "opened" \in Faults /\ OpenRefused
  /\ UNCHANGED <<handlerVars, writeVars, peerVars, readVars, signalVars>>

ClosedHook ==
  /\ pc = "closing"
  /\ pc' = "closed"
  /\ hooks' = Append(hooks, "closed")
  /\ \/ UNCHANGED outcome
     \/ "closed" \in Faults /\ outcome' = "Err"
  /\ UNCHANGED <<queueVars, appVars, handlerVars, writeVars, answerVars,
                 peerVars, readVars, signalVars, reason>>

(***************************************************************************)
(* The head of the loop: shutdown::requested, then select!.  A receiver    *)
(* subscribed after the request never sees changed(): only this check      *)
(* notices it.                                                             *)
(***************************************************************************)
\* Mutation: the loop relies on changed() alone
CheckShutdownMissing ==
  /\ pc = "top"
  /\ pc' = "select" /\ Stay
  /\ UNCHANGED <<handlerVars, writeVars, peerVars, readVars, signalVars>>

CheckShutdown ==
  /\ pc = "top"
  /\ IF shutdown # "no" THEN Exit("ServerShutdown") /\ UNCHANGED taken
                        ELSE pc' = "select" /\ Stay
  /\ UNCHANGED <<handlerVars, writeVars, peerVars, readVars, signalVars>>

SelectShutdown ==
  /\ pc = "select"
  /\ shutdown = "signalled"
  /\ Exit("ServerShutdown")
  /\ UNCHANGED <<taken, handlerVars, writeVars, peerVars, readVars, signalVars>>

SelectIdle ==
  /\ pc = "select"
  /\ idle
  /\ Serve
  /\ Exit("IdleTimeout")
  /\ UNCHANGED <<taken, handlerVars, writeVars, peerVars, readVars, shutdown,
                 idle>>

\* Mutation: a read of length 0 is taken for no data
PeerEofIgnored == pc' = "top" /\ Stay

PeerEof == Exit("PeerClosed") /\ UNCHANGED taken

\* handle_read up to the decode loop
SelectRead ==
  /\ pc = "select"
  /\ Serve
  /\ \/ \E n \in 1..unread :
          /\ unread'  = unread - n
          /\ readBuf' = readBuf + n
          /\ IF readBuf + n > MaxFrameSize
               THEN Fail("FrameTooLarge") /\ UNCHANGED taken
               ELSE pc' = "decode" /\ Stay
     \/ /\ unread = 0
        /\ ~peerOpen
        /\ PeerEof
        /\ UNCHANGED <<unread, readBuf>>
     \/ /\ "read" \in Faults
        /\ Fail("IoError")
        /\ UNCHANGED <<taken, unread, readBuf>>
  /\ UNCHANGED <<handlerVars, writeVars, arrived, peerOpen, frames, shutdown,
                 idle>>

\* rx.recv(): handle_command up to process_outbound
SelectCommand ==
  /\ pc = "select"
  /\ RecvReady
  /\ Serve
  /\ IF taken = Len(sent)
       THEN Exit("ChannelClosed") /\ UNCHANGED taken
       ELSE /\ taken' = taken + 1
            /\ IF sent[taken + 1].kind = "Close"
                 THEN Exit("LocalClosed")
                 ELSE /\ pc' = "encode"
                      /\ UNCHANGED <<sent, rxOpen, senders, appVars,
                                     answerVars, lifeVars>>
  /\ UNCHANGED <<handlerVars, writeVars, peerVars, readVars, shutdown, idle>>

-----------------------------------------------------------------------------
(***************************************************************************)
(* flush_write_buf: all of writeBuf reaches the socket, or write_all fails *)
(* after part of it did (a message cut in two is not on the wire).         *)
(***************************************************************************)

\* Mutation: write instead of write_all, so the rest of the buffer is lost
FlushShort ==
  /\ \E k \in 0..Len(writeBuf) : wire' = wire \o SubSeq(writeBuf, 1, k)
  /\ writeBuf' = <<>>
  /\ UNCHANGED <<framesWritten, stopped>>

\* Mutation: write_buf is not cleared
FlushNoClear ==
  /\ wire' = wire \o writeBuf
  /\ UNCHANGED <<writeBuf, framesWritten, stopped>>

FlushOk ==
  /\ wire' = wire \o writeBuf
  /\ writeBuf' = <<>>
  /\ UNCHANGED <<framesWritten, stopped>>

FlushFails ==
  /\ "write" \in Faults
  /\ \E k \in 0..(Len(writeBuf) - 1) : wire' = wire \o SubSeq(writeBuf, 1, k)
  /\ UNCHANGED <<writeBuf, framesWritten, stopped>>

\* Mutation: the frame is not counted
EncodedUncounted(m) ==
  /\ writeBuf' = Append(writeBuf, m)
  /\ UNCHANGED <<framesWritten, wire, stopped>>

\* The codec appended the message to write_buf, and the frame is counted
Encoded(m) ==
  /\ writeBuf' = Append(writeBuf, m)
  /\ framesWritten' = framesWritten + 1
  /\ UNCHANGED <<wire, stopped>>

(***************************************************************************)
(* handle_command, Write and WriteAndFlush: process_outbound counts the    *)
(* frame also when a stage stopped the message; then the buffer is flushed *)
(* and the answer sent.                                                    *)
(***************************************************************************)
EncodeCommand ==
  /\ pc = "encode"
  /\ \/ /\ Encoded(Current.msg)
        /\ pc' = "flush"
        /\ Stay
     \/ /\ "outbound" \in Stops
        /\ stopped' = stopped \cup {Current.msg}
        /\ framesWritten' = framesWritten + 1
        /\ pc' = "flush"
        /\ Stay
        /\ UNCHANGED <<wire, writeBuf>>
     \/ /\ "outbound" \in Faults
        /\ \E e \in ErrKinds : Fail(outbound_failure(e))
        /\ UNCHANGED <<taken, writeVars>>
  /\ UNCHANGED <<handlerVars, peerVars, readVars, signalVars>>

FlushCommand ==
  /\ pc = "flush"
  /\ \/ /\ FlushOk
        /\ pc' = "top"
        /\ IF Current.kind = "WriteAndFlush"
             THEN /\ confirmed' = confirmed \cup {Current.msg}
                  /\ writer' = [writer EXCEPT ![Current.msg.src] = "idle"]
             ELSE UNCHANGED <<confirmed, writer>>
        /\ UNCHANGED <<queueVars, count, denied, lifeVars>>
     \/ /\ FlushFails
        /\ Fail("IoError")
        /\ UNCHANGED taken
  /\ UNCHANGED <<handlerVars, peerVars, readVars, signalVars>>

-----------------------------------------------------------------------------
(***************************************************************************)
(* The decode loop of handle_read.  It leaves the loop when no frame is    *)
(* left, which also resets the idle timer, and after a handler that asked  *)
(* to close.                                                               *)
(***************************************************************************)

\* Mutation: off by one
FrameReadyEarly == readBuf >= FrameLen - 1

\* The codec can produce a frame from read_buf
FrameReady == readBuf >= FrameLen

Decode ==
  /\ pc = "decode"
  /\ \/ /\ FrameReady
        /\ readBuf' = readBuf - FrameLen
        /\ frames' = frames + 1
        /\ staged' = 0           \* the new frame has staged nothing yet
        /\ pc' = "stages"
        /\ Stay
        /\ UNCHANGED idle
     \/ /\ ~FrameReady
        /\ pc' = "top"
        /\ idle' = FALSE
        /\ Stay
        /\ UNCHANGED <<readVars, staged>>
     \/ /\ "decode" \in Faults
        /\ \E e \in ErrKinds : Fail(decode_failure(e))
        /\ UNCHANGED <<taken, readVars, staged, idle>>
  /\ UNCHANGED <<outbox, waiting, result, closeRequested, writeVars, peerVars,
                 shutdown, late>>

\* Mutation: one frame per read
AfterHandledSelect ==
  IF closeRequested THEN Exit("HandlerClosed") /\ UNCHANGED taken
                    ELSE pc' = "top" /\ Stay

\* What follows a process_inbound_flushable that returned Ok
AfterHandled ==
  IF closeRequested THEN Exit("HandlerClosed") /\ UNCHANGED taken
                    ELSE pc' = "decode" /\ Stay

\* process_inbound_flushable: inbound and business stages, then the handler
InboundStages ==
  /\ pc = "stages"
  /\ \/ /\ pc' = "handler"
        /\ waiting' = FALSE
        /\ result' = "running"
        /\ Stay
        /\ UNCHANGED <<outbox, staged, closeRequested>>
     \/ /\ "inbound" \in Stops
        /\ AfterHandled
        /\ UNCHANGED handlerVars
     \/ /\ "stages" \in Faults
        /\ \E e \in ErrKinds : Fail(handler_failure(e))
        /\ UNCHANGED <<taken, handlerVars>>
  /\ UNCHANGED <<writeVars, peerVars, readVars, signalVars>>

(***************************************************************************)
(* The handler, polled inside process_inbound_flushable: Context::write,   *)
(* flush (write_and_flush is both), close, channel and return.  A          *)
(* handler may also drop the future of a flush it has polled, as a select  *)
(* or a timeout around it does; the Flush stays in the outbox.             *)
(***************************************************************************)
HandlerRuns == pc = "handler" /\ ~waiting

HandlerStay == UNCHANGED <<queueVars, appVars, writeVars, answerVars, peerVars,
                           readVars, signalVars, lifeVars>>

\* Mutation: the outbox is a stack
PushFront(command) == outbox' = <<command>> \o outbox

Push(command) == outbox' = Append(outbox, command)

HandlerWrites ==
  /\ HandlerRuns
  /\ staged < MaxStaged
  /\ Len(outbox) < MaxOutbox
  /\ staged' = staged + 1
  /\ Push([kind |-> "Write", msg |-> HandlerMsg(staged + 1)])
  /\ UNCHANGED <<pc, waiting, result, closeRequested>>
  /\ HandlerStay

HandlerFlushes ==
  /\ HandlerRuns
  /\ Len(outbox) < MaxOutbox
  /\ Push([kind |-> "Flush", msg |-> NoMsg])
  /\ waiting' = TRUE
  /\ UNCHANGED <<pc, staged, result, closeRequested>>
  /\ HandlerStay

HandlerAbandonsFlush ==
  /\ pc = "handler"
  /\ waiting
  /\ waiting' = FALSE
  /\ UNCHANGED <<pc, outbox, staged, result, closeRequested>>
  /\ HandlerStay

HandlerCloses ==
  /\ HandlerRuns
  /\ ~closeRequested
  /\ closeRequested' = TRUE
  /\ UNCHANGED <<pc, outbox, staged, waiting, result>>
  /\ HandlerStay

\* Context::channel: the handler hands a Channel to an application task
HandlerShares(w) ==
  /\ HandlerRuns
  /\ w \notin senders
  /\ senders' = senders \cup {w}
  /\ UNCHANGED <<pc, sent, taken, rxOpen, appVars, handlerVars, writeVars,
                 answerVars, peerVars, readVars, signalVars, lifeVars>>

HandlerReturns ==
  /\ HandlerRuns
  /\ result' \in {"Ok"} \cup (IF "handler" \in Faults THEN ErrKinds ELSE {})
  /\ pc' = "drain"
  /\ UNCHANGED <<outbox, staged, waiting, closeRequested>>
  /\ HandlerStay

\* the poll loop sees Pending with a flush command in the outbox
HandlerPending ==
  /\ pc = "handler"
  /\ HasFlush
  /\ pc' = "drain"
  /\ UNCHANGED handlerVars
  /\ HandlerStay

-----------------------------------------------------------------------------
(***************************************************************************)
(* drain_stream_outbox, one command at a time.  The handler is not polled  *)
(* meanwhile, so the taken commands stay in outbox.  A failure returns at  *)
(* once: the handler's future is dropped with what is left of the outbox.  *)
(***************************************************************************)
DrainWrite ==
  /\ pc = "drain"
  /\ outbox # <<>>
  /\ Head(outbox).kind = "Write"
  /\ \/ /\ Encoded(Head(outbox).msg)
        /\ outbox' = Tail(outbox)
        /\ Stay
        /\ UNCHANGED pc
     \/ /\ "outbound" \in Stops
        /\ stopped' = stopped \cup {Head(outbox).msg}
        /\ outbox' = Tail(outbox)
        /\ Stay
        /\ UNCHANGED <<pc, writeBuf, wire, framesWritten>>
     \/ /\ "outbound" \in Faults
        /\ \E e \in ErrKinds : Fail(handler_failure(e))
        /\ UNCHANGED <<taken, writeVars, outbox>>
  /\ UNCHANGED <<staged, waiting, result, closeRequested, peerVars, readVars,
                 signalVars>>

DrainFlush ==
  /\ pc = "drain"
  /\ outbox # <<>>
  /\ Head(outbox).kind = "Flush"
  /\ \/ /\ FlushOk
        /\ outbox' = Tail(outbox)
        /\ Stay
        /\ UNCHANGED pc
     \/ /\ FlushFails
        /\ Fail(handler_failure("Io"))
        /\ UNCHANGED <<taken, outbox>>
  /\ UNCHANGED <<staged, waiting, result, closeRequested, peerVars, readVars,
                 signalVars>>

\* A drain between two polls: the handler runs on, its flush answered Ok
DrainResumes ==
  /\ pc = "drain"
  /\ outbox = <<>>
  /\ result = "running"
  /\ pc' = "handler"
  /\ waiting' = FALSE
  /\ confirmed' = IF waiting
                    THEN confirmed \cup {HandlerMsg(i) : i \in 1..staged}
                    ELSE confirmed
  /\ UNCHANGED <<queueVars, appVars, outbox, staged, result, closeRequested,
                 writeVars, denied, peerVars, readVars, signalVars, lifeVars>>

\* Mutation: the drain after the handler does not flush
FinalFlushMissing == UNCHANGED writeVars

FinalFlush == FlushOk

\* The drain after the handler returned flushes what is left; its own error
\* masks the handler's
DrainEnds ==
  /\ pc = "drain"
  /\ outbox = <<>>
  /\ result # "running"
  /\ \/ /\ FinalFlush
        /\ IF result = "Ok" THEN AfterHandled
                            ELSE Fail(handler_failure(result)) /\ UNCHANGED taken
     \/ /\ FlushFails
        /\ Fail(handler_failure("Io"))
        /\ UNCHANGED taken
  /\ UNCHANGED <<handlerVars, peerVars, readVars, signalVars>>

(***************************************************************************)
(* A panic in a hook, a stage, the codec or the handler unwinds the task:  *)
(* everything is dropped and no further hook runs.                         *)
(***************************************************************************)
UserCode == {"opening", "encode", "decode", "stages", "handler", "drain",
             "closing"}

Panic ==
  /\ "panic" \in Faults
  /\ pc \in UserCode
  /\ pc' = "closed"
  /\ outcome' = "Panic"
  /\ Release
  /\ UNCHANGED <<taken, handlerVars, writeVars, peerVars, readVars,
                 signalVars, reason, hooks>>

-----------------------------------------------------------------------------
Init ==
  /\ pc = "opening"
  /\ sent = <<>> /\ taken = 0 /\ rxOpen = TRUE
  /\ senders = {Ctx} \cup (IF OnServer THEN {} ELSE Writers)
  /\ writer = [w \in Writers |-> "idle"]
  /\ count = [w \in Writers |-> 0]
  /\ outbox = <<>> /\ staged = 0 /\ waiting = FALSE
  /\ result = "Ok" /\ closeRequested = FALSE
  /\ writeBuf = <<>> /\ wire = <<>> /\ framesWritten = 0 /\ stopped = {}
  /\ confirmed = {} /\ denied = {}
  /\ arrived = 0 /\ unread = 0 /\ peerOpen = TRUE
  /\ readBuf = 0 /\ frames = 0
  /\ shutdown \in (IF OnServer THEN {"no", "before"} ELSE {"no"})
  /\ late = 0 /\ idle = FALSE
  /\ reason = "none" /\ outcome = "running" /\ hooks = <<>>

Application ==
  \E w \in Writers : \/ \E kind \in SendKinds : Begin(w, kind)
                     \/ Enqueue(w)
                     \/ Rejected(w)
                     \/ DropSender(w)

Environment == PeerSends \/ PeerCloses \/ RequestShutdown \/ IdleElapses

Select == SelectRead \/ SelectCommand \/ SelectShutdown \/ SelectIdle

Handler == \/ HandlerWrites \/ HandlerFlushes \/ HandlerAbandonsFlush
           \/ HandlerCloses \/ HandlerReturns \/ HandlerPending
           \/ \E w \in Writers : HandlerShares(w)

Drain == DrainWrite \/ DrainFlush \/ DrainResumes \/ DrainEnds

Task == \/ OpenedHook \/ CheckShutdown \/ Select
        \/ EncodeCommand \/ FlushCommand
        \/ Decode \/ InboundStages \/ Handler \/ Drain
        \/ Panic \/ ClosedHook

Next == Application \/ Environment \/ Task

Spec == Init /\ [][Next]_vars

(***************************************************************************)
(* Fairness.  The runtime polls the task whenever it can move; a socket    *)
(* write completes or fails; the user's handler returns.  select! picks at *)
(* random among the ready branches, so one that keeps being ready is       *)
(* served; tokio hands queue capacity to waiting senders in order.         *)
(***************************************************************************)
Fairness ==
  /\ WF_vars(Task)
  /\ SF_vars(HandlerReturns)
  /\ SF_vars(SelectCommand)
  /\ SF_vars(SelectRead)
  /\ \A w \in Writers : SF_vars(Enqueue(w)) /\ WF_vars(Rejected(w))

FairSpec == Spec /\ Fairness

-----------------------------------------------------------------------------
(***************************************************************************)
(* Correctness.                                                            *)
(***************************************************************************)

\* The type of every variable.
TypeOK ==
  /\ pc \in Steps
  /\ sent \in Seq(Command)
  /\ taken \in 0..Len(sent)
  /\ rxOpen \in BOOLEAN
  /\ senders \subseteq Writers \cup {Ctx}
  /\ writer \in [Writers -> {"idle", "awaiting"} \cup SendKinds]
  /\ count \in [Writers -> Nat]
  /\ outbox \in Seq(Staged)
  /\ staged \in Nat
  /\ waiting \in BOOLEAN
  /\ result \in {"running", "Ok"} \cup ErrKinds
  /\ closeRequested \in BOOLEAN
  /\ writeBuf \in Seq(Msg)
  /\ wire \in Seq(Msg)
  /\ framesWritten \in Nat
  /\ stopped \subseteq Msg
  /\ confirmed \subseteq Msg
  /\ denied \subseteq Msg
  /\ arrived \in Nat
  /\ unread \in Nat
  /\ peerOpen \in BOOLEAN
  /\ readBuf \in Nat
  /\ frames \in Nat
  /\ shutdown \in {"no", "before", "signalled"}
  /\ late \in Nat
  /\ idle \in BOOLEAN
  /\ reason \in CloseReasons \cup {"none"}
  /\ outcome \in {"running", "Ok", "Err", "Panic"}
  /\ hooks \in Seq({"opened", "closed"})

Occurs(m, s) == \E i \in 1..Len(s) : s[i] = m
OnWire(m)    == Occurs(m, wire)
Settled(m)   == OnWire(m) \/ m \in stopped

\* An answer to write_and_flush or to a handler's flush tells the truth: Ok
\* means that the message went to the socket or that an outbound stage dropped
\* it, an error that the socket never took the whole message.
AnswersAreTruthful ==
  /\ \A m \in confirmed : Settled(m)
  /\ \A m \in denied : ~OnWire(m)

\* Between two select branches, and once the connection ended for a reason that
\* is no failure, nothing the task took over is held back: every command it
\* received and every message the last handler staged was written, or dropped
\* by an outbound stage.
NothingHeldBack ==
  pc \in {"top", "select"} \/ reason \in GracefulReasons =>
    /\ \A a \in 1..taken : sent[a].kind # "Close" => Settled(sent[a].msg)
    /\ \A i \in 1..staged : Settled(HandlerMsg(i))

\* Commands reach the socket in the order in which the queue accepted them,
\* once each, and none overtakes an earlier one that was not dropped by a stage.
ChannelOrder ==
  /\ \A i, j \in 1..Len(wire) :
       i < j /\ FromWriter(wire[i]) /\ FromWriter(wire[j]) =>
         \E a, b \in 1..taken :
           a < b /\ sent[a].msg = wire[i] /\ sent[b].msg = wire[j]
  /\ \A b \in 1..taken : OnWire(sent[b].msg) =>
       \A a \in 1..(b - 1) : Settled(sent[a].msg)

\* What the handlers write goes out in the order of the inbound frames and,
\* within one invocation, in the order of the writes; nobody else's message
\* gets between two messages of one invocation, even when it flushes midway.
HandlersAreAtomic ==
  \A i, j \in 1..Len(wire) :
    i < j /\ ~FromWriter(wire[i]) /\ ~FromWriter(wire[j]) =>
      /\ \/ wire[i].src < wire[j].src
         \/ wire[i].src = wire[j].src /\ wire[i].n < wire[j].n
      /\ wire[i].src = wire[j].src =>
           \A k \in i..j : wire[k].src = wire[i].src

\* No complete frame waits in the read buffer while the task waits for input,
\* and a peer that closes has had every complete frame it sent decoded.
NoFrameLeftBehind ==
  /\ pc \in {"top", "select"} => readBuf < FrameLen
  /\ reason = "PeerClosed" => arrived < (frames + 1) * FrameLen

\* The hooks pair up: closed runs once, after opened, when the task is no
\* longer reachable through its channels, and an opened connection is over
\* only after closed ran, unless user code panicked.
LifePaired ==
  /\ hooks \in {<<>>, <<"opened">>, <<"opened", "closed">>}
  /\ hooks = <<"opened", "closed">> => ~rxOpen /\ Awaiting = {}
  /\ pc = "closed" /\ hooks = <<"opened">> => outcome = "Panic"
  /\ pc = "closed" /\ outcome = "Ok" =>
       reason \in GracefulReasons /\ hooks = <<"opened", "closed">>

\* The commands an outbound stage stopped
StoppedCommands == {m \in stopped : FromWriter(m)}

\* What frames_written counts, on both of its paths: the frames encoded, which
\* are on the wire or wait in writeBuf, and every command that an outbound stage
\* stopped, but no message of a handler that one stopped.  A connection that
\* failed is left out: what part of its last write the peer got is not known.
StatsAgree ==
  pc \notin {"closing", "closed"} \/ reason \in GracefulReasons =>
    framesWritten = Len(wire) + Len(writeBuf) + Cardinality(StoppedCommands)

\* Once shutdown is requested at most one more select branch is served: the one
\* that raced the request.
ShutdownIsPrompt == late <= 1

\* Every write_and_flush is answered.
AnswerComes ==
  \A w \in Writers : writer[w] = "awaiting" ~> writer[w] # "awaiting"

\* No application task waits for queue capacity forever.
SendCompletes ==
  \A w \in Writers : writer[w] \in SendKinds ~> writer[w] \notin SendKinds

\* A requested shutdown ends the connection, also when it was requested before
\* the connection subscribed to the signal.
ShutdownEnds == shutdown # "no" ~> pc = "closed"

\* A peer that closes its side ends the connection.
PeerCloseEnds == ~peerOpen ~> pc = "closed"

-----------------------------------------------------------------------------
(***************************************************************************)
(* What the repository's comments say and the code does not do.            *)
(***************************************************************************)

\* transport/tcp/config.rs: "a connection is closed if buffered data exceeds
\* max_frame_size before the codec can produce a frame".  The check comes before
\* the codec is asked, so pipelined frames that are all complete trip it too.
TooLargeOnlyWithoutFrame == reason = "FrameTooLarge" => ~FrameReady

-----------------------------------------------------------------------------
(***************************************************************************)
(* The connection implements OutboundStream.  Accepted are the messages    *)
(* the queue took and those handlers staged; a staged message is in the    *)
(* outbox, in writeBuf, on the wire, or was dropped by a stage.            *)
(***************************************************************************)
Accepted ==
  {sent[i].msg : i \in {a \in 1..Len(sent) : sent[a].kind # "Close"}}
    \cup {outbox[i].msg : i \in {a \in 1..Len(outbox) : outbox[a].kind = "Write"}}
    \cup {writeBuf[i] : i \in 1..Len(writeBuf)}
    \cup {wire[i] : i \in 1..Len(wire)}
    \cup stopped

Outbound == INSTANCE OutboundStream
              WITH accepted <- Accepted, delivered <- wire, vetoed <- stopped,
                   open <- rxOpen

\* Every step of the connection is a step of OutboundStream or leaves it alone.
ImplementsOutboundStream == Outbound!Spec
=============================================================================
