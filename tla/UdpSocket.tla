------------------------------ MODULE UdpSocket ------------------------------
(***************************************************************************)
(* One UDP socket task of rs-netty with everything that acts on it: the    *)
(* peers, the application tasks that hold a DatagramChannel, the user's    *)
(* handler, the UdpServerHandle and the Life hooks.                        *)
(*                                                                         *)
(* The code is transport/udp/socket.rs (the task), the poll loop and       *)
(* outbox drain of pipeline/datagram/runtime.rs, context/datagram.rs,      *)
(* channel/datagram.rs and transport/udp/{server,client,config}.rs.        *)
(*                                                                         *)
(* One task serves every peer, so one failing datagram ends it for all.    *)
(* Unlike a TCP connection it keeps the receiver of its command queue      *)
(* until the stopped hook has returned.  An action is the code between two *)
(* await points.  What the network does to a datagram before recv_from     *)
(* (loss, reordering, duplication) shows here as which one is received.    *)
(***************************************************************************)
EXTENDS Integers, Sequences

CONSTANTS
  Peers,        (* Addresses datagrams come from and go to.                *)
  Writers,      (* Application tasks that hold a clone of the channel.     *)
  OnServer,     (* TRUE when shutdown_rx is Some (client sockets: None).   *)
  QueueSize,    (* outbound_queue_size as the user sets it.                *)
  DefaultSize,  (* Default read_buffer_capacity and max_datagram_size.     *)
  Capacities,   (* Values the user sets for read_buffer_capacity.          *)
  MaxSizes,     (* Values the user sets for max_datagram_size.             *)
  Sizes,        (* Payload sizes of the datagrams that come in.            *)
  Faults,       (* Where this instance lets an operation fail.             *)
  MaxOps,       (* Bound: channel operations of one application task.      *)
  MaxDatagrams, (* Bound: datagrams that come in.                          *)
  MaxStaged,    (* Bound: messages staged by the first handler invocation, *)
                (* the next stages one less, and so on.                    *)
  MaxOutbox     (* Bound: entries waiting in the handler's outbox.         *)

AllFaults == {"started", "stopped", "recv", "decode", "stages", "outbound",
              "send", "handler", "panic"}

ASSUME ActorsAssumption == /\ Peers # {}
                           /\ Writers \cap Nat = {}
                           /\ OnServer \in BOOLEAN
ASSUME SizesAssumption  == /\ QueueSize \in Nat
                           /\ DefaultSize \in Nat
                           /\ Capacities \subseteq Nat
                           /\ MaxSizes \subseteq Nat
                           /\ Sizes \subseteq Nat
ASSUME FaultsAssumption == Faults \subseteq AllFaults
ASSUME BoundsAssumption == /\ MaxOps \in Nat
                           /\ MaxDatagrams \in Nat
                           /\ MaxStaged \in Nat
                           /\ MaxOutbox \in Nat

VARIABLES
  pc,             (* Where the socket task is.                             *)
  config,         (* UdpSocketConfig after the builder: capacity, max.     *)
  queue,          (* Every command the queue accepted, in order (history). *)
  taken,          (* How many of them rx.recv() has returned.              *)
  rxOpen,         (* The task still owns the receiver.                     *)
  writer,         (* What each application task is doing.                  *)
  count,          (* Channel operations each application task has begun.   *)
  shared,         (* The application tasks hold the channel.               *)
  received,       (* Datagrams handed to the pipeline, in order (history). *)
  outbox,         (* DatagramOutboxHandle: what the handler has staged.    *)
  staged,         (* Messages staged by the current invocation (history).  *)
  waiting,        (* The handler awaits the answer of a flush.             *)
  result,         (* What the handler returned, or "running".              *)
  closeRequested, (* DatagramContext::close_requested.                     *)
  writeBuf,       (* Messages in write_buf.                                *)
  net,            (* Datagrams sent: destination and messages (history).   *)
  dropped,        (* Messages a stage stopped or encoded to no byte.       *)
  confirmed,      (* Messages whose flush was answered Ok (history).       *)
  denied,         (* Messages whose flush was answered Err (history).      *)
  shutdown,       (* The watch channel: no, requested, or handle dropped.  *)
  outcome,        (* What the loop and then the task returned.             *)
  hooks           (* Life hooks that ran, in order (history).              *)

queueVars   == <<queue, taken, rxOpen>>
appVars     == <<writer, count, shared>>
handlerVars == <<outbox, staged, waiting, result, closeRequested>>
sendVars    == <<writeBuf, net, dropped>>
answerVars  == <<confirmed, denied>>
lifeVars    == <<shutdown, outcome, hooks>>

vars == <<pc, config, queueVars, appVars, received, handlerVars, sendVars,
          answerVars, lifeVars>>

-----------------------------------------------------------------------------
(***************************************************************************)
(* A message is known by who wrote it, an application task or the handler  *)
(* of the n-th datagram, by its number there and by its destination.       *)
(***************************************************************************)
Msg     == [src : Writers \cup Nat, n : Nat, to : Peers]
Kinds   == {"WriteTo", "WriteToAndFlush", "Close"}
Command == [kind : Kinds, msg : Msg]
Staged  == [kind : {"WriteTo"}, msg : Msg] \cup [kind : {"Flush"}]
Steps   == {"starting", "top", "select", "stages", "handler", "drain",
            "drainsend", "encode", "send", "stopping", "stopped"}

Configs  == {c \in [capacity : Nat, max : Nat] : 1 <= c.max /\ c.max <= c.capacity}
Datagram == [size : Nat, read : Nat]
Sent     == [to : Peers, content : Seq(Msg)]

QueueCap      == IF QueueSize > 1 THEN QueueSize ELSE 1
QueueLen      == Len(queue) - taken
Current       == queue[taken]
HandlerMsg(to) == [src |-> Len(received), n |-> Len(staged) + 1, to |-> to]
Awaiting      == {w \in Writers : writer[w].kind = "awaiting"}
Pending(w)    == writer[w].msg
Idle(m)       == [kind |-> "idle", msg |-> m]
NoMsg(w)      == [src |-> w, n |-> 0, to |-> CHOOSE p \in Peers : TRUE]
Larger(a, b)  == IF a > b THEN a ELSE b
Smaller(a, b) == IF a < b THEN a ELSE b

(***************************************************************************)
(* The builder: every setter normalizes, and so do start and run, so the   *)
(* order of the calls shows in the capacity.                               *)
(***************************************************************************)
\* Mutation: a maximum above the capacity is kept
normalize_max(c) == [c EXCEPT !.max = Larger(c.max, 1)]

normalize(c) ==
  LET max == Larger(c.max, 1)
  IN [max |-> max, capacity |-> Larger(Larger(c.capacity, max), 1)]

Default == [capacity |-> DefaultSize, max |-> DefaultSize]
read_buffer_capacity(c, value) == normalize([c EXCEPT !.capacity = value])
max_datagram_size(c, value)    == normalize([c EXCEPT !.max = value])

Built ==
  {normalize(c) : c \in
     {Default}
       \cup {max_datagram_size(Default, m) : m \in MaxSizes}
       \cup {read_buffer_capacity(Default, r) : r \in Capacities}
       \cup {read_buffer_capacity(max_datagram_size(Default, m), r) :
               m \in MaxSizes, r \in Capacities}
       \cup {max_datagram_size(read_buffer_capacity(Default, r), m) :
               m \in MaxSizes, r \in Capacities}}

-----------------------------------------------------------------------------
(***************************************************************************)
(* The end of the loop.  The stopped hook runs while the queue still       *)
(* exists; only when the task returns are the commands in it dropped with  *)
(* their answer senders.                                                   *)
(***************************************************************************)
End(o) ==
  /\ pc' = "stopping"
  /\ outcome' = o
  /\ UNCHANGED <<shutdown, hooks>>

Continue(step) == pc' = step /\ UNCHANGED lifeVars

\* Mutation: the queue is dropped without its answer senders
ReleaseForgets ==
  /\ rxOpen' = FALSE
  /\ UNCHANGED <<queue, taken, appVars, answerVars>>

Release ==
  /\ rxOpen' = FALSE
  /\ writer' = [w \in Writers |->
                  IF w \in Awaiting THEN Idle(Pending(w)) ELSE writer[w]]
  /\ denied' = denied \cup {Pending(w) : w \in Awaiting}
  /\ UNCHANGED <<queue, taken, count, shared, confirmed>>

\* Mutation: a refused start is followed by the stopped hook
StartRefusedStopping ==
  /\ pc' = "stopping"
  /\ outcome' = "Err"
  /\ UNCHANGED <<queueVars, appVars, answerVars, shutdown, hooks>>

StartRefused ==
  /\ pc' = "stopped"
  /\ outcome' = "Err"
  /\ Release
  /\ UNCHANGED <<shutdown, hooks>>

\* socket.local_addr()? or the hook fails
StartedHook ==
  /\ pc = "starting"
  /\ \/ /\ pc' = "top"
        /\ hooks' = Append(hooks, "started")
        /\ UNCHANGED <<queueVars, appVars, answerVars, shutdown, outcome>>
     \/ "started" \in Faults /\ StartRefused
  /\ UNCHANGED <<config, received, handlerVars, sendVars>>

\* The hook's error replaces an Ok, and the loop's own error is kept
StoppedHook ==
  /\ pc = "stopping"
  /\ pc' = "stopped"
  /\ hooks' = Append(hooks, "stopped")
  /\ \/ UNCHANGED outcome
     \/ "stopped" \in Faults /\ outcome' = "Err"
  /\ Release
  /\ UNCHANGED <<config, received, handlerVars, sendVars, shutdown>>

-----------------------------------------------------------------------------
(***************************************************************************)
(* Application tasks: DatagramChannel::write_to, write_to_and_flush and    *)
(* close, and UdpServerHandle::shutdown or its drop: shutdown::wait        *)
(* returns also when the sender is gone.                                   *)
(***************************************************************************)
Begin(w, kind, to) ==
  /\ writer[w].kind = "idle"
  /\ shared
  /\ count[w] < MaxOps
  /\ count' = [count EXCEPT ![w] = @ + 1]
  /\ writer' = [writer EXCEPT ![w] =
                  [kind |-> kind,
                   msg |-> [src |-> w, n |-> count[w] + 1, to |-> to]]]
  /\ UNCHANGED <<pc, config, queueVars, shared, received, handlerVars,
                 sendVars, answerVars, lifeVars>>

Enqueue(w) ==
  /\ writer[w].kind \in Kinds
  /\ rxOpen
  /\ QueueLen < QueueCap
  /\ queue' = Append(queue, writer[w])
  /\ writer' = [writer EXCEPT ![w].kind =
                  IF @ = "WriteToAndFlush" THEN "awaiting" ELSE "idle"]
  /\ UNCHANGED <<pc, config, taken, rxOpen, count, shared, received,
                 handlerVars, sendVars, answerVars, lifeVars>>

Rejected(w) ==
  /\ writer[w].kind \in Kinds
  /\ ~rxOpen
  /\ writer' = [writer EXCEPT ![w].kind = "idle"]
  /\ denied' = IF writer[w].kind = "WriteToAndFlush"
                 THEN denied \cup {Pending(w)} ELSE denied
  /\ UNCHANGED <<pc, config, queueVars, count, shared, received, handlerVars,
                 sendVars, confirmed, lifeVars>>

HandleUsed ==
  /\ OnServer
  /\ shutdown = "no"
  /\ pc \notin {"stopping", "stopped"}
  /\ shutdown' \in {"requested", "dropped"}
  /\ UNCHANGED <<pc, config, queueVars, appVars, received, handlerVars,
                 sendVars, answerVars, outcome, hooks>>

-----------------------------------------------------------------------------
(***************************************************************************)
(* The head of the loop and select!.                                       *)
(***************************************************************************)
Elsewhere == UNCHANGED <<config, queueVars, appVars, answerVars>>

CheckShutdown ==
  /\ pc = "top"
  /\ IF shutdown = "requested" THEN End("Ok") ELSE Continue("select")
  /\ Elsewhere
  /\ UNCHANGED <<received, handlerVars, sendVars>>

\* Mutation: only a requested shutdown wakes the select
SelectShutdownRequested ==
  /\ pc = "select"
  /\ shutdown = "requested"
  /\ End("Ok")
  /\ Elsewhere
  /\ UNCHANGED <<received, handlerVars, sendVars>>

SelectShutdown ==
  /\ pc = "select"
  /\ shutdown # "no"
  /\ End("Ok")
  /\ Elsewhere
  /\ UNCHANGED <<received, handlerVars, sendVars>>

\* Mutation: the size check compares with the buffer
TooLargeForBuffer(size) == Smaller(size, config.capacity) > config.capacity

\* recv_from cuts a datagram to the buffer; then comes the size check
TooLarge(size) == Smaller(size, config.capacity) > config.max

SelectReceive ==
  /\ pc = "select"
  /\ Len(received) < MaxDatagrams
  /\ \/ \E size \in Sizes :
          \/ /\ ~TooLarge(size)
             /\ received' = Append(received,
                   [size |-> size, read |-> Smaller(size, config.capacity)])
             /\ staged' = <<>>
             /\ closeRequested' = FALSE
             /\ Continue("stages")
          \/ /\ TooLarge(size) \/ "decode" \in Faults
             /\ End("Err")
             /\ UNCHANGED <<received, staged, closeRequested>>
     \/ /\ "recv" \in Faults
        /\ End("Err")
        /\ UNCHANGED <<received, staged, closeRequested>>
  /\ Elsewhere
  /\ UNCHANGED <<outbox, waiting, result, sendVars>>

SelectCommand ==
  /\ pc = "select"
  /\ taken < Len(queue)
  /\ taken' = taken + 1
  /\ IF queue[taken + 1].kind = "Close" THEN End("Ok") ELSE Continue("encode")
  /\ UNCHANGED <<config, queue, rxOpen, appVars, received, handlerVars,
                 sendVars, answerVars>>

-----------------------------------------------------------------------------
(***************************************************************************)
(* process_outbound or encode_datagram_outbound, then flush_datagram: a    *)
(* message that a stage stopped, or that encodes to no byte at all, leaves *)
(* write_buf empty and nothing is sent.                                    *)
(***************************************************************************)
Encoded(m) ==
  \/ writeBuf' = Append(writeBuf, m) /\ UNCHANGED <<net, dropped>>
  \/ dropped' = dropped \cup {m} /\ UNCHANGED <<writeBuf, net>>

\* Mutation: write_buf is not cleared
FlushDatagramKeeps(to) ==
  /\ net' = IF writeBuf = <<>> THEN net
            ELSE Append(net, [to |-> to, content |-> writeBuf])
  /\ UNCHANGED <<writeBuf, dropped>>

FlushDatagram(to) ==
  /\ net' = IF writeBuf = <<>> THEN net
            ELSE Append(net, [to |-> to, content |-> writeBuf])
  /\ writeBuf' = <<>>
  /\ UNCHANGED dropped

\* Mutation: whatever happened is answered Ok
AnswerOk(ok) ==
  /\ IF Current.kind = "WriteToAndFlush"
       THEN /\ writer' = [writer EXCEPT ![Current.msg.src] = Idle(Current.msg)]
            /\ confirmed' = confirmed \cup {Current.msg}
       ELSE UNCHANGED <<writer, confirmed>>
  /\ UNCHANGED <<count, shared, denied>>

\* done.send(ack)
Answer(ok) ==
  /\ IF Current.kind = "WriteToAndFlush"
       THEN /\ writer' = [writer EXCEPT ![Current.msg.src] = Idle(Current.msg)]
            /\ confirmed' = IF ok THEN confirmed \cup {Current.msg}
                                  ELSE confirmed
            /\ denied' = IF ok THEN denied ELSE denied \cup {Current.msg}
       ELSE UNCHANGED <<writer, answerVars>>
  /\ UNCHANGED <<count, shared>>

EncodeCommand ==
  /\ pc = "encode"
  /\ \/ /\ Encoded(Current.msg)
        /\ Continue("send")
        /\ UNCHANGED <<appVars, answerVars>>
     \/ /\ "outbound" \in Faults
        /\ Answer(FALSE)
        /\ End("Err")
        /\ UNCHANGED sendVars
  /\ UNCHANGED <<config, queueVars, received, handlerVars>>

SendCommand ==
  /\ pc = "send"
  /\ \/ /\ FlushDatagram(Current.msg.to)
        /\ Answer(TRUE)
        /\ Continue("top")
     \/ /\ "send" \in Faults
        /\ writeBuf # <<>>
        /\ Answer(FALSE)
        /\ End("Err")
        /\ UNCHANGED sendVars
  /\ UNCHANGED <<config, queueVars, received, handlerVars>>

-----------------------------------------------------------------------------
(***************************************************************************)
(* process_inbound_flushable: stages, then the handler, polled until it    *)
(* returns, and drained whenever it is pending with a flush in its outbox. *)
(***************************************************************************)
HasFlush == \E i \in 1..Len(outbox) : outbox[i].kind = "Flush"

AfterHandled == IF closeRequested THEN End("Ok") ELSE Continue("top")

InboundStages ==
  /\ pc = "stages"
  /\ \/ /\ Continue("handler")
        /\ waiting' = FALSE
        /\ result' = "running"
     \/ AfterHandled /\ UNCHANGED <<waiting, result>>
     \/ /\ "stages" \in Faults
        /\ End("Err")
        /\ UNCHANGED <<waiting, result>>
  /\ Elsewhere
  /\ UNCHANGED <<received, outbox, staged, closeRequested, sendVars>>

HandlerRuns == pc = "handler" /\ ~waiting

HandlerStay == UNCHANGED <<config, queueVars, writer, count, received, sendVars,
                           answerVars, lifeVars>>

\* Mutation: the outbox is a stack
PushFront(command) == outbox' = <<command>> \o outbox

Push(command) == outbox' = Append(outbox, command)

\* DatagramContext::write answers the peer of the datagram, write_to any
HandlerWrites(to) ==
  /\ HandlerRuns
  /\ Len(staged) + Len(received) <= MaxStaged
  /\ Len(outbox) < MaxOutbox
  /\ staged' = Append(staged, HandlerMsg(to))
  /\ Push([kind |-> "WriteTo", msg |-> HandlerMsg(to)])
  /\ HandlerStay
  /\ UNCHANGED <<pc, shared, waiting, result, closeRequested>>

HandlerFlushes ==
  /\ HandlerRuns
  /\ Len(outbox) < MaxOutbox
  /\ Push([kind |-> "Flush"])
  /\ waiting' = TRUE
  /\ HandlerStay
  /\ UNCHANGED <<pc, shared, staged, result, closeRequested>>

\* The handler drops the future of a flush it has polled
HandlerAbandonsFlush ==
  /\ pc = "handler"
  /\ waiting
  /\ waiting' = FALSE
  /\ HandlerStay
  /\ UNCHANGED <<pc, shared, outbox, staged, result, closeRequested>>

HandlerCloses ==
  /\ HandlerRuns
  /\ ~closeRequested
  /\ closeRequested' = TRUE
  /\ HandlerStay
  /\ UNCHANGED <<pc, shared, outbox, staged, waiting, result>>

\* DatagramContext::channel
HandlerShares ==
  /\ HandlerRuns
  /\ ~shared
  /\ shared' = TRUE
  /\ HandlerStay
  /\ UNCHANGED <<pc, handlerVars>>

HandlerReturns ==
  /\ HandlerRuns
  /\ result' \in {"Ok"} \cup (IF "handler" \in Faults THEN {"Err"} ELSE {})
  /\ pc' = "drain"
  /\ HandlerStay
  /\ UNCHANGED <<shared, outbox, staged, waiting, closeRequested>>

HandlerPending ==
  /\ pc = "handler"
  /\ HasFlush
  /\ pc' = "drain"
  /\ HandlerStay
  /\ UNCHANGED <<shared, handlerVars>>

-----------------------------------------------------------------------------
(***************************************************************************)
(* drain_datagram_outbox: each message is sent before the next is encoded. *)
(* The first failure returns, and the rest of the outbox goes with the     *)
(* handler.                                                                *)
(***************************************************************************)
DrainWrite ==
  /\ pc = "drain"
  /\ outbox # <<>>
  /\ Head(outbox).kind = "WriteTo"
  /\ \/ Encoded(Head(outbox).msg) /\ Continue("drainsend")
     \/ "outbound" \in Faults /\ End("Err") /\ UNCHANGED sendVars
  /\ Elsewhere
  /\ UNCHANGED <<received, handlerVars>>

DrainSend ==
  /\ pc = "drainsend"
  /\ \/ /\ FlushDatagram(Head(outbox).msg.to)
        /\ outbox' = Tail(outbox)
        /\ Continue("drain")
     \/ /\ "send" \in Faults
        /\ writeBuf # <<>>
        /\ End("Err")
        /\ UNCHANGED <<outbox, sendVars>>
  /\ Elsewhere
  /\ UNCHANGED <<received, staged, waiting, result, closeRequested>>

\* Mutation: a flush empties the outbox
DrainFlushClears ==
  /\ pc = "drain"
  /\ outbox # <<>>
  /\ Head(outbox).kind = "Flush"
  /\ outbox' = <<>>
  /\ Continue("drain")
  /\ Elsewhere
  /\ UNCHANGED <<received, staged, waiting, result, closeRequested, sendVars>>

DrainFlush ==
  /\ pc = "drain"
  /\ outbox # <<>>
  /\ Head(outbox).kind = "Flush"
  /\ outbox' = Tail(outbox)
  /\ Continue("drain")
  /\ Elsewhere
  /\ UNCHANGED <<received, staged, waiting, result, closeRequested, sendVars>>

\* A drain between two polls: the handler runs on, its flush answered Ok
DrainResumes ==
  /\ pc = "drain"
  /\ outbox = <<>>
  /\ result = "running"
  /\ waiting' = FALSE
  /\ confirmed' = IF waiting
                    THEN confirmed \cup {staged[i] : i \in 1..Len(staged)}
                    ELSE confirmed
  /\ Continue("handler")
  /\ UNCHANGED <<config, queueVars, appVars, received, outbox, staged, result,
                 closeRequested, sendVars, denied>>

\* The last drain is done: the handler's own result decides
DrainEnds ==
  /\ pc = "drain"
  /\ outbox = <<>>
  /\ result # "running"
  /\ IF result = "Err" THEN End("Err") ELSE AfterHandled
  /\ Elsewhere
  /\ UNCHANGED <<received, handlerVars, sendVars>>

(***************************************************************************)
(* A panic in a hook, the codec, a stage or the handler unwinds the task:  *)
(* everything is dropped.  In select it is decode_datagram that panics,    *)
(* over a datagram that passed the size check.                             *)
(***************************************************************************)
UserCode == {"starting", "stages", "handler", "drain", "encode", "stopping"}

Panic ==
  /\ "panic" \in Faults
  /\ \/ pc \in UserCode
     \/ /\ pc = "select"
        /\ Len(received) < MaxDatagrams
        /\ \E size \in Sizes : ~TooLarge(size)
  /\ pc' = "stopped"
  /\ outcome' = "Panic"
  /\ Release
  /\ UNCHANGED <<config, received, handlerVars, sendVars, shutdown, hooks>>

-----------------------------------------------------------------------------
Init ==
  /\ pc = "starting"
  /\ config \in Built
  /\ queue = <<>> /\ taken = 0 /\ rxOpen = TRUE
  /\ writer = [w \in Writers |-> Idle(NoMsg(w))]
  /\ count = [w \in Writers |-> 0]
  /\ shared = ~OnServer
  /\ received = <<>>
  /\ outbox = <<>> /\ staged = <<>> /\ waiting = FALSE
  /\ result = "Ok" /\ closeRequested = FALSE
  /\ writeBuf = <<>> /\ net = <<>> /\ dropped = {}
  /\ confirmed = {} /\ denied = {}
  /\ shutdown = "no" /\ outcome = "running" /\ hooks = <<>>

Application ==
  \/ \E w \in Writers : \/ \E kind \in Kinds, to \in Peers : Begin(w, kind, to)
                        \/ Enqueue(w)
                        \/ Rejected(w)
  \/ HandleUsed

Select == SelectReceive \/ SelectCommand \/ SelectShutdown

Handler == \/ \E to \in Peers : HandlerWrites(to)
           \/ HandlerFlushes \/ HandlerAbandonsFlush \/ HandlerCloses
           \/ HandlerShares \/ HandlerReturns \/ HandlerPending

Drain == DrainWrite \/ DrainSend \/ DrainFlush \/ DrainResumes \/ DrainEnds

Task == \/ StartedHook \/ CheckShutdown \/ Select
        \/ EncodeCommand \/ SendCommand
        \/ InboundStages \/ Handler \/ Drain
        \/ Panic \/ StoppedHook

Next == Application \/ Task

Spec == Init /\ [][Next]_vars

(***************************************************************************)
(* Fairness, as for a TCP connection: the task is polled, the handler      *)
(* returns, select! serves a branch that keeps being ready, and tokio      *)
(* hands queue capacity to the waiting senders.                            *)
(***************************************************************************)
Fairness ==
  /\ WF_vars(Task)
  /\ SF_vars(HandlerReturns)
  /\ SF_vars(SelectCommand)
  /\ SF_vars(SelectShutdown)
  /\ \A w \in Writers : SF_vars(Enqueue(w)) /\ WF_vars(Rejected(w))

FairSpec == Spec /\ Fairness

-----------------------------------------------------------------------------
(***************************************************************************)
(* Correctness.                                                            *)
(***************************************************************************)

\* The type of every variable; the configuration is a normalized one, whose
\* buffer holds a datagram of the largest accepted size.
TypeOK ==
  /\ pc \in Steps
  /\ config \in Configs
  /\ queue \in Seq(Command)
  /\ taken \in 0..Len(queue)
  /\ rxOpen \in BOOLEAN
  /\ writer \in [Writers -> [kind : {"idle", "awaiting"} \cup Kinds, msg : Msg]]
  /\ count \in [Writers -> Nat]
  /\ shared \in BOOLEAN
  /\ received \in Seq(Datagram)
  /\ outbox \in Seq(Staged)
  /\ staged \in Seq(Msg)
  /\ waiting \in BOOLEAN
  /\ result \in {"running", "Ok", "Err"}
  /\ closeRequested \in BOOLEAN
  /\ writeBuf \in Seq(Msg)
  /\ net \in Seq(Sent)
  /\ dropped \subseteq Msg
  /\ confirmed \subseteq Msg
  /\ denied \subseteq Msg
  /\ shutdown \in {"no", "requested", "dropped"}
  /\ outcome \in {"running", "Ok", "Err", "Panic"}
  /\ hooks \in Seq({"started", "stopped"})

OnNet(m)   == \E i \in 1..Len(net) : \E j \in 1..Len(net[i].content) :
                net[i].content[j] = m
Settled(m) == OnNet(m) \/ m \in dropped

\* write_buf is shared by all peers: every datagram that goes out is one
\* message, sent to its own destination, and nothing of it is left for the next.
OneDatagramPerMessage ==
  /\ \A i \in 1..Len(net) :
       /\ Len(net[i].content) = 1
       /\ net[i].content[1].to = net[i].to
  /\ pc \in {"top", "select", "stages", "handler", "drain", "encode"} =>
       writeBuf = <<>>

\* An answer tells the truth: Ok means that the message was sent, or that a
\* stage dropped it or it has no byte; an error that it was not sent.
AnswersAreTruthful ==
  /\ \A m \in confirmed : Settled(m)
  /\ \A m \in denied : ~OnNet(m)

\* Between two select branches, and when the loop ended well (shutdown, a Close
\* command or a handler's close), every command taken and every message the
\* last handler staged was sent or dropped: close loses nothing before it.
NothingHeldBack ==
  pc \in {"top", "select"} \/ (pc = "stopping" /\ outcome = "Ok") =>
    /\ \A a \in 1..taken : queue[a].kind # "Close" => Settled(queue[a].msg)
    /\ \A i \in 1..Len(staged) : Settled(staged[i])

FromWriter(m) == m.src \in Writers
MsgAt(i)      == net[i].content[1]

\* Datagrams leave in the order of the queue, those of handlers in the order of
\* the inbound datagrams and of the writes, and nothing gets between the
\* datagrams of one invocation.
SendOrder ==
  \A i, j \in 1..Len(net) : i < j =>
    LET m == MsgAt(i)
        k == MsgAt(j)
    IN CASE FromWriter(m) /\ FromWriter(k) ->
              \E a, b \in 1..taken :
                a < b /\ queue[a].msg = m /\ queue[b].msg = k
         [] ~FromWriter(m) /\ ~FromWriter(k) ->
              /\ m.src < k.src \/ (m.src = k.src /\ m.n < k.n)
              /\ m.src = k.src => \A h \in i..j : MsgAt(h).src = m.src
         [] OTHER -> TRUE

\* The pipeline sees whole datagrams of at most the maximum size, whenever the
\* buffer is larger than that maximum.
WholeDatagrams ==
  \A i \in 1..Len(received) :
    /\ received[i].read <= config.max
    /\ config.capacity > config.max => received[i].read = received[i].size

\* The hooks pair up, the stopped hook runs while the queue is still there, and
\* once the task is over nobody waits for an answer.
LifePaired ==
  /\ hooks \in {<<>>, <<"started">>, <<"started", "stopped">>}
  /\ pc = "stopping" => rxOpen /\ hooks = <<"started">>
  /\ pc = "stopped" =>
       /\ ~rxOpen /\ Awaiting = {}
       /\ hooks = <<"started">> => outcome = "Panic"
       /\ outcome = "Ok" => hooks = <<"started", "stopped">>

\* A requested shutdown, or a dropped handle, ends the task however many
\* datagrams and commands keep coming.
ShutdownEnds == shutdown # "no" ~> pc = "stopped"

\* Every write_to_and_flush is answered.
AnswerComes ==
  \A w \in Writers :
    writer[w].kind = "awaiting" ~> writer[w].kind # "awaiting"

\* transport/udp/config.rs: "Oversized datagrams are rejected before the
\* datagram pipeline runs".  recv_from cuts a datagram to the buffer first, so a
\* buffer of just the maximum size lets the head of an oversized datagram in.
OversizedRejected ==
  \A i \in 1..Len(received) : received[i].size <= config.max
=============================================================================
