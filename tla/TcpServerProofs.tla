--------------------------- MODULE TcpServerProofs ---------------------------
(***************************************************************************)
(* Theorems about TcpServer, for every set of connections and of threads   *)
(* that share the handle, and every set of faults.                         *)
(***************************************************************************)
EXTENDS TcpServer, TLAPS

\* The SMT backend does not see by itself that TRUE and FALSE are in BOOLEAN.
LEMMA Booleans == TRUE \in BOOLEAN /\ FALSE \in BOOLEAN
BY Zenon

(***************************************************************************)
(* The stopped hook.  Two facts lead to it: once JoinRest found the        *)
(* JoinSet empty nothing fills it again, for the accept loop has ended     *)
(* and was the only one to spawn; and a task that finished has run its     *)
(* closed hook if it opened.                                               *)
(***************************************************************************)
Settled(c) == hooks[c] = {} \/ hooks[c] \cap {"closed", "panic"} # {}

Shape ==
  /\ conn \in [Conns -> Phases]
  /\ hooks \in [Conns \cup {Server} -> SUBSET {"opened", "closed", "panic"}]

Stopping ==
  /\ "closed" \in hooks[Server] => pc = "done"
  /\ pc \in {"stopped", "done"} =>
       \A c \in Conns : conn[c] \in {"none", "backlog", "dropped", "joined"}
  /\ \A c \in Conns : conn[c] = "aborted" => pc = "unwound"

Paired ==
  \A c \in Conns :
    /\ conn[c] \in {"none", "backlog", "opening"} => hooks[c] = {}
    /\ conn[c] \in {"finished", "joined", "dropped"} => Settled(c)

StopInv == Shape /\ Stopping /\ Paired

LEMMA ConnStep ==
  ASSUME StopInv, NEW c \in Conns, ConnTask(c) \/ Connect(c)
  PROVE  StopInv'
<1> USE ServerAssumption DEF StopInv, Shape, Stopping, Paired, Settled, Phases
<1>1. CASE Connect(c)
  BY <1>1 DEF Connect
<1>2. CASE ConnOpens(c)
  BY <1>2 DEF ConnOpens
<1>3. CASE ConnHead(c)
  BY <1>3 DEF ConnHead
<1>4. CASE ConnWorks(c)
  BY <1>4 DEF ConnWorks
<1>5. CASE ConnCloses(c)
  BY <1>5 DEF ConnCloses
<1>6. CASE ConnClosed(c)
  BY <1>6 DEF ConnClosed
<1>7. CASE ConnPanics(c)
  BY <1>7 DEF ConnPanics
<1>8. QED
  BY <1>1, <1>2, <1>3, <1>4, <1>5, <1>6, <1>7 DEF ConnTask

LEMMA ServerStep ==
  ASSUME StopInv, ServerTask
  PROVE  StopInv'
<1> USE ServerAssumption DEF StopInv, Shape, Stopping, Paired, Settled, Phases
<1>1. CASE StartedHook
  BY <1>1 DEF StartedHook, DropListener
<1>12. CASE TaskStarts
  BY <1>12 DEF TaskStarts, DropListener
<1>2. CASE LoopHead
  BY <1>2 DEF LoopHead, EndLoop
<1>3. CASE AcceptFails
  BY <1>3 DEF AcceptFails, EndLoop
<1>4. CASE FactoryPanics
  BY <1>4 DEF FactoryPanics, Live
<1>5. CASE Changed
  BY <1>5 DEF Changed, EndLoop
<1>6. ASSUME NEW c \in Conns, Accept(c)
      PROVE  StopInv'
  BY <1>6 DEF Accept
<1>7. ASSUME NEW c \in Conns, Joined(c)
      PROVE  StopInv'
  BY <1>7 DEF Joined, ConnectionResult
<1>8. CASE Stop
  BY <1>8 DEF Stop
<1>9. CASE JoinRest
  <2>1. CASE UNCHANGED pc
    BY <1>9, <2>1 DEF JoinRest
  <2>2. CASE Tasks = {} /\ UNCHANGED conn
    <3>1. \A c \in Conns : conn[c] \in {"none", "backlog", "dropped", "joined"}
      BY <1>9, <2>2 DEF Tasks, Live, JoinRest
    <3>2. QED
      BY <1>9, <2>2, <3>1 DEF JoinRest
  <2>3. QED
    BY <1>9, <2>1, <2>2 DEF JoinRest
<1>10. CASE StoppedHook
  BY <1>10 DEF StoppedHook, DropListener
<1>11. QED
  BY <1>1, <1>2, <1>3, <1>4, <1>5, <1>6, <1>7, <1>8, <1>9, <1>10, <1>12
  DEF ServerTask, AcceptLoop

LEMMA StopStep == StopInv /\ [Next]_vars => StopInv'
<1> SUFFICES ASSUME StopInv, [Next]_vars PROVE StopInv'
  OBVIOUS
<1>1. ASSUME NEW h \in Handles, ShutdownReads(h) \/ ShutdownSends(h)
      PROVE  StopInv'
  BY <1>1 DEF ShutdownReads, ShutdownSends, StopInv, Shape, Stopping, Paired,
              Settled
<1>2. CASE UNCHANGED vars
  BY <1>2 DEF vars, StopInv, Shape, Stopping, Paired, Settled
<1>3. QED
  BY <1>1, <1>2, ConnStep, ServerStep DEF Next

\* When the stopped hook has run, every connection task was joined and its
\* hooks pair up.
THEOREM StoppedLast == Spec => []StoppedAfterJoined
<1>1. Init => StopInv
  BY ServerAssumption
  DEF Init, StopInv, Shape, Stopping, Paired, Settled, Phases
<1>2. StopInv => StoppedAfterJoined
  BY DEF StopInv, Shape, Stopping, Paired, Settled, StoppedAfterJoined, Tasks,
         Live
<1>3. QED
  BY <1>1, <1>2, StopStep, PTL DEF Spec

-----------------------------------------------------------------------------
(***************************************************************************)
(* Late connections.  A server that accepted one is on its way from that   *)
(* accept to the loop head, where it sees the signal, and so is the        *)
(* connection: neither gets to a select! any more.                         *)
(***************************************************************************)
LateInv ==
  /\ conn \in [Conns -> Phases]
  /\ worked \in [Conns -> Int]
  /\ late \subseteq Conns
  /\ late # {} => signal = TRUE /\ pc # "select"
  /\ \A c, d \in late : c = d
  /\ \A c \in late : conn[c] \notin {"none", "backlog", "select"}
  /\ \A c \in Conns : c \in late \/ conn[c] \in {"none", "backlog"} => worked[c] = 0

LEMMA LateStep == LateInv /\ [Next]_vars => LateInv'
<1> SUFFICES ASSUME LateInv, [Next]_vars PROVE LateInv'
  OBVIOUS
<1> USE DEF LateInv, Phases
<1>1. ASSUME NEW c \in Conns, Accept(c)
      PROVE  LateInv'
  <2>1. late = {}
    BY <1>1 DEF Accept
  <2>2. QED
    BY <1>1, <2>1 DEF Accept
<1>2. ASSUME NEW c \in Conns, ConnWorks(c)
      PROVE  LateInv'
  <2>1. c \notin late
    BY <1>2 DEF ConnWorks
  <2>2. QED
    BY <1>2, <2>1 DEF ConnWorks, Served
<1>3. ASSUME NEW c \in Conns, ConnCloses(c)
      PROVE  LateInv'
  <2>1. c \notin late
    BY <1>3 DEF ConnCloses
  <2>2. QED
    BY <1>3, <2>1 DEF ConnCloses, Served
<1>4. ASSUME NEW c \in Conns, ConnHead(c)
      PROVE  LateInv'
  BY <1>4 DEF ConnHead
<1>5. ASSUME NEW c \in Conns,
             Connect(c) \/ ConnOpens(c) \/ ConnClosed(c) \/ ConnPanics(c)
      PROVE  LateInv'
  BY <1>5 DEF Connect, ConnOpens, ConnClosed, ConnPanics
<1>6. CASE StartedHook \/ TaskStarts
  BY <1>6 DEF StartedHook, TaskStarts, DropListener
<1>7. CASE LoopHead \/ Changed
  BY <1>7 DEF LoopHead, Changed, EndLoop
<1>8. CASE AcceptFails
  BY <1>8 DEF AcceptFails, EndLoop
<1>9. CASE FactoryPanics
  BY <1>9 DEF FactoryPanics, Live
<1>10. ASSUME NEW c \in Conns, Joined(c)
       PROVE  LateInv'
  BY <1>10 DEF Joined, ConnectionResult
<1>11. CASE Stop
  BY <1>11 DEF Stop, SendSignal
<1>12. CASE JoinRest
  BY <1>12 DEF JoinRest
<1>13. CASE StoppedHook
  BY <1>13 DEF StoppedHook, DropListener
<1>14. ASSUME NEW h \in Handles, ShutdownReads(h) \/ ShutdownSends(h)
       PROVE  LateInv'
  BY <1>14 DEF ShutdownReads, ShutdownSends, SendSignal
<1>15. CASE UNCHANGED vars
  BY <1>15 DEF vars
<1>16. QED
  BY <1>1, <1>2, <1>3, <1>4, <1>5, <1>6, <1>7, <1>8, <1>9, <1>10, <1>11, <1>12,
     <1>13, <1>14, <1>15
  DEF Next, ServerTask, AcceptLoop, ConnTask

\* At most one connection is accepted after the signal, and it serves nothing.
THEOREM LateServesNothing == Spec => []LateIsIdle
<1>1. Init => LateInv
  BY DEF Init, LateInv, Phases
<1>2. LateInv => LateIsIdle
  BY DEF LateInv, LateIsIdle
<1>3. QED
  BY <1>1, <1>2, LateStep, PTL DEF Spec

-----------------------------------------------------------------------------
(***************************************************************************)
(* Type correctness.  That no connection serves two branches after the     *)
(* signal needs to know where the first one left it: on its way to the     *)
(* head of its loop, where it sees the signal.                             *)
(***************************************************************************)
WorkedOnce == \A c \in Conns : worked[c] = 1 => signal = TRUE /\ conn[c] # "select"

TypeInv == TypeOK /\ WorkedOnce

\* The steps of the server, of the handle and of the peers serve no connection.
LEMMA OthersType ==
  ASSUME TypeInv,
         \/ ServerTask \/ UNCHANGED vars
         \/ \E c \in Conns : Connect(c)
         \/ \E h \in Handles : ShutdownReads(h) \/ ShutdownSends(h)
  PROVE  TypeInv'
<1> USE ServerAssumption, Booleans DEF TypeInv, TypeOK, WorkedOnce, Steps, Phases
<1>0. signal \in BOOLEAN /\ (SendSignal => signal' \in BOOLEAN /\ signal' = TRUE
                                             /\ unseen' \subseteq Conns \cup {Server})
  BY DEF SendSignal, Listening
<1>1. ASSUME NEW c \in Conns, Connect(c)
      PROVE  TypeInv'
  BY <1>1 DEF Connect
<1>2. ASSUME NEW h \in Handles, ShutdownReads(h)
      PROVE  TypeInv'
  BY <1>2 DEF ShutdownReads
<1>3. ASSUME NEW h \in Handles, ShutdownSends(h)
      PROVE  TypeInv'
  BY <1>0, <1>3 DEF ShutdownSends
<1>4. CASE StartedHook \/ TaskStarts
  BY <1>4 DEF StartedHook, TaskStarts, DropListener
<1>5. CASE LoopHead \/ Changed
  BY <1>5 DEF LoopHead, Changed, EndLoop
<1>6. CASE AcceptFails
  BY <1>6 DEF AcceptFails, EndLoop
<1>7. CASE FactoryPanics
  BY <1>7 DEF FactoryPanics, Live
<1>8. ASSUME NEW c \in Conns, Accept(c)
      PROVE  TypeInv'
  BY <1>8 DEF Accept
<1>9. ASSUME NEW c \in Conns, Joined(c)
      PROVE  TypeInv'
  BY <1>9 DEF Joined, ConnectionResult
<1>10. CASE Stop
  BY <1>0, <1>10 DEF Stop
<1>11. CASE JoinRest
  BY <1>11 DEF JoinRest
<1>12. CASE StoppedHook
  BY <1>12 DEF StoppedHook, DropListener
<1>13. CASE UNCHANGED vars
  BY <1>13 DEF vars
<1>14. QED
  BY <1>1, <1>2, <1>3, <1>4, <1>5, <1>6, <1>7, <1>8, <1>9, <1>10, <1>11, <1>12, <1>13
  DEF ServerTask, AcceptLoop

LEMMA ConnType ==
  ASSUME TypeInv, NEW c \in Conns, ConnTask(c)
  PROVE  TypeInv'
<1> USE ServerAssumption, Booleans DEF TypeInv, TypeOK, WorkedOnce, Phases
<1>1. CASE ConnOpens(c)
  BY <1>1 DEF ConnOpens
<1>2. CASE ConnHead(c)
  <2>1. /\ conn' \in [Conns -> Phases] /\ unseen' \subseteq Conns \cup {Server}
        /\ UNCHANGED <<pc, signal, handle, result, hooks, late, worked>>
        /\ ~signal \/ conn'[c] = "closing"
        /\ \A d \in Conns \ {c} : conn'[d] = conn[d]
    BY <1>2 DEF ConnHead
  <2>2. WorkedOnce'
    BY <2>1
  <2>3. QED
    BY <2>1, <2>2
<1>3. conn[c] = "select" => worked[c] = 0
  OBVIOUS
<1>4. ASSUME conn[c] = "select", Served(c)
      PROVE  /\ worked' \in [Conns -> 0..1]
             /\ worked'[c] = 1 => signal = TRUE
             /\ \A d \in Conns \ {c} : worked'[d] = worked[d]
  <2>1. CASE signal
    <3>1. worked' = [worked EXCEPT ![c] = 1] /\ signal = TRUE
      BY <1>3, <1>4, <2>1 DEF Served
    <3>2. QED
      BY <3>1
  <2>2. CASE ~signal
    <3>1. worked' = worked
      BY <1>4, <2>2 DEF Served
    <3>2. QED
      BY <1>3, <1>4, <3>1
  <2>3. QED
    BY <2>1, <2>2
<1>5. CASE ConnWorks(c)
  <2>1. conn' \in [Conns -> Phases] /\ conn'[c] = "top" /\ conn[c] = "select" /\ Served(c)
          /\ \A d \in Conns \ {c} : conn'[d] = conn[d]
    BY <1>5 DEF ConnWorks
  <2>2. QED
    BY <1>4, <1>5, <2>1 DEF ConnWorks
<1>6. CASE ConnCloses(c)
  <2>1. conn' \in [Conns -> Phases] /\ conn'[c] = "closing" /\ conn[c] = "select"
          /\ \A d \in Conns \ {c} : conn'[d] = conn[d]
    BY <1>6 DEF ConnCloses
  <2>2. /\ worked' \in [Conns -> 0..1]
        /\ worked'[c] = 1 => signal = TRUE
        /\ \A d \in Conns \ {c} : worked'[d] = worked[d]
    BY <1>3, <1>4, <1>6, <2>1 DEF ConnCloses
  <2>3. QED
    BY <1>6, <2>1, <2>2 DEF ConnCloses
<1>7. CASE ConnClosed(c)
  BY <1>7 DEF ConnClosed
<1>8. CASE ConnPanics(c)
  BY <1>8 DEF ConnPanics
<1>9. QED
  BY <1>1, <1>2, <1>5, <1>6, <1>7, <1>8 DEF ConnTask

\* Every variable keeps its type; no connection serves more than the one branch
\* that raced the signal.
THEOREM TypeCorrect == Spec => []TypeOK
<1>1. Init => TypeInv
  <2> SUFFICES ASSUME Init PROVE TypeInv
    OBVIOUS
  <2>1. pc \in Steps /\ conn \in [Conns -> Phases] /\ signal \in BOOLEAN
    BY Booleans DEF Init, Steps, Phases
  <2>2. hooks \in [Conns \cup {Server} -> SUBSET {"opened", "closed", "panic"}]
    BY DEF Init
  <2>3. /\ unseen \subseteq Conns \cup {Server} /\ late \subseteq Conns
        /\ handle \in [Handles -> {"held", "sending", "called"}]
        /\ result \in {"running", "Ok", "HookErr", "AddrErr", "AcceptErr"}
    BY DEF Init
  <2>4. worked \in [Conns -> 0..1] /\ WorkedOnce
    BY DEF Init, WorkedOnce
  <2>5. QED
    BY <2>1, <2>2, <2>3, <2>4 DEF TypeInv, TypeOK
<1>2. TypeInv /\ [Next]_vars => TypeInv'
  BY OthersType, ConnType DEF Next
<1>3. TypeInv => TypeOK
  BY DEF TypeInv
<1>4. QED
  BY <1>1, <1>2, <1>3, PTL DEF Spec
=============================================================================
