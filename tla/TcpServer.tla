------------------------------ MODULE TcpServer ------------------------------
(***************************************************************************)
(* TcpServer::start, the accept loop run_tcp_server with its JoinSet, and  *)
(* TcpServerHandle, all of transport/tcp/server.rs.                        *)
(*                                                                         *)
(* A connection task appears only as far as its server can tell: it opens, *)
(* loops between shutdown::requested and select!, closes and finishes.     *)
(* StreamConnection is the task in detail.                                 *)
(*                                                                         *)
(* The watch channel is its value, signal, and the set of receivers that   *)
(* have not seen the latest change: changed() is ready for those only, and *)
(* a receiver that subscribes later has seen it.                           *)
(***************************************************************************)
EXTENDS Integers, FiniteSets

CONSTANTS
  Conns,    (* Connections that peers may make.                            *)
  Handles,  (* Threads that share the TcpServerHandle.                     *)
  Server,   (* The server's own watch receiver.                            *)
  Faults    (* Where this instance lets an operation fail.                 *)

AllFaults == {"started", "accept", "setup", "factory", "opened", "panic"}

ASSUME ServerAssumption == Server \notin Conns
ASSUME FaultsAssumption == Faults \subseteq AllFaults

VARIABLES
  pc,          (* Where the server is.                                     *)
  conn,        (* Where each connection is.                                *)
  signal,      (* The value of the watch channel.                          *)
  unseen,      (* Receivers with a change they have not seen.              *)
  handle,      (* What each thread does with TcpServerHandle::shutdown.    *)
  result,      (* Ok, the source of the error returned, or "running".      *)
  hooks,       (* How often each Life hook ran, connections by name.       *)
  late,        (* Connections accepted after the signal (history).         *)
  worked       (* Branches a connection served after the signal (history). *)

vars == <<pc, conn, signal, unseen, handle, result, hooks, late, worked>>

\* The server's task ends "done" after its stopped hook, "unwound" without it
Steps  == {"starting", "spawned", "top", "select", "stopping", "joining",
           "stopped", "done", "refused", "unwound"}
Phases == {"none", "backlog", "opening", "top", "select", "closing",
           "finished", "joined", "dropped", "aborted"}

\* Spawned into the JoinSet and still running
Live  == {c \in Conns : conn[c] \in {"opening", "top", "select", "closing"}}
Tasks == Live \cup {c \in Conns : conn[c] = "finished"}

\* shutdown_tx.send(true): every receiver there is gets a change to see.  The
\* receiver of a connection lives as long as its runtime.
Listening == {c \in Conns : conn[c] \in {"opening", "top", "select"}}
SendSignal ==
  /\ signal' = TRUE
  /\ unseen' = Listening \cup (IF pc \in {"spawned", "top", "select"} THEN {Server} ELSE {})

-----------------------------------------------------------------------------
(***************************************************************************)
(* Peers and the handle.  The kernel completes connections as long as the  *)
(* listener exists.  shutdown() reads the value and then sends.            *)
(***************************************************************************)
Bound == pc \notin {"done", "refused", "unwound"}

Connect(c) ==
  /\ Bound
  /\ conn[c] = "none"
  /\ conn' = [conn EXCEPT ![c] = "backlog"]
  /\ UNCHANGED <<pc, signal, unseen, handle, result, hooks, late, worked>>

ShutdownReads(h) ==
  /\ pc \notin {"starting", "refused"}
  /\ handle[h] = "held"
  /\ handle' = [handle EXCEPT ![h] = IF signal THEN "called" ELSE "sending"]
  /\ UNCHANGED <<pc, conn, signal, unseen, result, hooks, late, worked>>

ShutdownSends(h) ==
  /\ handle[h] = "sending"
  /\ handle' = [handle EXCEPT ![h] = "called"]
  /\ IF pc \in {"done", "unwound"}      \* no receiver is left: send fails
       THEN UNCHANGED <<signal, unseen>>
       ELSE SendSignal
  /\ UNCHANGED <<pc, conn, result, hooks, late, worked>>

-----------------------------------------------------------------------------
(***************************************************************************)
(* The server.                                                             *)
(***************************************************************************)
\* The listener is dropped, and with it the connections nobody accepted
DropListener == conn' = [c \in Conns |-> IF conn[c] = "backlog" THEN "dropped"
                                                               ELSE conn[c]]

\* start, after the bind: a failing started hook drops the listener
StartedHook ==
  /\ pc = "starting"
  /\ \/ /\ pc' = "spawned"
        /\ hooks' = [hooks EXCEPT ![Server] = {"opened"}]
        /\ UNCHANGED <<conn, result>>
     \/ /\ "started" \in Faults
        /\ pc' = "refused"
        /\ result' = "HookErr"
        /\ DropListener
        /\ UNCHANGED hooks
  /\ UNCHANGED <<signal, unseen, handle, late, worked>>

\* run_tcp_server asks for local_addr()? first: an error ends the task with
\* neither signal nor stopped hook, though the started hook has run
TaskStarts ==
  /\ pc = "spawned"
  /\ \/ /\ pc' = "top"
        /\ UNCHANGED <<conn, unseen, result>>
     \/ /\ "setup" \in Faults
        /\ pc' = "unwound"
        /\ result' = "AddrErr"
        /\ unseen' = {}
        /\ DropListener
  /\ UNCHANGED <<signal, handle, hooks, late, worked>>

\* The accept loop ends with a result
EndLoop(r) ==
  /\ pc' = "stopping"
  /\ result' = r

\* Mutation: the loop relies on changed() alone, and looks at the value never
LoopHeadBlind ==
  /\ pc = "top"
  /\ pc' = "select"
  /\ UNCHANGED <<conn, signal, unseen, handle, result, hooks, late, worked>>

LoopHead ==
  /\ pc = "top"
  /\ IF signal THEN EndLoop("Ok") ELSE pc' = "select" /\ UNCHANGED result
  /\ UNCHANGED <<conn, signal, unseen, handle, hooks, late, worked>>

\* The new connection subscribes: the value the channel has counts as seen
Accept(c) ==
  /\ pc = "select"
  /\ conn[c] = "backlog"
  /\ conn' = [conn EXCEPT ![c] = "opening"]
  /\ late' = IF signal THEN late \cup {c} ELSE late
  /\ pc' = "top"
  /\ UNCHANGED <<signal, unseen, handle, result, hooks, worked>>

\* accept()? fails, or set_nodelay()? or local_addr()? of an accepted stream
AcceptFails ==
  /\ pc = "select"
  /\ \/ "accept" \in Faults /\ UNCHANGED conn
     \/ /\ "setup" \in Faults
        /\ \E c \in Conns : /\ conn[c] = "backlog"
                            /\ conn' = [conn EXCEPT ![c] = "dropped"]
  /\ EndLoop("AcceptErr")
  /\ UNCHANGED <<signal, unseen, handle, hooks, late, worked>>

\* The pipeline factory panics: the task unwinds, the listener is dropped and
\* the JoinSet aborts what it holds
FactoryPanics ==
  /\ pc = "select"
  /\ "factory" \in Faults
  /\ \E c \in Conns : conn[c] = "backlog"
  /\ pc' = "unwound"
  /\ conn' = [c \in Conns |-> IF c \in Live THEN "aborted"
                              ELSE IF conn[c] \in {"backlog", "finished"}
                                THEN "dropped" ELSE conn[c]]
  /\ unseen' = {}
  /\ UNCHANGED <<signal, handle, result, hooks, late, worked>>

Changed ==
  /\ pc = "select"
  /\ Server \in unseen
  /\ unseen' = unseen \ {Server}
  /\ IF signal THEN EndLoop("Ok") ELSE pc' = "top" /\ UNCHANGED result
  /\ UNCHANGED <<conn, signal, handle, hooks, late, worked>>

\* Mutation: an error of a connection ends the server
ConnectionResultFatal(c) ==
  IF hooks[c] = {} THEN EndLoop("ConnErr") ELSE pc' = "top" /\ UNCHANGED result

\* handle_connection_result: whatever the task returned is logged
ConnectionResult(c) == pc' = "top" /\ UNCHANGED result

Joined(c) ==
  /\ pc = "select"
  /\ conn[c] = "finished"
  /\ conn' = [conn EXCEPT ![c] = "joined"]
  /\ ConnectionResult(c)
  /\ UNCHANGED <<signal, unseen, handle, hooks, late, worked>>

\* Mutation: only the handle signals
StopSilently ==
  /\ pc = "stopping"
  /\ pc' = "joining"
  /\ UNCHANGED <<conn, signal, unseen, handle, result, hooks, late, worked>>

\* Whatever ended the loop, the connections are told
Stop ==
  /\ pc = "stopping"
  /\ pc' = "joining"
  /\ IF signal THEN UNCHANGED <<signal, unseen>> ELSE SendSignal
  /\ UNCHANGED <<conn, handle, result, hooks, late, worked>>

\* Mutation: one more join in place of all of them
JoinOne ==
  /\ pc = "joining"
  /\ \/ \E c \in Conns : /\ conn[c] = "finished"
                         /\ conn' = [conn EXCEPT ![c] = "joined"]
     \/ Tasks = {} /\ UNCHANGED conn
  /\ pc' = "stopped"
  /\ UNCHANGED <<signal, unseen, handle, result, hooks, late, worked>>

\* while let Some(joined) = connections.join_next()
JoinRest ==
  /\ pc = "joining"
  /\ \/ \E c \in Conns : /\ conn[c] = "finished"
                         /\ conn' = [conn EXCEPT ![c] = "joined"]
                         /\ UNCHANGED pc
     \/ /\ Tasks = {}
        /\ pc' = "stopped"
        /\ UNCHANGED conn
  /\ UNCHANGED <<signal, unseen, handle, result, hooks, late, worked>>

\* The stopped hook, its error logged; then the listener is dropped
StoppedHook ==
  /\ pc = "stopped"
  /\ pc' = "done"
  /\ hooks' = [hooks EXCEPT ![Server] = @ \cup {"closed"}]
  /\ DropListener
  /\ UNCHANGED <<signal, unseen, handle, result, late, worked>>

-----------------------------------------------------------------------------
(***************************************************************************)
(* The connection task, as run_stream_connection_with_life shows it.       *)
(***************************************************************************)
Served(c) == worked' = IF signal THEN [worked EXCEPT ![c] = @ + 1] ELSE worked

ConnOpens(c) ==
  /\ conn[c] = "opening"
  /\ \/ /\ conn' = [conn EXCEPT ![c] = "top"]
        /\ hooks' = [hooks EXCEPT ![c] = {"opened"}]
        /\ UNCHANGED unseen
     \/ /\ "opened" \in Faults
        /\ conn' = [conn EXCEPT ![c] = "finished"]
        /\ unseen' = unseen \ {c}
        /\ UNCHANGED hooks
  /\ UNCHANGED <<pc, signal, handle, result, late, worked>>

\* Mutation: only changed() is watched
ConnHeadBlind(c) ==
  /\ conn[c] = "top"
  /\ conn' = [conn EXCEPT ![c] = "select"]
  /\ UNCHANGED <<pc, signal, unseen, handle, result, hooks, late, worked>>

ConnHead(c) ==
  /\ conn[c] = "top"
  /\ IF signal THEN /\ conn' = [conn EXCEPT ![c] = "closing"]
                    /\ unseen' = unseen \ {c}
               ELSE /\ conn' = [conn EXCEPT ![c] = "select"]
                    /\ UNCHANGED unseen
  /\ UNCHANGED <<pc, signal, handle, result, hooks, late, worked>>

\* A read or a command is served
ConnWorks(c) ==
  /\ conn[c] = "select"
  /\ conn' = [conn EXCEPT ![c] = "top"]
  /\ Served(c)
  /\ UNCHANGED <<pc, signal, unseen, handle, result, hooks, late>>

\* The shutdown branch, or a branch that ends the connection
ConnCloses(c) ==
  /\ conn[c] = "select"
  /\ \/ c \in unseen /\ UNCHANGED worked
     \/ Served(c)
  /\ conn' = [conn EXCEPT ![c] = "closing"]
  /\ unseen' = unseen \ {c}
  /\ UNCHANGED <<pc, signal, handle, result, hooks, late>>

\* The closed hook; whether it fails only changes what the server logs
ConnClosed(c) ==
  /\ conn[c] = "closing"
  /\ conn' = [conn EXCEPT ![c] = "finished"]
  /\ hooks' = [hooks EXCEPT ![c] = @ \cup {"closed"}]
  /\ UNCHANGED <<pc, signal, unseen, handle, result, late, worked>>

ConnPanics(c) ==
  /\ "panic" \in Faults
  /\ conn[c] \in {"opening", "select", "closing"}
  /\ conn' = [conn EXCEPT ![c] = "finished"]
  /\ unseen' = unseen \ {c}
  /\ hooks' = [hooks EXCEPT ![c] = @ \cup {"panic"}]
  /\ UNCHANGED <<pc, signal, handle, result, late, worked>>

-----------------------------------------------------------------------------
Init ==
  /\ pc = "starting"
  /\ conn = [c \in Conns |-> "none"]
  /\ signal = FALSE
  /\ unseen = {}
  /\ handle = [h \in Handles |-> "held"]
  /\ result = "running"
  /\ hooks = [x \in Conns \cup {Server} |-> {}]
  /\ late = {}
  /\ worked = [c \in Conns |-> 0]

AcceptLoop == \/ LoopHead \/ AcceptFails \/ FactoryPanics \/ Changed
              \/ \E c \in Conns : Accept(c) \/ Joined(c)

ServerTask == \/ StartedHook \/ TaskStarts \/ AcceptLoop
              \/ Stop \/ JoinRest \/ StoppedHook

ConnTask(c) == \/ ConnOpens(c) \/ ConnHead(c) \/ ConnWorks(c) \/ ConnCloses(c)
               \/ ConnClosed(c) \/ ConnPanics(c)

Next == \/ ServerTask
        \/ \E c \in Conns : ConnTask(c) \/ Connect(c)
        \/ \E h \in Handles : ShutdownReads(h) \/ ShutdownSends(h)

Spec == Init /\ [][Next]_vars

(***************************************************************************)
(* Fairness: the runtime polls every task that can move.  A connection     *)
(* that looks for work in select! gets some or is told to stop.  select!   *)
(* picks at random among the ready branches, so a connection that stays    *)
(* finished is joined, and one that waits in the backlog is accepted.      *)
(***************************************************************************)
Fairness ==
  /\ WF_vars(ServerTask)
  /\ \A c \in Conns : /\ SF_vars(Accept(c)) /\ SF_vars(Joined(c))
                      /\ WF_vars(ConnOpens(c)) /\ WF_vars(ConnHead(c))
                      /\ WF_vars(c \in unseen /\ ConnCloses(c))
                      /\ WF_vars(ConnClosed(c))
  /\ \A h \in Handles : WF_vars(ShutdownSends(h))

FairSpec == Spec /\ Fairness

-----------------------------------------------------------------------------
(***************************************************************************)
(* Correctness.                                                            *)
(***************************************************************************)

\* The type of every variable.  A connection serves at most one branch of its
\* select! after the signal, the one that raced it.
TypeOK ==
  /\ pc \in Steps
  /\ conn \in [Conns -> Phases]
  /\ signal \in BOOLEAN
  /\ unseen \subseteq Conns \cup {Server}
  /\ handle \in [Handles -> {"held", "sending", "called"}]
  /\ result \in {"running", "Ok", "HookErr", "AddrErr", "AcceptErr"}
  /\ hooks \in [Conns \cup {Server} -> SUBSET {"opened", "closed", "panic"}]
  /\ late \subseteq Conns
  /\ worked \in [Conns -> 0..1]

\* The stopped hook runs when every connection task has been joined, and each
\* connection that opened has had its closed hook by then, unless user code
\* panicked.
StoppedAfterJoined ==
  "closed" \in hooks[Server] =>
    /\ Tasks = {}
    /\ \A c \in Conns : hooks[c] = {} \/ hooks[c] \cap {"closed", "panic"} # {}

\* After the signal the server accepts at most one more connection, and that
\* one serves nothing.
LateIsIdle ==
  /\ \A c, d \in late : c = d
  /\ \A c \in late : worked[c] = 0

\* The server ends once shutdown was requested or its accept loop failed.
ServerEnds == signal \/ pc = "stopping" ~> pc \in {"done", "unwound"}

\* What becomes of one connection does not end the server: unless shutdown is
\* asked for, the server fails to start or to accept, or the factory panics,
\* who waits in the backlog is accepted.
OthersAreAccepted ==
  \A c \in Conns : conn[c] = "backlog" ~>
    \/ conn[c] \notin {"backlog", "dropped"}
    \/ result = "AcceptErr" \/ pc \in {"refused", "unwound"}
    \/ \E h \in Handles : handle[h] # "held"
=============================================================================
