--------------------------- MODULE BridgeLifecycle ---------------------------
(***************************************************************************)
(* The life of the process: main(), from its command line to the end of    *)
(* its logs, and the handler of SIGINT and SIGTERM, which runs on top of   *)
(* main's thread or on a thread of the web server.  The client's part is   *)
(* MqttClientRun, which main enters with client->run().                    *)
(***************************************************************************)
EXTENDS MqttClientRun, FiniteSets

VARIABLES
  main,        \* where main() is
  mutex,       \* holder of g_mqtt_bridge_state's mutex: none or main
  exitProgram, \* MqttBridgeState::exit_program
  client,      \* MqttBridgeState::client has been set
  handled,     \* signals whose disposition is signal_handler
  frames,      \* frames[t]: the handlers on thread t, the innermost last
  process,     \* running, exited, killed by a signal or crashed
  libUp,       \* between lib_init and lib_cleanup
  serverUp,    \* the web server and its threads exist
  logsUp       \* there is a default logger

state == <<mutex, exitProgram, client>>
services == <<libUp, serverUp, logsUp>>
bridgeVars == <<main, state, handled, frames, process, services>>
vars == <<runVars, bridgeVars>>

Signals == {"SIGINT", "SIGTERM"}
Threads == {"main", "web"}

MainPoints ==
  {"configure", "serve", "init", "lock", "check", "create", "unlock",
   "run", "cleanup", "unserve", "end", "return"}

(***************************************************************************)
(* A handler resets SIGINT, then SIGTERM, then visits the shared state.    *)
(* locked: what it interrupts has a lock that stop() takes, of the library *)
(* or of the log that on_disconnect writes to.                             *)
(***************************************************************************)
Frame == [sig : Signals, at : {"int", "term", "visit"}, locked : BOOLEAN]

TypeOK ==
  /\ RunTypeOK
  /\ main \in MainPoints
  /\ mutex \in {"none", "main"}
  /\ exitProgram \in BOOLEAN
  /\ client \in BOOLEAN
  /\ handled \subseteq Signals
  /\ frames \in [Threads -> Seq(Frame)]
  /\ \A t \in Threads : Len(frames[t]) <= Cardinality(Signals)
  /\ process \in {"running", "exited", "killed", "crashed"}
  /\ libUp \in BOOLEAN
  /\ serverUp \in BOOLEAN
  /\ logsUp \in BOOLEAN

Init ==
  /\ RunInit
  /\ main = "configure"
  /\ mutex = "none"
  /\ exitProgram = FALSE
  /\ client = FALSE
  /\ handled = Signals
  /\ frames = [t \in Threads |-> <<>>]
  /\ process = "running"
  /\ libUp = FALSE
  /\ serverUp = FALSE
  /\ logsUp = TRUE

-----------------------------------------------------------------------------
(***************************************************************************)
(* main() runs while no handler runs on top of it.                         *)
(***************************************************************************)
MainRuns == process = "running" /\ frames["main"] = <<>>

Step(from, to) == MainRuns /\ main = from /\ main' = to

(***************************************************************************)
(* The command line and the configuration: go on, print the usage, only    *)
(* configure, return for a missing part, or throw where nothing catches,   *)
(* as the web server and its access log may too.                           *)
(***************************************************************************)
Configure ==
  /\ Step("configure", "serve")
  /\ UNCHANGED <<runVars, state, handled, frames, process, services>>

HelpOrNoRun ==
  /\ Step("configure", "end")
  /\ UNCHANGED <<runVars, state, handled, frames, process, services>>

MissingConfig ==
  /\ Step("configure", "return")
  /\ UNCHANGED <<runVars, state, handled, frames, process, services>>

SetUpThrows ==
  /\ MainRuns /\ main \in {"configure", "serve"}
  /\ process' = "crashed"
  /\ UNCHANGED <<runVars, main, state, handled, frames, services>>

\* The web server is made, then the library is initialised.
StartServer ==
  /\ Step("serve", "init")
  /\ serverUp' = TRUE
  /\ UNCHANGED <<runVars, state, handled, frames, process, libUp, logsUp>>

LibInit ==
  /\ Step("init", "lock")
  /\ libUp' = TRUE
  /\ UNCHANGED <<runVars, state, handled, frames, process, serverUp, logsUp>>

(***************************************************************************)
(* do_create_client, under the mutex: no client is made once the exit of   *)
(* the program has been asked for.                                         *)
(***************************************************************************)
LockState ==
  /\ Step("lock", "check")
  /\ mutex = "none"
  /\ mutex' = "main"
  /\ UNCHANGED <<runVars, exitProgram, client, handled, frames,
                 process, services>>

\* A mutant: the test of exit_program is the wrong way round.
CheckExitNot ==
  /\ MainRuns /\ main = "check"
  /\ main' = IF exitProgram THEN "create" ELSE "unlock"
  /\ UNCHANGED <<runVars, state, handled, frames, process, services>>

CheckExit ==
  /\ MainRuns /\ main = "check"
  /\ main' = IF exitProgram THEN "unlock" ELSE "create"
  /\ UNCHANGED <<runVars, state, handled, frames, process, services>>

CreateClient ==
  /\ Step("create", "unlock")
  /\ client' = TRUE
  /\ UNCHANGED <<runVars, mutex, exitProgram, handled, frames,
                 process, services>>

\* The constructor throws: the lock is released, and run() is not reached.
CreateThrows ==
  /\ Step("create", "cleanup")
  /\ mutex' = "none"
  /\ UNCHANGED <<runVars, exitProgram, client, handled, frames,
                 process, services>>

\* A mutant: the lock outlives the creation of the client.
UnlockStateLate ==
  /\ Step("unlock", "run")
  /\ UNCHANGED <<runVars, state, handled, frames, process, services>>

UnlockState ==
  /\ Step("unlock", "run")
  /\ mutex' = "none"
  /\ UNCHANGED <<runVars, exitProgram, client, handled, frames,
                 process, services>>

\* client->run() when there is no client: a null pointer is used.
RunWithoutClient ==
  /\ MainRuns /\ main = "run"
  /\ ~ client
  /\ process' = "crashed"
  /\ UNCHANGED <<runVars, main, state, handled, frames, services>>

Run ==
  /\ MainRuns /\ main = "run"
  /\ client
  /\ RunStep
  /\ UNCHANGED bridgeVars

ReturnFromRun ==
  /\ Step("run", "cleanup")
  /\ client /\ run = "done"
  /\ UNCHANGED <<runVars, state, handled, frames, process, services>>

\* lib_cleanup, http_server.reset(), which joins its threads, stop_all_logs.
LibCleanup ==
  /\ Step("cleanup", "unserve")
  /\ libUp' = FALSE
  /\ UNCHANGED <<runVars, state, handled, frames, process, serverUp, logsUp>>

\* A mutant: the logs are stopped without waiting for the server.
StopServerEarly ==
  /\ Step("unserve", "end")
  /\ UNCHANGED <<runVars, state, handled, frames, process, services>>

StopServer ==
  /\ Step("unserve", "end")
  /\ frames["web"] = <<>>
  /\ serverUp' = FALSE
  /\ UNCHANGED <<runVars, state, handled, frames, process, libUp, logsUp>>

StopLogs ==
  /\ Step("end", "return")
  /\ logsUp' = FALSE
  /\ UNCHANGED <<runVars, state, handled, frames, process, libUp, serverUp>>

Return ==
  /\ MainRuns /\ main = "return"
  /\ process' = "exited"
  /\ UNCHANGED <<runVars, main, state, handled, frames, services>>

-----------------------------------------------------------------------------
Top(t) == frames[t][Len(frames[t])]
Below(t) == SubSeq(frames[t], 1, Len(frames[t]) - 1)
InHandler(t) == process = "running" /\ frames[t] # <<>>
MoveTop(t, at) == [frames EXCEPT ![t][Len(frames[t])].at = at]

\* A mutant: a handler can be interrupted by the signal it handles.
BlockedNever(sig, t) == FALSE

\* While its handler runs on a thread, a signal is blocked there.
Blocked(sig, t) == \E i \in DOMAIN frames[t] : frames[t][i].sig = sig

\* A thread of the server, or main in the loop, may have such a lock.
MayHaveLock(t) ==
  IF frames[t] = <<>> /\ (t = "web" \/ main = "run") THEN BOOLEAN ELSE {FALSE}

(***************************************************************************)
(* A signal is delivered to a thread that does not block it.  With the     *)
(* default disposition it ends the process.                                *)
(***************************************************************************)
Deliver(sig, t) ==
  /\ process = "running"
  /\ t = "web" => serverUp
  /\ ~ Blocked(sig, t)
  /\ \/ /\ sig \in handled
        /\ \E locked \in MayHaveLock(t) :
             frames' = [frames EXCEPT ![t] =
                          Append(@, [sig |-> sig, at |-> "int",
                                     locked |-> locked])]
        /\ UNCHANGED process
     \/ /\ sig \notin handled
        /\ process' = "killed"
        /\ UNCHANGED frames
  /\ UNCHANGED <<runVars, main, state, handled, services>>

ResetInt(t) ==
  /\ InHandler(t) /\ Top(t).at = "int"
  /\ handled' = handled \ {"SIGINT"}
  /\ frames' = MoveTop(t, "term")
  /\ UNCHANGED <<runVars, main, state, process, services>>

ResetTerm(t) ==
  /\ InHandler(t) /\ Top(t).at = "term"
  /\ handled' = handled \ {"SIGTERM"}
  /\ frames' = MoveTop(t, "visit")
  /\ UNCHANGED <<runVars, main, state, process, services>>

(***************************************************************************)
(* do_exit_program under the mutex, and the return of the handler.  The    *)
(* mutex is not recursive: a handler on top of main waits for ever for the *)
(* mutex main holds, and so it does for a lock that what it interrupts has *)
(* and stop() needs.                                                       *)
(***************************************************************************)
\* A mutant: the handler does not take the mutex.
MayVisitUnlocked == TRUE

MayVisit == mutex = "none"

LocksFree == \A t \in Threads : frames[t] # <<>> => ~ frames[t][1].locked

DoExitProgram ==
  /\ exitProgram' = TRUE
  /\ IF client THEN LocksFree /\ Stop ELSE UNCHANGED runVars

VisitState(t) ==
  /\ InHandler(t) /\ Top(t).at = "visit"
  /\ MayVisit
  /\ DoExitProgram
  /\ frames' = [frames EXCEPT ![t] = Below(t)]
  /\ UNCHANGED <<main, mutex, client, handled, process, services>>

HandlerStep(t) == ResetInt(t) \/ ResetTerm(t) \/ VisitState(t)

-----------------------------------------------------------------------------
(***************************************************************************)
(* main gets on with what it does; what the broker sends and what goes     *)
(* wrong is not promised, and no signal is.                                *)
(***************************************************************************)
MainStep ==
  \/ Configure \/ HelpOrNoRun \/ MissingConfig \/ SetUpThrows
  \/ StartServer \/ LibInit
  \/ LockState \/ CheckExit \/ CreateClient \/ CreateThrows
  \/ UnlockState \/ RunWithoutClient \/ ReturnFromRun
  \/ LibCleanup \/ StopServer \/ StopLogs \/ Return

Next ==
  \/ MainStep
  \/ Run
  \/ \E sig \in Signals, t \in Threads : Deliver(sig, t)
  \/ \E t \in Threads : HandlerStep(t)

RunProgress == Run /\ Progress

Spec ==
  /\ Init /\ [][Next]_vars
  /\ WF_vars(MainStep)
  /\ WF_vars(RunProgress)
  /\ \A t \in Threads : WF_vars(HandlerStep(t))

-----------------------------------------------------------------------------
(***************************************************************************)
(* No request to exit is lost between the handler and main: whichever of   *)
(* them comes first to the shared state, either there is no client or it   *)
(* has been stopped (yy_mqtt_bridge.cpp:74-89 and 220-231).                *)
(***************************************************************************)
StopReachesClient == exitProgram /\ client => stopCalled

(***************************************************************************)
(* What is torn down is not used any more: the client has no socket, so    *)
(* that a late stop() calls nothing back, once the library is cleaned up;  *)
(* and no thread of the server is left once the logs are stopped           *)
(* (yy_mqtt_bridge.cpp:244-249).                                           *)
(***************************************************************************)
TornDown == main \in {"unserve", "end", "return"}

TeardownOrder ==
  /\ TornDown => socket = "none" /\ ~ connected /\ ~ libUp
  /\ ~ logsUp => ~ serverUp /\ socket = "none"

(***************************************************************************)
(* main only runs a client that is not there if exit was asked for before  *)
(* there was one (yy_mqtt_bridge.cpp:220-233).                             *)
(***************************************************************************)
NullOnlyAfterExit == main = "run" /\ ~ client => exitProgram

(***************************************************************************)
(* A handler returns, unless another signal ends the process first, or it  *)
(* waits for itself: for the mutex, which main holds under it, or in       *)
(* stop() for a lock that what it interrupts has (yy_mqtt_bridge.cpp:88,   *)
(* mqtt_client.cpp:102 and 172).                                           *)
(***************************************************************************)
SelfDeadlock ==
  \/ mutex = "main" /\ frames["main"] # <<>>
  \/ client /\ ~ LocksFree

HandlerReturns ==
  \A t \in Threads :
    frames[t] # <<>>
      ~> (frames[t] = <<>> \/ process # "running" \/ SelfDeadlock)

(***************************************************************************)
(* A signal that finds the client in its loop, serving a socket or waiting *)
(* to reconnect, ends the process, unless a callback throws before and its *)
(* on_disconnect never comes, or another handler waits for itself          *)
(* (mqtt_client.cpp:151-173).                                              *)
(***************************************************************************)
SignalEndsProgram ==
  (exitProgram /\ StopHeard)
    ~> \/ process # "running" \/ SelfDeadlock
       \/ run = "wait" /\ connected

(***************************************************************************)
(* Every connection, the first and those after a reconnect, gets the       *)
(* subscriptions, if it lasts and main is not stopped (mqtt_client.cpp:    *)
(* 73-91).                                                                 *)
(***************************************************************************)
ServedIsSubscribed ==
  (run = "loop" /\ socket = "open")
    ~> \/ subscribed \/ socket # "open" \/ run # "loop"
       \/ process # "running" \/ SelfDeadlock

(***************************************************************************)
(* However the loop ended, if its connection is closed then run() does not *)
(* wait for a callback that never comes (mqtt_client.cpp:162-167).  Only a *)
(* handler that waits for itself keeps main from its end.                  *)
(***************************************************************************)
ClosedLoopEnds ==
  (run = "disconnect" /\ socket = "none")
    ~> (process # "running" \/ SelfDeadlock)
=============================================================================
