----------------------- MODULE BridgeLifecycleProofs -----------------------
(***************************************************************************)
(* The safety of BridgeLifecycle for every behaviour of signals, broker    *)
(* and callbacks: no exit request misses the client, run() returns without *)
(* a socket, and nothing that was torn down is in use.                     *)
(***************************************************************************)
EXTENDS BridgeLifecycle, SequenceTheorems, FiniteSetTheorems, TLAPS

\* While main is between the lock and the unlock it has the mutex, and the
\* exit it has found not asked for cannot be asked for.  It leaves a client
\* behind, or an exit that was.
CreationIsLocked ==
  /\ main \in {"check", "create", "unlock"} => mutex = "main"
  /\ main = "create" => exitProgram = FALSE
  /\ main \in {"unlock", "run"} => client = TRUE \/ exitProgram = TRUE

\* m_is_connected and the socket, and what each way out of the loop leaves.
ConnectionInv ==
  /\ connected = TRUE => socket # "none"
  /\ run \in {"new", "connecting"} => socket = "none"
  /\ run \in {"disconnect", "wait"} /\ socket # "none" => connected = TRUE
  /\ socket \in {"open", "refused"} => connected = TRUE
  /\ run = "done" => socket = "none"
  /\ phase # "serving" => socket = "none"

\* How far run() is tells how far main is.
RunInv ==
  /\ main \in {"configure", "serve", "init", "lock", "check", "create",
               "unlock"} => run = "new"
  /\ main \in {"cleanup", "unserve", "end", "return"} => run \in {"new", "done"}
  /\ main \in {"configure", "serve", "init", "unserve", "end", "return"}
       => libUp = FALSE
  /\ main \in {"configure", "serve", "end", "return"} => serverUp = FALSE
  /\ logsUp = FALSE => main = "return"

LifeInv ==
  /\ connected \in BOOLEAN /\ libUp \in BOOLEAN /\ serverUp \in BOOLEAN
  /\ logsUp \in BOOLEAN /\ exitProgram \in BOOLEAN
  /\ CreationIsLocked
  /\ ConnectionInv
  /\ RunInv
  /\ StopReachesClient

-----------------------------------------------------------------------------
(***************************************************************************)
(* A disconnect, whoever calls it and whenever, keeps the connection's     *)
(* part.                                                                   *)
(***************************************************************************)
LEMMA DisconnectKeeps ==
  ASSUME ConnectionInv, connected \in BOOLEAN, Disconnect,
         phase' = phase, run' = run \/ (run = "disconnect" /\ run' = "wait")
  PROVE  ConnectionInv' /\ connected' \in BOOLEAN
BY DEF ConnectionInv, Disconnect, Close, OnDisconnect

(***************************************************************************)
(* So does every step of run() and of the library under it.                *)
(***************************************************************************)
LEMMA RunStepKeeps ==
  ASSUME ConnectionInv, connected \in BOOLEAN, RunStep
  PROVE  /\ ConnectionInv' /\ connected' \in BOOLEAN
         /\ stopCalled' = stopCalled
PROOF
  <1>1. CASE StartRun
    BY <1>1 DEF ConnectionInv, StartRun, library
  <1>2. CASE Connect
    BY <1>2 DEF ConnectionInv, Connect
  <1>3. CASE WritePacket
    BY <1>3 DEF ConnectionInv, WritePacket, Close, OnDisconnect
  <1>4. CASE LoopReturns
    BY <1>4 DEF ConnectionInv, LoopReturns, library
  <1>5. CASE AwaitReconnect
    BY <1>5 DEF ConnectionInv, AwaitReconnect
  <1>6. CASE StartReconnect
    BY <1>6 DEF ConnectionInv, StartReconnect
  <1>7. CASE Reconnect
    BY <1>7 DEF ConnectionInv, Reconnect
  <1>8. CASE RunDisconnect
    BY <1>8, DisconnectKeeps DEF RunDisconnect
  <1>9. CASE WaitDisconnected
    BY <1>9 DEF ConnectionInv, WaitDisconnected, library
  <1>10. CASE \E accepted \in BOOLEAN : Connack(accepted)
    BY <1>10 DEF ConnectionInv, Connack, OnConnect
  <1>11. CASE LoseConnection
    BY <1>11 DEF ConnectionInv, LoseConnection, Close, OnDisconnect
  <1>12. CASE FatalError
    BY <1>12 DEF ConnectionInv, FatalError, Close, OnDisconnect
  <1>13. CASE CallbackThrows
    BY <1>13 DEF ConnectionInv, CallbackThrows, library
  <1> QED
    BY <1>1, <1>2, <1>3, <1>4, <1>5, <1>6, <1>7, <1>8, <1>9, <1>10, <1>11,
       <1>12, <1>13 DEF RunStep, Progress, Happens

(***************************************************************************)
(* A handler may set exit_program at any time the mutex is free, and stops *)
(* the client if there is one.                                             *)
(***************************************************************************)
LEMMA VisitStateKeeps ==
  ASSUME LifeInv, NEW t \in Threads, VisitState(t)
  PROVE  LifeInv'
PROOF
  <1>1. /\ mutex = "none" /\ exitProgram' = TRUE
        /\ UNCHANGED <<main, mutex, client, process, services>>
    BY DEF VisitState, MayVisit, DoExitProgram
  <1>2. main \notin {"check", "create", "unlock"}
    BY <1>1 DEF LifeInv, CreationIsLocked
  <1>3. CASE client
    <2>1. Disconnect /\ stopCalled' = TRUE /\ UNCHANGED <<run, phase>>
      BY <1>3 DEF VisitState, DoExitProgram, Stop
    <2>2. ConnectionInv' /\ connected' \in BOOLEAN
      BY <2>1, DisconnectKeeps DEF LifeInv
    <2> QED
      BY <1>1, <1>2, <2>1, <2>2
         DEF LifeInv, CreationIsLocked, RunInv, StopReachesClient, services
  <1>4. CASE ~ client
    <2>1. UNCHANGED runVars
      BY <1>4 DEF VisitState, DoExitProgram
    <2>2. ConnectionInv' /\ connected' \in BOOLEAN
      BY <2>1 DEF LifeInv, ConnectionInv, runVars, library
    <2>3. StopReachesClient'
      BY <1>1, <1>4 DEF StopReachesClient
    <2> QED
      BY <1>1, <1>2, <2>1, <2>2, <2>3
         DEF LifeInv, CreationIsLocked, RunInv, services, runVars
  <1> QED
    BY <1>3, <1>4

(***************************************************************************)
(* A step of main that is not one of run() leaves the connection alone.    *)
(***************************************************************************)
LEMMA MainStepKeeps ==
  ASSUME LifeInv, MainStep
  PROVE  LifeInv'
PROOF
  <1>1. UNCHANGED runVars
    BY DEF MainStep, Configure, HelpOrNoRun, MissingConfig, SetUpThrows,
           StartServer, LibInit, LockState, CheckExit, CreateClient,
           CreateThrows, UnlockState, RunWithoutClient, ReturnFromRun,
           LibCleanup, StopServer, StopLogs, Return, Step
  <1>2. /\ ConnectionInv' /\ run' = run /\ connected' = connected
        /\ stopCalled' = stopCalled
    BY <1>1 DEF LifeInv, ConnectionInv, runVars, library
  <1>3. CASE Configure \/ HelpOrNoRun \/ MissingConfig \/ SetUpThrows
    BY <1>2, <1>3
       DEF Configure, HelpOrNoRun, MissingConfig, SetUpThrows, LifeInv,
           CreationIsLocked, RunInv, StopReachesClient, Step, MainRuns, state, services
  <1>4. CASE StartServer
    BY <1>2, <1>4
       DEF StartServer, LifeInv, CreationIsLocked, RunInv,
           StopReachesClient, Step, MainRuns, state, services
  <1>5. CASE LibInit
    BY <1>2, <1>5
       DEF LibInit, LifeInv, CreationIsLocked, RunInv,
           StopReachesClient, Step, MainRuns, state, services
  <1>6. CASE LockState
    BY <1>2, <1>6
       DEF LockState, LifeInv, CreationIsLocked, RunInv,
           StopReachesClient, Step, MainRuns, state, services
  <1>7. CASE CheckExit
    BY <1>2, <1>7
       DEF CheckExit, LifeInv, CreationIsLocked, RunInv,
           StopReachesClient, Step, MainRuns, state, services
  <1>8. CASE CreateClient
    BY <1>2, <1>8
       DEF CreateClient, LifeInv, CreationIsLocked, RunInv,
           StopReachesClient, Step, MainRuns, state, services
  <1>9. CASE CreateThrows
    BY <1>2, <1>9
       DEF CreateThrows, LifeInv, CreationIsLocked, RunInv,
           StopReachesClient, Step, MainRuns, state, services
  <1>10. CASE UnlockState
    BY <1>2, <1>10
       DEF UnlockState, LifeInv, CreationIsLocked, RunInv,
           StopReachesClient, Step, MainRuns, state, services
  <1>11. CASE RunWithoutClient \/ ReturnFromRun
    BY <1>2, <1>11
       DEF RunWithoutClient, ReturnFromRun, LifeInv, CreationIsLocked, RunInv,
           StopReachesClient, Step, MainRuns, state, services
  <1>12. CASE LibCleanup
    BY <1>2, <1>12
       DEF LibCleanup, LifeInv, CreationIsLocked, RunInv,
           StopReachesClient, Step, MainRuns, state, services
  <1>13. CASE StopServer
    <2>1. /\ main = "unserve" /\ main' = "end" /\ serverUp' = FALSE
          /\ UNCHANGED <<mutex, exitProgram, client, libUp, logsUp>>
      BY <1>13 DEF StopServer, Step, state
    <2>2. RunInv'
      BY <1>2, <2>1 DEF LifeInv, RunInv
    <2> QED
      BY <1>2, <2>1, <2>2 DEF LifeInv, CreationIsLocked, StopReachesClient
  <1>14. CASE StopLogs
    <2>1. /\ main = "end" /\ main' = "return" /\ logsUp' = FALSE
          /\ UNCHANGED <<mutex, exitProgram, client, libUp, serverUp>>
      BY <1>14 DEF StopLogs, Step, state
    <2>2. RunInv'
      BY <1>2, <2>1 DEF LifeInv, RunInv
    <2> QED
      BY <1>2, <2>1, <2>2 DEF LifeInv, CreationIsLocked, StopReachesClient
  <1>15. CASE Return
    BY <1>2, <1>15
       DEF Return, LifeInv, CreationIsLocked, RunInv, StopReachesClient,
           MainRuns, state, services
  <1> QED
    BY <1>3, <1>4, <1>5, <1>6, <1>7, <1>8, <1>9, <1>10, <1>11, <1>12, <1>13,
       <1>14, <1>15 DEF MainStep

(***************************************************************************)
(* The invariant.                                                          *)
(***************************************************************************)
THEOREM LifeInvariant == Spec => []LifeInv
PROOF
  <1>1. Init => LifeInv
    BY DEF Init, RunInit, LifeInv, CreationIsLocked, ConnectionInv, RunInv,
           StopReachesClient
  <1>2. LifeInv /\ [Next]_vars => LifeInv'
    <2>1. SUFFICES ASSUME LifeInv, [Next]_vars  PROVE LifeInv'
      OBVIOUS
    <2>2. CASE MainStep
      BY <2>1, <2>2, MainStepKeeps
    <2>3. CASE Run
      <3>1. /\ main = "run" /\ RunStep /\ UNCHANGED bridgeVars
        BY <2>3 DEF Run
      <3>2. ConnectionInv' /\ connected' \in BOOLEAN /\ stopCalled' = stopCalled
        BY <2>1, <3>1, RunStepKeeps DEF LifeInv
      <3> QED
        BY <2>1, <3>1, <3>2
           DEF LifeInv, CreationIsLocked, RunInv, StopReachesClient,
               bridgeVars, state, services
    <2>4. CASE \E sig \in Signals, t \in Threads : Deliver(sig, t)
      BY <2>1, <2>4
         DEF Deliver, LifeInv, CreationIsLocked, ConnectionInv, RunInv,
             StopReachesClient, runVars, library, state, services
    <2>5. ASSUME NEW t \in Threads, HandlerStep(t)  PROVE LifeInv'
      <3>1. CASE ResetInt(t) \/ ResetTerm(t)
        BY <2>1, <3>1
           DEF ResetInt, ResetTerm, LifeInv, CreationIsLocked, ConnectionInv,
               RunInv, StopReachesClient, runVars, library, state, services
      <3>2. CASE VisitState(t)
        BY <2>1, <3>2, VisitStateKeeps
      <3> QED
        BY <2>5, <3>1, <3>2 DEF HandlerStep
    <2>6. CASE UNCHANGED vars
      BY <2>1, <2>6
         DEF LifeInv, CreationIsLocked, ConnectionInv, RunInv,
             StopReachesClient, vars, bridgeVars, runVars, library, state,
             services
    <2> QED
      BY <2>1, <2>2, <2>3, <2>4, <2>5, <2>6 DEF Next
  <1> QED
    BY <1>1, <1>2, PTL DEF Spec

(***************************************************************************)
(* No request to exit misses the client, in whatever order the handlers    *)
(* and the creation of the client reach the shared state                   *)
(* (yy_mqtt_bridge.cpp:74-89 and 220-231).                                 *)
(***************************************************************************)
THEOREM NoExitLost == Spec => []StopReachesClient
PROOF
  <1>1. LifeInv => StopReachesClient
    BY DEF LifeInv
  <1> QED
    BY <1>1, LifeInvariant, PTL

(***************************************************************************)
(* Where main runs a null client, exit was asked for before                *)
(* (yy_mqtt_bridge.cpp:220-233).                                           *)
(***************************************************************************)
THEOREM NullMeansExit == Spec => []NullOnlyAfterExit
PROOF
  <1>1. LifeInv => NullOnlyAfterExit
    BY DEF LifeInv, CreationIsLocked, NullOnlyAfterExit
  <1> QED
    BY <1>1, LifeInvariant, PTL

(***************************************************************************)
(* run() returns without a socket, whatever ended its loop                 *)
(* (mqtt_client.cpp:162-167).                                              *)
(***************************************************************************)
THEOREM RunReturnsClosed == Spec => []DoneIsClosed
PROOF
  <1>1. LifeInv => DoneIsClosed
    BY DEF LifeInv, ConnectionInv, DoneIsClosed
  <1> QED
    BY <1>1, LifeInvariant, PTL

(***************************************************************************)
(* Nothing that was torn down is used (yy_mqtt_bridge.cpp:244-249).        *)
(***************************************************************************)
THEOREM NothingUsedAfterTeardown == Spec => []TeardownOrder
PROOF
  <1>1. LifeInv => TeardownOrder
    BY DEF LifeInv, ConnectionInv, RunInv, TeardownOrder, TornDown
  <1> QED
    BY <1>1, LifeInvariant, PTL

-----------------------------------------------------------------------------
(***************************************************************************)
(* The types.  That handlers nest no deeper than there are signals needs   *)
(* that no two of them on a thread are for one signal.                     *)
(***************************************************************************)
NestedOnce ==
  \A t \in Threads : \A i, j \in DOMAIN frames[t] :
    frames[t][i].sig = frames[t][j].sig => i = j

PointsType ==
  /\ main \in MainPoints
  /\ mutex \in {"none", "main"}
  /\ exitProgram \in BOOLEAN
  /\ client \in BOOLEAN
  /\ handled \subseteq Signals
  /\ process \in {"running", "exited", "killed", "crashed"}
  /\ libUp \in BOOLEAN
  /\ serverUp \in BOOLEAN
  /\ logsUp \in BOOLEAN

FramesInv == frames \in [Threads -> Seq(Frame)] /\ NestedOnce

TypeInv == RunTypeOK /\ PointsType /\ FramesInv

LEMMA NothingWaits == <<>> \in Seq({"subscribe", "disconnect"})
PROOF BY EmptySeq

LEMMA CloseType ==
  ASSUME Close
  PROVE  /\ outgoing' \in Seq({"subscribe", "disconnect"})
         /\ socket' \in Sockets
         /\ subscribed' \in BOOLEAN
         /\ connected' \in BOOLEAN
PROOF BY NothingWaits DEF Close, OnDisconnect, Sockets

LEMMA DisconnectType ==
  ASSUME RunTypeOK, Disconnect, run' \in RunPoints, phase' = phase,
         stopCalled' \in BOOLEAN
  PROVE  RunTypeOK'
PROOF
  <1>1. CASE Close
    BY <1>1, CloseType DEF RunTypeOK, Disconnect
  <1>2. CASE /\ outgoing' = Append(outgoing, "disconnect")
             /\ UNCHANGED <<socket, subscribed, connected>>
    <2>1. outgoing \in Seq({"subscribe", "disconnect"})
      BY DEF RunTypeOK
    <2>2. outgoing' \in Seq({"subscribe", "disconnect"})
      BY <1>2, <2>1, AppendProperties
    <2> QED
      BY <1>2, <2>2 DEF RunTypeOK, Disconnect
  <1>3. CASE UNCHANGED <<socket, outgoing, subscribed, connected>>
    BY <1>3 DEF RunTypeOK, Disconnect
  <1> QED
    BY <1>1, <1>2, <1>3 DEF Disconnect

LEMMA RunStepType ==
  ASSUME RunTypeOK, RunStep
  PROVE  RunTypeOK'
PROOF
  <1> USE DEF RunTypeOK, RunPoints, Phases, Sockets
  <1>1. CASE StartRun
    BY <1>1 DEF StartRun, library
  <1>2. CASE Connect
    BY <1>2 DEF Connect
  <1>3. CASE WritePacket
    <2>1. CASE Close
      BY <1>3, <2>1, CloseType DEF WritePacket
    <2>2. CASE outgoing' = Tail(outgoing)
      <3>1. outgoing # <<>>
        BY <1>3 DEF WritePacket
      <3>2. outgoing' \in Seq({"subscribe", "disconnect"})
        BY <2>2, <3>1, HeadTailProperties
      <3>3. subscribed' \in BOOLEAN /\ connected' \in BOOLEAN
            /\ socket' \in Sockets
        BY <1>3 DEF WritePacket, Close, OnDisconnect
      <3> QED
        BY <1>3, <3>2, <3>3 DEF WritePacket
    <2> QED
      BY <1>3, <2>1, <2>2 DEF WritePacket
  <1>4. CASE LoopReturns
    BY <1>4 DEF LoopReturns, library
  <1>5. CASE AwaitReconnect
    BY <1>5 DEF AwaitReconnect
  <1>6. CASE StartReconnect
    BY <1>6 DEF StartReconnect
  <1>7. CASE Reconnect
    BY <1>7 DEF Reconnect
  <1>8. CASE RunDisconnect
    BY <1>8, DisconnectType DEF RunDisconnect
  <1>9. CASE WaitDisconnected
    BY <1>9 DEF WaitDisconnected, library
  <1>10. CASE \E accepted \in BOOLEAN : Connack(accepted)
    BY <1>10 DEF Connack, OnConnect
  <1>11. CASE LoseConnection
    BY <1>11, CloseType DEF LoseConnection
  <1>12. CASE FatalError
    BY <1>12, CloseType DEF FatalError
  <1>13. CASE CallbackThrows
    BY <1>13 DEF CallbackThrows, library
  <1> QED
    BY <1>1, <1>2, <1>3, <1>4, <1>5, <1>6, <1>7, <1>8, <1>9, <1>10, <1>11,
       <1>12, <1>13 DEF RunStep, Progress, Happens

LEMMA MainStepType ==
  ASSUME TypeInv, MainStep
  PROVE  TypeInv'
PROOF
  <1>1. UNCHANGED runVars /\ UNCHANGED <<handled, frames>>
    BY DEF MainStep, Configure, HelpOrNoRun, MissingConfig, SetUpThrows,
           StartServer, LibInit, LockState, CheckExit, CreateClient,
           CreateThrows, UnlockState, RunWithoutClient, ReturnFromRun,
           LibCleanup, StopServer, StopLogs, Return, Step
  <1>2. RunTypeOK'
    BY <1>1 DEF TypeInv, RunTypeOK, runVars, library
  <1>3. FramesInv'
    BY <1>1 DEF TypeInv, FramesInv, NestedOnce
  <1> USE DEF TypeInv, PointsType, MainPoints, Step, state, services
  <1>4. PointsType'
    <2>1. CASE Configure \/ HelpOrNoRun \/ MissingConfig \/ SetUpThrows
      BY <2>1 DEF Configure, HelpOrNoRun, MissingConfig, SetUpThrows
    <2>2. CASE StartServer
      BY <2>2 DEF StartServer
    <2>3. CASE LibInit
      BY <2>3 DEF LibInit
    <2>4. CASE LockState
      BY <2>4 DEF LockState
    <2>5. CASE CheckExit
      BY <2>5 DEF CheckExit
    <2>6. CASE CreateClient
      BY <2>6 DEF CreateClient
    <2>7. CASE CreateThrows
      BY <2>7 DEF CreateThrows
    <2>8. CASE UnlockState
      BY <2>8 DEF UnlockState
    <2>9. CASE RunWithoutClient \/ ReturnFromRun
      BY <2>9 DEF RunWithoutClient, ReturnFromRun
    <2>10. CASE LibCleanup
      BY <2>10 DEF LibCleanup
    <2>11. CASE StopServer
      BY <2>11 DEF StopServer
    <2>12. CASE StopLogs
      BY <2>12 DEF StopLogs
    <2>13. CASE Return
      BY <2>13 DEF Return
    <2> QED
      BY <2>1, <2>2, <2>3, <2>4, <2>5, <2>6, <2>7, <2>8, <2>9, <2>10, <2>11,
         <2>12, <2>13 DEF MainStep
  <1> QED
    BY <1>2, <1>3, <1>4

(***************************************************************************)
(* A signal nests a handler for a signal that has none on the thread yet.  *)
(***************************************************************************)
LEMMA DeliverType ==
  ASSUME TypeInv, NEW sig \in Signals, NEW t \in Threads, Deliver(sig, t)
  PROVE  TypeInv'
PROOF
  <1>1. RunTypeOK' /\ PointsType'
    BY DEF Deliver, TypeInv, RunTypeOK, PointsType, runVars, library, state,
           services
  <1>2. frames \in [Threads -> Seq(Frame)] /\ NestedOnce
    BY DEF TypeInv, FramesInv
  <1>3. CASE frames' = frames
    BY <1>1, <1>2, <1>3 DEF TypeInv, FramesInv, NestedOnce
  <1>4. CASE frames' # frames
    <2> DEFINE f == frames[t]
    <2>1. PICK locked \in BOOLEAN :
            frames' = [frames EXCEPT ![t] =
                         Append(@, [sig |-> sig, at |-> "int",
                                    locked |-> locked])]
      BY <1>4 DEF Deliver, MayHaveLock
    <2> DEFINE new == [sig |-> sig, at |-> "int", locked |-> locked]
    <2>2. new \in Frame /\ new.sig = sig
      BY DEF Frame
    <2>3. \A i \in DOMAIN f : f[i].sig # sig
      BY DEF Deliver, Blocked
    <2>4. frames' = [frames EXCEPT ![t] = Append(f, new)]
      BY <2>1
    <2>5. f \in Seq(Frame)
      BY <1>2
    <2> HIDE DEF f, new
    <2>6. /\ Append(f, new) \in Seq(Frame)
          /\ Len(Append(f, new)) = Len(f) + 1
          /\ Len(f) \in Nat /\ DOMAIN f = 1 .. Len(f)
          /\ \A i \in 1 .. Len(f) : Append(f, new)[i] = f[i]
          /\ Append(f, new)[Len(f) + 1] = new
      BY <2>2, <2>5, AppendProperties, LenProperties
    <2>7. DOMAIN Append(f, new) = 1 .. Len(f) + 1
      BY <2>6, LenProperties
    <2>8. ASSUME NEW i \in DOMAIN Append(f, new), NEW j \in DOMAIN Append(f, new),
                 Append(f, new)[i].sig = Append(f, new)[j].sig
          PROVE  i = j
      <3>1. \A a, b \in DOMAIN f : f[a].sig = f[b].sig => a = b
        BY <1>2 DEF NestedOnce, f
      <3>2. CASE i \in 1 .. Len(f) /\ j \in 1 .. Len(f)
        BY <2>6, <2>8, <3>1, <3>2
      <3>3. CASE i \in 1 .. Len(f) /\ j = Len(f) + 1
        BY <2>2, <2>3, <2>6, <2>8, <3>3
      <3>4. CASE i = Len(f) + 1 /\ j \in 1 .. Len(f)
        BY <2>2, <2>3, <2>6, <2>8, <3>4
      <3>5. i \in 1 .. Len(f) + 1 /\ j \in 1 .. Len(f) + 1
        BY <2>7
      <3> QED
        BY <2>6, <3>2, <3>3, <3>4, <3>5
    <2>9. frames' \in [Threads -> Seq(Frame)]
      BY <1>2, <2>4, <2>6
    <2>10. NestedOnce'
      <3>1. SUFFICES ASSUME NEW u \in Threads
                     PROVE  \A i, j \in DOMAIN frames'[u] :
                              frames'[u][i].sig = frames'[u][j].sig => i = j
        BY DEF NestedOnce
      <3>2. CASE u = t
        BY <1>2, <2>4, <2>8, <3>2
      <3>3. CASE u # t
        BY <1>2, <2>4, <3>3 DEF NestedOnce
      <3> QED
        BY <3>2, <3>3
    <2> QED
      BY <1>1, <2>9, <2>10 DEF TypeInv, FramesInv
  <1> QED
    BY <1>3, <1>4

(***************************************************************************)
(* A handler moves on, or returns.                                         *)
(***************************************************************************)
LEMMA HandlerStepType ==
  ASSUME TypeInv, NEW t \in Threads, HandlerStep(t)
  PROVE  TypeInv'
PROOF
  <1> DEFINE f == frames[t]
             n == Len(frames[t])
  <1>1. frames \in [Threads -> Seq(Frame)] /\ NestedOnce
    BY DEF TypeInv, FramesInv
  <1>2. f \in Seq(Frame) /\ f # <<>>
    BY <1>1 DEF HandlerStep, ResetInt, ResetTerm, VisitState, InHandler
  <1>3. /\ n \in Nat /\ n >= 1 /\ DOMAIN f = 1 .. n
        /\ \A i \in 1 .. n : f[i] \in Frame
    <2>1. n \in Nat /\ DOMAIN f = 1 .. n /\ n # 0
      BY <1>2, LenProperties, EmptySeq
    <2> QED
      BY <1>2, <2>1, ElementOfSeq
  <1>4. \A i, j \in 1 .. n : f[i].sig = f[j].sig => i = j
    BY <1>1, <1>3 DEF NestedOnce
  <1>5. ASSUME NEW at \in {"term", "visit"}, frames' = MoveTop(t, at)
        PROVE  FramesInv'
    <2> DEFINE top == [f[n] EXCEPT !.at = at]
               g == [f EXCEPT ![n] = top]
    <2>1. frames' = [frames EXCEPT ![t] = g]
      BY <1>1, <1>3, <1>5 DEF MoveTop
    <2>2. top \in Frame /\ top.sig = f[n].sig
      BY <1>3 DEF Frame
    <2> HIDE DEF f, n, top
    <2>3. n \in 1 .. n /\ n = Len(f)
      BY <1>3 DEF n, f
    <2>4. /\ g \in Seq(Frame) /\ Len(g) = n
          /\ \A i \in 1 .. n : g[i] = IF i = n THEN top ELSE f[i]
      BY <1>2, <2>2, <2>3, ExceptSeq
    <2>5. DOMAIN g = 1 .. n
      BY <1>3
    <2> HIDE DEF g
    <2>6. \A i, j \in DOMAIN g : g[i].sig = g[j].sig => i = j
      BY <1>4, <2>2, <2>4, <2>5
    <2>7. frames' \in [Threads -> Seq(Frame)]
      BY <1>1, <2>1, <2>4
    <2>8. \A u \in Threads : frames'[u] = IF u = t THEN g ELSE frames[u]
      BY <1>1, <2>1
    <2> QED
      BY <1>1, <2>6, <2>7, <2>8 DEF FramesInv, NestedOnce
  <1>6. ASSUME frames' = [frames EXCEPT ![t] = Below(t)]
        PROVE  FramesInv'
    <2> DEFINE g == SubSeq(f, 1, n - 1)
    <2>1. frames' = [frames EXCEPT ![t] = g]
      BY <1>6 DEF Below
    <2> HIDE DEF f, n
    <2>2. n - 1 \in Nat /\ \A i \in 1 .. n - 1 : f[i] \in Frame
      BY <1>3
    <2>3. /\ g \in Seq(Frame) /\ Len(g) = n - 1
          /\ \A i \in 1 .. n - 1 : g[i] = f[i]
      BY <2>2, SubSeqProperties
    <2>4. DOMAIN g = 1 .. n - 1
      BY <2>3, LenProperties
    <2> HIDE DEF g
    <2>5. \A i, j \in DOMAIN g : g[i].sig = g[j].sig => i = j
      BY <1>3, <1>4, <2>3, <2>4
    <2>6. frames' \in [Threads -> Seq(Frame)]
      BY <1>1, <2>1, <2>3
    <2>7. \A u \in Threads : frames'[u] = IF u = t THEN g ELSE frames[u]
      BY <1>1, <2>1
    <2> QED
      BY <1>1, <2>5, <2>6, <2>7 DEF FramesInv, NestedOnce
  <1>7. CASE ResetInt(t) \/ ResetTerm(t)
    <2>1. RunTypeOK' /\ PointsType'
      BY <1>7 DEF ResetInt, ResetTerm, TypeInv, RunTypeOK, PointsType,
                  runVars, library, state, services
    <2>2. FramesInv'
      BY <1>5, <1>7 DEF ResetInt, ResetTerm
    <2> QED
      BY <2>1, <2>2 DEF TypeInv
  <1>8. CASE VisitState(t)
    <2>1. FramesInv'
      BY <1>6, <1>8 DEF VisitState
    <2>2. PointsType'
      BY <1>8 DEF VisitState, DoExitProgram, TypeInv, PointsType, services
    <2>3. RunTypeOK'
      <3>1. CASE client
        <4>1. Disconnect /\ stopCalled' = TRUE /\ UNCHANGED <<run, phase>>
          BY <1>8, <3>1 DEF VisitState, DoExitProgram, Stop
        <4>2. RunTypeOK /\ run' \in RunPoints
          BY <4>1 DEF TypeInv, RunTypeOK
        <4> QED
          BY <4>1, <4>2, DisconnectType
      <3>2. CASE ~ client
        BY <1>8, <3>2 DEF VisitState, DoExitProgram, TypeInv, RunTypeOK,
                          runVars, library
      <3> QED
        BY <3>1, <3>2
    <2> QED
      BY <2>1, <2>2, <2>3 DEF TypeInv
  <1> QED
    BY <1>7, <1>8 DEF HandlerStep

(***************************************************************************)
(* Two handlers on a thread is the most there can be.                      *)
(***************************************************************************)
LEMMA NestsNoDeeper ==
  ASSUME FramesInv, NEW t \in Threads
  PROVE  Len(frames[t]) <= Cardinality(Signals)
PROOF
  <1> DEFINE f == frames[t]
             n == Len(frames[t])
  <1>1. f \in Seq(Frame)
    BY DEF FramesInv
  <1>2. /\ n \in Nat /\ DOMAIN f = 1 .. n
        /\ \A i \in 1 .. n : f[i].sig \in Signals
    <2>1. n \in Nat /\ DOMAIN f = 1 .. n
      BY <1>1, LenProperties
    <2>2. \A i \in 1 .. n : f[i] \in Frame
      BY <1>1, ElementOfSeq
    <2> QED
      BY <2>1, <2>2 DEF Frame
  <1>3. \A i, j \in 1 .. n : f[i].sig = f[j].sig => i = j
    BY <1>2 DEF FramesInv, NestedOnce
  <1>4. IsFiniteSet(Signals) /\ Cardinality(Signals) = 2
    <2>1. IsFiniteSet({"SIGINT"}) /\ Cardinality({"SIGINT"}) = 1
      BY FS_Singleton
    <2>2. /\ IsFiniteSet({"SIGINT"} \cup {"SIGTERM"})
          /\ Cardinality({"SIGINT"} \cup {"SIGTERM"}) = 1 + 1
      BY <2>1, FS_AddElement
    <2>3. Signals = {"SIGINT"} \cup {"SIGTERM"}
      BY DEF Signals
    <2> QED
      BY <2>2, <2>3
  <1> HIDE DEF f, n
  <1>5. n < 3
    <2>1. SUFFICES ASSUME n >= 3  PROVE FALSE
      BY <1>2
    <2>2. 1 \in 1 .. n /\ 2 \in 1 .. n /\ 3 \in 1 .. n
      BY <1>2, <2>1
    <2>3. /\ f[1].sig # f[2].sig /\ f[1].sig # f[3].sig
          /\ f[2].sig # f[3].sig
      BY <1>3, <2>2
    <2> QED
      BY <1>2, <2>2, <2>3 DEF Signals
  <1> QED
    BY <1>2, <1>4, <1>5 DEF n

(***************************************************************************)
(* The state has its type; in particular a handler is never interrupted by *)
(* a second one for its own signal (yy_mqtt_bridge.cpp:66-89).             *)
(***************************************************************************)
THEOREM LifeIsTyped == Spec => []TypeOK
PROOF
  <1>1. Init => TypeInv
    <2>1. ASSUME Init  PROVE PointsType
      BY <2>1 DEF Init, PointsType, MainPoints
    <2>2. ASSUME Init  PROVE FramesInv
      BY <2>2 DEF Init, FramesInv, NestedOnce
    <2>3. ASSUME Init  PROVE RunTypeOK
      BY <2>3, NothingWaits
      DEF Init, RunInit, RunTypeOK, RunPoints, Phases, Sockets
    <2> QED
      BY <2>1, <2>2, <2>3 DEF TypeInv
  <1>2. TypeInv /\ [Next]_vars => TypeInv'
    <2>1. SUFFICES ASSUME TypeInv, [Next]_vars  PROVE TypeInv'
      OBVIOUS
    <2>2. CASE MainStep
      BY <2>1, <2>2, MainStepType
    <2>3. CASE Run
      <3>1. RunStep /\ UNCHANGED bridgeVars
        BY <2>3 DEF Run
      <3>2. RunTypeOK'
        BY <2>1, <3>1, RunStepType DEF TypeInv
      <3> QED
        BY <2>1, <3>1, <3>2 DEF TypeInv, PointsType, FramesInv, NestedOnce,
                                bridgeVars, state, services
    <2>4. CASE \E sig \in Signals, t \in Threads : Deliver(sig, t)
      BY <2>1, <2>4, DeliverType
    <2>5. CASE \E t \in Threads : HandlerStep(t)
      BY <2>1, <2>5, HandlerStepType
    <2>6. CASE UNCHANGED vars
      BY <2>1, <2>6 DEF TypeInv, RunTypeOK, PointsType, FramesInv, NestedOnce,
                        vars, bridgeVars, runVars, library, state, services
    <2> QED
      BY <2>1, <2>2, <2>3, <2>4, <2>5, <2>6 DEF Next
  <1>3. TypeInv => TypeOK
    BY NestsNoDeeper DEF TypeInv, PointsType, FramesInv, TypeOK
  <1> QED
    BY <1>1, <1>2, <1>3, PTL DEF Spec
=============================================================================
