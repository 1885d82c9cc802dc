-------------------------- MODULE ServerLoopProofs --------------------------
(***************************************************************************)
(* Theorems about ServerLoop, for any tolerance of transport failures, any *)
(* number of signals and actions, and any faults.                          *)
(***************************************************************************)
EXTENDS ServerLoop, TLAPS

-----------------------------------------------------------------------------
\* An exception thrown by a handler leads out of the request, the loop, run and
\* the interpreter, in this order, and never back to the receive.
LEMMA LeaveLeadsOut ==
    ASSUME TypeOK, NEW exception \in {"harakiri", "exit"}, Leave(exception)
    PROVE  /\ pc' \in {"post", "teardown", "unwinding", "exited"}
           /\ pc' = "post" => pc \in InRequest
           /\ pc' = "unwinding" => pc \in InFinally
           /\ pc' = "exited" => pc = "unwinding"
           /\ raised' = exception
           /\ lost' \in BOOLEAN
           /\ exit' \in {exit, "raised"}
           /\ UNCHANGED job
  <1>1. lost' \in BOOLEAN
    BY Zenon DEF TypeOK, Leave, LeaveRequest, LeaveLoop, LeaveRun,
       LeaveInterpreter, LeaveFor
  <1> QED
    BY <1>1 DEF TypeOK, Leave, LeaveRequest, LeaveLoop, LeaveRun, LeaveInterpreter,
       LeaveFor, Goto, InRequest, job

\* The main thread's own steps preserve the inductive invariant.
LEMMA OwnStepInv ==
    ASSUME IInv, OwnStep
    PROVE  IInv'
  <1> USE ServerLoopAssumption DEF IInv, TypeOK, CountersAreBounded, SignalsAreAccountedFor,
        OneSignalLosesNoJob, NoRequestAfterTheLast, NoReceiveAfterHarakiri,
        HeartbeatIsRemoved, HandlersInstalled, RoundIsWatched, Places, InRequest, InLoop, InFinally,
        ShutdownSignals, signalVars, job, history
  <1>1. CASE Start
    BY <1>1 DEF Start, At, Goto
  <1>2. CASE StartFails
    BY <1>2 DEF StartFails, At, Goto
  <1>3. CASE BeginRound
    BY <1>3 DEF BeginRound, At, Goto
  <1>4. CASE ReceiveNothing
    BY <1>4 DEF ReceiveNothing, At, Goto, RoundSucceeds
  <1>5. CASE TakeRequest
    BY <1>5 DEF TakeRequest, At, Goto
  <1>6. CASE ReceiveFails
    BY <1>6 DEF ReceiveFails, At, Goto, BackOffOrGiveUp
  <1>7. CASE ReceiveBreaks
    BY <1>7 DEF ReceiveBreaks, At, Goto
  <1>8. CASE WakeUp
    BY <1>8 DEF WakeUp, At, Goto
  <1>9. CASE BeginJob
    BY <1>9 DEF BeginJob, At, Goto
  <1>10. CASE BeginAction
    BY <1>10 DEF BeginAction, At, Goto
  <1>11. CASE SendResponse
    BY <1>11 DEF SendResponse, At, Goto
  <1>12. CASE SendErrorInstead
    BY <1>12 DEF SendErrorInstead, At, Goto
  <1>13. CASE SendFails
    BY <1>13 DEF SendFails, At, Goto
  <1>14. CASE FinishRequest
    BY <1>14 DEF FinishRequest, At, Goto, RoundSucceeds, BackOffOrGiveUp
  <1>15. CASE PreparationFails
    <2>1. pc' \in {"post", "teardown"} /\ raised' \in {"transient", "fatal"}
      BY <1>15 DEF PreparationFails, Goto
    <2> QED
      BY <1>15, <2>1 DEF PreparationFails, At
  <1>16. CASE CompletionFails
    <2>1. /\ pc' \in {"teardown", "backoff"} /\ raised' \in {"none", "fatal"}
          /\ pc' = "backoff" => failures <= MaxTransientFailures
      BY <1>16 DEF CompletionFails, BackOffOrGiveUp, Goto
    <2> QED
      BY <1>16, <2>1 DEF CompletionFails, At
  <1>17. CASE Cleanup
    <2>1. heartbeat' \in BOOLEAN
      BY <1>17, Zenon DEF Cleanup
    <2> QED
      BY <1>17, <2>1 DEF Cleanup, At, Goto
  <1>18. CASE Unwind
    <2>1. loopRunning' \in BOOLEAN
      BY <1>18, Zenon DEF Unwind
    <2> QED
      BY <1>18, <2>1 DEF Unwind, At, Goto
  <1>19. CASE CleanupFails
    BY <1>19 DEF CleanupFails, EndFails, At, Goto
  <1> QED
    BY <1>1, <1>2, <1>3, <1>4, <1>5, <1>6, <1>7, <1>8, <1>9, <1>10, <1>11,
       <1>12, <1>13, <1>14, <1>15, <1>16, <1>17, <1>18, <1>19 DEF OwnStep

\* The steps of the service's code preserve the inductive invariant.
LEMMA ServiceStepInv ==
    ASSUME IInv, ServiceStep
    PROVE  IInv'
  <1> USE ServerLoopAssumption DEF IInv, TypeOK, CountersAreBounded, SignalsAreAccountedFor,
        OneSignalLosesNoJob, NoRequestAfterTheLast, NoReceiveAfterHarakiri,
        HeartbeatIsRemoved, HandlersInstalled, RoundIsWatched, Places, InRequest, InLoop, InFinally,
        ShutdownSignals, signalVars, job, history
  <1>1. CASE FinishAction
    BY <1>1 DEF FinishAction, At, Goto
  <1>2. CASE FinishJob
    BY <1>2 DEF FinishJob, At, Goto
  <1>3. CASE JoinLoop
    <2>1. loopRunning' \in BOOLEAN
      BY <1>3, Zenon DEF JoinLoop
    <2> QED
      BY <1>3, <2>1 DEF JoinLoop, At, Goto
  <1>4. CASE Teardown
    BY <1>4 DEF Teardown, At, Goto
  <1>5. CASE TeardownFails
    BY <1>5 DEF TeardownFails, EndFails, At, Goto
  <1>6. CASE JoinFails
    <2>1. loopRunning' \in BOOLEAN
      BY <1>6, Zenon DEF JoinFails
    <2> QED
      BY <1>6, <2>1 DEF JoinFails, EndFails, At, Goto
  <1> QED
    BY <1>1, <1>2, <1>3, <1>4, <1>5, <1>6 DEF ServiceStep

\* The arrival of signals preserve the inductive invariant.
LEMMA SignalInv ==
    ASSUME IInv, Signal
    PROVE  IInv'
  <1> USE ServerLoopAssumption DEF IInv, TypeOK, CountersAreBounded, SignalsAreAccountedFor,
        OneSignalLosesNoJob, NoRequestAfterTheLast, NoReceiveAfterHarakiri,
        HeartbeatIsRemoved, HandlersInstalled, RoundIsWatched, Places, InRequest, InLoop, InFinally,
        ShutdownSignals, signalVars, job, history
  <1>1. CASE ShutdownSignalArrives
    BY <1>1 DEF ShutdownSignalArrives, HandlersInstalled, Acquire
  <1>2. CASE AlarmFires
    BY <1>2 DEF AlarmFires, HandlersInstalled, Acquire
  <1>3. CASE SecondPasses
    <2>1. recent' \in BOOLEAN
      BY <1>3, Zenon DEF SecondPasses
    <2> QED
      BY <1>3, <2>1 DEF SecondPasses
  <1> QED
    BY <1>1, <1>2, <1>3 DEF Signal

\* The two signal handlers preserve the inductive invariant.
LEMMA HandlerReturnsInv ==
    ASSUME IInv, HandlerReturns
    PROVE  IInv'
  <1> USE ServerLoopAssumption DEF IInv, TypeOK, CountersAreBounded, SignalsAreAccountedFor,
        OneSignalLosesNoJob, NoRequestAfterTheLast, NoReceiveAfterHarakiri,
        HeartbeatIsRemoved, HandlersInstalled, RoundIsWatched, Places, InRequest, InLoop, InFinally,
        ShutdownSignals, signalVars, job, history
  <1>1. CASE InitiateShutdown
    BY <1>1 DEF InitiateShutdown, Remember, Release
  <1>2. CASE IgnoreDuplicate
    BY <1>2 DEF IgnoreDuplicate, Remember, Release, IsDuplicate
  <1>3. CASE ForceShutdown
    BY <1>3, LeaveLeadsOut DEF ForceShutdown, Release
  <1>4. CASE BeginGrace
    <2> USE <1>4 DEF BeginGrace, Remember, Release
    <2>1. CASE pc = "action" /\ EndAction
      BY <2>1 DEF EndAction, Goto
    <2>2. CASE pc = "middleware" /\ EndJob
      BY <2>2 DEF EndJob, Goto
    <2>3. CASE Leave("harakiri")
      BY <2>3, LeaveLeadsOut
    <2> QED
      BY <2>1, <2>2, <2>3 DEF Harakiri
  <1>5. CASE Emergency
    BY <1>5 DEF Emergency, Goto, Remember, Release
  <1> QED
    BY <1>1, <1>2, <1>3, <1>4, <1>5 DEF HandlerReturns

\* The inductive invariant holds in every reachable state.
THEOREM ServerInductive == Spec => []IInv
  <1>1. Init => IInv
    <2> SUFFICES ASSUME Init PROVE IInv
      OBVIOUS
    <2>1. /\ {shuttingDown, recent, loopRunning, heartbeat} \subseteq BOOLEAN
          /\ {alarmed, graced, faulted, lost} \subseteq BOOLEAN
      BY Zenon DEF Init
    <2>2. TypeOK
      BY <2>1, ServerLoopAssumption DEF Init, TypeOK, Places, ShutdownSignals
    <2> QED
      BY <2>2 DEF Init, IInv, CountersAreBounded, SignalsAreAccountedFor,
         OneSignalLosesNoJob, NoRequestAfterTheLast, NoReceiveAfterHarakiri,
         HeartbeatIsRemoved, HandlersInstalled, RoundIsWatched, InRequest
  <1>2. IInv /\ [Next]_vars => IInv'
    <2> SUFFICES ASSUME IInv, [Next]_vars PROVE IInv'
      OBVIOUS
    <2>1. CASE Next
      BY <2>1, OwnStepInv, ServiceStepInv, SignalInv, HandlerReturnsInv DEF Next
    <2>2. CASE UNCHANGED vars
      BY <2>2 DEF vars, IInv, TypeOK, CountersAreBounded, SignalsAreAccountedFor,
         OneSignalLosesNoJob, NoRequestAfterTheLast, NoReceiveAfterHarakiri,
         HeartbeatIsRemoved, HandlersInstalled, RoundIsWatched
    <2> QED BY <2>1, <2>2
  <1> QED BY <1>1, <1>2, PTL DEF Spec
-----------------------------------------------------------------------------
\* Every variable of the server keeps its type.
THEOREM ServerTypeCorrect == Spec => []TypeOK
  <1>1. IInv => TypeOK
    BY DEF IInv
  <1> QED BY <1>1, ServerInductive, PTL

\* One SIGTERM or SIGINT alone never costs a job its response.
THEOREM GracefulShutdown == Spec => []OneSignalLosesNoJob
  <1>1. IInv => OneSignalLosesNoJob
    BY DEF IInv
  <1> QED BY <1>1, ServerInductive, PTL

\* A server that was asked to stop takes at most one more request.
THEOREM StopsTakingRequests == Spec => []OneMoreRequestAtMost
  <1>1. IInv => OneMoreRequestAtMost
    BY DEF IInv, NoRequestAfterTheLast, OneMoreRequestAtMost
  <1> QED BY <1>1, ServerInductive, PTL

\* Server.run: however its loop ended, the heartbeat file is removed and the
\* event loop joined, but for a second signal, an alarm, or an error in the
\* finally block that does it.
THEOREM CleanEnd == Spec => []EndsCleanlyUnlessForced
  <1>1. IInv => EndsCleanlyUnlessForced
    BY DEF IInv, HeartbeatIsRemoved, LeavesBehind, EndsCleanlyUnlessForced
  <1> QED BY <1>1, ServerInductive, PTL

\* No job of a server that is not stopping runs without an alarm.
THEOREM JobsAreWatched == Spec => []JobIsWatched
  <1>1. IInv => JobIsWatched
    BY DEF IInv, RoundIsWatched, JobIsWatched
  <1> QED BY <1>1, ServerInductive, PTL

\* No request is taken once harakiri has interrupted the server.
THEOREM HarakiriIsFinal == Spec => NoJobAfterHarakiri
  <1>1. IInv /\ [Next]_vars => [graced /\ pc # "accepted" => pc' # "accepted"]_vars
    <2> SUFFICES ASSUME IInv, Next, graced, pc # "accepted"
                 PROVE  pc' # "accepted"
      OBVIOUS
    <2> USE DEF IInv, NoReceiveAfterHarakiri, At, Goto
    <2>1. CASE OwnStep
      BY <2>1 DEF OwnStep,
         Start, StartFails, BeginRound, ReceiveNothing, TakeRequest,
         ReceiveFails, ReceiveBreaks, WakeUp, PreparationFails, BeginJob, BeginAction,
         SendResponse, SendErrorInstead, SendFails, FinishRequest, CompletionFails,
         Cleanup, CleanupFails, EndFails, Unwind, RoundSucceeds, BackOffOrGiveUp
    <2>2. CASE ServiceStep
      BY <2>2 DEF ServiceStep,
         FinishAction, FinishJob, Teardown, TeardownFails, JoinLoop, JoinFails, EndFails
    <2>3. CASE Signal
      BY <2>3 DEF Signal,
         ShutdownSignalArrives, AlarmFires, SecondPasses
    <2>4. CASE HandlerReturns
      BY <2>4 DEF HandlerReturns,
         InitiateShutdown, IgnoreDuplicate, ForceShutdown, BeginGrace,
         Emergency, Harakiri, EndAction, EndJob, Leave, LeaveRequest,
         LeaveLoop, LeaveRun, LeaveInterpreter, LeaveFor, InRequest,
         InFinally
    <2> QED BY <2>1, <2>2, <2>3, <2>4 DEF Next
  <1> QED BY <1>1, ServerInductive, PTL DEF Spec, NoJobAfterHarakiri
-----------------------------------------------------------------------------
(***************************************************************************)
(* What the parent of a forked worker may rely on                          *)
(***************************************************************************)
\* Before Server.run has installed its handlers nobody asks it to stop.
NotAskedBefore == pc = "starting" => ~shuttingDown /\ handling = "none"

\* What no step of a server takes back.
LifeGoesOn ==
    /\ pc = "exited" => pc' = "exited"
    /\ shuttingDown => shuttingDown'
    /\ HandlersInstalled /\ pc' # "exited" => HandlersInstalled'
    /\ ~HandlersInstalled /\ pc' # "exited" =>
          /\ ~HandlersInstalled' \/ ~shuttingDown'
    /\ NotAskedBefore'

\* An exception leads away from where it surfaced, and not to a start.
LEMMA LeaveGoesOn ==
  ASSUME TypeOK, NEW exception \in {"harakiri", "exit"}, Leave(exception)
  PROVE  /\ pc # "exited" /\ pc' # "starting" /\ raised' = exception
         /\ pc' # "exited" => pc \notin {"starting", "unwinding"}
<1>1. raised' = exception
  BY LeaveLeadsOut
<1> QED
  BY <1>1 DEF Leave, LeaveRequest, LeaveLoop, LeaveRun, LeaveInterpreter, Goto, InRequest, InFinally

\* Every step of thread and handlers leads on.
LEMMA EveryStepGoesOn ==
  ASSUME TypeOK, NotAskedBefore, [Next]_vars
  PROVE  LifeGoesOn
<1> USE DEF NotAskedBefore, LifeGoesOn, HandlersInstalled, TypeOK, At, Goto, Places, InLoop,
        InRequest, InFinally, ShutdownSignals, signalVars, job, history
<1>1. CASE OwnStep
  BY <1>1 DEF OwnStep, Start, StartFails, BeginRound, ReceiveNothing, TakeRequest,
     ReceiveFails, ReceiveBreaks, WakeUp, PreparationFails, BeginJob, BeginAction,
     SendResponse, SendErrorInstead, SendFails, FinishRequest, CompletionFails,
     Cleanup, CleanupFails, EndFails, Unwind, RoundSucceeds, BackOffOrGiveUp
<1>2. CASE ServiceStep
  BY <1>2 DEF ServiceStep, FinishAction, FinishJob, Teardown, TeardownFails, JoinLoop,
     JoinFails, EndFails
<1>3. CASE Signal
  BY <1>3 DEF Signal, ShutdownSignalArrives, AlarmFires, SecondPasses
<1>4. CASE HandlerReturns
  <2>1. CASE InitiateShutdown \/ IgnoreDuplicate \/ Emergency
    BY <1>4, <2>1 DEF InitiateShutdown, IgnoreDuplicate, Emergency
  <2>2. CASE ForceShutdown
    <3>1. Leave("exit") /\ UNCHANGED shuttingDown /\ handling # "none" /\ shuttingDown
      BY <2>2 DEF ForceShutdown
    <3> QED
      BY <3>1, LeaveGoesOn
  <2>3. CASE BeginGrace
    <3>1. shuttingDown' /\ handling # "none" /\ ~shuttingDown /\ Harakiri
      BY <2>3 DEF BeginGrace
    <3>2. CASE Leave("harakiri")
      BY <3>1, <3>2, LeaveGoesOn
    <3>3. CASE ~Leave("harakiri")
      BY <3>1, <3>3 DEF Harakiri, EndAction, EndJob
    <3> QED
      BY <3>2, <3>3
  <2> QED
    BY <1>4, <2>1, <2>2, <2>3 DEF HandlerReturns
<1>5. CASE UNCHANGED vars
  BY <1>5 DEF vars
<1> QED
  BY <1>1, <1>2, <1>3, <1>4, <1>5 DEF Next

\* A step of the server is one of its life, or none.
LEMMA StepIsOfLife ==
  ASSUME LifeGoesOn
  PROVE  [Forked!Next]_([w \in {1} |-> WorkerState])
<1>1. \/ WorkerState' = WorkerState
      \/ WorkerState = "booting" /\ WorkerState' = "serving"
      \/ WorkerState = "serving" /\ WorkerState' = "stopping"
      \/ WorkerState \in {"booting", "serving", "stopping"} /\ WorkerState' = "gone"
  BY DEF LifeGoesOn, WorkerState
<1>2. [w \in {1} |-> WorkerState]' = [[w \in {1} |-> WorkerState] EXCEPT ![1] = WorkerState']
  OBVIOUS
<1> QED
  BY <1>1, <1>2 DEF Forked!Next, Forked!Becomes, Forked!Boot, Forked!BeginStop, Forked!End

\* A server process is a worker as its parent knows it: it serves only once its
\* handlers are installed, and never again once it was asked to stop or is gone.
THEOREM ServerIsForkedWorker == Spec => RefinesForkedWorker
<1>1. Init => NotAskedBefore /\ Forked!Init
  BY DEF Init, NotAskedBefore, Forked!Init, WorkerState, HandlersInstalled
<1>2. TypeOK /\ NotAskedBefore /\ [Next]_vars
      => NotAskedBefore' /\ [Forked!Next]_([w \in {1} |-> WorkerState])
  BY EveryStepGoesOn, StepIsOfLife DEF LifeGoesOn
<1> QED
  BY <1>1, <1>2, ServerTypeCorrect, PTL DEF Spec, RefinesForkedWorker, Forked!Spec
=============================================================================
