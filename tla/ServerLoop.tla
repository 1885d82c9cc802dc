----------------------------- MODULE ServerLoop -----------------------------
(***************************************************************************)
(* One server process (server/server.py): the loop of Server.run, the life *)
(* of a job in handle_next_request, process_job and execute_job, and the   *)
(* two signal handlers, handle_shutdown_signal and harakiri, that run on   *)
(* the same thread between any two steps of it and may throw an exception  *)
(* into it.                                                                *)
(*                                                                         *)
(* pc is where the main thread is; `raised` is the exception on its way    *)
(* out, if any.  Time is abstracted: the alarm may fire whenever it is set,*)
(* and one second since the last signal may pass at any moment.            *)
(***************************************************************************)
EXTENDS Integers

CONSTANTS
    HarakiriEnabled,      \* settings['harakiri']['timeout'] is not 0
    MaxTransientFailures, \* the 5 of "if transient_failures > 5"
    InterpreterStopsLoop, \* Python before 3.8: its exit calls Thread.join
    MaxActions,           \* BOUND: actions in one job
    MaxSignals,           \* BOUND: SIGINTs and SIGTERMs the process is sent
    Faults                \* which of PossibleFaults may happen

(*   transport  the transport, or what the service does before and after a *)
(*              request, raises a transient transport error                *)
(*   fatal      any other error of these, or of setting the context        *)
(*   swallow    an action catches HarakiriInterrupt, against the docs      *)
(*   start      the heartbeat file can not be created                      *)
(*   end        the finally block of run raises                            *)
PossibleFaults == {"transport", "fatal", "swallow", "start", "end"}

ASSUME ServerLoopAssumption ==
    /\ HarakiriEnabled \in BOOLEAN
    /\ InterpreterStopsLoop \in BOOLEAN
    /\ MaxTransientFailures \in Nat
    /\ MaxActions \in Nat
    /\ MaxSignals \in Nat
    /\ Faults \subseteq PossibleFaults

VARIABLES
    pc,            \* where the main thread is
    raised,        \* the exception that unwinds it
    shuttingDown,  \* Server.shutting_down
    lastSignal,    \* Server._last_signal
    recent,        \* time.time() - self._last_signal_received < 1
    handling,      \* the signal whose handler holds _shutdown_lock
    alarm,         \* what signal.alarm is counting down to
    failures,      \* transient_failures
    actionsLeft,   \* actions of the job that execute_job has yet to run
    response,      \* the response the job will get
    loopRunning,   \* the async event loop thread runs
    heartbeat,     \* the heartbeat file exists
    exit,          \* how the process ended
    \* History, read by properties only:
    signals,       \* SIGINTs and SIGTERMs sent so far
    alarmed,       \* SIGALRM was ever delivered
    graced,        \* a harakiri started a grace period
    faulted,       \* a transport or fatal fault happened in the loop
    lost,          \* some job that was taken got no response
    tail           \* requests taken since shutting_down was set

job == <<actionsLeft, response>>
signalVars == <<lastSignal, recent, handling, alarm>>
history == <<signals, alarmed, graced, faulted, lost, tail>>
vars == <<pc, raised, shuttingDown, lastSignal, recent, handling, alarm,
          failures, actionsLeft, response, loopRunning, heartbeat, exit,
          signals, alarmed, graced, faulted, lost, tail>>

InRequest == {"accepted", "middleware", "action", "sending", "post"}
InLoop == {"top", "receiving", "backoff"} \union InRequest
InFinally == {"teardown", "joining", "cleanup"}
Places == {"starting", "unwinding", "exited"} \union InLoop \union InFinally
ShutdownSignals == {"INT", "TERM"}

Init ==
    /\ pc = "starting"
    /\ raised = "none"
    /\ shuttingDown = FALSE
    /\ lastSignal = "none"
    /\ recent = FALSE
    /\ handling = "none"
    /\ alarm = "off"
    /\ failures = 0
    /\ actionsLeft = 0
    /\ response = "none"
    /\ loopRunning = FALSE
    /\ heartbeat = FALSE
    /\ exit = "none"
    /\ signals = 0
    /\ alarmed = FALSE
    /\ graced = FALSE
    /\ faulted = FALSE
    /\ lost = FALSE
    /\ tail = 0
-----------------------------------------------------------------------------
(***************************************************************************)
(* The main thread.  It runs only while no handler does.                   *)
(***************************************************************************)
At(place) == pc = place /\ handling = "none"
Goto(place) == pc' = place

\* run: the event loop thread first, then the heartbeat file, then the
\* handlers.  What is before the handlers is outside of the try block.
Start ==
    /\ At("starting")
    /\ Goto("top")
    /\ loopRunning' = TRUE
    /\ heartbeat' = TRUE
    /\ UNCHANGED <<raised, shuttingDown, signalVars, failures, job, exit, history>>

StartFails ==
    /\ "start" \in Faults
    /\ At("starting")
    /\ Goto("unwinding")
    /\ raised' = "fatal"
    /\ loopRunning' = TRUE
    /\ UNCHANGED <<shuttingDown, signalVars, failures, job, heartbeat, exit, history>>

\* MUTANT of BeginRound: the loop does not look at shutting_down.
BeginRoundRegardless ==
    /\ At("top")
    /\ Goto("receiving")
    /\ alarm' = IF HarakiriEnabled THEN "timeout" ELSE "off"
    /\ UNCHANGED <<raised, shuttingDown, lastSignal, recent, handling, failures, job,
                   loopRunning, heartbeat, exit, history>>

\* MUTANT of BeginRound: the round does not set the alarm.
BeginRoundUnwatched ==
    /\ At("top")
    /\ Goto(IF shuttingDown THEN "teardown" ELSE "receiving")
    /\ UNCHANGED <<raised, shuttingDown, signalVars, failures, job, loopRunning,
                   heartbeat, exit, history>>

\* while not self.shutting_down: the alarm is set for every round.
BeginRound ==
    /\ At("top")
    /\ IF shuttingDown
         THEN /\ Goto("teardown")
              /\ UNCHANGED alarm
         ELSE /\ Goto("receiving")
              /\ alarm' = IF HarakiriEnabled THEN "timeout" ELSE "off"
    /\ UNCHANGED <<raised, shuttingDown, lastSignal, recent, handling, failures, job,
                   loopRunning, heartbeat, exit, history>>

\* A round that raised nothing makes up for an earlier failure.
RoundSucceeds ==
    /\ Goto("top")
    /\ failures' = IF failures > 0 THEN failures - 1 ELSE 0

\* No request within the receive timeout: perform_idle_actions.
ReceiveNothing ==
    /\ At("receiving")
    /\ RoundSucceeds
    /\ UNCHANGED <<raised, shuttingDown, signalVars, job, loopRunning, heartbeat,
                   exit, history>>

TakeRequest ==
    /\ At("receiving")
    /\ Goto("accepted")
    /\ response' = "none"
    /\ tail' = IF shuttingDown THEN tail + 1 ELSE tail
    /\ UNCHANGED <<raised, shuttingDown, signalVars, failures, actionsLeft, loopRunning,
                   heartbeat, exit, signals, alarmed, graced, faulted, lost>>

\* except TransientPySOATransportError in run: back off, or give up.
BackOffOrGiveUp ==
    /\ Goto(IF failures > MaxTransientFailures THEN "teardown" ELSE "backoff")
    /\ raised' = "none"

ReceiveFails ==
    /\ "transport" \in Faults
    /\ At("receiving")
    /\ BackOffOrGiveUp
    /\ faulted' = TRUE
    /\ UNCHANGED <<shuttingDown, signalVars, failures, job, loopRunning, heartbeat,
                   exit, signals, alarmed, graced, lost, tail>>

ReceiveBreaks ==
    /\ "fatal" \in Faults
    /\ At("receiving")
    /\ Goto("teardown")
    /\ raised' = "fatal"
    /\ faulted' = TRUE
    /\ UNCHANGED <<shuttingDown, signalVars, failures, job, loopRunning, heartbeat,
                   exit, signals, alarmed, graced, lost, tail>>

WakeUp ==
    /\ At("backoff")
    /\ Goto("top")
    /\ failures' = failures + 1
    /\ UNCHANGED <<raised, shuttingDown, signalVars, job, loopRunning, heartbeat,
                   exit, history>>

\* An exception in front of the try block of handle_next_request (the context
\* of the job, its meta), or in it but before the job is processed
\* (perform_pre_request_actions).
PreparationFails ==
    /\ At("accepted")
    /\ \/ "transport" \in Faults /\ Goto("post") /\ raised' = "transient"
       \/ "fatal" \in Faults /\ pc' \in {"post", "teardown"} /\ raised' = "fatal"
    /\ faulted' = TRUE
    /\ lost' = TRUE
    /\ UNCHANGED <<shuttingDown, signalVars, failures, job, loopRunning, heartbeat,
                   exit, signals, alarmed, graced, tail>>

\* perform_pre_request_actions, validation and the way into the middleware.
BeginJob ==
    /\ At("accepted")
    /\ Goto("middleware")
    /\ actionsLeft' \in 0..MaxActions
    /\ UNCHANGED <<raised, shuttingDown, signalVars, failures, response, loopRunning,
                   heartbeat, exit, history>>

\* execute_job: the next action; the job may also stop at an action's errors.
BeginAction ==
    /\ At("middleware")
    /\ actionsLeft > 0
    /\ Goto("action")
    /\ actionsLeft' = actionsLeft - 1
    /\ UNCHANGED <<raised, shuttingDown, signalVars, failures, response, loopRunning,
                   heartbeat, exit, history>>

FinishAction ==
    /\ At("action")
    /\ Goto("middleware")
    /\ actionsLeft' \in {0, actionsLeft}
    /\ UNCHANGED <<raised, shuttingDown, signalVars, failures, response, loopRunning,
                   heartbeat, exit, history>>

\* process_job returns: the actions' response, or an error response.
FinishJob ==
    /\ At("middleware")
    /\ actionsLeft = 0
    /\ Goto("sending")
    /\ response' = IF response = "none" THEN "normal" ELSE response
    /\ UNCHANGED <<raised, shuttingDown, signalVars, failures, actionsLeft, loopRunning,
                   heartbeat, exit, history>>

\* The response was pushed, or its request asked for none.
SendResponse ==
    /\ At("sending")
    /\ Goto("post")
    /\ UNCHANGED <<raised, shuttingDown, signalVars, failures, job, loopRunning,
                   heartbeat, exit, history>>

\* MessageTooLarge and InvalidField are answered by an error response.
SendErrorInstead ==
    /\ At("sending")
    /\ response \in {"normal", "action_timeout"}
    /\ response' = "too_large"
    /\ UNCHANGED <<pc, raised, shuttingDown, signalVars, failures, actionsLeft,
                   loopRunning, heartbeat, exit, history>>

SendFails ==
    /\ At("sending")
    /\ Goto("post")
    /\ \/ "transport" \in Faults /\ raised' = "transient"
       \/ "fatal" \in Faults /\ raised' = "fatal"
    /\ faulted' = TRUE
    /\ lost' = TRUE
    /\ UNCHANGED <<shuttingDown, signalVars, failures, job, loopRunning, heartbeat,
                   exit, signals, alarmed, graced, tail>>

\* The finally block of handle_next_request, then whatever was raised.
FinishRequest ==
    /\ At("post")
    /\ \/ raised = "none" /\ RoundSucceeds /\ UNCHANGED raised
       \/ raised = "transient" /\ BackOffOrGiveUp /\ UNCHANGED failures
       \/ /\ raised \notin {"none", "transient"}
          /\ Goto("teardown")
          /\ UNCHANGED <<failures, raised>>
    /\ UNCHANGED <<shuttingDown, signalVars, job, loopRunning, heartbeat, exit, history>>

\* perform_post_request_actions raises: its error takes the place of one that
\* is on its way, that of a SystemExit or a HarakiriInterrupt included.
CompletionFails ==
    /\ At("post")
    /\ \/ "transport" \in Faults /\ BackOffOrGiveUp
       \/ "fatal" \in Faults /\ Goto("teardown") /\ raised' = "fatal"
    /\ faulted' = TRUE
    /\ UNCHANGED <<shuttingDown, signalVars, failures, job, loopRunning, heartbeat,
                   exit, signals, alarmed, graced, lost, tail>>

(***************************************************************************)
(* The finally block of run.  What raises in it takes the place of another *)
(* exception, leaves run, and skips the rest of the block.                 *)
(***************************************************************************)
EndFails ==
    /\ "end" \in Faults
    /\ Goto("unwinding")
    /\ raised' = "error"
    /\ UNCHANGED <<shuttingDown, signalVars, failures, job, heartbeat, exit, history>>

\* The teardown of the service, and the metrics.
Teardown ==
    /\ At("teardown")
    /\ Goto("joining")
    /\ UNCHANGED <<raised, shuttingDown, signalVars, failures, job, loopRunning,
                   heartbeat, exit, history>>

TeardownFails == At("teardown") /\ EndFails /\ UNCHANGED loopRunning

\* AsyncEventLoopThread.join waits for every pending coroutine.
JoinLoop ==
    /\ At("joining")
    /\ Goto("cleanup")
    /\ loopRunning' = FALSE
    /\ UNCHANGED <<raised, shuttingDown, signalVars, failures, job, heartbeat,
                   exit, history>>

\* call_soon_threadsafe raises: the loop was closed behind the test of join.
JoinFails == At("joining") /\ EndFails /\ loopRunning' = FALSE

\* MUTANT of Cleanup: the heartbeat file is removed after a normal end only.
CleanupUnlessRaised ==
    /\ At("cleanup")
    /\ Goto("exited")
    /\ heartbeat' = (heartbeat /\ raised # "none")
    /\ exit' = IF raised = "exit" THEN "raised" ELSE "returned"
    /\ UNCHANGED <<raised, shuttingDown, signalVars, failures, job, loopRunning, history>>

\* _close_django_caches and _delete_heartbeat_file.  run swallows
\* HarakiriInterrupt and Exception, but not SystemExit.
Cleanup ==
    /\ At("cleanup")
    /\ Goto("exited")
    /\ heartbeat' = FALSE
    /\ exit' = IF raised = "exit" THEN "raised" ELSE "returned"
    /\ UNCHANGED <<raised, shuttingDown, signalVars, failures, job, loopRunning, history>>

CleanupFails == At("cleanup") /\ EndFails /\ UNCHANGED loopRunning

\* An exception left run.  The interpreter waits for the event loop thread,
\* which is no daemon; only before Python 3.8 does it also stop the loop.
Unwind ==
    /\ At("unwinding")
    /\ loopRunning => InterpreterStopsLoop
    /\ Goto("exited")
    /\ loopRunning' = FALSE
    /\ exit' = "raised"
    /\ UNCHANGED <<raised, shuttingDown, signalVars, failures, job, heartbeat, history>>
-----------------------------------------------------------------------------
(***************************************************************************)
(* Signals.  A handler runs on the main thread between any two bytecodes,  *)
(* so a second one can start inside of the first: it finds _shutdown_lock  *)
(* taken and returns, and its signal is gone.                              *)
(***************************************************************************)
\* run had come to signal.signal: only the error of StartFails had not.
HandlersInstalled ==
    /\ pc \notin {"starting", "exited"}
    /\ ~(pc = "unwinding" /\ raised = "fatal")

\* The lock is free: the handler holds it from here to its return.
Acquire(signal) == handling' = IF handling = "none" THEN signal ELSE handling

ShutdownSignalArrives ==
    /\ HandlersInstalled
    /\ signals < MaxSignals
    /\ signals' = signals + 1
    /\ \E signal \in ShutdownSignals : Acquire(signal)
    /\ UNCHANGED <<pc, raised, shuttingDown, lastSignal, recent, alarm, failures, job,
                   loopRunning, heartbeat, exit, alarmed, graced, faulted, lost, tail>>

AlarmFires ==
    /\ HandlersInstalled
    /\ alarm # "off"
    /\ alarm' = "off"
    /\ alarmed' = TRUE
    /\ Acquire("ALRM")
    /\ UNCHANGED <<pc, raised, shuttingDown, lastSignal, recent, failures, job,
                   loopRunning, heartbeat, exit, signals, graced, faulted, lost, tail>>

\* More than a second has passed since _last_signal_received.
SecondPasses ==
    /\ recent
    /\ recent' = FALSE
    /\ UNCHANGED <<pc, raised, shuttingDown, lastSignal, handling, alarm, failures, job,
                   loopRunning, heartbeat, exit, history>>

Release == handling' = "none"
Remember == lastSignal' = handling /\ recent' = TRUE

(***************************************************************************)
(* An exception that a handler throws surfaces where the main thread is.   *)
(* HarakiriInterrupt is caught by execute_job in an action, by process_job *)
(* around it and by run elsewhere; SystemExit by nobody, but the finally   *)
(* blocks of handle_next_request and run see both.                         *)
(***************************************************************************)
EndAction ==
    \/ /\ Goto("middleware")
       /\ actionsLeft' = 0
       /\ response' = "action_timeout"
       /\ UNCHANGED <<raised, lost, exit>>
    \/ /\ "swallow" \in Faults
       /\ UNCHANGED <<pc, actionsLeft, response, raised, lost, exit>>

EndJob ==
    /\ Goto("sending")
    /\ response' = "job_timeout"
    /\ UNCHANGED <<actionsLeft, raised, lost, exit>>

\* Whether the request had left, or the response had reached, the transport
\* when the exception came cannot be told.
LeaveFor(exception) ==
    /\ raised' = exception
    /\ \/ pc \in {"accepted", "action", "middleware", "receiving", "sending"} /\ lost' = TRUE
       \/ pc \notin {"accepted", "action", "middleware"} /\ UNCHANGED lost
    /\ UNCHANGED <<job, exit>>

LeaveRequest(exception) ==
    /\ pc \in InRequest \ {"post"}
    /\ Goto("post")
    /\ LeaveFor(exception)

LeaveLoop(exception) ==
    /\ pc \in {"top", "receiving", "backoff", "accepted", "post"}
    /\ Goto("teardown")
    /\ LeaveFor(exception)

LeaveRun(exception) ==
    /\ pc \in InFinally
    /\ Goto("unwinding")
    /\ LeaveFor(exception)

\* An exception in threading._shutdown is only reported.
LeaveInterpreter(exception) ==
    /\ pc = "unwinding"
    /\ Goto("exited")
    /\ exit' = "raised"
    /\ raised' = exception
    /\ UNCHANGED <<job, lost>>

Leave(exception) ==
    \/ LeaveRequest(exception)
    \/ LeaveLoop(exception)
    \/ LeaveRun(exception)
    \/ LeaveInterpreter(exception)

Harakiri ==
    \/ pc = "action" /\ EndAction
    \/ pc = "middleware" /\ EndJob
    \/ pc \notin {"action", "middleware"} /\ Leave("harakiri")

\* MUTANT of InitiateShutdown: the first signal already exits.
InitiateExit ==
    /\ handling \in ShutdownSignals
    /\ ~shuttingDown
    /\ shuttingDown' = TRUE
    /\ Leave("exit")
    /\ Remember
    /\ Release
    /\ UNCHANGED <<alarm, failures, loopRunning, heartbeat, signals, alarmed, graced,
                   faulted, tail>>

\* handle_shutdown_signal
InitiateShutdown ==
    /\ handling \in ShutdownSignals
    /\ ~shuttingDown
    /\ shuttingDown' = TRUE
    /\ Remember
    /\ Release
    /\ UNCHANGED <<pc, raised, alarm, failures, job, loopRunning, heartbeat, exit, history>>

IsDuplicate == lastSignal \in ShutdownSignals /\ lastSignal # handling /\ recent

IgnoreDuplicate ==
    /\ handling \in ShutdownSignals
    /\ shuttingDown
    /\ IsDuplicate
    /\ Remember
    /\ Release
    /\ UNCHANGED <<pc, raised, shuttingDown, alarm, failures, job, loopRunning,
                   heartbeat, exit, history>>

ForceShutdown ==
    /\ handling \in ShutdownSignals
    /\ shuttingDown
    /\ ~IsDuplicate
    /\ Leave("exit")
    /\ Release
    /\ UNCHANGED <<shuttingDown, lastSignal, recent, alarm, failures, loopRunning,
                   heartbeat, signals, alarmed, graced, faulted, tail>>

\* MUTANT of BeginGrace: the interrupt is raised, but the server goes on.
BeginGraceOnly ==
    /\ handling = "ALRM"
    /\ ~shuttingDown
    /\ alarm' = "grace"
    /\ graced' = TRUE
    /\ Remember
    /\ Harakiri
    /\ Release
    /\ UNCHANGED <<shuttingDown, failures, loopRunning, heartbeat, signals, alarmed,
                   faulted, tail>>

\* MUTANT of BeginGrace: the alarm is not set again for the grace period.
BeginGraceUnarmed ==
    /\ handling = "ALRM"
    /\ ~shuttingDown
    /\ shuttingDown' = TRUE
    /\ graced' = TRUE
    /\ Remember
    /\ Harakiri
    /\ Release
    /\ UNCHANGED <<alarm, failures, loopRunning, heartbeat, signals, alarmed, faulted, tail>>

\* harakiri
BeginGrace ==
    /\ handling = "ALRM"
    /\ ~shuttingDown
    /\ shuttingDown' = TRUE
    /\ alarm' = "grace"
    /\ graced' = TRUE
    /\ Remember
    /\ Harakiri
    /\ Release
    /\ UNCHANGED <<failures, loopRunning, heartbeat, signals, alarmed, faulted, tail>>

\* os._exit: no finally block runs.
Emergency ==
    /\ handling = "ALRM"
    /\ shuttingDown
    /\ Goto("exited")
    /\ exit' = "forced"
    /\ loopRunning' = FALSE
    /\ lost' = (lost \/ pc \in {"accepted", "action", "middleware", "sending"})
    /\ Remember
    /\ Release
    /\ UNCHANGED <<raised, shuttingDown, alarm, failures, job, heartbeat, signals,
                   alarmed, graced, faulted, tail>>

HandlerReturns ==
    InitiateShutdown \/ IgnoreDuplicate \/ ForceShutdown \/ BeginGrace \/ Emergency
-----------------------------------------------------------------------------
\* The main thread where only PySOA's own code and bounded waits hold it up,
\* and where it runs the service's actions, middleware and teardown, or waits
\* for its coroutines.
OwnStep ==
    \/ Start \/ StartFails \/ BeginRound \/ ReceiveNothing \/ TakeRequest
    \/ ReceiveFails \/ ReceiveBreaks \/ WakeUp \/ PreparationFails \/ BeginJob \/ BeginAction
    \/ SendResponse \/ SendErrorInstead \/ SendFails \/ FinishRequest \/ CompletionFails
    \/ Cleanup \/ CleanupFails \/ Unwind
ServiceStep ==
    FinishAction \/ FinishJob \/ Teardown \/ TeardownFails \/ JoinLoop \/ JoinFails

Signal == ShutdownSignalArrives \/ AlarmFires \/ SecondPasses

Next == OwnStep \/ ServiceStep \/ Signal \/ HandlerReturns

Spec == Init /\ [][Next]_vars

(***************************************************************************)
(* PySOA's own steps and its handlers are run.  The alarm goes off for a   *)
(* main thread that stays where it is; no more is asked of it, since a     *)
(* live loop sets it anew in time.  The service's code may never end.      *)
(***************************************************************************)
Fairness ==
    /\ WF_vars(OwnStep)
    /\ WF_vars(HandlerReturns)
    /\ \A place \in InLoop \union InFinally \union {"unwinding"} :
          WF_vars(pc = place /\ AlarmFires)

FairSpec == Spec /\ Fairness

\* The same for a service whose actions, middleware, teardown and coroutines all
\* end.
FairServiceSpec == FairSpec /\ WF_vars(ServiceStep)
-----------------------------------------------------------------------------
\* Every variable holds a value of its type; the alarm runs only if harakiri
\* is enabled, and no more failures are counted than run tolerates.
TypeOK ==
    /\ pc \in Places
    /\ raised \in {"none", "transient", "fatal", "harakiri", "exit", "error"}
    /\ shuttingDown \in BOOLEAN
    /\ lastSignal \in {"none", "ALRM"} \union ShutdownSignals
    /\ recent \in BOOLEAN
    /\ handling \in {"none", "ALRM"} \union ShutdownSignals
    /\ alarm \in IF HarakiriEnabled THEN {"off", "timeout", "grace"} ELSE {"off"}
    /\ failures \in 0..(MaxTransientFailures + 1)
    /\ actionsLeft \in 0..MaxActions
    /\ response \in {"none", "normal", "action_timeout", "job_timeout", "too_large"}
    /\ loopRunning \in BOOLEAN
    /\ heartbeat \in BOOLEAN
    /\ exit \in {"none", "returned", "raised", "forced"}
    /\ signals \in 0..MaxSignals
    /\ alarmed \in BOOLEAN
    /\ graced \in BOOLEAN
    /\ faulted \in BOOLEAN
    /\ lost \in BOOLEAN
    /\ tail \in Nat

\* Graceful shutdown: a server that was sent one SIGTERM or SIGINT, and met
\* neither an alarm nor an error in the loop, answers every job it took, wherever
\* in run or handle_next_request the signal found it.
OneSignalLosesNoJob == lost => signals > 1 \/ alarmed \/ faulted

\* The loop's test and the receive are two steps: a server that was asked to
\* stop between them takes one more request, and never a second one.
OneMoreRequestAtMost == tail <= 1

\* What run leaves if it does not get to the end of its finally block: the
\* heartbeat file, or an event loop that the interpreter waits for.
LeavesBehind ==
    \/ pc = "exited" /\ heartbeat
    \/ pc = "unwinding" /\ loopRunning /\ HandlersInstalled

\* Whatever ends the loop of run, an error or one signal at any place, its
\* finally block removes the heartbeat file and joins the event loop thread;
\* only a second signal, an alarm, or an error that is raised in that block
\* itself (by teardown, the metrics, join or the caches) keeps it from that.
EndsCleanlyUnlessForced == LeavesBehind => signals > 1 \/ alarmed \/ raised = "error"

\* The harakiri setting: no job runs without an alarm set, or one being
\* handled, unless the server is already stopping.
JobIsWatched ==
    HarakiriEnabled /\ pc \in InRequest /\ alarm = "off" =>
        shuttingDown \/ handling # "none"

\* A server that harakiri has interrupted is past help: whatever the action
\* makes of the interrupt, it takes no further job.
NoJobAfterHarakiri == [][graced /\ pc # "accepted" => pc' # "accepted"]_vars

(***************************************************************************)
(* The inductive invariant behind these, in parts: every shutdown that was *)
(* begun or is being handled without an alarm stands for a signal of its   *)
(* own; the one more request is behind the loop's test; an end that left   *)
(* the heartbeat file was forced; and the alarm covers the receive, too.   *)
(***************************************************************************)
CountersAreBounded ==
    /\ pc = "backoff" => failures <= MaxTransientFailures
    /\ handling = "ALRM" => HarakiriEnabled

SignalsAreAccountedFor ==
    /\ handling = "ALRM" \/ graced => alarmed
    /\ ~alarmed /\ (shuttingDown \/ handling # "none") => signals > 0
    /\ ~alarmed /\ shuttingDown /\ handling # "none" => signals > 1

NoRequestAfterTheLast ==
    tail = 0 \/ (tail = 1 /\ shuttingDown /\ pc # "receiving")

NoReceiveAfterHarakiri == graced => shuttingDown /\ pc # "receiving"

HeartbeatIsRemoved ==
    /\ pc = "starting" => ~heartbeat
    /\ pc \in {"unwinding", "exited"} /\ (heartbeat \/ HandlersInstalled) =>
          signals > 1 \/ alarmed \/ raised = "error"

RoundIsWatched ==
    HarakiriEnabled /\ pc \in InRequest \union {"receiving"} /\ alarm = "off" =>
        shuttingDown \/ handling # "none"

\* The conjunction that each step preserves; the properties follow from it.
IInv ==
    /\ TypeOK
    /\ CountersAreBounded
    /\ SignalsAreAccountedFor
    /\ OneSignalLosesNoJob
    /\ NoRequestAfterTheLast
    /\ NoReceiveAfterHarakiri
    /\ HeartbeatIsRemoved
    /\ RoundIsWatched

\* A frozen action does not hold the worker: harakiri ends it, even where the
\* action swallows HarakiriInterrupt.
HarakiriEndsJobs == []<>(pc \notin InRequest)

\* The shutdown_grace setting: once harakiri has started to shut the server
\* down, the process ends, even when the service's code never does.
GracePeriodEnds == graced ~> pc = "exited"

\* Both, in a process that is sent no SIGINT or SIGTERM, whose handler would
\* make harakiri drop its alarm for good.
HarakiriPrevails == [](signals = 0) => HarakiriEndsJobs /\ GracePeriodEnds

\* run returns, and the process ends, after a shutdown was asked for.
StopsOnceAsked == shuttingDown ~> pc = "exited"

\* The same where the service's code ends, for an interpreter that does not
\* stop the event loop: such a process hangs at its very end, and only there,
\* if an exception left run before the loop was joined.
StopsUnlessOrphaned ==
    WF_vars(ServiceStep) =>
        (shuttingDown ~> pc = "exited" \/ (pc = "unwinding" /\ loopRunning))

\* What the parent of a forked worker knows of it.
WorkerState ==
    IF pc = "exited" THEN "gone"
    ELSE IF ~HandlersInstalled THEN "booting"
    ELSE IF shuttingDown THEN "stopping"
    ELSE "serving"

Forked == INSTANCE ForkedWorkers WITH Workers <- {1}, worker <- [w \in {1} |-> WorkerState]

\* A worker that was asked to stop never serves again, nor one that is gone;
\* and none is told to stop before it has handlers for that.
RefinesForkedWorker == Forked!Spec

\* What harakiri logs on a forced exit: "Graceful shutdown failed {} seconds
\* after harakiri"; a forced exit follows a grace period that harakiri gave.
ForcedOnlyAfterGrace == exit = "forced" => graced
=============================================================================
