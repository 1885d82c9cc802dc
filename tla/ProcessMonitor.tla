--------------------------- MODULE ProcessMonitor ---------------------------
(***************************************************************************)
(* A service that runs with --fork (server/standalone.py): the parent      *)
(* starts one _ProcessMonitor thread per worker, which forks the worker,   *)
(* waits for it and forks it again when it dies; the parent's signal       *)
(* handler terminates all workers.  Threads, workers and the handler, which*)
(* runs on the parent's main thread, interleave freely.                    *)
(*                                                                         *)
(* A worker is a ServerLoop; here it boots, serves, stops or dies.  Until  *)
(* Server.run installs its handlers, a worker has those that its parent had*)
(* when it forked.  Signals are those sent to the parent alone.            *)
(***************************************************************************)
EXTENDS Integers, Sequences

CONSTANTS
    NumProcesses,   \* the --fork argument
    Respawn,        \* not args.no_respawn
    ShortLimit,     \* the 3 of "3 times in 15 seconds"
    ShortWindow,    \* ... its 15
    LongLimit,      \* the 8 of "8 times in 60 seconds"
    LongWindow,     \* ... its 60
    MaxTime,        \* BOUND: how far the clock goes
    MaxSignals,     \* BOUND: signals the parent is sent
    Faults          \* which of PossibleFaults may happen

(*   crash   a worker dies unasked                                         *)
(*   early   the parent is signaled while some worker does not serve yet,  *)
(*           or its monitor does not wait for it yet                       *)
PossibleFaults == {"crash", "early"}

ASSUME MonitorAssumption ==
    /\ NumProcesses \in Nat \ {0}
    /\ Respawn \in BOOLEAN
    /\ ShortLimit \in Nat \ {0} /\ ShortWindow \in Nat
    /\ LongLimit \in Nat \ {0} /\ LongWindow \in Nat
    /\ MaxTime \in Nat
    /\ MaxSignals \in Nat
    /\ Faults \subseteq PossibleFaults

VARIABLES
    installed,    \* the parent's handlers replaced SIG_IGN
    signaled,     \* signal_context.signaled
    lockHeld,     \* signal_lock
    handler,      \* where the handler is: "idle", "look" or "call"
    todo,         \* the monitor it is at
    monitor,      \* per monitor, where its thread is
    process,      \* per monitor, its self.process
    worker,       \* per monitor, the process it forked last
    shortTimes,   \* per monitor, fifteen_second_restart_times
    longTimes,    \* per monitor, one_minute_restart_times
    clock,        \* time.time()
    \* History, read by properties only:
    signals,      \* signals sent to the parent
    raised,       \* the handler raised AttributeError
    respawns,     \* per monitor, every time at which it forked anew
    unheard       \* monitors whose worker was deaf to the SIGTERM it was sent

handlerVars == <<signaled, lockHeld, handler, todo>>
restartTimes == <<shortTimes, longTimes>>
history == <<signals, raised, respawns, unheard>>
vars == <<installed, signaled, lockHeld, handler, todo, monitor, process, worker,
          shortTimes, longTimes, clock, signals, raised, respawns, unheard>>

Monitors == 1..NumProcesses

Init ==
    /\ installed = FALSE
    /\ signaled = FALSE
    /\ lockHeld = FALSE
    /\ handler = "idle"
    /\ todo = 1
    /\ monitor = [m \in Monitors |-> "create"]
    /\ process = [m \in Monitors |-> "none"]
    /\ worker = [m \in Monitors |-> "none"]
    /\ shortTimes = [m \in Monitors |-> <<>>]
    /\ longTimes = [m \in Monitors |-> <<>>]
    /\ clock = 0
    /\ signals = 0
    /\ raised = FALSE
    /\ respawns = [m \in Monitors |-> <<>>]
    /\ unheard = {}
-----------------------------------------------------------------------------
(***************************************************************************)
(* A monitor's thread: _ProcessMonitor.run                                 *)
(***************************************************************************)
Step(m, from, to) ==
    /\ monitor[m] = from
    /\ monitor' = [monitor EXCEPT ![m] = to]

\* _start_process in two steps: other threads see an object without a process.
CreateProcess(m) ==
    /\ Step(m, "create", "start")
    /\ process' = [process EXCEPT ![m] = "new"]
    /\ UNCHANGED <<installed, handlerVars, worker, restartTimes, clock, history>>

\* The fork hands on the handlers: SIG_IGN, or the parent's own, which does
\* nothing where the copied signal_context is signaled already.
StartProcess(m) ==
    /\ Step(m, "start", "loop")
    /\ process' = [process EXCEPT ![m] = "started"]
    /\ worker' = [worker EXCEPT ![m] = IF installed /\ ~signaled
                                      THEN "booting" ELSE "deaf"]
    /\ UNCHANGED <<installed, handlerVars, restartTimes, clock, history>>

Finish(m) == process' = [process EXCEPT ![m] = "none"]

\* while not self.signal_context.signaled
TestSignaled(m) ==
    /\ IF signaled
         THEN Step(m, "loop", "ended") /\ Finish(m)
         ELSE Step(m, "loop", "joining") /\ UNCHANGED process
    /\ UNCHANGED <<installed, handlerVars, worker, restartTimes, clock, history>>

JoinProcess(m) ==
    /\ worker[m] = "dead"
    /\ Step(m, "joining", "deciding")
    /\ UNCHANGED <<installed, handlerVars, process, worker, restartTimes, clock, history>>

\* MUTANT of TooOften: a full deque is not enough.
TooOftenPast(times, limit, window) == Len(times) > limit /\ clock - times[1] < window

\* As many restarts as the deque holds, and the oldest is within the window.
TooOften(times, limit, window) == Len(times) = limit /\ clock - times[1] < window

GivesUp(m) ==
    \/ signaled
    \/ ~Respawn
    \/ TooOften(longTimes[m], LongLimit, LongWindow)
    \/ TooOften(shortTimes[m], ShortLimit, ShortWindow)

GiveUp(m) ==
    /\ GivesUp(m)
    /\ Step(m, "deciding", "ended")
    /\ Finish(m)
    /\ UNCHANGED <<installed, handlerVars, worker, restartTimes, clock, history>>

\* collections.deque(maxlen=limit).append
Push(times, limit) ==
    Append(IF Len(times) < limit THEN times ELSE Tail(times), clock)

DecideToRespawn(m) ==
    /\ ~GivesUp(m)
    /\ Step(m, "deciding", "create")
    /\ longTimes' = [longTimes EXCEPT ![m] = Push(@, LongLimit)]
    /\ shortTimes' = [shortTimes EXCEPT ![m] = Push(@, ShortLimit)]
    /\ respawns' = [respawns EXCEPT ![m] = Append(@, clock)]
    /\ UNCHANGED <<installed, handlerVars, process, worker, clock, signals, raised,
                   unheard>>

MonitorStep(m) ==
    \/ CreateProcess(m)
    \/ StartProcess(m)
    \/ TestSignaled(m)
    \/ JoinProcess(m)
    \/ GiveUp(m)
    \/ DecideToRespawn(m)
-----------------------------------------------------------------------------
(***************************************************************************)
(* The workers                                                             *)
(***************************************************************************)
Becomes(m, states, state) ==
    /\ worker[m] \in states
    /\ worker' = [worker EXCEPT ![m] = state]
    /\ UNCHANGED <<installed, handlerVars, monitor, process, restartTimes, clock, history>>

\* Server.run installs its own handlers.
Boot(m) == Becomes(m, {"deaf", "booting"}, "serving")

Stop(m) == Becomes(m, {"stopping"}, "dead")

Crash(m) == "crash" \in Faults /\ Becomes(m, {"deaf", "booting", "serving"}, "dead")
-----------------------------------------------------------------------------
(***************************************************************************)
(* The parent's main thread: _run_server                                   *)
(***************************************************************************)
InstallHandlers ==
    /\ ~installed
    /\ installed' = TRUE
    /\ UNCHANGED <<handlerVars, monitor, process, worker, restartTimes, clock, history>>

Settled == \A m \in Monitors : monitor[m] = "joining" /\ worker[m] = "serving"

SignalMayCome ==
    /\ installed
    /\ signals < MaxSignals
    /\ "early" \in Faults \/ signaled \/ Settled
    /\ signals' = signals + 1

\* signaled(): the first signal takes the lock and walks the monitors.
BeginTermination ==
    /\ SignalMayCome
    /\ ~lockHeld
    /\ ~signaled
    /\ signaled' = TRUE
    /\ lockHeld' = TRUE
    /\ handler' = "look"
    /\ todo' = 1
    /\ UNCHANGED <<installed, monitor, process, worker, restartTimes, clock, raised,
                   respawns, unheard>>

\* Any later one is ignored.  Where it got the lock, it does not release it.
IgnoreSignal ==
    /\ SignalMayCome
    /\ lockHeld \/ signaled
    /\ lockHeld' = TRUE
    /\ UNCHANGED <<installed, signaled, handler, todo, monitor, process, worker,
                   restartTimes, clock, raised, respawns, unheard>>

\* MUTANT of Advance: the last monitor is left out.
AdvanceShort ==
    /\ handler' = IF todo < NumProcesses - 1 THEN "look" ELSE "idle"
    /\ todo' = IF todo < NumProcesses - 1 THEN todo + 1 ELSE todo
    /\ lockHeld' = (todo < NumProcesses - 1)

\* The handler goes on to the next monitor, or is done.
Advance ==
    /\ handler' = IF todo < NumProcesses THEN "look" ELSE "idle"
    /\ todo' = IF todo < NumProcesses THEN todo + 1 ELSE todo
    /\ lockHeld' = (todo < NumProcesses)

\* terminate(): if self.process ...
LookAtProcess ==
    /\ handler = "look"
    /\ IF process[todo] = "none"
         THEN Advance
         ELSE handler' = "call" /\ UNCHANGED <<todo, lockHeld>>
    /\ UNCHANGED <<installed, signaled, monitor, process, worker, restartTimes, clock,
                   history>>

\* ... self.process.terminate(), where the thread has not moved on since.
\* A worker that boots with its parent's handler dies of that handler, which in the
\* child goes through the monitors, too: it signals once more the workers in front of
\* it, which the parent has told before, and raises at its own, which it cannot
\* terminate.  That second SIGTERM changes nothing here: they stop already.
TerminateProcess ==
    /\ handler = "call"
    /\ process[todo] = "started"
    /\ worker' = [worker EXCEPT ![todo] =
           IF @ = "serving" THEN "stopping" ELSE IF @ = "booting" THEN "dead" ELSE @]
    /\ unheard' = IF worker[todo] = "deaf" THEN unheard \union {todo} ELSE unheard
    /\ Advance
    /\ UNCHANGED <<installed, signaled, monitor, process, restartTimes, clock, signals,
                   raised, respawns>>

\* None has no terminate(), and a Process without a fork has no _popen: the
\* handler raises AttributeError, and the monitors behind are not terminated.
TerminateRaises ==
    /\ handler = "call"
    /\ process[todo] # "started"
    /\ handler' = "idle"
    /\ lockHeld' = FALSE
    /\ raised' = TRUE
    /\ UNCHANGED <<installed, signaled, todo, monitor, process, worker, restartTimes,
                   clock, signals, respawns, unheard>>

HandlerStep == LookAtProcess \/ TerminateProcess \/ TerminateRaises

Tick ==
    /\ clock < MaxTime
    /\ clock' = clock + 1
    /\ UNCHANGED <<installed, handlerVars, monitor, process, worker, restartTimes, history>>
-----------------------------------------------------------------------------
Next ==
    \/ \E m \in Monitors : MonitorStep(m) \/ Boot(m) \/ Stop(m) \/ Crash(m)
    \/ InstallHandlers
    \/ BeginTermination
    \/ IgnoreSignal
    \/ HandlerStep
    \/ Tick

Spec == Init /\ [][Next]_vars

\* Threads run; a worker boots, and stops when a SIGTERM told it to.
FairSpec ==
    /\ Spec
    /\ WF_vars(InstallHandlers)
    /\ WF_vars(HandlerStep)
    /\ \A m \in Monitors : WF_vars(MonitorStep(m)) /\ WF_vars(Boot(m)) /\ WF_vars(Stop(m))
-----------------------------------------------------------------------------
(***************************************************************************)
(* Properties                                                              *)
(***************************************************************************)
\* Every variable holds a value of its type; the deques keep to their maxlen.
TypeOK ==
    /\ installed \in BOOLEAN
    /\ signaled \in BOOLEAN
    /\ lockHeld \in BOOLEAN
    /\ handler \in {"idle", "look", "call"}
    /\ todo \in Monitors
    /\ monitor \in [Monitors -> {"create", "start", "loop", "joining", "deciding", "ended"}]
    /\ process \in [Monitors -> {"none", "new", "started"}]
    /\ worker \in [Monitors -> {"none", "deaf", "booting", "serving", "stopping", "dead"}]
    /\ shortTimes \in [Monitors -> Seq(Nat)]
    /\ longTimes \in [Monitors -> Seq(Nat)]
    /\ \A m \in Monitors : Len(shortTimes[m]) <= ShortLimit /\ Len(longTimes[m]) <= LongLimit
    /\ clock \in 0..MaxTime
    /\ signals \in 0..MaxSignals
    /\ raised \in BOOLEAN
    /\ respawns \in [Monitors -> Seq(Nat)]
    /\ unheard \subseteq Monitors

\* Within any window, a worker is forked anew at most `limit` times.
AtMost(limit, window) == \A m \in Monitors :
    \A i \in 1..(Len(respawns[m]) - limit) :
        respawns[m][i + limit] - respawns[m][i] >= window

\* Both limits hold over the whole life of a worker, though each monitor
\* only remembers its last few restarts.
RespawnsAreLimited == AtMost(ShortLimit, ShortWindow) /\ AtMost(LongLimit, LongWindow)

\* Once the handler is done, and unless it raised, each worker that the parent
\* still waits for was told to stop, in a way that it heard: the parent does
\* not wait for a worker that knows of nothing.
AwaitedWorkersWereTold ==
    signaled /\ handler = "idle" /\ ~raised =>
        \A m \in Monitors :
            monitor[m] = "joining" /\ worker[m] = "serving" => m \in unheard

\* The service has ended: the parent's threads, and its workers, which it joins.
Gone == \A m \in Monitors : monitor[m] = "ended" /\ worker[m] = "dead"

\* After a signal to the parent all its threads end, whatever threads and
\* workers do meanwhile, unless its handler raised or a worker was deaf.
MonitorsEndOnceSignaled ==
    signaled ~> raised \/ unheard # {} \/ \A m \in Monitors : monitor[m] = "ended"

\* A signal to the parent ends the service.
StopsOnceSignaled == signaled ~> Gone

\* What a parent knows of a worker: a deaf one boots, too, and one that was not
\* forked yet is not there.
Life(m) ==
    IF worker[m] \in {"none", "dead"} THEN "gone"
    ELSE IF worker[m] = "deaf" THEN "booting"
    ELSE worker[m]

Lives == INSTANCE ForkedWorkers WITH Workers <- Monitors, worker <- [m \in Monitors |-> Life(m)]

\* No monitor forks a worker beside one that is still there, and none that was
\* told to stop serves again.
RefinesForkedWorkers == Lives!Spec

\* The --no-respawn help text: a worker that "crashes 3 times in 15 seconds or
\* 8 times in 60 seconds" is given up; its third crash is not answered by a fork.
CrashesAreLimited == AtMost(ShortLimit - 1, ShortWindow) /\ AtMost(LongLimit - 1, LongWindow)
=============================================================================
