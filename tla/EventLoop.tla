----------------------------- MODULE EventLoop -----------------------------
(***************************************************************************)
(* The thread of the asynchronous event loop (internal/event_loop.py) and  *)
(* the thread of the server, which hands coroutines to it while it runs    *)
(* jobs and joins it when it ends.                                         *)
(*                                                                         *)
(* The event loop of asyncio is modelled from how it is used: handles are  *)
(* run in the order in which they were scheduled, the first one of a       *)
(* coroutine makes a task of it, and stop lets the loop finish the handles *)
(* it is at.  ServerLoop shows when the server joins.                      *)
(***************************************************************************)
EXTENDS Naturals, Sequences

CONSTANTS
    Coroutines,  \* coroutines that actions, or other coroutines, may start
    None,        \* no coroutine
    Faults       \* which of PossibleFaults may happen

(*   raise   a coroutine raises an error                                   *)
(*   exit    a coroutine raises SystemExit                                 *)
(*   early   the server ends before the loop runs                          *)
PossibleFaults == {"raise", "exit", "early"}

ASSUME EventLoopAssumption == None \notin Coroutines /\ Faults \subseteq PossibleFaults

VARIABLES
    thread,     \* where the thread of the loop is in run
    ready,      \* handles that the loop is to run
    task,       \* what has become of each coroutine
    gathered,   \* the tasks that run waits for before it closes the loop
    done,       \* _done
    server,     \* where the server is: serving, or where in join
    awaited,    \* the coroutine whose result a job is waiting for
    \* History, read by properties only:
    early,      \* join found that the loop did not run yet
    exited,     \* a coroutine raised SystemExit
    failed,     \* a gathered task raised an error
    late        \* tasks that others started after the gathering

loopVars == <<thread, gathered, done>>
history == <<early, exited, failed, late>>
vars == <<thread, ready, task, gathered, done, server, awaited, early, exited, failed, late>>

Start(c) == <<"start", c>>
Step(c) == <<"step", c>>
Stop == <<"stop", None>>

Ended == {"returned", "raised"}
IsRunning == thread \in {"running", "stopping", "draining"}

Init ==
    /\ thread = "starting"
    /\ ready = <<>>
    /\ task = [c \in Coroutines |-> "none"]
    /\ gathered = {}
    /\ done = FALSE
    /\ server = "serving"
    /\ awaited = None
    /\ early = FALSE
    /\ exited = FALSE
    /\ failed = FALSE
    /\ late = {}
-----------------------------------------------------------------------------
(***************************************************************************)
(* The server                                                              *)
(***************************************************************************)
\* run_coroutine of an action; a loop that is closed raises an error.
RunCoroutine(c) ==
    /\ server = "serving"
    /\ task[c] = "none"
    /\ IF thread = "closed"
         THEN task' = [task EXCEPT ![c] = "refused"] /\ UNCHANGED ready
         ELSE task' = [task EXCEPT ![c] = "scheduled"] /\ ready' = Append(ready, Start(c))
    /\ UNCHANGED <<loopVars, server, awaited, history>>

Await(c) ==
    /\ server = "serving"
    /\ task[c] \notin {"none", "refused"}
    /\ server' = "awaiting"
    /\ awaited' = c
    /\ UNCHANGED <<loopVars, ready, task, history>>

\* The coroutine has ended, or harakiri interrupts the job.
GetResult ==
    /\ server = "awaiting"
    /\ task[awaited] \in Ended
    /\ server' = "serving"
    /\ awaited' = None
    /\ UNCHANGED <<loopVars, ready, task, history>>

Harakiri ==
    /\ server = "awaiting"
    /\ server' = "serving"
    /\ awaited' = None
    /\ UNCHANGED <<loopVars, ready, task, history>>

\* join: it looks whether there is a loop to stop ...
BeginJoin ==
    /\ server = "serving"
    /\ thread = "starting" => "early" \in Faults
    /\ server' = IF IsRunning THEN "stopping" ELSE "joining"
    /\ early' = (thread = "starting")
    /\ UNCHANGED <<loopVars, ready, task, awaited, exited, failed, late>>

\* ... schedules its stop, which is an error if it has been closed since, ...
ScheduleStop ==
    /\ server = "stopping"
    /\ IF thread = "closed"
         THEN server' = "error" /\ UNCHANGED ready
         ELSE server' = "waiting" /\ ready' = Append(ready, Stop)
    /\ UNCHANGED <<loopVars, task, awaited, history>>

\* ... and waits for _done, and for the thread.
WaitForDone ==
    /\ server = "waiting" /\ done
    /\ server' = "joining"
    /\ UNCHANGED <<loopVars, ready, task, awaited, history>>

Join ==
    /\ server = "joining" /\ thread = "closed"
    /\ server' = "joined"
    /\ UNCHANGED <<loopVars, ready, task, awaited, history>>
-----------------------------------------------------------------------------
(***************************************************************************)
(* Handles                                                                 *)
(***************************************************************************)
RunHandle(handle) ==
    /\ IsRunning
    /\ ready # <<>> /\ Head(ready) = handle

\* The task is made; its first step comes behind what is scheduled already.
MakeTask(c) ==
    /\ RunHandle(Start(c))
    /\ ready' = Append(Tail(ready), Step(c))
    /\ task' = [task EXCEPT ![c] = "made"]
    /\ UNCHANGED <<loopVars, server, awaited, history>>

\* A coroutine awaits something once, at most (a bound), and is resumed.
Suspend(c) ==
    /\ RunHandle(Step(c))
    /\ task[c] = "made"
    /\ task' = [task EXCEPT ![c] = "suspended"]
    /\ ready' = Tail(ready)
    /\ UNCHANGED <<loopVars, server, awaited, history>>

Resume(c) ==
    /\ thread # "closed"
    /\ task[c] = "suspended"
    /\ task' = [task EXCEPT ![c] = "resumed"]
    /\ ready' = Append(ready, Step(c))
    /\ UNCHANGED <<loopVars, server, awaited, history>>

\* It starts another one on the way, for which nobody waits.
Spawn(c, d) ==
    /\ RunHandle(Step(c))
    /\ task[c] = "made"
    /\ task[d] = "none"
    /\ task' = [task EXCEPT ![c] = "suspended", ![d] = "made"]
    /\ ready' = Append(Tail(ready), Step(d))
    /\ late' = IF thread = "draining" THEN late \union {d} ELSE late
    /\ UNCHANGED <<loopVars, server, awaited, early, exited, failed>>

Return(c) ==
    /\ RunHandle(Step(c))
    /\ task' = [task EXCEPT ![c] = "returned"]
    /\ ready' = Tail(ready)
    /\ UNCHANGED <<loopVars, server, awaited, history>>

\* The default middleware logs the error and lets it pass, to the future and to
\* whoever gathered the task.
Raise(c) ==
    /\ "raise" \in Faults
    /\ RunHandle(Step(c))
    /\ task' = [task EXCEPT ![c] = "raised"]
    /\ failed' = (failed \/ c \in gathered)
    /\ ready' = Tail(ready)
    /\ UNCHANGED <<loopVars, server, awaited, early, exited, late>>

\* SystemExit passes through the loop.  Its future is told by the handles of the
\* drain; in the drain, by none.
RaiseExit(c) ==
    /\ "exit" \in Faults
    /\ RunHandle(Step(c))
    /\ task' = [task EXCEPT ![c] = IF thread = "draining" THEN "lost" ELSE "raised"]
    /\ thread' = IF thread = "draining" THEN "closing" ELSE "gathering"
    /\ exited' = TRUE
    /\ ready' = Tail(ready)
    /\ UNCHANGED <<gathered, done, server, awaited, early, failed, late>>

\* _loop_stop_callback; in the drain, "Event loop stopped before Future completed".
RunStop ==
    /\ RunHandle(Stop)
    /\ thread' = IF thread = "draining" THEN "closing" ELSE "stopping"
    /\ ready' = Tail(ready)
    /\ UNCHANGED <<task, gathered, done, server, awaited, history>>
-----------------------------------------------------------------------------
(***************************************************************************)
(* The thread of the loop: run                                             *)
(***************************************************************************)
RunForever ==
    /\ thread = "starting"
    /\ thread' = "running"
    /\ UNCHANGED <<ready, task, gathered, done, server, awaited, history>>

\* run_forever returns, after handles that were scheduled before or after stop.
StopRunning ==
    /\ thread = "stopping"
    /\ thread' = "gathering"
    /\ UNCHANGED <<ready, task, gathered, done, server, awaited, history>>

\* MUTANT of Gather: only the tasks that wait to be resumed are completed.
GatherSuspended ==
    /\ thread = "gathering"
    /\ thread' = "draining"
    /\ gathered' = {c \in Coroutines : task[c] = "suspended"}
    /\ UNCHANGED <<ready, task, done, server, awaited, history>>

\* all_tasks: those that were made and have not ended.
Gather ==
    /\ thread = "gathering"
    /\ thread' = "draining"
    /\ gathered' = {c \in Coroutines : task[c] \in {"made", "suspended", "resumed"}}
    /\ UNCHANGED <<ready, task, done, server, awaited, history>>

\* The tasks have ended, or one of them raised an error: gather does not wait
\* for the others then.
Drained ==
    /\ thread = "draining"
    /\ failed \/ \A c \in gathered : task[c] \in Ended
    /\ thread' = "closing"
    /\ UNCHANGED <<ready, task, gathered, done, server, awaited, history>>

\* MUTANT of Close: _done is set only if the drain went well.
CloseUnlessFailed ==
    /\ thread = "closing"
    /\ thread' = "closed"
    /\ done' = ~failed
    /\ UNCHANGED <<ready, task, gathered, server, awaited, history>>

\* The last finally: whatever happened, _done is set.
Close ==
    /\ thread = "closing"
    /\ thread' = "closed"
    /\ done' = TRUE
    /\ UNCHANGED <<ready, task, gathered, server, awaited, history>>

\* What the code of the service does in its jobs, and its coroutines.
JobStep == \E c \in Coroutines : RunCoroutine(c) \/ Await(c)
JoinStep == ScheduleStop \/ WaitForDone \/ Join
Handle(c) == MakeTask(c) \/ Suspend(c) \/ Return(c) \/ Raise(c) \/ RaiseExit(c)
    \/ \E d \in Coroutines : Spawn(c, d)
LoopStep ==
    \/ RunForever \/ RunStop \/ StopRunning \/ Gather \/ Drained \/ Close
    \/ \E c \in Coroutines : Handle(c)

Next ==
    \/ JobStep \/ GetResult \/ Harakiri \/ BeginJoin \/ JoinStep
    \/ LoopStep
    \/ \E c \in Coroutines : Resume(c)

Spec == Init /\ [][Next]_vars

\* Threads run, a drain that may end does, and what a coroutine awaits happens.
FairSpec ==
    /\ Spec
    /\ WF_vars(JoinStep) /\ WF_vars(GetResult)
    /\ WF_vars(LoopStep) /\ WF_vars(Drained)
    /\ \A c \in Coroutines : WF_vars(Resume(c))
-----------------------------------------------------------------------------
TypeOK ==
    /\ thread \in {"starting", "running", "stopping", "gathering", "draining", "closing", "closed"}
    /\ \A i \in 1..Len(ready) :
          ready[i] \in ({"start", "step"} \X Coroutines) \union {Stop}
    /\ task \in [Coroutines -> Ended \union {"none", "refused", "scheduled", "made", "suspended",
                                             "resumed", "lost"}]
    /\ gathered \subseteq Coroutines
    /\ done = (thread = "closed")
    /\ server \in {"serving", "awaiting", "stopping", "waiting", "joining", "joined", "error"}
    /\ awaited \in Coroutines \union {None}
    /\ (server = "awaiting") = (awaited # None)

\* "Completing uncompleted async tasks": a coroutine that was handed to the loop
\* has ended when the loop is closed, unless a gathered one raised an error, one
\* raised SystemExit, or it was itself started by another one that late.
CoroutinesComplete == thread = "closed" =>
    \A c \in Coroutines : task[c] \in Ended \union {"none", "refused"}
                          \/ failed \/ exited \/ c \in late

\* What a join that waits for _done relies on: its stop is not overtaken by the
\* end of the loop, nor lost among the handles.  One that found no loop to stop
\* waits for a thread that ends by itself, unless it came too early.
JoinIsHeard ==
    /\ server = "waiting" /\ thread \in {"starting", "running"} =>
          \E i \in 1..Len(ready) : ready[i] = Stop
    /\ server = "joining" /\ ~early => thread \notin {"starting", "running"}

\* A server that joins a loop it found running, or past that, goes on to its
\* end, even where coroutines raise errors and the drain breaks off.
JoinReturns == server \in {"stopping", "waiting", "joining"} /\ ~early
                 ~> server \in {"joined", "error"}

\* A job that waits for its coroutine hears how it ended, while the loop runs:
\* only a SystemExit leaves it to harakiri.
AwaitedCoroutinesAnswer == server = "awaiting" ~> server # "awaiting" \/ exited
-----------------------------------------------------------------------------
\* What the code does not do: no coroutine is left undone by the errors of others.
EveryCoroutineCompletes == thread = "closed" =>
    \A c \in Coroutines : task[c] \in Ended \union {"none", "refused"}

\* Nor does every join return.
EveryJoinReturns == server = "joining" ~> server = "joined"
=============================================================================
