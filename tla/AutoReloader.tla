---------------------------- MODULE AutoReloader ----------------------------
(***************************************************************************)
(* The file watcher of a development server (server/autoreload.py): a      *)
(* parent that runs a clone of itself and starts it again when it exits    *)
(* with NEED_RELOAD_EXIT_CODE; in the clone, the main thread that runs the *)
(* server and a daemon thread that watches the files of its modules, one   *)
(* of them here, by PyInotify or by polling.                               *)
(*                                                                         *)
(* The server is what ServerLoop (or ProcessMonitor, if it forks) shows of  *)
(* it: deaf while it boots, then it stops gracefully when it is told to.   *)
(***************************************************************************)
EXTENDS Integers

CONSTANTS
    SignalForks,  \* values of signal_forks: whether the server forks workers
    Watchers,     \* "inotify" and "polling" reloaders
    MaxSignals,   \* BOUND: signals the operator sends to the parent
    MaxChanges,   \* BOUND: changes and removals of the file
    Faults        \* which of PossibleFaults may happen

(*   crash     the server raises an error                                  *)
(*   ends      the server returns although it was not told to stop         *)
(*   slow      the server takes too long to stop                           *)
PossibleFaults == {"crash", "ends", "slow"}

ASSUME ReloaderAssumption ==
    /\ SignalForks \subseteq BOOLEAN
    /\ Watchers \subseteq {"inotify", "polling"}
    /\ MaxSignals \in Nat
    /\ MaxChanges \in Nat
    /\ Faults \subseteq PossibleFaults

VARIABLES
    forks,      \* signal_forks: it forks, and hears SIGHUP
    kind,       \* the reloader that get_reloader gave
    parent,     \* where restart_with_reloader is
    server,     \* where the main thread of the clone is
    exitCode,   \* of the clone, when it is dead
    watcher,    \* where watch_files is
    watching,   \* the flag of that name
    forReload,  \* shutting_down_for_reload
    version,    \* the time at which the file was last changed
    there,      \* whether it exists
    loaded,     \* the version that the clone runs
    named,      \* in cached_file_names; its module is not in cached_modules at first
    modified,   \* its entry in modified_times; the version that PyInotify watches
    signals,    \* signals the operator may still send
    changes,    \* changes that may still be made
    \* History, read by properties only:
    starts,     \* clones that were started, counted up to MaxChanges + 2
    noticed,    \* clones whose watcher noticed a change
    told,       \* the operator told this clone to stop, and it listened
    stoppedBy,  \* who made this clone leave its server first
    again,      \* the watcher signaled this clone a second time, or it crashed
    early,      \* the file changed before the watcher looked at it
    removed     \* it was removed where a poll may have missed it

fixedVars == <<forks, kind>>
fileVars == <<version, there>>
watchVars == <<loaded, named, modified>>
clone == <<fixedVars, server, exitCode, watcher, watching, forReload, fileVars, watchVars>>
missedVars == <<early, removed>>
history == <<starts, noticed, told, stoppedBy, again, missedVars>>
vars == <<forks, kind, parent, server, exitCode, watcher, watching, forReload, version, there,
          loaded, named, modified, signals, changes, starts, noticed, told, stoppedBy, again,
          early, removed>>

NeedReload == 3
Unseen == -1   \* not in modified_times
Running == server # "dead"

Init ==
    /\ forks \in SignalForks
    /\ kind \in Watchers
    /\ parent = "ignoring"
    /\ server = "dead"
    /\ exitCode = NeedReload
    /\ watcher = "none"
    /\ watching = FALSE
    /\ forReload = FALSE
    /\ version = 0
    /\ there = TRUE
    /\ loaded = 0
    /\ named = "unnamed"
    /\ modified = Unseen
    /\ signals = MaxSignals
    /\ changes = MaxChanges
    /\ starts = 0
    /\ noticed = 0
    /\ told = FALSE
    /\ stoppedBy = "nobody"
    /\ again = FALSE
    /\ early = FALSE
    /\ removed = FALSE
-----------------------------------------------------------------------------
(***************************************************************************)
(* The parent                                                              *)
(***************************************************************************)
\* SIGINT and SIGTERM are ignored from before the clone is started, which
\* inherits that, until after.  Without the file the clone fails on an import.
StartClone ==
    /\ parent = "ignoring"
    /\ parent' = "started"
    /\ server' = IF there THEN "booting" ELSE "dead"
    /\ exitCode' = IF there THEN 0 ELSE 1
    /\ watcher' = IF there THEN "new" ELSE "none"
    /\ watching' = FALSE
    /\ forReload' = FALSE
    /\ loaded' = version
    /\ named' = "unnamed"
    /\ modified' = Unseen
    /\ starts' = IF starts > MaxChanges + 1 THEN starts ELSE starts + 1
    /\ told' = FALSE
    /\ stoppedBy' = "nobody"
    /\ again' = FALSE
    /\ early' = FALSE
    /\ removed' = FALSE
    /\ UNCHANGED <<fixedVars, fileVars, signals, changes, noticed>>

InstallHandlers ==
    /\ parent = "started"
    /\ parent' = "waiting"
    /\ UNCHANGED <<clone, signals, changes, history>>

\* MUTANT of WaitForClone: the exit code of the clone is not looked at.
WaitForAnyExit ==
    /\ parent = "waiting"
    /\ ~Running
    /\ parent' = "restarting"
    /\ UNCHANGED <<clone, signals, changes, history>>

WaitForClone ==
    /\ parent = "waiting"
    /\ ~Running
    /\ parent' = IF exitCode = NeedReload THEN "restarting" ELSE "ending"
    /\ UNCHANGED <<clone, signals, changes, history>>

IgnoreSignals ==
    /\ parent = "restarting"
    /\ parent' = "ignoring"
    /\ UNCHANGED <<clone, signals, changes, history>>

\* It exits with the exit code of the clone, or sends itself the signal that
\* ended the clone: SIGHUP, which it does not handle.
End ==
    /\ parent = "ending"
    /\ parent' = "done"
    /\ UNCHANGED <<clone, signals, changes, history>>

\* The first to make the server leave its loop.
Blame(who) == stoppedBy' = IF stoppedBy = "nobody" THEN who ELSE stoppedBy

(***************************************************************************)
(* SIGTERM reaches the clone.  A booting one has it ignored.  In a server  *)
(* that was told before, a second signal is a duplicate, or forces its end *)
(* by SystemExit; the parent of forked workers returns at once.            *)
(***************************************************************************)
Terminate(who) ==
    \/ server = "running" /\ server' = "stopping" /\ Blame(who)
    \/ server # "running" /\ UNCHANGED <<server, stoppedBy>>
    \/ /\ server \in {"stopping", "returned", "stopped"} /\ ~forks
       /\ server' = "raised"
       /\ UNCHANGED stoppedBy

SignalParent ==
    /\ parent # "done"
    /\ signals > 0
    /\ signals' = signals - 1
    /\ IF parent = "waiting" /\ Running
         THEN Terminate("operator") /\ told' = (told \/ server # "booting")
         ELSE UNCHANGED <<server, stoppedBy, told>>
    /\ UNCHANGED <<fixedVars, parent, exitCode, watcher, watching, forReload, fileVars, watchVars,
                   changes, starts, noticed, again, missedVars>>
-----------------------------------------------------------------------------
(***************************************************************************)
(* The clone: its main thread                                              *)
(***************************************************************************)
MoveTo(place) ==
    /\ server' = place
    /\ UNCHANGED <<fixedVars, parent, exitCode, watcher, watching, forReload, fileVars, watchVars,
                   signals, changes, starts, noticed, told, missedVars>>

\* The server installs its handlers.
Boot == server = "booting" /\ MoveTo("running") /\ UNCHANGED <<stoppedBy, again>>

Crash ==
    /\ "crash" \in Faults
    /\ server \in {"booting", "running", "stopping"}
    /\ MoveTo("raised")
    /\ Blame("itself")
    /\ again' = TRUE

Finish ==
    /\ server = "stopping" \/ (server = "running" /\ "ends" \in Faults)
    /\ MoveTo("returned")
    /\ Blame("itself")
    /\ UNCHANGED again

StopWatching ==
    /\ server \in {"returned", "raised"}
    /\ server' = IF server = "returned" THEN "stopped" ELSE "failing"
    /\ watching' = FALSE
    /\ UNCHANGED <<fixedVars, parent, exitCode, watcher, forReload, fileVars, watchVars, signals,
                   changes, history>>

ExitWith(code) ==
    /\ server' = "dead"
    /\ exitCode' = code
    /\ watcher' = "none"
    /\ UNCHANGED <<fixedVars, parent, watching, forReload, fileVars, watchVars, signals, changes>>

Exit ==
    /\ \/ server = "stopped" /\ ExitWith(IF forReload THEN NeedReload ELSE 0)
       \/ server = "failing" /\ ExitWith(1)
    /\ UNCHANGED history
-----------------------------------------------------------------------------
(***************************************************************************)
(* The clone: its watching thread                                          *)
(***************************************************************************)
WatcherMoves(from, to) ==
    /\ watcher = from
    /\ watcher' = to
    /\ UNCHANGED <<fixedVars, parent, exitCode, fileVars, loaded, signals, changes, starts,
                   missedVars>>

\* The watcher reads, and remembers nothing but what it read of the file.
Looks(from, to) ==
    /\ WatcherMoves(from, to)
    /\ UNCHANGED <<server, watching, forReload, noticed, told, stoppedBy, again>>

StartWatching ==
    /\ WatcherMoves("new", "looking")
    /\ watching' = TRUE
    /\ UNCHANGED <<server, forReload, named, modified, noticed, told, stoppedBy, again>>

\* get_watch_file_names.  The module is new to it the first time only: a file
\* that one call did not find is not named again.
LookForFile ==
    /\ Looks("looking", "comparing")
    /\ named' = IF there /\ named # "forgotten" THEN "named" ELSE "forgotten"
    /\ UNCHANGED modified

\* The rest of code_changed of _PollingReloader: the first time of the file is
\* that with which later ones are compared.
CompareTimes ==
    /\ kind = "polling" /\ named = "named" /\ there
    /\ \/ modified = Unseen /\ Looks("comparing", "watching") /\ modified' = version
       \/ modified = version /\ Looks("comparing", "watching") /\ UNCHANGED modified
       \/ modified \notin {Unseen, version} /\ Looks("comparing", "changed") /\ modified' = Unseen
    /\ UNCHANGED named

CompareNothing ==
    /\ kind = "polling" /\ named = "forgotten"
    /\ Looks("comparing", "watching")
    /\ UNCHANGED <<named, modified>>

\* os.stat raises an error, which ends the thread.
FindNoFile ==
    /\ kind = "polling" /\ named = "named" /\ ~there
    /\ Looks("comparing", "ended")
    /\ UNCHANGED <<named, modified>>

\* After a second of sleep.
PollAgain ==
    /\ kind = "polling" /\ watching
    /\ Looks("watching", "looking")
    /\ UNCHANGED <<named, modified>>

\* _PyInotifyReloader adds a watch ...
AddWatch ==
    /\ kind = "inotify"
    /\ Looks("comparing", "watching")
    /\ modified' = version
    /\ named' = IF there THEN named ELSE "forgotten"

\* ... and waits for any event, the removal of the file included.
SeeEvent ==
    /\ kind = "inotify" /\ watching
    /\ named = "named"
    /\ modified # version \/ ~there
    /\ Looks("watching", "changed")
    /\ UNCHANGED <<named, modified>>

LeaveLoop ==
    /\ ~watching
    /\ Looks("watching", "ended")
    /\ UNCHANGED <<named, modified>>

\* MUTANT of TellWhy: the main thread is not told why.
TellNothing ==
    /\ WatcherMoves("changed", "noticed")
    /\ noticed' = noticed + 1
    /\ UNCHANGED <<server, watching, forReload, named, modified, told, stoppedBy, again>>

TellWhy ==
    /\ WatcherMoves("changed", "noticed")
    /\ forReload' = TRUE
    /\ noticed' = noticed + 1
    /\ UNCHANGED <<server, watching, named, modified, told, stoppedBy, again>>

\* SIGHUP is not ignored while the clone boots: it dies.
HangUp ==
    /\ forks
    /\ watcher = "noticed"
    /\ IF server = "booting"
         THEN /\ server' = "dead" /\ exitCode' = -1 /\ watcher' = "none"
              /\ Blame("watcher")
         ELSE /\ Terminate("watcher") /\ watcher' = "signaled"
              /\ UNCHANGED exitCode
    /\ UNCHANGED <<fixedVars, parent, watching, forReload, fileVars, watchVars, signals, changes,
                   starts, noticed, told, again, missedVars>>

TerminateClone ==
    /\ WatcherMoves(IF forks THEN "signaled" ELSE "noticed", "waiting")
    /\ Terminate("watcher")
    /\ UNCHANGED <<watching, forReload, named, modified, noticed, told, again>>

SeeStop ==
    /\ ~watching
    /\ Looks("waiting", "ended")
    /\ UNCHANGED <<named, modified>>

\* MUTANT of TerminateAgain: the watcher waits for ever.
TerminateNever == FALSE /\ UNCHANGED vars

\* "Process took too long to stop after file change; signaling again": after
\* six seconds, which is more than it takes to boot.  It has slept half a second
\* since it last looked whether it should still watch.
TerminateAgain ==
    /\ server = "running" \/ ("slow" \in Faults /\ server # "booting")
    /\ WatcherMoves("waiting", "ended")
    /\ Terminate("watcher")
    /\ again' = (again \/ server # "running")
    /\ UNCHANGED <<watching, forReload, named, modified, noticed, told>>

-----------------------------------------------------------------------------
(***************************************************************************)
(* The file                                                                *)
(***************************************************************************)
FileChanges(exists) ==
    /\ there' = exists
    /\ early' = (early \/ (Running /\ modified = Unseen))
    /\ UNCHANGED <<fixedVars, parent, server, exitCode, watcher, watching, forReload, watchVars,
                   signals, starts, noticed, told, stoppedBy, again>>

ChangeFile ==
    /\ there
    /\ changes > 0
    /\ changes' = changes - 1
    /\ version' = version + 1
    /\ FileChanges(TRUE)
    /\ UNCHANGED removed

\* An editor that saves a file by writing it anew, or a version control system.
RemoveFile ==
    /\ there
    /\ changes > 0
    /\ changes' = changes - 1
    /\ removed' = (removed \/ (Running /\ kind = "polling"))
    /\ FileChanges(FALSE)
    /\ UNCHANGED version

RestoreFile ==
    /\ ~there
    /\ version' = version + 1
    /\ FileChanges(TRUE)
    /\ UNCHANGED <<changes, removed>>

ParentStep == StartClone \/ InstallHandlers \/ WaitForClone \/ IgnoreSignals \/ End
ServerStep == Boot \/ (server = "stopping" /\ Finish) \/ StopWatching \/ Exit
WatcherStep ==
    \/ StartWatching \/ LookForFile \/ CompareTimes \/ CompareNothing \/ FindNoFile \/ PollAgain
    \/ AddWatch \/ SeeEvent \/ LeaveLoop \/ TellWhy
    \/ HangUp \/ TerminateClone \/ SeeStop \/ TerminateAgain

Next ==
    \/ ParentStep \/ ServerStep \/ WatcherStep
    \/ Crash \/ Finish
    \/ SignalParent
    \/ ChangeFile \/ RemoveFile \/ RestoreFile

Spec == Init /\ [][Next]_vars

\* Each thread runs, and a server that was told to stop stops.
FairSpec == Spec /\ WF_vars(ParentStep) /\ WF_vars(ServerStep) /\ WF_vars(WatcherStep)
-----------------------------------------------------------------------------
(***************************************************************************)
(* Properties                                                              *)
(***************************************************************************)
FlagsOK ==
    /\ forks \in BOOLEAN /\ watching \in BOOLEAN /\ forReload \in BOOLEAN /\ there \in BOOLEAN
    /\ told \in BOOLEAN /\ again \in BOOLEAN /\ early \in BOOLEAN /\ removed \in BOOLEAN

PlacesOK ==
    /\ kind \in {"inotify", "polling"}
    /\ parent \in {"ignoring", "started", "waiting", "restarting", "ending", "done"}
    /\ server \in {"booting", "running", "stopping", "returned", "raised", "stopped",
                   "failing", "dead"}
    /\ exitCode \in {-1, 0, 1, NeedReload}
    /\ watcher \in {"none", "new", "looking", "comparing", "watching", "changed", "noticed",
                    "signaled", "waiting", "ended"}
    /\ named \in {"unnamed", "named", "forgotten"}
    /\ stoppedBy \in {"nobody", "operator", "watcher", "itself"}

CountersOK ==
    /\ version \in 0..(2 * MaxChanges) /\ loaded \in 0..version
    /\ modified \in {Unseen} \union 0..version
    /\ signals \in 0..MaxSignals /\ changes \in 0..MaxChanges
    /\ starts \in 0..(MaxChanges + 2) /\ noticed \in 0..MaxChanges

ThreadsOK ==
    /\ watcher = "none" <=> server = "dead"
    /\ watcher \in {"noticed", "signaled", "waiting"} => forReload
    /\ forReload => noticed > 0

\* Every variable holds a value of its type, a dead clone watches nothing, and
\* the flag that asks for a reload is the watcher's.
TypeOK == FlagsOK /\ PlacesOK /\ CountersOK /\ ThreadsOK

\* The parent starts a clone again only where the watcher of the last one
\* noticed a change: one that fails or ends by itself is not respawned.
RestartsFollowChanges == starts <= noticed + 1

\* A parent that ends had a clone that its operator told to stop, that ended by
\* itself, that was signaled twice or crashed, or that SIGHUP caught booting:
\* stopping for a change alone is never the end.
ReloadRestarts == parent = "done" =>
    stoppedBy # "watcher" \/ told \/ again \/ exitCode = -1

\* A clone that its operator told to stop ends the parent with it, unless its
\* watcher notices a change before.
ToldServerEnds == (told /\ ~forReload) ~> (parent = "done" \/ forReload)

\* A clone that runs an old version of the file is replaced by another one,
\* unless the parent ends: although the first SIGTERM may come while the clone
\* is deaf.  A change is overlooked only before the first look, and after the
\* file was removed in front of a watcher that polls.
IsStale(n) == Running /\ starts = n /\ there /\ version # loaded
ChangesAreLoaded == \A n \in 1..(MaxChanges + 1) :
    IsStale(n) ~> (starts > n \/ parent = "done" \/ early \/ removed)
-----------------------------------------------------------------------------
\* AbstractReloader: "If changes occur, it signals the server process to shut
\* down and then exits with exit code NEED_RELOAD_EXIT_CODE when it does", upon
\* which the parent "restarts the clone child process".
ChangesRestart == parent = "done" => stoppedBy # "watcher" \/ told \/ again

\* watch_and_reload, on NEED_RELOAD_EXIT_CODE: "server process shut down because
\* the reloader asked it to".
ReloadOnlyIfAsked ==
    server = "dead" /\ exitCode = NeedReload /\ starts > 0 => stoppedBy = "watcher"

\* get_watch_file_names "determines which files we need to watch for changes";
\* one that was written anew is watched as before.
RewrittenFilesAreLoaded == \A n \in 1..(MaxChanges + 1) :
    IsStale(n) ~> (starts > n \/ parent = "done" \/ early)
=============================================================================
