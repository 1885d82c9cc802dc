----------------------------- MODULE ProcessProofs -----------------------------
(***************************************************************************)
(* Proofs about what runs around the loop of a server: the watcher that    *)
(* restarts a clone (AutoReloader, extended here), the monitors of forked  *)
(* workers and the event loop thread (instances of ProcessMonitor and      *)
(* EventLoop, under names of their own where the modules share one).       *)
(***************************************************************************)
EXTENDS AutoReloader, SequenceTheorems, TLAPS

(***************************************************************************)
(* The reloader, for any number of changes and signals: a clone is started *)
(* again only for a change that was noticed, and a parent ends only where  *)
(* more than that change had a hand in it.                                 *)
(*                                                                         *)
(* What a poll or PyInotify may notice costs a change of the file that no  *)
(* clone has noticed before: each of them compares with what it saw of the *)
(* file since it was started.                                              *)
(***************************************************************************)
\* A removal costs a change, and the file is written anew once for it.
VersionsAreCounted ==
    version + 2 * changes + (IF there THEN 0 ELSE 1) <= 2 * MaxChanges

\* The file is no longer what the watcher saw of it.
IsDifferent == named = "named" /\ modified # Unseen /\ (modified # version \/ ~there)

NoticesAreCounted ==
    /\ noticed + changes <= MaxChanges
    /\ \/ watcher = "changed"
       \/ watcher \in {"looking", "comparing", "watching"} /\ IsDifferent
       => noticed + 1 + changes <= MaxChanges
    /\ watcher = "new" \/ named = "unnamed" => modified = Unseen
    /\ watcher \in {"comparing", "watching", "changed"} => named # "unnamed"
    /\ watcher = "watching" /\ kind = "inotify" => modified # Unseen

\* The parent is past its wait only for a clone that is dead.
ParentWaits ==
    /\ parent \in {"ignoring", "restarting", "ending", "done"} => server = "dead"
    /\ parent \in {"ignoring", "restarting"} => exitCode = NeedReload
    /\ parent \in {"ending", "done"} => exitCode # NeedReload

\* A clone that is to be started again noticed a change.
ReloadsWereNoticed ==
    /\ RestartsFollowChanges
    /\ forReload \/ exitCode = NeedReload => starts <= noticed

\* Why a server that ends is not started again.
Excused == stoppedBy # "watcher" \/ told \/ again

EndsAreExcused ==
    /\ stoppedBy = "watcher" => forReload
    /\ ~forks /\ watcher \in {"new", "looking", "comparing", "watching", "changed", "noticed"} =>
          stoppedBy # "watcher"
    /\ server \in {"stopping", "returned", "stopped"} => stoppedBy # "nobody"
    /\ server \in {"raised", "failing"} => Excused
    /\ server = "dead" /\ exitCode # NeedReload => Excused \/ exitCode = -1

ReloaderInv ==
    /\ TypeOK
    /\ VersionsAreCounted
    /\ NoticesAreCounted
    /\ ParentWaits
    /\ ReloadsWereNoticed
    /\ EndsAreExcused
-----------------------------------------------------------------------------
(***************************************************************************)
(* The steps: every operation, conjunct by conjunct.                       *)
(***************************************************************************)
USE DEF fixedVars, fileVars, watchVars, clone, missedVars, history, NeedReload, Unseen, Running

\* The steps of the watcher that tell nobody.
Looking ==
    \/ StartWatching \/ LookForFile \/ CompareTimes \/ CompareNothing \/ FindNoFile
    \/ PollAgain \/ AddWatch \/ SeeEvent \/ LeaveLoop \/ SeeStop

\* What ReloaderAssumption says of the numbers.
LEMMA BoundsAreNatural == MaxSignals \in Nat /\ MaxChanges \in Nat
  BY ReloaderAssumption

\* Flags are raised and lowered, and nothing else is put there.
LEMMA FlagsStay ==
  ASSUME FlagsOK
  PROVE  [Next]_vars => FlagsOK'
<1> USE DEF FlagsOK
<1>1. ASSUME ParentStep PROVE FlagsOK'
  BY <1>1 DEF ParentStep, StartClone, InstallHandlers, WaitForClone, IgnoreSignals, End
<1>2. ASSUME ServerStep \/ Crash \/ Finish PROVE FlagsOK'
  BY <1>2 DEF ServerStep, Boot, Finish, Crash, StopWatching, Exit, MoveTo, Blame, ExitWith
<1>3. ASSUME SignalParent PROVE FlagsOK'
  BY <1>3 DEF SignalParent, Terminate, Blame
<1>4. ASSUME Looking PROVE FlagsOK'
  <2>1. /\ UNCHANGED <<forks, forReload, there, told, again, early, removed>>
        /\ watching' = watching \/ watching' = TRUE
    BY <1>4 DEF Looking, StartWatching, LookForFile, CompareTimes, CompareNothing, FindNoFile,
         PollAgain, AddWatch, SeeEvent, LeaveLoop, SeeStop, WatcherMoves, Looks
  <2> QED
    BY <2>1
<1>5. ASSUME TellWhy PROVE FlagsOK'
  BY <1>5 DEF TellWhy, WatcherMoves
<1>6. ASSUME HangUp PROVE FlagsOK'
  BY <1>6 DEF HangUp, Terminate, Blame
<1>7. ASSUME TerminateClone \/ TerminateAgain PROVE FlagsOK'
  BY <1>7 DEF TerminateClone, TerminateAgain, WatcherMoves, Terminate, Blame
<1>8. ASSUME ChangeFile \/ RemoveFile \/ RestoreFile PROVE FlagsOK'
  BY <1>8 DEF ChangeFile, RemoveFile, RestoreFile, FileChanges
<1>9. ASSUME UNCHANGED vars PROVE FlagsOK'
  BY <1>9 DEF vars
<1> QED
  BY <1>1, <1>2, <1>3, <1>4, <1>5, <1>6, <1>7, <1>8, <1>9 DEF Next, WatcherStep, Looking

\* Each thread goes on to one of its places.
LEMMA PlacesStay ==
  ASSUME PlacesOK
  PROVE  [Next]_vars => PlacesOK'
<1> USE DEF PlacesOK
<1>1. ASSUME ParentStep PROVE PlacesOK'
  BY <1>1 DEF ParentStep, StartClone, InstallHandlers, WaitForClone, IgnoreSignals, End
<1>2. ASSUME ServerStep \/ Crash \/ Finish PROVE PlacesOK'
  BY <1>2 DEF ServerStep, Boot, Finish, Crash, StopWatching, Exit, MoveTo, Blame, ExitWith
<1>3. ASSUME SignalParent PROVE PlacesOK'
  BY <1>3 DEF SignalParent, Terminate, Blame
<1>4. ASSUME Looking PROVE PlacesOK'
  BY <1>4 DEF Looking, StartWatching, LookForFile, CompareTimes, CompareNothing, FindNoFile,
         PollAgain, AddWatch, SeeEvent, LeaveLoop, SeeStop, WatcherMoves, Looks
<1>5. ASSUME TellWhy PROVE PlacesOK'
  BY <1>5 DEF TellWhy, WatcherMoves
<1>6. ASSUME HangUp PROVE PlacesOK'
  BY <1>6 DEF HangUp, Terminate, Blame
<1>7. ASSUME TerminateClone \/ TerminateAgain PROVE PlacesOK'
  BY <1>7 DEF TerminateClone, TerminateAgain, WatcherMoves, Terminate, Blame
<1>8. ASSUME ChangeFile \/ RemoveFile \/ RestoreFile PROVE PlacesOK'
  BY <1>8 DEF ChangeFile, RemoveFile, RestoreFile, FileChanges
<1>9. ASSUME UNCHANGED vars PROVE PlacesOK'
  BY <1>9 DEF vars
<1> QED
  BY <1>1, <1>2, <1>3, <1>4, <1>5, <1>6, <1>7, <1>8, <1>9 DEF Next, WatcherStep, Looking

\* The file is written and noticed as often as its changes allow.
LEMMA CountersStay ==
  ASSUME CountersOK, VersionsAreCounted, NoticesAreCounted
  PROVE  [Next]_vars => CountersOK'
<1> USE BoundsAreNatural DEF CountersOK
<1>1. ASSUME ParentStep PROVE CountersOK'
  BY <1>1 DEF ParentStep, StartClone, InstallHandlers, WaitForClone, IgnoreSignals, End
<1>2. ASSUME ServerStep \/ Crash \/ Finish PROVE CountersOK'
  BY <1>2 DEF ServerStep, Boot, Finish, Crash, StopWatching, Exit, MoveTo, Blame, ExitWith
<1>3. ASSUME SignalParent PROVE CountersOK'
  BY <1>3 DEF SignalParent, Terminate, Blame
<1>4. ASSUME Looking PROVE CountersOK'
  BY <1>4 DEF Looking, StartWatching, LookForFile, CompareTimes, CompareNothing, FindNoFile,
         PollAgain, AddWatch, SeeEvent, LeaveLoop, SeeStop, WatcherMoves, Looks
<1>5. ASSUME TellWhy PROVE CountersOK'
  BY <1>5 DEF TellWhy, WatcherMoves, NoticesAreCounted
<1>6. ASSUME HangUp PROVE CountersOK'
  BY <1>6 DEF HangUp, Terminate, Blame
<1>7. ASSUME TerminateClone \/ TerminateAgain PROVE CountersOK'
  BY <1>7 DEF TerminateClone, TerminateAgain, WatcherMoves, Terminate, Blame
<1>8. ASSUME ChangeFile \/ RemoveFile \/ RestoreFile PROVE CountersOK'
  BY <1>8 DEF ChangeFile, RemoveFile, RestoreFile, FileChanges, VersionsAreCounted
<1>9. ASSUME UNCHANGED vars PROVE CountersOK'
  BY <1>9 DEF vars
<1> QED
  BY <1>1, <1>2, <1>3, <1>4, <1>5, <1>6, <1>7, <1>8, <1>9 DEF Next, WatcherStep, Looking

\* The watcher ends with its clone, and tells it why before it signals.
LEMMA ThreadsStay ==
  ASSUME CountersOK, ThreadsOK
  PROVE  [Next]_vars => ThreadsOK'
<1> USE DEF ThreadsOK
<1>1. ASSUME ParentStep PROVE ThreadsOK'
  BY <1>1 DEF ParentStep, StartClone, InstallHandlers, WaitForClone, IgnoreSignals, End
<1>2. ASSUME ServerStep \/ Crash \/ Finish PROVE ThreadsOK'
  BY <1>2 DEF ServerStep, Boot, Finish, Crash, StopWatching, Exit, MoveTo, Blame, ExitWith
<1>3. ASSUME SignalParent PROVE ThreadsOK'
  BY <1>3 DEF SignalParent, Terminate, Blame
<1>4. ASSUME Looking PROVE ThreadsOK'
  BY <1>4 DEF Looking, StartWatching, LookForFile, CompareTimes, CompareNothing, FindNoFile,
         PollAgain, AddWatch, SeeEvent, LeaveLoop, SeeStop, WatcherMoves, Looks
<1>5. ASSUME TellWhy PROVE ThreadsOK'
  BY <1>5, BoundsAreNatural DEF TellWhy, WatcherMoves, CountersOK
<1>6. ASSUME HangUp PROVE ThreadsOK'
  BY <1>6 DEF HangUp, Terminate, Blame
<1>7. ASSUME TerminateClone \/ TerminateAgain PROVE ThreadsOK'
  BY <1>7 DEF TerminateClone, TerminateAgain, WatcherMoves, Terminate, Blame
<1>8. ASSUME ChangeFile \/ RemoveFile \/ RestoreFile PROVE ThreadsOK'
  BY <1>8 DEF ChangeFile, RemoveFile, RestoreFile, FileChanges
<1>9. ASSUME UNCHANGED vars PROVE ThreadsOK'
  BY <1>9 DEF vars
<1> QED
  BY <1>1, <1>2, <1>3, <1>4, <1>5, <1>6, <1>7, <1>8, <1>9 DEF Next, WatcherStep, Looking

\* The file is written anew once for each change.
LEMMA VersionsStayCounted ==
  ASSUME CountersOK, VersionsAreCounted
  PROVE  [Next]_vars => VersionsAreCounted'
<1> USE BoundsAreNatural DEF CountersOK, VersionsAreCounted
<1>1. ASSUME ParentStep PROVE VersionsAreCounted'
  BY <1>1 DEF ParentStep, StartClone, InstallHandlers, WaitForClone, IgnoreSignals, End
<1>2. ASSUME ServerStep \/ Crash \/ Finish PROVE VersionsAreCounted'
  BY <1>2 DEF ServerStep, Boot, Finish, Crash, StopWatching, Exit, MoveTo, Blame, ExitWith
<1>3. ASSUME SignalParent PROVE VersionsAreCounted'
  BY <1>3 DEF SignalParent, Terminate, Blame
<1>4. ASSUME Looking PROVE VersionsAreCounted'
  BY <1>4 DEF Looking, StartWatching, LookForFile, CompareTimes, CompareNothing, FindNoFile,
         PollAgain, AddWatch, SeeEvent, LeaveLoop, SeeStop, WatcherMoves, Looks
<1>5. ASSUME TellWhy PROVE VersionsAreCounted'
  BY <1>5 DEF TellWhy, WatcherMoves
<1>6. ASSUME HangUp PROVE VersionsAreCounted'
  BY <1>6 DEF HangUp, Terminate, Blame
<1>7. ASSUME TerminateClone \/ TerminateAgain PROVE VersionsAreCounted'
  BY <1>7 DEF TerminateClone, TerminateAgain, WatcherMoves, Terminate, Blame
<1>8. ASSUME ChangeFile \/ RemoveFile \/ RestoreFile PROVE VersionsAreCounted'
  BY <1>8 DEF ChangeFile, RemoveFile, RestoreFile, FileChanges
<1>9. ASSUME UNCHANGED vars PROVE VersionsAreCounted'
  BY <1>9 DEF vars
<1> QED
  BY <1>1, <1>2, <1>3, <1>4, <1>5, <1>6, <1>7, <1>8, <1>9 DEF Next, WatcherStep, Looking

\* A watcher compares with what it saw itself, so it notices no change twice.
LEMMA NoticesStayCounted ==
  ASSUME PlacesOK, CountersOK, NoticesAreCounted
  PROVE  [Next]_vars => NoticesAreCounted'
<1> USE BoundsAreNatural DEF PlacesOK, CountersOK, NoticesAreCounted, IsDifferent
<1>1. ASSUME ParentStep PROVE NoticesAreCounted'
  BY <1>1 DEF ParentStep, StartClone, InstallHandlers, WaitForClone, IgnoreSignals, End
<1>2. ASSUME ServerStep \/ Crash \/ Finish PROVE NoticesAreCounted'
  BY <1>2 DEF ServerStep, Boot, Finish, Crash, StopWatching, Exit, MoveTo, Blame, ExitWith
<1>3. ASSUME SignalParent PROVE NoticesAreCounted'
  BY <1>3 DEF SignalParent, Terminate, Blame
<1>4. ASSUME Looking PROVE NoticesAreCounted'
  BY <1>4 DEF Looking, StartWatching, LookForFile, CompareTimes, CompareNothing, FindNoFile,
         PollAgain, AddWatch, SeeEvent, LeaveLoop, SeeStop, WatcherMoves, Looks
<1>5. ASSUME TellWhy PROVE NoticesAreCounted'
  BY <1>5 DEF TellWhy, WatcherMoves
<1>6. ASSUME HangUp PROVE NoticesAreCounted'
  BY <1>6 DEF HangUp, Terminate, Blame
<1>7. ASSUME TerminateClone \/ TerminateAgain PROVE NoticesAreCounted'
  BY <1>7 DEF TerminateClone, TerminateAgain, WatcherMoves, Terminate, Blame
<1>8. ASSUME ChangeFile \/ RemoveFile \/ RestoreFile PROVE NoticesAreCounted'
  BY <1>8 DEF ChangeFile, RemoveFile, RestoreFile, FileChanges
<1>9. ASSUME UNCHANGED vars PROVE NoticesAreCounted'
  BY <1>9 DEF vars
<1> QED
  BY <1>1, <1>2, <1>3, <1>4, <1>5, <1>6, <1>7, <1>8, <1>9 DEF Next, WatcherStep, Looking

\* The parent leaves its wait when the clone is dead, for the exit code it left.
LEMMA ParentStaysWaiting ==
  ASSUME ThreadsOK, ParentWaits
  PROVE  [Next]_vars => ParentWaits'
<1> USE DEF ThreadsOK, ParentWaits
<1>1. ASSUME ParentStep PROVE ParentWaits'
  BY <1>1 DEF ParentStep, StartClone, InstallHandlers, WaitForClone, IgnoreSignals, End
<1>2. ASSUME ServerStep \/ Crash \/ Finish PROVE ParentWaits'
  BY <1>2 DEF ServerStep, Boot, Finish, Crash, StopWatching, Exit, MoveTo, Blame, ExitWith
<1>3. ASSUME SignalParent PROVE ParentWaits'
  BY <1>3 DEF SignalParent, Terminate, Blame
<1>4. ASSUME Looking PROVE ParentWaits'
  BY <1>4 DEF Looking, StartWatching, LookForFile, CompareTimes, CompareNothing, FindNoFile,
         PollAgain, AddWatch, SeeEvent, LeaveLoop, SeeStop, WatcherMoves, Looks
<1>5. ASSUME TellWhy PROVE ParentWaits'
  BY <1>5 DEF TellWhy, WatcherMoves
<1>6. ASSUME HangUp PROVE ParentWaits'
  BY <1>6 DEF HangUp, Terminate, Blame
<1>7. ASSUME TerminateClone \/ TerminateAgain PROVE ParentWaits'
  BY <1>7 DEF TerminateClone, TerminateAgain, WatcherMoves, Terminate, Blame
<1>8. ASSUME ChangeFile \/ RemoveFile \/ RestoreFile PROVE ParentWaits'
  BY <1>8 DEF ChangeFile, RemoveFile, RestoreFile, FileChanges
<1>9. ASSUME UNCHANGED vars PROVE ParentWaits'
  BY <1>9 DEF vars
<1> QED
  BY <1>1, <1>2, <1>3, <1>4, <1>5, <1>6, <1>7, <1>8, <1>9 DEF Next, WatcherStep, Looking

\* TellWhy alone asks for a reload, and counts what it noticed as it does.
LEMMA ReloadsStayNoticed ==
  ASSUME CountersOK, ParentWaits, ReloadsWereNoticed
  PROVE  [Next]_vars => ReloadsWereNoticed'
<1> USE BoundsAreNatural DEF CountersOK, ParentWaits, ReloadsWereNoticed, RestartsFollowChanges
<1>1. ASSUME ParentStep PROVE ReloadsWereNoticed'
  BY <1>1 DEF ParentStep, StartClone, InstallHandlers, WaitForClone, IgnoreSignals, End
<1>2. ASSUME ServerStep \/ Crash \/ Finish PROVE ReloadsWereNoticed'
  BY <1>2 DEF ServerStep, Boot, Finish, Crash, StopWatching, Exit, MoveTo, Blame, ExitWith
<1>3. ASSUME SignalParent PROVE ReloadsWereNoticed'
  BY <1>3 DEF SignalParent, Terminate, Blame
<1>4. ASSUME Looking PROVE ReloadsWereNoticed'
  BY <1>4 DEF Looking, StartWatching, LookForFile, CompareTimes, CompareNothing, FindNoFile,
         PollAgain, AddWatch, SeeEvent, LeaveLoop, SeeStop, WatcherMoves, Looks
<1>5. ASSUME TellWhy PROVE ReloadsWereNoticed'
  BY <1>5 DEF TellWhy, WatcherMoves
<1>6. ASSUME HangUp PROVE ReloadsWereNoticed'
  BY <1>6 DEF HangUp, Terminate, Blame
<1>7. ASSUME TerminateClone \/ TerminateAgain PROVE ReloadsWereNoticed'
  BY <1>7 DEF TerminateClone, TerminateAgain, WatcherMoves, Terminate, Blame
<1>8. ASSUME ChangeFile \/ RemoveFile \/ RestoreFile PROVE ReloadsWereNoticed'
  BY <1>8 DEF ChangeFile, RemoveFile, RestoreFile, FileChanges
<1>9. ASSUME UNCHANGED vars PROVE ReloadsWereNoticed'
  BY <1>9 DEF vars
<1> QED
  BY <1>1, <1>2, <1>3, <1>4, <1>5, <1>6, <1>7, <1>8, <1>9 DEF Next, WatcherStep, Looking

\* The watcher is the first to stop a clone only after TellWhy: that clone asks for
\* a reload as it exits, unless another signal, or an error, breaks its stop off.
LEMMA EndsStayExcused ==
  ASSUME PlacesOK, ThreadsOK, EndsAreExcused
  PROVE  [Next]_vars => EndsAreExcused'
<1> USE DEF PlacesOK, ThreadsOK, EndsAreExcused, Excused
<1>1. ASSUME ParentStep PROVE EndsAreExcused'
  BY <1>1 DEF ParentStep, StartClone, InstallHandlers, WaitForClone, IgnoreSignals, End
<1>2. ASSUME ServerStep \/ Crash \/ Finish PROVE EndsAreExcused'
  BY <1>2 DEF ServerStep, Boot, Finish, Crash, StopWatching, Exit, MoveTo, Blame, ExitWith
<1>3. ASSUME SignalParent PROVE EndsAreExcused'
  BY <1>3 DEF SignalParent, Terminate, Blame
<1>4. ASSUME Looking PROVE EndsAreExcused'
  BY <1>4 DEF Looking, StartWatching, LookForFile, CompareTimes, CompareNothing, FindNoFile,
         PollAgain, AddWatch, SeeEvent, LeaveLoop, SeeStop, WatcherMoves, Looks
<1>5. ASSUME TellWhy PROVE EndsAreExcused'
  BY <1>5 DEF TellWhy, WatcherMoves
<1>6. ASSUME HangUp PROVE EndsAreExcused'
  BY <1>6 DEF HangUp, Terminate, Blame
<1>7. ASSUME TerminateClone \/ TerminateAgain PROVE EndsAreExcused'
  BY <1>7 DEF TerminateClone, TerminateAgain, WatcherMoves, Terminate, Blame
<1>8. ASSUME ChangeFile \/ RemoveFile \/ RestoreFile PROVE EndsAreExcused'
  BY <1>8 DEF ChangeFile, RemoveFile, RestoreFile, FileChanges
<1>9. ASSUME UNCHANGED vars PROVE EndsAreExcused'
  BY <1>9 DEF vars
<1> QED
  BY <1>1, <1>2, <1>3, <1>4, <1>5, <1>6, <1>7, <1>8, <1>9 DEF Next, WatcherStep, Looking
\* No clone is there yet, and the file was not changed.
LEMMA InitHolds == Init => ReloaderInv
<1> SUFFICES ASSUME Init PROVE ReloaderInv
  OBVIOUS
<1>1. FlagsOK
  BY ReloaderAssumption, Zenon DEF ReloaderAssumption, Init, FlagsOK
<1>2. kind \in {"inotify", "polling"}
  BY ReloaderAssumption, Zenon DEF ReloaderAssumption, Init
<1>3. PlacesOK /\ CountersOK /\ ThreadsOK
  BY <1>2, BoundsAreNatural DEF Init, PlacesOK, CountersOK, ThreadsOK
<1>4. VersionsAreCounted /\ NoticesAreCounted
  BY BoundsAreNatural DEF Init, VersionsAreCounted, NoticesAreCounted, IsDifferent
<1>5. ParentWaits /\ ReloadsWereNoticed /\ EndsAreExcused
  BY DEF Init, ParentWaits, ReloadsWereNoticed, RestartsFollowChanges, EndsAreExcused, Excused
<1> QED
  BY <1>1, <1>3, <1>4, <1>5 DEF ReloaderInv, TypeOK

\* The invariant from which the theorems below follow.
THEOREM ReloaderInductive == Spec => []ReloaderInv
<1>1. Init => ReloaderInv
  BY InitHolds
<1>2. ReloaderInv /\ [Next]_vars => ReloaderInv'
  BY FlagsStay, PlacesStay, CountersStay, ThreadsStay, VersionsStayCounted, NoticesStayCounted,
     ParentStaysWaiting, ReloadsStayNoticed, EndsStayExcused DEF ReloaderInv, TypeOK
<1> QED
  BY <1>1, <1>2, PTL DEF Spec

\* Every variable holds a value of its type, however often the file changes: no
\* more clones notice a change than there were changes.
THEOREM ReloaderTypeCorrect == Spec => []TypeOK
  BY ReloaderInductive, PTL DEF ReloaderInv

\* restart_with_reloader starts no clone but the first unless the watcher of the
\* last one noticed a change.
THEOREM RestartsAreEarned == Spec => []RestartsFollowChanges
<1>1. ReloaderInv => RestartsFollowChanges
  BY DEF ReloaderInv, ReloadsWereNoticed
<1> QED
  BY <1>1, ReloaderInductive, PTL

\* A server that stops for a change, and for nothing else, is started again.
THEOREM ChangesAreNoEnd == Spec => []ReloadRestarts
<1>1. ReloaderInv => ReloadRestarts
  BY DEF ReloaderInv, ParentWaits, EndsAreExcused, Excused, ReloadRestarts
<1> QED
  BY <1>1, ReloaderInductive, PTL
HIDE DEF fixedVars, fileVars, watchVars, clone, missedVars, history, NeedReload, Unseen, Running
-----------------------------------------------------------------------------
(***************************************************************************)
(* The monitors of forked workers: what a deque of restart times holds, and *)
(* that the limits on restarts are kept over the whole life of a worker.   *)
(***************************************************************************)
\* Those of ProcessMonitor; three go by another name, because AutoReloader has it, too.
CONSTANTS NumProcesses, Respawn, ShortLimit, ShortWindow, LongLimit, LongWindow, MaxTime,
          ForkSignals, ForkFaults
VARIABLES installed, signaled, lockHeld, handler, todo, monitor, process, worker,
          shortTimes, longTimes, clock, sent, raised, respawns, unheard

Forked == INSTANCE ProcessMonitor
    WITH MaxSignals <- ForkSignals, Faults <- ForkFaults, signals <- sent

\* A deque of that length, after all these restarts: it has the last of them.
Remembers(times, past, limit) ==
    /\ times \in Seq(Nat)
    /\ Len(times) = IF Len(past) < limit THEN Len(past) ELSE limit
    /\ \A i \in 1..Len(times) : times[i] = past[Len(past) - Len(times) + i]

\* Any limit + 1 restarts that follow each other take the window or longer.
Spaced(past, limit, window) ==
    \A i \in 1..(Len(past) - limit) : past[i + limit] - past[i] >= window

\* What a deque keeps when it is to take one more.
IsKept(kept, times, limit) ==
    /\ Len(kept) = IF Len(times) < limit THEN Len(times) ELSE limit - 1
    /\ \A i \in 1..Len(kept) : kept[i] = times[Len(times) - Len(kept) + i]

\* A time added behind others.
LEMMA AppendIs ==
  ASSUME NEW s \in Seq(Nat), NEW now \in Nat
  PROVE  /\ Append(s, now) \in Seq(Nat) /\ Len(Append(s, now)) = Len(s) + 1
         /\ \A i \in 1..(Len(s) + 1) :
               Append(s, now)[i] = IF i = Len(s) + 1 THEN now ELSE s[i]
         /\ Len(s) \in Nat /\ \A i \in 1..Len(s) : s[i] \in Nat
  OBVIOUS

\* A sequence without its first time.
LEMMA TailIs ==
  ASSUME NEW s \in Seq(Nat), Len(s) > 0
  PROVE  /\ Tail(s) \in Seq(Nat) /\ Len(Tail(s)) = Len(s) - 1
         /\ \A i \in 1..(Len(s) - 1) : Tail(s)[i] = s[i + 1]
         /\ Len(s) \in Nat
  OBVIOUS

\* One sequence is the other one with a time behind it.
Extends(after, past, now) ==
    /\ Len(after) = Len(past) + 1
    /\ \A i \in 1..(Len(past) + 1) : after[i] = IF i = Len(past) + 1 THEN now ELSE past[i]

\* A restart is far enough from the one that is first in a full deque.
LEMMA SpacedStep ==
  ASSUME NEW limit \in Nat \ {0}, NEW window \in Nat, NEW times, NEW past, NEW after,
         NEW now \in Nat, Len(past) \in Nat, \A i \in 1..Len(past) : past[i] \in Nat,
         Remembers(times, past, limit), Spaced(past, limit, window),
         Extends(after, past, now),
         ~(Len(times) = limit /\ now - times[1] < window)
  PROVE  Spaced(after, limit, window)
<1> DEFINE n == Len(past)
<1>0. n \in Nat /\ Len(after) = n + 1
  BY DEF Extends
<1> SUFFICES ASSUME NEW i \in 1..(n + 1 - limit)
             PROVE  after[i + limit] - after[i] >= window
  BY <1>0 DEF Spaced
<1>1. after[i] = past[i] /\ past[i] \in Nat
  BY <1>0 DEF Extends
<1>2. CASE i + limit <= Len(past)
  <2>1. after[i + limit] = past[i + limit] /\ i \in 1..(Len(past) - limit)
    BY <1>0, <1>2 DEF Extends
  <2> QED BY <1>1, <2>1 DEF Spaced
<1>3. CASE i + limit = Len(past) + 1
  <2>0. ~(n < limit) /\ n - limit + 1 = i /\ 1 \in 1..limit
    BY <1>0, <1>3
  <2>3. Len(times) = limit
    BY <2>0 DEF Remembers
  <2>4. times[1] = past[n - limit + 1]
    BY <2>0, <2>3 DEF Remembers
  <2>1. Len(times) = limit /\ times[1] = past[i]
    BY <2>0, <2>3, <2>4
  <2>2. after[i + limit] = now
    BY <1>0, <1>3 DEF Extends
  <2> QED
    BY <1>0, <1>1, <1>3, <2>1, <2>2
<1> QED
  BY <1>0, <1>2, <1>3

\* The deque that takes a restart has the last ones again.
LEMMA RememberStep ==
  ASSUME NEW limit \in Nat \ {0}, NEW times, NEW past, NEW kept, NEW longer, NEW after,
         NEW now \in Nat, NEW n \in Nat, n = Len(past), NEW k \in Nat, k = Len(kept),
         longer \in Seq(Nat),
         Remembers(times, past, limit),
         IsKept(kept, times, limit),
         Extends(longer, kept, now), Extends(after, past, now)
  PROVE  Remembers(longer, after, limit)
<1>1. Len(times) \in 0..n
      /\ k <= Len(times) /\ Len(longer) = k + 1 /\ Len(after) = n + 1
  BY DEF Remembers, Extends, IsKept
<1>2. Len(longer) = IF Len(after) < limit THEN Len(after) ELSE limit
  BY <1>1 DEF Remembers, IsKept
<1>3. ASSUME NEW i \in 1..(k + 1) PROVE longer[i] = after[n - k + i]
  <2>1. CASE i = k + 1
    <3>1. longer[i] = now
      BY <1>1, <2>1 DEF Extends
    <3>2. n - k + i = n + 1
      BY <1>1, <2>1
    <3>4. n + 1 \in 1..(n + 1)
      BY <1>1
    <3>3. after[n + 1] = now
      BY <3>4 DEF Extends
    <3> QED
      BY <3>1, <3>2, <3>3
  <2>2. CASE i # k + 1
    <3> DEFINE j == Len(times) - k + i
    <3>1. i \in 1..k /\ j \in 1..Len(times) /\ n - Len(times) + j = n - k + i
          /\ n - k + i \in 1..n
      BY <1>1, <2>2
    <3>2. longer[i] = kept[i] /\ kept[i] = times[j]
      BY <1>1, <2>2, <3>1 DEF Extends, IsKept
    <3>3. times[j] = past[n - Len(times) + j]
      BY <3>1 DEF Remembers
    <3>4. after[n - k + i] = past[n - k + i]
      <4> DEFINE x == n - k + i
      <4>1. x \in 1..(n + 1) /\ x # n + 1
        BY <1>1, <3>1
      <4> HIDE DEF x
      <4>2. after[x] = past[x]
        BY <4>1 DEF Extends
      <4> QED
        BY <4>2 DEF x
    <3> QED
      BY <3>1, <3>2, <3>3, <3>4
  <2> QED
    BY <2>1, <2>2
<1>4. ASSUME NEW i \in 1..Len(longer) PROVE longer[i] = after[Len(after) - Len(longer) + i]
  <2>1. Len(after) - Len(longer) + i = n - k + i /\ i \in 1..(k + 1)
    BY <1>1
  <2> QED
    BY <1>3, <2>1
<1> QED
  BY <1>2, <1>4 DEF Remembers

\* The times of restarts are times.
TimesAreKept ==
    /\ clock \in Nat
    /\ respawns \in [Forked!Monitors -> Seq(Nat)]
    /\ shortTimes \in [Forked!Monitors -> Seq(Nat)]
    /\ longTimes \in [Forked!Monitors -> Seq(Nat)]

\* Both deques of each worker have the last of its restarts.
MonitorsRemember == \A m \in Forked!Monitors :
    /\ Remembers(shortTimes[m], respawns[m], ShortLimit)
    /\ Remembers(longTimes[m], respawns[m], LongLimit)

\* Both limits were kept by all restarts there were.
RespawnsAreSpaced == \A m \in Forked!Monitors :
    /\ Spaced(respawns[m], ShortLimit, ShortWindow)
    /\ Spaced(respawns[m], LongLimit, LongWindow)

RespawnsInv == TimesAreKept /\ MonitorsRemember /\ RespawnsAreSpaced

\* What a step of collections.deque.append does, where the monitor does not give up.
LEMMA PushKeeps ==
  ASSUME NEW limit \in Nat \ {0}, NEW window \in Nat, NEW times, NEW past \in Seq(Nat),
         clock \in Nat,
         Remembers(times, past, limit), Spaced(past, limit, window),
         ~Forked!TooOften(times, limit, window)
  PROVE  /\ Forked!Push(times, limit) \in Seq(Nat)
         /\ Remembers(Forked!Push(times, limit), Append(past, clock), limit)
         /\ Spaced(Append(past, clock), limit, window)
<1>1. times \in Seq(Nat) /\ Len(times) \in Nat /\ Len(past) \in Nat
  BY DEF Remembers
<1>2. Extends(Append(past, clock), past, clock) /\ \A i \in 1..Len(past) : past[i] \in Nat
  BY AppendIs DEF Extends
<1>3. Spaced(Append(past, clock), limit, window)
  <2>1. ~(Len(times) = limit /\ clock - times[1] < window)
    BY DEF Forked!TooOften
  <2> QED
    BY <1>1, <1>2, <2>1, SpacedStep
<1>4. PICK kept \in Seq(Nat) : /\ IsKept(kept, times, limit)
                              /\ Forked!Push(times, limit) = Append(kept, clock)
  <2>1. CASE Len(times) < limit
    BY <1>1, <2>1 DEF IsKept, Forked!Push
  <2>2. CASE ~(Len(times) < limit)
    <3>1. Len(times) = limit
      BY <1>1, <2>2 DEF Remembers
    <3>2. /\ Tail(times) \in Seq(Nat) /\ Len(Tail(times)) = limit - 1
          /\ \A i \in 1..(limit - 1) : Tail(times)[i] = times[i + 1]
      BY <1>1, <3>1, TailIs
    <3>3. IsKept(Tail(times), times, limit)
      BY <3>1, <3>2 DEF IsKept
    <3> QED
      BY <2>2, <3>2, <3>3 DEF Forked!Push
  <2> QED
    BY <2>1, <2>2
<1>5. /\ Append(kept, clock) \in Seq(Nat)
      /\ Extends(Append(kept, clock), kept, clock) /\ Len(kept) \in Nat
  BY <1>4, AppendIs DEF Extends
<1>6. Remembers(Append(kept, clock), Append(past, clock), limit)
  BY <1>1, <1>2, <1>4, <1>5, RememberStep
<1> QED
  BY <1>3, <1>4, <1>5, <1>6

\* Only the decision to fork a worker anew is noted.
LEMMA RespawnKeeps ==
  ASSUME Forked!MonitorAssumption, RespawnsInv, NEW m \in Forked!Monitors,
         Forked!DecideToRespawn(m)
  PROVE  RespawnsInv'
<1>1. /\ ShortLimit \in Nat \ {0} /\ LongLimit \in Nat \ {0}
      /\ ShortWindow \in Nat /\ LongWindow \in Nat
  BY DEF Forked!MonitorAssumption
<1>2. /\ clock \in Nat /\ respawns[m] \in Seq(Nat)
      /\ Remembers(shortTimes[m], respawns[m], ShortLimit)
      /\ Remembers(longTimes[m], respawns[m], LongLimit)
      /\ Spaced(respawns[m], ShortLimit, ShortWindow)
      /\ Spaced(respawns[m], LongLimit, LongWindow)
  BY DEF RespawnsInv, TimesAreKept, MonitorsRemember, RespawnsAreSpaced
<1>3. /\ ~Forked!TooOften(longTimes[m], LongLimit, LongWindow)
      /\ ~Forked!TooOften(shortTimes[m], ShortLimit, ShortWindow)
  BY DEF Forked!DecideToRespawn, Forked!GivesUp
<1>4. /\ longTimes' = [longTimes EXCEPT ![m] = Forked!Push(@, LongLimit)]
      /\ shortTimes' = [shortTimes EXCEPT ![m] = Forked!Push(@, ShortLimit)]
      /\ respawns' = [respawns EXCEPT ![m] = Append(@, clock)]
      /\ clock' = clock
  BY DEF Forked!DecideToRespawn
<1>5. /\ Forked!Push(shortTimes[m], ShortLimit) \in Seq(Nat)
      /\ Remembers(Forked!Push(shortTimes[m], ShortLimit), Append(respawns[m], clock), ShortLimit)
      /\ Spaced(Append(respawns[m], clock), ShortLimit, ShortWindow)
  BY <1>1, <1>2, <1>3, PushKeeps
<1>6. /\ Forked!Push(longTimes[m], LongLimit) \in Seq(Nat)
      /\ Remembers(Forked!Push(longTimes[m], LongLimit), Append(respawns[m], clock), LongLimit)
      /\ Spaced(Append(respawns[m], clock), LongLimit, LongWindow)
  BY <1>1, <1>2, <1>3, PushKeeps
<1>7. Append(respawns[m], clock) \in Seq(Nat)
  BY <1>2
<1>8. TimesAreKept'
  BY <1>2, <1>4, <1>5, <1>6, <1>7 DEF RespawnsInv, TimesAreKept
<1>9. MonitorsRemember' /\ RespawnsAreSpaced'
  BY <1>4, <1>5, <1>6 DEF RespawnsInv, TimesAreKept, MonitorsRemember, RespawnsAreSpaced
<1> QED
  BY <1>8, <1>9 DEF RespawnsInv

\* Every step of threads, workers and handler keeps to the limits.
LEMMA MonitorsKeep ==
  ASSUME Forked!MonitorAssumption, RespawnsInv, [Forked!Next]_(Forked!vars)
  PROVE  RespawnsInv'
<1>1. CASE UNCHANGED <<respawns, shortTimes, longTimes, clock>>
  BY <1>1 DEF RespawnsInv, TimesAreKept, MonitorsRemember, RespawnsAreSpaced
<1>2. CASE UNCHANGED <<respawns, shortTimes, longTimes>> /\ clock' = clock + 1
  BY <1>2 DEF RespawnsInv, TimesAreKept, MonitorsRemember, RespawnsAreSpaced
<1>3. CASE \E m \in Forked!Monitors : Forked!DecideToRespawn(m)
  BY <1>3, RespawnKeeps
<1>4. CASE UNCHANGED Forked!vars
  BY <1>1, <1>4 DEF Forked!vars
<1>5. CASE \E m \in Forked!Monitors : Forked!MonitorStep(m)
  BY <1>1, <1>3, <1>5
  DEF Forked!MonitorStep, Forked!CreateProcess, Forked!StartProcess, Forked!TestSignaled,
      Forked!JoinProcess, Forked!GiveUp, Forked!restartTimes, Forked!history
<1>6. CASE \E m \in Forked!Monitors : Forked!Boot(m) \/ Forked!Stop(m) \/ Forked!Crash(m)
  BY <1>1, <1>6
  DEF Forked!Boot, Forked!Stop, Forked!Crash, Forked!Becomes, Forked!restartTimes, Forked!history
<1>7. CASE \/ Forked!InstallHandlers \/ Forked!BeginTermination
          \/ Forked!IgnoreSignal \/ Forked!HandlerStep
  BY <1>1, <1>7
  DEF Forked!InstallHandlers, Forked!BeginTermination, Forked!IgnoreSignal, Forked!HandlerStep,
      Forked!LookAtProcess, Forked!TerminateProcess, Forked!TerminateRaises,
      Forked!restartTimes, Forked!history
<1>8. CASE Forked!Tick
  BY <1>2, <1>8 DEF Forked!Tick, Forked!restartTimes, Forked!history
<1> QED
  BY <1>4, <1>5, <1>6, <1>7, <1>8 DEF Forked!Next

\* At first no worker was forked anew.
LEMMA RespawnsInvHolds ==
  ASSUME Forked!MonitorAssumption, Forked!Init
  PROVE  RespawnsInv
<1>1. Remembers(<<>>, <<>>, ShortLimit) /\ Remembers(<<>>, <<>>, LongLimit)
  BY DEF Remembers, Forked!MonitorAssumption
<1>2. Spaced(<<>>, ShortLimit, ShortWindow) /\ Spaced(<<>>, LongLimit, LongWindow)
  BY DEF Spaced, Forked!MonitorAssumption
<1> QED
  BY <1>1, <1>2 DEF Forked!Init, RespawnsInv, TimesAreKept, MonitorsRemember, RespawnsAreSpaced

\* _ProcessMonitor remembers the last three and the last eight restarts of its
\* worker; yet whenever limit + 1 restarts follow each other, they take the
\* window or longer, for any limits, windows and number of workers.
THEOREM RespawnsStayLimited ==
  ASSUME Forked!MonitorAssumption
  PROVE  Forked!Spec => []Forked!RespawnsAreLimited
<1>1. RespawnsInv => Forked!RespawnsAreLimited
  BY DEF RespawnsInv, RespawnsAreSpaced, Spaced, Forked!RespawnsAreLimited, Forked!AtMost
<1> QED
  BY <1>1, RespawnsInvHolds, MonitorsKeep, PTL DEF Forked!Spec
-----------------------------------------------------------------------------
(***************************************************************************)
(* What the parent's handler leaves behind: a worker that is still waited  *)
(* for has been told to stop, or was deaf to it.                           *)
(***************************************************************************)
\* Where threads, workers and the handler are.
MonitorsAreTyped ==
    /\ installed \in BOOLEAN /\ signaled \in BOOLEAN /\ lockHeld \in BOOLEAN
    /\ raised \in BOOLEAN
    /\ handler \in {"idle", "look", "call"}
    /\ todo \in Forked!Monitors
    /\ monitor \in [Forked!Monitors ->
                       {"create", "start", "loop", "joining", "deciding", "ended"}]
    /\ process \in [Forked!Monitors -> {"none", "new", "started"}]
    /\ worker \in [Forked!Monitors ->
                      {"none", "deaf", "booting", "serving", "stopping", "dead"}]
    /\ clock \in 0..MaxTime
    /\ sent \in 0..ForkSignals
    /\ unheard \subseteq Forked!Monitors

\* The handler has been at monitor m.
Passed(m) == signaled /\ (IF handler = "idle" THEN ~raised ELSE m < todo)

\* The worker that monitor m waits for knows that it has to stop, or was deaf.
IsTold(m) == monitor[m] = "joining" => worker[m] \in {"stopping", "dead"} \/ m \in unheard

\* Behind the fork there is a process until the next one is created, and a
\* monitor that is about to fork has none left.
HasWorker(m) ==
    /\ monitor[m] \in {"loop", "joining", "deciding"} =>
          process[m] = "started" /\ worker[m] # "none"
    /\ monitor[m] \in {"create", "start", "deciding"} => worker[m] \in {"none", "dead"}

MonitorInv ==
    /\ MonitorsAreTyped
    /\ handler # "idle" => signaled
    /\ \A m \in Forked!Monitors : HasWorker(m) /\ (Passed(m) => IsTold(m))

USE DEF Forked!handlerVars, Forked!restartTimes, Forked!history, Forked!Step, Forked!Finish

\* A monitor's thread: none begins to wait once the parent was signaled.
LEMMA ThreadKeepsMonitorInv ==
  ASSUME MonitorInv, NEW m \in Forked!Monitors, Forked!MonitorStep(m)
  PROVE  MonitorInv'
<1>1. UNCHANGED <<installed, signaled, lockHeld, raised, handler, todo, clock, sent, unheard>>
  BY DEF Forked!MonitorStep, Forked!CreateProcess, Forked!StartProcess, Forked!TestSignaled,
         Forked!JoinProcess, Forked!GiveUp, Forked!DecideToRespawn
<1>2. /\ monitor' \in [Forked!Monitors ->
                          {"create", "start", "loop", "joining", "deciding", "ended"}]
      /\ process' \in [Forked!Monitors -> {"none", "new", "started"}]
      /\ worker' \in [Forked!Monitors ->
                         {"none", "deaf", "booting", "serving", "stopping", "dead"}]
  <2>1. CASE Forked!StartProcess(m)
    BY <2>1 DEF Forked!StartProcess, MonitorInv, MonitorsAreTyped
  <2>2. CASE ~Forked!StartProcess(m)
    BY <2>2
    DEF Forked!MonitorStep, Forked!CreateProcess, Forked!TestSignaled, Forked!JoinProcess,
        Forked!GiveUp, Forked!DecideToRespawn, MonitorInv, MonitorsAreTyped
  <2> QED
    BY <2>1, <2>2
<1>3. \A o \in Forked!Monitors \ {m} :
         monitor'[o] = monitor[o] /\ process'[o] = process[o] /\ worker'[o] = worker[o]
  BY DEF Forked!MonitorStep, Forked!CreateProcess, Forked!StartProcess, Forked!TestSignaled,
         Forked!JoinProcess, Forked!GiveUp, Forked!DecideToRespawn, MonitorInv, MonitorsAreTyped
<1>4. HasWorker(m)' /\ (monitor'[m] = "joining" => ~signaled)
  BY DEF Forked!MonitorStep, Forked!CreateProcess, Forked!StartProcess, Forked!TestSignaled,
         Forked!JoinProcess, Forked!GiveUp, Forked!DecideToRespawn, MonitorInv,
         MonitorsAreTyped, HasWorker
<1>5. MonitorsAreTyped'
  BY <1>1, <1>2 DEF MonitorInv, MonitorsAreTyped
<1>6. ASSUME NEW o \in Forked!Monitors PROVE HasWorker(o)' /\ (Passed(o)' => IsTold(o)')
  <2>1. CASE o = m
    BY <1>1, <1>4, <2>1 DEF Passed, IsTold
  <2>2. CASE o # m
    BY <1>1, <1>3, <2>2 DEF MonitorInv, HasWorker, Passed, IsTold
  <2> QED
    BY <2>1, <2>2
<1> QED
  BY <1>1, <1>5, <1>6 DEF MonitorInv, Forked!Monitors

\* A worker boots, stops or dies.
LEMMA WorkerKeepsMonitorInv ==
  ASSUME MonitorInv, NEW m \in Forked!Monitors,
         Forked!Boot(m) \/ Forked!Stop(m) \/ Forked!Crash(m)
  PROVE  MonitorInv'
<1>1. /\ UNCHANGED <<installed, signaled, lockHeld, raised, handler, todo, clock, sent, unheard,
                     monitor, process>>
      /\ \/ worker[m] \in {"deaf", "booting"} /\ worker' = [worker EXCEPT ![m] = "serving"]
         \/ worker[m] # "none" /\ worker' = [worker EXCEPT ![m] = "dead"]
  BY DEF Forked!Boot, Forked!Stop, Forked!Crash, Forked!Becomes
<1>2. MonitorsAreTyped'
  BY <1>1 DEF MonitorInv, MonitorsAreTyped
<1>3. \A o \in Forked!Monitors :
         /\ worker'[o] # worker[o] => worker[o] \in {"deaf", "booting"} \/ worker'[o] = "dead"
         /\ worker[o] # "none" => worker'[o] # "none"
         /\ worker[o] \in {"none", "dead"} => worker'[o] \in {"none", "dead"}
  BY <1>1 DEF MonitorInv, MonitorsAreTyped
<1> QED
  BY <1>1, <1>2, <1>3 DEF MonitorInv, HasWorker, Passed, IsTold

\* The handler tells the worker that its monitor waits for, or the worker is deaf.
LEMMA HandlerKeepsMonitorInv ==
  ASSUME Forked!MonitorAssumption, MonitorInv, Forked!HandlerStep
  PROVE  MonitorInv'
<1> DEFINE N == NumProcesses
<1>1. UNCHANGED <<installed, signaled, clock, sent, monitor, process>>
  BY DEF Forked!HandlerStep, Forked!LookAtProcess, Forked!TerminateProcess,
         Forked!TerminateRaises, Forked!Advance
<1>2. N \in Nat \ {0} /\ todo \in 1..N /\ signaled
  BY DEF Forked!MonitorAssumption, MonitorInv, MonitorsAreTyped, Forked!Monitors,
         Forked!HandlerStep, Forked!LookAtProcess, Forked!TerminateProcess,
         Forked!TerminateRaises
<1>3. CASE Forked!TerminateRaises
  <2>1. MonitorsAreTyped'
    BY <1>1, <1>3 DEF Forked!TerminateRaises, MonitorInv, MonitorsAreTyped
  <2> QED
    BY <1>1, <1>3, <2>1 DEF Forked!TerminateRaises, MonitorInv, HasWorker, Passed
<1>4. ASSUME Forked!Advance, raised' = raised,
             \A o \in Forked!Monitors :
                /\ \/ worker'[o] = worker[o]
                   \/ worker'[o] \in {"stopping", "dead"} /\ worker[o] \notin {"none", "dead"}
                /\ o \in unheard => o \in unheard',
             \A o \in Forked!Monitors : o = todo => IsTold(o)', MonitorsAreTyped'
      PROVE  MonitorInv'
  <2>1. ASSUME NEW o \in Forked!Monitors, Passed(o)' PROVE IsTold(o)'
    <3>1. CASE o = todo
      BY <1>4, <3>1 DEF IsTold
    <3>2. CASE o # todo
      <4>1. o < todo
        BY <1>2, <1>4, <2>1, <3>2 DEF Passed, Forked!Advance, Forked!Monitors
      <4>2. Passed(o)
        BY <1>2, <4>1 DEF Passed, Forked!HandlerStep, Forked!LookAtProcess,
           Forked!TerminateProcess, Forked!TerminateRaises
      <4> QED
        BY <1>1, <1>4, <4>2 DEF MonitorInv, IsTold
    <3> QED
      BY <3>1, <3>2
  <2>2. ASSUME NEW o \in Forked!Monitors PROVE HasWorker(o)'
    BY <1>1, <1>4 DEF MonitorInv, HasWorker
  <2> QED
    BY <1>1, <1>2, <1>4, <2>1, <2>2 DEF MonitorInv, Forked!Monitors
<1>5. Forked!Advance => /\ handler' \in {"look", "idle"} /\ todo' \in Forked!Monitors
                        /\ lockHeld' \in BOOLEAN
  BY <1>2 DEF Forked!Advance, Forked!Monitors
<1>6. CASE Forked!LookAtProcess
  <2>1. CASE process[todo] = "none"
    <3>1. Forked!Advance /\ UNCHANGED <<worker, unheard, raised>>
      BY <1>6, <2>1 DEF Forked!LookAtProcess
    <3>2. MonitorsAreTyped'
      BY <1>1, <1>5, <3>1 DEF MonitorInv, MonitorsAreTyped
    <3>3. monitor[todo] # "joining"
      BY <2>1 DEF MonitorInv, MonitorsAreTyped, HasWorker
    <3> QED
      BY <1>1, <1>4, <3>1, <3>2, <3>3 DEF IsTold
  <2>2. CASE process[todo] # "none"
    <3>1. /\ handler = "look" /\ handler' = "call"
          /\ UNCHANGED <<todo, lockHeld, worker, unheard, raised>>
      BY <1>6, <2>2 DEF Forked!LookAtProcess
    <3>2. MonitorsAreTyped'
      BY <1>1, <3>1 DEF MonitorInv, MonitorsAreTyped
    <3> QED
      BY <1>1, <1>2, <3>1, <3>2 DEF MonitorInv, HasWorker, Passed, IsTold
  <2> QED
    BY <2>1, <2>2
<1>7. CASE Forked!TerminateProcess
  <2>1. /\ Forked!Advance /\ raised' = raised
        /\ worker' = [worker EXCEPT ![todo] =
               IF @ = "serving" THEN "stopping" ELSE IF @ = "booting" THEN "dead" ELSE @]
        /\ unheard' = IF worker[todo] = "deaf" THEN unheard \union {todo} ELSE unheard
    BY <1>7 DEF Forked!TerminateProcess
  <2>2. MonitorsAreTyped'
    BY <1>1, <1>5, <2>1 DEF MonitorInv, MonitorsAreTyped
  <2>3. \A o \in Forked!Monitors :
           /\ \/ worker'[o] = worker[o]
              \/ worker'[o] \in {"stopping", "dead"} /\ worker[o] \notin {"none", "dead"}
           /\ o \in unheard => o \in unheard'
    BY <2>1 DEF MonitorInv, MonitorsAreTyped
  <2>4. \A o \in Forked!Monitors : o = todo => IsTold(o)'
    <3>1. todo \in Forked!Monitors /\ HasWorker(todo)
      BY DEF MonitorInv, MonitorsAreTyped
    <3>2. monitor[todo] = "joining" => worker'[todo] \in {"stopping", "dead"} \/ todo \in unheard'
      BY <2>1, <3>1 DEF MonitorInv, MonitorsAreTyped, HasWorker
    <3> QED
      BY <1>1, <3>2 DEF IsTold
  <2> QED
    BY <1>4, <2>1, <2>2, <2>3, <2>4
<1> QED
  BY <1>3, <1>6, <1>7 DEF Forked!HandlerStep

\* At first the handler has been nowhere.
LEMMA RestKeepsMonitorInv ==
  ASSUME Forked!MonitorAssumption, MonitorInv,
         \/ Forked!InstallHandlers \/ Forked!BeginTermination \/ Forked!IgnoreSignal
         \/ Forked!Tick \/ UNCHANGED Forked!vars
  PROVE  MonitorInv'
<1>1. UNCHANGED <<monitor, process, worker, raised, unheard>>
  BY DEF Forked!InstallHandlers, Forked!BeginTermination, Forked!IgnoreSignal, Forked!Tick,
         Forked!vars
<1>2. MonitorsAreTyped'
  <2>1. sent' \in 0..ForkSignals
    BY DEF Forked!InstallHandlers, Forked!BeginTermination, Forked!IgnoreSignal, Forked!Tick,
           Forked!vars, Forked!SignalMayCome, MonitorInv, MonitorsAreTyped,
           Forked!MonitorAssumption
  <2>2. clock' \in 0..MaxTime
    BY DEF Forked!InstallHandlers, Forked!BeginTermination, Forked!IgnoreSignal, Forked!Tick,
           Forked!vars, MonitorInv, MonitorsAreTyped, Forked!MonitorAssumption
  <2>3. todo' \in Forked!Monitors
    BY DEF Forked!InstallHandlers, Forked!BeginTermination, Forked!IgnoreSignal, Forked!Tick,
           Forked!vars, MonitorInv, MonitorsAreTyped, Forked!MonitorAssumption, Forked!Monitors
  <2>4. /\ installed' \in BOOLEAN /\ signaled' \in BOOLEAN /\ lockHeld' \in BOOLEAN
        /\ handler' \in {"idle", "look", "call"}
    BY DEF Forked!InstallHandlers, Forked!BeginTermination, Forked!IgnoreSignal, Forked!Tick,
           Forked!vars, MonitorInv, MonitorsAreTyped
  <2> QED
    BY <1>1, <2>1, <2>2, <2>3, <2>4 DEF MonitorInv, MonitorsAreTyped
<1>3. /\ handler' # "idle" => signaled'
      /\ \A o \in Forked!Monitors : ~Passed(o)' \/ (Passed(o)' <=> Passed(o))
  <2>1. CASE Forked!BeginTermination
    BY <2>1 DEF Forked!BeginTermination, Passed, Forked!Monitors
  <2>2. CASE ~Forked!BeginTermination
    <3>1. UNCHANGED <<signaled, handler, todo>>
      BY <2>2 DEF Forked!InstallHandlers, Forked!IgnoreSignal, Forked!Tick, Forked!vars
    <3> QED
      BY <1>1, <3>1 DEF MonitorInv, Passed
  <2> QED
    BY <2>1, <2>2
<1> QED
  BY <1>1, <1>2, <1>3 DEF MonitorInv, HasWorker, IsTold

\* Before anything was forked.
LEMMA MonitorInvHolds ==
  ASSUME Forked!MonitorAssumption, Forked!Init
  PROVE  MonitorInv
<1>1. 1 \in Forked!Monitors /\ 0 \in 0..MaxTime /\ 0 \in 0..ForkSignals
  BY DEF Forked!MonitorAssumption, Forked!Monitors
<1>2. MonitorsAreTyped
  BY <1>1 DEF Forked!Init, MonitorsAreTyped
<1>3. \A m \in Forked!Monitors : HasWorker(m) /\ ~Passed(m)
  BY DEF Forked!Init, HasWorker, Passed
<1> QED
  BY <1>2, <1>3 DEF Forked!Init, MonitorInv

\* Every step of threads, workers and handler.
LEMMA MonitorInvIsKept ==
  ASSUME Forked!MonitorAssumption, MonitorInv, [Forked!Next]_(Forked!vars)
  PROVE  MonitorInv'
  BY ThreadKeepsMonitorInv, WorkerKeepsMonitorInv, HandlerKeepsMonitorInv, RestKeepsMonitorInv
  DEF Forked!Next

\* For any number of workers, whichever threads, workers and signals interleave:
\* when the parent's handler is through without an AttributeError, each worker
\* that is waited for was told to stop, or was deaf to that.
THEOREM AwaitedWorkersAreTold ==
  ASSUME Forked!MonitorAssumption
  PROVE  Forked!Spec => []Forked!AwaitedWorkersWereTold
<1>1. MonitorInv => Forked!AwaitedWorkersWereTold
  BY DEF MonitorInv, Passed, IsTold, Forked!AwaitedWorkersWereTold
<1> QED
  BY <1>1, MonitorInvHolds, MonitorInvIsKept, PTL DEF Forked!Spec

\* Every variable of the parent and its workers keeps its type, and neither
\* deque outgrows its maxlen.
THEOREM MonitorTypesHold ==
  ASSUME Forked!MonitorAssumption
  PROVE  Forked!Spec => []Forked!TypeOK
<1>1. MonitorInv /\ RespawnsInv => Forked!TypeOK
  BY DEF MonitorInv, MonitorsAreTyped, RespawnsInv, TimesAreKept, MonitorsRemember, Remembers,
         Forked!TypeOK
<1> QED
  BY <1>1, MonitorInvHolds, MonitorInvIsKept, RespawnsInvHolds, MonitorsKeep, PTL DEF Forked!Spec

\* One worker gets on, or none.
LEMMA LifeStep ==
  ASSUME MonitorsAreTyped, NEW m \in Forked!Monitors, NEW state,
         worker' = [worker EXCEPT ![m] = state],
         \/ Forked!Life(m)' = Forked!Life(m)
         \/ Forked!Life(m) = "gone" /\ Forked!Life(m)' = "booting"
         \/ Forked!Life(m) = "booting" /\ Forked!Life(m)' = "serving"
         \/ Forked!Life(m) = "serving" /\ Forked!Life(m)' = "stopping"
         \/ Forked!Life(m) \in {"booting", "serving", "stopping"} /\ Forked!Life(m)' = "gone"
  PROVE  [Forked!Lives!Next]_[o \in Forked!Monitors |-> Forked!Life(o)]
<1>1. \A o \in Forked!Monitors : o # m => Forked!Life(o)' = Forked!Life(o)
  BY DEF MonitorsAreTyped, Forked!Life
<1>2. [o \in Forked!Monitors |-> Forked!Life(o)]'
        = [[o \in Forked!Monitors |-> Forked!Life(o)] EXCEPT ![m] = Forked!Life(m)']
  BY <1>1 DEF Forked!Monitors
<1>3. ASSUME NEW states, Forked!Life(m) \in states, NEW new, Forked!Life(m)' = new
      PROVE  Forked!Lives!Becomes(m, states, new)
  <2>1. [o \in Forked!Monitors |-> Forked!Life(o)][m] = Forked!Life(m)
    OBVIOUS
  <2> QED
    BY <1>2, <1>3, <2>1 DEF Forked!Lives!Becomes, Forked!Life
<1>4. CASE Forked!Life(m)' = Forked!Life(m)
  <2>1. [o \in Forked!Monitors |-> Forked!Life(o)]' = [o \in Forked!Monitors |-> Forked!Life(o)]
    BY <1>1, <1>4 DEF Forked!Monitors
  <2> QED
    BY <2>1
<1>5. CASE Forked!Life(m)' # Forked!Life(m)
  <2>1. \/ Forked!Lives!Fork(m) \/ Forked!Lives!Boot(m)
        \/ Forked!Lives!BeginStop(m) \/ Forked!Lives!End(m)
    BY <1>3, <1>5 DEF Forked!Lives!Fork, Forked!Lives!Boot, Forked!Lives!BeginStop, Forked!Lives!End
  <2> QED
    BY <2>1 DEF Forked!Lives!Next
<1> QED
  BY <1>4, <1>5

\* A step of threads, workers and handler is one of a worker's life, or none.
LEMMA StepIsOfLives ==
  ASSUME MonitorInv, [Forked!Next]_(Forked!vars)
  PROVE  [Forked!Lives!Next]_[o \in Forked!Monitors |-> Forked!Life(o)]
<1>1. ASSUME UNCHANGED worker
      PROVE  [Forked!Lives!Next]_[o \in Forked!Monitors |-> Forked!Life(o)]
  BY <1>1 DEF Forked!Life, Forked!Monitors
<1>2. MonitorsAreTyped /\ \A m \in Forked!Monitors : HasWorker(m)
  BY DEF MonitorInv
<1>3. ASSUME NEW m \in Forked!Monitors, Forked!StartProcess(m)
      PROVE  [Forked!Lives!Next]_[o \in Forked!Monitors |-> Forked!Life(o)]
  <2>1. PICK state \in {"deaf", "booting"} : worker' = [worker EXCEPT ![m] = state]
    BY <1>3 DEF Forked!StartProcess
  <2>2. Forked!Life(m) = "gone"
    BY <1>2, <1>3 DEF Forked!StartProcess, HasWorker, Forked!Life
  <2>3. Forked!Life(m)' = "booting"
    BY <1>2, <2>1 DEF MonitorsAreTyped, Forked!Life
  <2> QED
    BY <1>2, <2>1, <2>2, <2>3, LifeStep
<1>4. ASSUME NEW m \in Forked!Monitors, Forked!MonitorStep(m), ~Forked!StartProcess(m)
      PROVE  [Forked!Lives!Next]_[o \in Forked!Monitors |-> Forked!Life(o)]
  <2>1. UNCHANGED worker
    BY <1>4 DEF Forked!MonitorStep, Forked!CreateProcess, Forked!TestSignaled,
       Forked!JoinProcess, Forked!GiveUp, Forked!DecideToRespawn
  <2> QED
    BY <1>1, <2>1
<1>5. ASSUME NEW m \in Forked!Monitors, Forked!Boot(m)
      PROVE  [Forked!Lives!Next]_[o \in Forked!Monitors |-> Forked!Life(o)]
  <2>1. worker[m] \in {"deaf", "booting"} /\ worker' = [worker EXCEPT ![m] = "serving"]
    BY <1>5 DEF Forked!Boot, Forked!Becomes
  <2>2. Forked!Life(m) = "booting" /\ Forked!Life(m)' = "serving"
    BY <1>2, <2>1 DEF MonitorsAreTyped, Forked!Life
  <2> QED
    BY <1>2, <2>1, <2>2, LifeStep
<1>6. ASSUME NEW m \in Forked!Monitors, Forked!Stop(m) \/ Forked!Crash(m)
      PROVE  [Forked!Lives!Next]_[o \in Forked!Monitors |-> Forked!Life(o)]
  <2>1. /\ worker[m] \in {"deaf", "booting", "serving", "stopping"}
        /\ worker' = [worker EXCEPT ![m] = "dead"]
    BY <1>6 DEF Forked!Stop, Forked!Crash, Forked!Becomes
  <2>2. Forked!Life(m) \in {"booting", "serving", "stopping"} /\ Forked!Life(m)' = "gone"
    BY <1>2, <2>1 DEF MonitorsAreTyped, Forked!Life
  <2> QED
    BY <1>2, <2>1, <2>2, LifeStep
<1>7. CASE Forked!TerminateProcess
  <2>1. todo \in Forked!Monitors
    BY <1>2 DEF MonitorsAreTyped
  <2>2. PICK m \in Forked!Monitors : m = todo
    BY <2>1
  <2>3. PICK state : /\ worker' = [worker EXCEPT ![m] = state]
                     /\ state = IF worker[m] = "serving" THEN "stopping"
                                ELSE IF worker[m] = "booting" THEN "dead" ELSE worker[m]
    BY <1>7, <2>2 DEF Forked!TerminateProcess
  <2>4. worker'[m] = state
    BY <1>2, <2>3 DEF MonitorsAreTyped
  <2>5. \/ Forked!Life(m)' = Forked!Life(m)
        \/ Forked!Life(m) = "serving" /\ Forked!Life(m)' = "stopping"
        \/ Forked!Life(m) = "booting" /\ Forked!Life(m)' = "gone"
    BY <2>3, <2>4 DEF Forked!Life
  <2> QED
    BY <1>2, <2>3, <2>5, LifeStep
<1>8. CASE \/ Forked!InstallHandlers \/ Forked!BeginTermination \/ Forked!IgnoreSignal
           \/ Forked!LookAtProcess \/ Forked!TerminateRaises \/ Forked!Tick
           \/ UNCHANGED Forked!vars
  <2>1. UNCHANGED worker
    BY <1>8 DEF Forked!InstallHandlers, Forked!BeginTermination, Forked!IgnoreSignal,
       Forked!LookAtProcess, Forked!TerminateRaises, Forked!Tick, Forked!vars
  <2> QED
    BY <1>1, <2>1
<1> QED
  BY <1>3, <1>4, <1>5, <1>6, <1>7, <1>8 DEF Forked!Next, Forked!HandlerStep

\* No monitor ever forks a worker beside one that is there, whatever signals and
\* crashes come between, and no worker that was told to stop serves again.
THEOREM MonitorsKeepOneWorkerEach ==
  ASSUME Forked!MonitorAssumption
  PROVE  Forked!Spec => Forked!RefinesForkedWorkers
<1>1. Forked!Init => Forked!Lives!Init
  BY DEF Forked!Init, Forked!Lives!Init, Forked!Life
<1>2. MonitorInv /\ [Forked!Next]_(Forked!vars)
      => [Forked!Lives!Next]_[m \in Forked!Monitors |-> Forked!Life(m)]
  BY StepIsOfLives
<1>3. Forked!Spec => /\ Forked!Lives!Init
                     /\ [][Forked!Lives!Next]_[m \in Forked!Monitors |-> Forked!Life(m)]
  BY <1>1, <1>2, MonitorInvHolds, MonitorInvIsKept, PTL DEF Forked!Spec
<1> QED
  <2>1. Forked!RefinesForkedWorkers <=> Forked!Lives!Spec
    BY PTL DEF Forked!RefinesForkedWorkers
  <2>2. Forked!Lives!Spec <=> /\ Forked!Lives!Init
                              /\ [][Forked!Lives!Next]_[m \in Forked!Monitors |-> Forked!Life(m)]
    BY PTL DEF Forked!Lives!Spec
  <2> QED
    BY <1>3, <2>1, <2>2, PTL
HIDE DEF Forked!handlerVars, Forked!restartTimes, Forked!history, Forked!Step, Forked!Finish
-----------------------------------------------------------------------------
(***************************************************************************)
(* The event loop thread: what its queue of handles holds, and that nothing *)
(* which was handed to it is left behind.                                  *)
(***************************************************************************)
\* Those of EventLoop; three go by another name.
CONSTANTS Coroutines, None, LoopFaults
VARIABLES thread, ready, task, gathered, done, owner, awaited, premature, exited, failed, late

Loop == INSTANCE EventLoop
    WITH Faults <- LoopFaults, server <- owner, early <- premature

\* What the loop may find in its queue: coroutines, steps of tasks, and the stop.
Handles == ({"start", "step"} \X Coroutines) \union {Loop!Stop}
TaskStates == {"returned", "raised", "none", "refused", "scheduled", "made", "suspended",
               "resumed", "lost"}

\* Where the thread and the tasks may be; "done" is set last.
LoopIsTyped ==
    /\ thread \in {"starting", "running", "stopping", "gathering", "draining", "closing",
                   "closed"}
    /\ done => thread = "closed"
    /\ ready \in Seq(Handles)
    /\ task \in [Coroutines -> TaskStates]

\* What a queue of handles may hold.
HasStop(handles) == \E i \in 1..Len(handles) : handles[i][1] = "stop"
OnlySteps(handles) == \A i \in 1..Len(handles) : handles[i][1] = "step"

\* Nothing but the steps of tasks comes behind the stop.
StopIsLast(handles) == \A i \in 1..Len(handles) : handles[i][1] = "stop" =>
    \A j \in (i + 1)..Len(handles) : handles[j][1] = "step"

Has(handles, handle) == \E i \in 1..Len(handles) : handles[i] = handle

\* A coroutine that was handed over has its handle, until it is a task.
ScheduledAreReady == \A c \in Coroutines :
    /\ task[c] = "scheduled" => Has(ready, Loop!Start(c))
    /\ task[c] = "lost" => exited

\* join is called once, and nobody hands over coroutines afterwards.
StopComesOnce == ~exited =>
    IF thread \in {"starting", "running"}
      THEN StopIsLast(ready) /\ (HasStop(ready) => owner = "waiting")
      ELSE OnlySteps(ready) /\ owner \in {"waiting", "joining", "joined"}

\* What has not ended is waited for, or was started too late for that.
TasksAreGathered == ~exited =>
    /\ thread \in {"draining", "closing", "closed"} => \A c \in Coroutines :
          task[c] \in {"returned", "raised", "none", "refused"} \/ c \in gathered \/ c \in late
    /\ thread \in {"closing", "closed"} /\ ~failed => \A c \in Coroutines :
          c \in gathered => task[c] \in {"returned", "raised"}

LoopInv ==
    /\ LoopIsTyped
    /\ ScheduledAreReady
    /\ StopComesOnce
    /\ TasksAreGathered

\* Steps and handles that are pushed.
LEMMA PushedHandles ==
  ASSUME NEW q \in Seq(Handles), NEW h \in Handles
  PROVE  /\ Append(q, h) \in Seq(Handles)
         /\ \A x : Has(q, x) \/ x = h => Has(Append(q, h), x)
         /\ HasStop(Append(q, h)) => HasStop(q) \/ h[1] = "stop"
         /\ h[1] = "step" /\ OnlySteps(q) => OnlySteps(Append(q, h))
         /\ StopIsLast(q) /\ (h[1] = "step" \/ ~HasStop(q)) => StopIsLast(Append(q, h))
<1>1. /\ Append(q, h) \in Seq(Handles) /\ Len(Append(q, h)) = Len(q) + 1 /\ Len(q) \in Nat
      /\ \A i \in 1..(Len(q) + 1) : Append(q, h)[i] = IF i = Len(q) + 1 THEN h ELSE q[i]
  OBVIOUS
<1> DEFINE p == Append(q, h)
           n == Len(q)
<1> HIDE DEF p
<1>2. /\ Len(p) = n + 1 /\ n \in Nat /\ p[n + 1] = h
      /\ \A i \in 1..n : p[i] = q[i]
  BY <1>1 DEF p
<1>3. \A x : Has(q, x) \/ x = h => Has(p, x)
  BY <1>2 DEF Has
<1>4. HasStop(p) => HasStop(q) \/ h[1] = "stop"
  BY <1>2 DEF HasStop
<1>5. h[1] = "step" /\ OnlySteps(q) => OnlySteps(p)
  BY <1>2 DEF OnlySteps
<1>6. ASSUME StopIsLast(q), h[1] = "step" \/ ~HasStop(q) PROVE StopIsLast(p)
  <2> SUFFICES ASSUME NEW i \in 1..(n + 1), p[i][1] = "stop", NEW j \in (i + 1)..(n + 1)
               PROVE  p[j][1] = "step"
    BY <1>2 DEF StopIsLast
  <2>1. i \in 1..n /\ q[i][1] = "stop"
    BY <1>2
  <2>2. h[1] = "step"
    BY <1>6, <2>1 DEF HasStop
  <2>3. CASE j = n + 1
    BY <1>2, <2>2, <2>3
  <2>4. CASE j # n + 1
    <3>1. j \in (i + 1)..n /\ j \in 1..n
      BY <1>2, <2>1, <2>4
    <3> QED
      BY <1>2, <1>6, <2>1, <3>1 DEF StopIsLast
  <2> QED
    BY <2>3, <2>4
<1> QED
  BY <1>1, <1>3, <1>4, <1>5, <1>6 DEF p

\* What is left when the loop takes a handle.
LEMMA PoppedHandles ==
  ASSUME NEW q \in Seq(Handles), q # <<>>
  PROVE  /\ Tail(q) \in Seq(Handles) /\ Head(q) = q[1] /\ q[1] \in Handles
         /\ Len(q) \in Nat \ {0}
         /\ \A x : Has(q, x) /\ x # Head(q) => Has(Tail(q), x)
         /\ HasStop(Tail(q)) => HasStop(q)
         /\ Head(q)[1] = "stop" => HasStop(q)
         /\ OnlySteps(q) => OnlySteps(Tail(q)) /\ Head(q)[1] = "step"
         /\ StopIsLast(q) => StopIsLast(Tail(q))
         /\ StopIsLast(q) /\ Head(q)[1] = "stop" => OnlySteps(Tail(q)) /\ ~HasStop(Tail(q))
<1>1. /\ Tail(q) \in Seq(Handles) /\ Len(Tail(q)) = Len(q) - 1 /\ Len(q) \in Nat \ {0}
      /\ Head(q) = q[1] /\ q[1] \in Handles
      /\ \A i \in 1..(Len(q) - 1) : Tail(q)[i] = q[i + 1]
  OBVIOUS
<1> DEFINE p == Tail(q)
<1> HIDE DEF p
<1>2. PICK n \in Nat : n = Len(q) - 1 /\ n + 1 = Len(q)
  <2>1. Len(q) - 1 \in Nat /\ (Len(q) - 1) + 1 = Len(q)
    BY <1>1
  <2> QED
    BY <2>1, Zenon
<1>3. Len(p) = n /\ Head(q) = q[1] /\ \A i \in 1..n : p[i] = q[i + 1]
  BY <1>1, <1>2, Zenon DEF p
<1>4. ASSUME NEW x, Has(q, x), x # Head(q) PROVE Has(p, x)
  <2>1. PICK i \in 1..(n + 1) : q[i] = x
    BY <1>2, <1>4 DEF Has
  <2>2. i # 1 /\ i - 1 \in 1..n /\ (i - 1) + 1 = i
    BY <1>2, <1>3, <1>4, <2>1
  <2>3. p[i - 1] = x
    BY <1>3, <2>1, <2>2
  <2> QED
    BY <1>3, <2>2, <2>3 DEF Has
<1>5. HasStop(p) => HasStop(q)
  <2> SUFFICES ASSUME NEW i \in 1..n, p[i][1] = "stop" PROVE HasStop(q)
    BY <1>3 DEF HasStop
  <2>1. i + 1 \in 1..(n + 1) /\ q[i + 1][1] = "stop"
    BY <1>2, <1>3
  <2> QED
    BY <1>2, <2>1 DEF HasStop
<1>6. 1 \in 1..(n + 1)
  BY <1>2
<1>7. Head(q)[1] = "stop" => HasStop(q)
  BY <1>2, <1>3, <1>6 DEF HasStop
<1>8. ASSUME NEW i \in 1..n PROVE i + 1 \in 1..(n + 1) /\ i + 1 \in (1 + 1)..(n + 1)
  BY <1>2
<1>9. OnlySteps(q) => OnlySteps(p) /\ Head(q)[1] = "step"
  BY <1>2, <1>3, <1>6, <1>8 DEF OnlySteps
<1>10. ASSUME StopIsLast(q) PROVE StopIsLast(p)
  <2> SUFFICES ASSUME NEW i \in 1..n, p[i][1] = "stop", NEW j \in (i + 1)..n
               PROVE  p[j][1] = "step"
    BY <1>3 DEF StopIsLast
  <2>1. i + 1 \in 1..(n + 1) /\ j + 1 \in ((i + 1) + 1)..(n + 1) /\ j \in 1..n
    BY <1>2
  <2>2. q[i + 1][1] = "stop" /\ p[j] = q[j + 1]
    BY <1>3, <2>1
  <2> QED
    BY <1>2, <1>10, <2>1, <2>2 DEF StopIsLast
<1>11. ASSUME StopIsLast(q), Head(q)[1] = "stop" PROVE OnlySteps(p)
  <2>1. \A j \in (1 + 1)..(n + 1) : q[j][1] = "step"
    BY <1>2, <1>3, <1>6, <1>11 DEF StopIsLast
  <2> QED
    BY <1>3, <1>8, <2>1 DEF OnlySteps
<1>12. OnlySteps(p) => ~HasStop(p)
  BY DEF OnlySteps, HasStop
<1> QED
  BY <1>1, <1>4, <1>5, <1>7, <1>9, <1>10, <1>11, <1>12 DEF p

USE DEF Loop!loopVars, Loop!history

\* Handles are told apart by what they are for.
LEMMA HandlesAre ==
  /\ Loop!Stop \in Handles /\ Loop!Stop[1] = "stop"
  /\ \A c \in Coroutines :
        /\ Loop!Start(c) \in Handles /\ Loop!Start(c)[1] = "start"
        /\ Loop!Step(c) \in Handles /\ Loop!Step(c)[1] = "step"
  /\ \A c, d \in Coroutines : c # d => Loop!Start(c) # Loop!Start(d)
  BY DEF Handles, Loop!Stop, Loop!Start, Loop!Step

\* run_coroutine hands over a coroutine while join was not called.
LEMMA RunCoroutineKeeps ==
  ASSUME LoopInv, NEW c \in Coroutines, Loop!RunCoroutine(c)
  PROVE  LoopInv'
<1>1. /\ owner = "serving" /\ task[c] = "none"
      /\ UNCHANGED <<thread, gathered, done, owner, exited, failed, late>>
      /\ \/ thread = "closed" /\ task' = [task EXCEPT ![c] = "refused"] /\ ready' = ready
         \/ /\ thread # "closed" /\ task' = [task EXCEPT ![c] = "scheduled"]
            /\ ready' = Append(ready, Loop!Start(c))
  BY DEF Loop!RunCoroutine
<1>2. ~exited => thread \in {"starting", "running"} /\ ~HasStop(ready)
  BY <1>1 DEF LoopInv, StopComesOnce
<1>3. ready \in Seq(Handles) /\ task \in [Coroutines -> TaskStates]
  BY DEF LoopInv, LoopIsTyped
<1>4. /\ ready' \in Seq(Handles)
      /\ \A x : Has(ready, x) => Has(ready', x)
      /\ thread # "closed" => Has(ready', Loop!Start(c))
      /\ ~exited => (HasStop(ready') => HasStop(ready)) /\ (StopIsLast(ready) => StopIsLast(ready'))
  <2>1. CASE ready' = ready /\ thread = "closed"
    BY <1>3, <2>1
  <2>2. CASE ready' = Append(ready, Loop!Start(c))
    BY <1>2, <1>3, <2>2, HandlesAre, PushedHandles
  <2> QED
    BY <1>1, <2>1, <2>2
<1>5. LoopIsTyped'
  BY <1>1, <1>3, <1>4 DEF LoopInv, LoopIsTyped, TaskStates
<1>6. ScheduledAreReady'
  BY <1>1, <1>3, <1>4 DEF LoopInv, ScheduledAreReady
<1>7. StopComesOnce'
  BY <1>1, <1>2, <1>4 DEF LoopInv, StopComesOnce
<1>8. TasksAreGathered'
  BY <1>1, <1>2 DEF TasksAreGathered
<1> QED
  BY <1>5, <1>6, <1>7, <1>8 DEF LoopInv

\* The server goes on, and only a server that joins does so once join was called.
LEMMA ServerKeeps ==
  ASSUME LoopInv, UNCHANGED <<ready, task, thread, gathered, done, exited, failed, late>>,
         owner = "waiting" => thread = "closed",
         owner \in {"waiting", "joining"} => owner' \in {"joining", "joined"},
         owner # "joined"
  PROVE  LoopInv'
<1>1. LoopIsTyped' /\ ScheduledAreReady' /\ TasksAreGathered'
  BY DEF LoopInv, LoopIsTyped, ScheduledAreReady, TasksAreGathered
<1>2. StopComesOnce'
  BY DEF LoopInv, StopComesOnce
<1> QED
  BY <1>1, <1>2 DEF LoopInv

\* join schedules the stop, behind all that was handed over.
LEMMA ScheduleStopKeeps ==
  ASSUME LoopInv, Loop!ScheduleStop
  PROVE  LoopInv'
<1>1. /\ owner = "stopping"
      /\ UNCHANGED <<thread, gathered, done, task, exited, failed, late>>
      /\ \/ thread = "closed" /\ ready' = ready
         \/ owner' = "waiting" /\ ready' = Append(ready, Loop!Stop)
  BY DEF Loop!ScheduleStop
<1>2. ~exited => thread \in {"starting", "running"} /\ ~HasStop(ready) /\ StopIsLast(ready)
  BY <1>1 DEF LoopInv, StopComesOnce
<1>3. ready \in Seq(Handles)
  BY DEF LoopInv, LoopIsTyped
<1>4. /\ ready' \in Seq(Handles)
      /\ \A x : Has(ready, x) => Has(ready', x)
      /\ ~exited => StopIsLast(ready')
  BY <1>1, <1>2, <1>3, HandlesAre, PushedHandles
<1>5. LoopIsTyped' /\ ScheduledAreReady'
  BY <1>1, <1>4 DEF LoopInv, LoopIsTyped, ScheduledAreReady
<1>6. StopComesOnce' /\ TasksAreGathered'
  BY <1>1, <1>2, <1>4 DEF LoopInv, StopComesOnce, TasksAreGathered
<1> QED
  BY <1>5, <1>6 DEF LoopInv

\* The handles that are left after the first was taken, and perhaps a step added.
LEMMA TakenHandles ==
  ASSUME LoopInv, NEW h, Loop!RunHandle(h), NEW d \in Coroutines,
         ready' \in {Tail(ready), Append(Tail(ready), Loop!Step(d))}
  PROVE  /\ ready' \in Seq(Handles)
         /\ \A x : Has(ready, x) /\ x # h => Has(ready', x)
         /\ HasStop(ready') => HasStop(ready)
         /\ OnlySteps(ready) => OnlySteps(ready') /\ h[1] = "step"
         /\ StopIsLast(ready) => StopIsLast(ready')
<1>1. ready \in Seq(Handles) /\ ready # <<>> /\ Head(ready) = h
  BY DEF LoopInv, LoopIsTyped, Loop!RunHandle
<1>2. /\ Tail(ready) \in Seq(Handles)
      /\ \A x : Has(ready, x) /\ x # h => Has(Tail(ready), x)
      /\ HasStop(Tail(ready)) => HasStop(ready)
      /\ OnlySteps(ready) => OnlySteps(Tail(ready)) /\ h[1] = "step"
      /\ StopIsLast(ready) => StopIsLast(Tail(ready))
  BY <1>1, PoppedHandles
<1>3. CASE ready' = Tail(ready)
  BY <1>2, <1>3
<1>4. CASE ready' = Append(Tail(ready), Loop!Step(d))
  BY <1>2, <1>4, HandlesAre, PushedHandles
<1> QED
  BY <1>3, <1>4

\* A task goes on; in the drain, new ones are late and the others were gathered.
LEMMA HandleKeeps ==
  ASSUME LoopInv, NEW h, Loop!RunHandle(h), NEW d \in Coroutines,
         ready' \in {Tail(ready), Append(Tail(ready), Loop!Step(d))},
         task' \in [Coroutines -> TaskStates],
         UNCHANGED <<thread, gathered, done, owner, exited>>, failed => failed',
         \A e \in Coroutines :
            /\ task'[e] = "scheduled" => task[e] = "scheduled" /\ h # Loop!Start(e)
            /\ task'[e] = "lost" => task[e] = "lost",
         ~exited /\ thread = "draining" => \A e \in Coroutines :
            task'[e] \in {"returned", "raised", "none", "refused"}
            \/ e \in gathered \/ e \in late'
  PROVE  LoopInv'
<1>1. /\ ready' \in Seq(Handles)
      /\ \A x : Has(ready, x) /\ x # h => Has(ready', x)
      /\ HasStop(ready') => HasStop(ready)
      /\ OnlySteps(ready) => OnlySteps(ready')
      /\ StopIsLast(ready) => StopIsLast(ready')
  BY TakenHandles
<1>2. thread \in {"running", "stopping", "draining"}
  BY DEF Loop!RunHandle, Loop!IsRunning
<1>3. LoopIsTyped'
  BY <1>1 DEF LoopInv, LoopIsTyped
<1>4. ScheduledAreReady'
  BY <1>1 DEF LoopInv, ScheduledAreReady
<1>5. StopComesOnce'
  BY <1>1 DEF LoopInv, StopComesOnce
<1>6. TasksAreGathered'
  BY <1>2 DEF TasksAreGathered
<1> QED
  BY <1>3, <1>4, <1>5, <1>6 DEF LoopInv

\* In the drain, only the steps of tasks are left, each of which was gathered,
\* or is late.
LEMMA DrainedTasks ==
  ASSUME LoopInv, ~exited, thread = "draining", NEW h, Loop!RunHandle(h)
  PROVE  /\ h[1] = "step"
         /\ \A c \in Coroutines : task[c] \in {"returned", "raised", "none", "refused"}
                                  \/ c \in gathered \/ c \in late
<1>1. ready \in Seq(Handles) /\ ready # <<>> /\ Head(ready) = h /\ OnlySteps(ready)
  BY DEF LoopInv, LoopIsTyped, StopComesOnce, Loop!RunHandle
<1>2. h[1] = "step"
  BY <1>1, PoppedHandles
<1> QED
  BY <1>2 DEF LoopInv, TasksAreGathered

\* What the loop does with a coroutine, except where it lets SystemExit pass.
LEMMA TasksKeep ==
  ASSUME LoopInv, NEW c \in Coroutines,
         \/ Loop!MakeTask(c) \/ Loop!Suspend(c) \/ Loop!Return(c) \/ Loop!Raise(c)
         \/ \E d \in Coroutines : Loop!Spawn(c, d)
  PROVE  LoopInv'
<1>1. task \in [Coroutines -> TaskStates]
  BY DEF LoopInv, LoopIsTyped
<1>2. CASE Loop!MakeTask(c)
  <2>1. /\ Loop!RunHandle(Loop!Start(c))
        /\ ready' = Append(Tail(ready), Loop!Step(c))
        /\ task' = [task EXCEPT ![c] = "made"]
        /\ UNCHANGED <<thread, gathered, done, owner, exited, failed, late>>
    BY <1>2 DEF Loop!MakeTask
  <2>2. \A e \in Coroutines :
          /\ task'[e] = "scheduled" => task[e] = "scheduled" /\ Loop!Start(c) # Loop!Start(e)
          /\ task'[e] = "lost" => task[e] = "lost"
    BY <1>1, <2>1, HandlesAre
  <2>3. ~(~exited /\ thread = "draining")
    BY <2>1, DrainedTasks, HandlesAre
  <2>4. task' \in [Coroutines -> TaskStates]
    BY <1>1, <2>1 DEF TaskStates
  <2> QED
    BY <2>1, <2>2, <2>3, <2>4, HandleKeeps
<1>3. ASSUME Loop!RunHandle(Loop!Step(c)), NEW d \in Coroutines, NEW e \in Coroutines,
             ready' \in {Tail(ready), Append(Tail(ready), Loop!Step(d))},
             NEW done1 \in {"suspended", "returned", "raised"},
             NEW done2 \in {"suspended", "returned", "raised", "made"},
             task' = [task EXCEPT ![c] = done1, ![e] = done2],
             UNCHANGED <<thread, gathered, done, owner, exited>>, failed => failed',
             late \subseteq late',
             done1 = "suspended" => task[c] = "made",
             done2 = "suspended" => e = c,
             done2 = "made" /\ thread = "draining" => e \in late'
      PROVE  LoopInv'
  <2>1. \A f \in Coroutines :
          /\ task'[f] = "scheduled" => task[f] = "scheduled" /\ Loop!Step(c) # Loop!Start(f)
          /\ task'[f] = "lost" => task[f] = "lost"
    BY <1>1, <1>3, HandlesAre
  <2>2. ASSUME ~exited, thread = "draining", NEW f \in Coroutines
        PROVE  task'[f] \in {"returned", "raised", "none", "refused"}
               \/ f \in gathered \/ f \in late'
    <3>1. task[f] \in {"returned", "raised", "none", "refused"} \/ f \in gathered \/ f \in late
      BY <1>3, <2>2, DrainedTasks
    <3>2. CASE f # c /\ f # e
      BY <1>1, <1>3, <3>1, <3>2
    <3>3. CASE f = e
      BY <1>1, <1>3, <2>2, <3>1, <3>3
    <3>4. CASE f = c /\ f # e
      BY <1>1, <1>3, <3>1, <3>4
    <3> QED
      BY <3>2, <3>3, <3>4
  <2>3. task' \in [Coroutines -> TaskStates]
    BY <1>1, <1>3 DEF TaskStates
  <2> QED
    BY <1>3, <2>1, <2>2, <2>3, HandleKeeps
<1>4. CASE Loop!Suspend(c)
  <2>1. task' = [task EXCEPT ![c] = "suspended", ![c] = "suspended"]
    BY <1>1, <1>4 DEF Loop!Suspend
  <2> QED
    BY <1>3, <1>4, <2>1 DEF Loop!Suspend
<1>5. CASE Loop!Return(c)
  <2>1. task' = [task EXCEPT ![c] = "returned", ![c] = "returned"]
    BY <1>1, <1>5 DEF Loop!Return
  <2> QED
    BY <1>3, <1>5, <2>1 DEF Loop!Return
<1>6. CASE Loop!Raise(c)
  <2>1. task' = [task EXCEPT ![c] = "raised", ![c] = "raised"]
    BY <1>1, <1>6 DEF Loop!Raise
  <2> QED
    BY <1>3, <1>6, <2>1 DEF Loop!Raise
<1>7. CASE \E d \in Coroutines : Loop!Spawn(c, d)
  <2>1. PICK d \in Coroutines : Loop!Spawn(c, d)
    BY <1>7
  <2>2. /\ task' = [task EXCEPT ![c] = "suspended", ![d] = "made"]
        /\ ready' = Append(Tail(ready), Loop!Step(d))
        /\ Loop!RunHandle(Loop!Step(c)) /\ task[c] = "made"
        /\ thread = "draining" => late' = late \union {d}
        /\ thread # "draining" => late' = late
        /\ UNCHANGED <<thread, gathered, done, owner, exited, failed>>
    BY <2>1 DEF Loop!Spawn
  <2> QED
    BY <1>3, <2>2
<1> QED
  BY <1>2, <1>4, <1>5, <1>6, <1>7

\* After SystemExit the loop promises nothing.
LEMMA RaiseExitKeeps ==
  ASSUME LoopInv, NEW c \in Coroutines, Loop!RaiseExit(c)
  PROVE  LoopInv'
<1>1. /\ Loop!RunHandle(Loop!Step(c)) /\ ready' = Tail(ready) /\ exited'
      /\ \E s \in {"lost", "raised"} : task' = [task EXCEPT ![c] = s]
      /\ thread' \in {"closing", "gathering"} /\ UNCHANGED done
  BY DEF Loop!RaiseExit
<1>2. task \in [Coroutines -> TaskStates] /\ ~done
  BY <1>1 DEF LoopInv, LoopIsTyped, Loop!RunHandle, Loop!IsRunning
<1>3. /\ ready' \in Seq(Handles)
      /\ \A x : Has(ready, x) /\ x # Loop!Step(c) => Has(ready', x)
  BY <1>1, TakenHandles
<1>4. LoopIsTyped'
  BY <1>1, <1>2, <1>3 DEF LoopIsTyped, TaskStates
<1>5. ScheduledAreReady'
  <2>1. \A e \in Coroutines : Loop!Step(c) # Loop!Start(e)
    BY HandlesAre
  <2>2. \A e \in Coroutines : task'[e] = "scheduled" => task[e] = "scheduled"
    BY <1>1, <1>2
  <2> QED
    BY <1>1, <1>3, <2>1, <2>2 DEF LoopInv, ScheduledAreReady
<1> QED
  BY <1>1, <1>4, <1>5 DEF LoopInv, StopComesOnce, TasksAreGathered

\* The loop comes to the handle that stops it: nothing but steps is behind it.
LEMMA RunStopKeeps ==
  ASSUME LoopInv, Loop!RunStop
  PROVE  LoopInv'
<1>1. /\ Loop!RunHandle(Loop!Stop) /\ ready' = Tail(ready)
      /\ thread' = IF thread = "draining" THEN "closing" ELSE "stopping"
      /\ UNCHANGED <<task, gathered, done, owner, exited, failed, late>>
  BY DEF Loop!RunStop
<1>2. /\ ready \in Seq(Handles) /\ ready # <<>> /\ Head(ready) = Loop!Stop /\ ~done
      /\ thread \in {"running", "stopping", "draining"}
  BY <1>1 DEF LoopInv, LoopIsTyped, Loop!RunHandle, Loop!IsRunning
<1>3. /\ ready' \in Seq(Handles)
      /\ \A x : Has(ready, x) /\ x # Loop!Stop => Has(ready', x)
      /\ HasStop(ready) /\ ~OnlySteps(ready)
      /\ StopIsLast(ready) => OnlySteps(ready')
  BY <1>1, <1>2, PoppedHandles, HandlesAre
<1>4. ~exited => thread = "running" /\ OnlySteps(ready') /\ owner = "waiting"
  BY <1>2, <1>3 DEF LoopInv, StopComesOnce
<1>5. LoopIsTyped'
  BY <1>1, <1>2, <1>3 DEF LoopInv, LoopIsTyped
<1>6. ScheduledAreReady'
  <2>1. \A e \in Coroutines : Loop!Stop # Loop!Start(e)
    BY HandlesAre
  <2> QED
    BY <1>1, <1>3, <2>1 DEF LoopInv, ScheduledAreReady
<1>7. StopComesOnce' /\ TasksAreGathered'
  BY <1>1, <1>4 DEF StopComesOnce, TasksAreGathered
<1> QED
  BY <1>5, <1>6, <1>7 DEF LoopInv

\* What is pending is gathered: nothing was only scheduled.
LEMMA GatherKeeps ==
  ASSUME LoopInv, Loop!Gather
  PROVE  LoopInv'
<1>1. /\ thread = "gathering" /\ thread' = "draining"
      /\ gathered' = {c \in Coroutines : task[c] \in {"made", "suspended", "resumed"}}
      /\ UNCHANGED <<ready, task, done, owner, exited, failed, late>>
  BY DEF Loop!Gather
<1>2. LoopIsTyped' /\ ScheduledAreReady' /\ StopComesOnce'
  BY <1>1 DEF LoopInv, LoopIsTyped, ScheduledAreReady, StopComesOnce
<1>3. ASSUME ~exited, NEW c \in Coroutines
      PROVE  task[c] \notin {"scheduled", "lost"} /\ task[c] \in TaskStates
  <2>1. OnlySteps(ready) /\ task[c] \in TaskStates
    BY <1>1, <1>3 DEF LoopInv, LoopIsTyped, StopComesOnce
  <2>2. ~Has(ready, Loop!Start(c))
    BY <2>1, HandlesAre DEF Has, OnlySteps
  <2> QED
    BY <1>3, <2>1, <2>2 DEF LoopInv, ScheduledAreReady
<1>4. TasksAreGathered'
  BY <1>1, <1>3 DEF TasksAreGathered, TaskStates
<1> QED
  BY <1>2, <1>4 DEF LoopInv

\* The thread starts, stops, and closes the loop when the gathered tasks have
\* ended or one of them failed.
LEMMA ThreadKeeps ==
  ASSUME LoopInv, Loop!RunForever \/ Loop!StopRunning \/ Loop!Drained \/ Loop!Close
  PROVE  LoopInv'
<1>1. UNCHANGED <<ready, task, gathered, owner, exited, failed, late>>
  BY DEF Loop!RunForever, Loop!StopRunning, Loop!Drained, Loop!Close
<1>2. \/ <<thread, thread'>> \in {<<"starting", "running">>, <<"stopping", "gathering">>}
         /\ UNCHANGED done
      \/ /\ thread = "draining" /\ thread' = "closing" /\ UNCHANGED done
         /\ failed \/ \A c \in gathered : task[c] \in {"returned", "raised"}
      \/ thread = "closing" /\ thread' = "closed"
  BY DEF Loop!RunForever, Loop!StopRunning, Loop!Drained, Loop!Close, Loop!Ended
<1>3. LoopIsTyped'
  BY <1>1, <1>2 DEF LoopInv, LoopIsTyped
<1>4. ScheduledAreReady'
  BY <1>1 DEF LoopInv, ScheduledAreReady
<1>5. StopComesOnce'
  BY <1>1, <1>2 DEF LoopInv, StopComesOnce
<1>6. TasksAreGathered'
  BY <1>1, <1>2 DEF LoopInv, TasksAreGathered
<1> QED
  BY <1>3, <1>4, <1>5, <1>6 DEF LoopInv

\* A task that waited goes on, with a further step.
LEMMA ResumeKeeps ==
  ASSUME LoopInv, NEW c \in Coroutines, Loop!Resume(c)
  PROVE  LoopInv'
<1>1. /\ thread # "closed" /\ task[c] = "suspended"
      /\ task' = [task EXCEPT ![c] = "resumed"] /\ ready' = Append(ready, Loop!Step(c))
      /\ UNCHANGED <<thread, gathered, done, owner, exited, failed, late>>
  BY DEF Loop!Resume
<1>2. ready \in Seq(Handles) /\ task \in [Coroutines -> TaskStates]
  BY DEF LoopInv, LoopIsTyped
<1>3. /\ ready' \in Seq(Handles)
      /\ \A x : Has(ready, x) => Has(ready', x)
      /\ HasStop(ready') => HasStop(ready)
      /\ OnlySteps(ready) => OnlySteps(ready')
      /\ StopIsLast(ready) => StopIsLast(ready')
  BY <1>1, <1>2, HandlesAre, PushedHandles
<1>4. LoopIsTyped'
  BY <1>1, <1>2, <1>3 DEF LoopInv, LoopIsTyped, TaskStates
<1>5. ScheduledAreReady'
  BY <1>1, <1>2, <1>3 DEF LoopInv, ScheduledAreReady
<1>6. StopComesOnce'
  BY <1>1, <1>3 DEF LoopInv, StopComesOnce
<1>7. TasksAreGathered'
  BY <1>1, <1>2 DEF LoopInv, TasksAreGathered
<1> QED
  BY <1>4, <1>5, <1>6, <1>7 DEF LoopInv

\* Every step of the server, of the loop and of its tasks.
LEMMA LoopKeeps ==
  ASSUME LoopInv, [Loop!Next]_(Loop!vars)
  PROVE  LoopInv'
<1>1. ASSUME NEW c \in Coroutines, Loop!RunCoroutine(c) PROVE LoopInv'
  BY <1>1, RunCoroutineKeeps
<1>2. CASE \/ \E c \in Coroutines : Loop!Await(c)
           \/ Loop!GetResult \/ Loop!Harakiri \/ Loop!BeginJoin \/ Loop!WaitForDone \/ Loop!Join
  <2>1. UNCHANGED <<ready, task, thread, gathered, done, exited, failed, late>>
    BY <1>2 DEF Loop!Await, Loop!GetResult, Loop!Harakiri, Loop!BeginJoin, Loop!WaitForDone,
                Loop!Join
  <2>2. \/ owner \in {"serving", "awaiting"}
        \/ owner = "waiting" /\ done /\ owner' = "joining"
        \/ owner = "joining" /\ owner' = "joined"
    BY <1>2 DEF Loop!Await, Loop!GetResult, Loop!Harakiri, Loop!BeginJoin, Loop!WaitForDone,
                Loop!Join
  <2>3. done => thread = "closed"
    BY DEF LoopInv, LoopIsTyped
  <2> QED
    BY <2>1, <2>2, <2>3, ServerKeeps
<1>3. CASE Loop!ScheduleStop
  BY <1>3, ScheduleStopKeeps
<1>4. ASSUME NEW c \in Coroutines, Loop!Handle(c) PROVE LoopInv'
  BY <1>4, TasksKeep, RaiseExitKeeps DEF Loop!Handle
<1>5. CASE Loop!RunStop
  BY <1>5, RunStopKeeps
<1>6. CASE Loop!Gather
  BY <1>6, GatherKeeps
<1>7. CASE Loop!RunForever \/ Loop!StopRunning \/ Loop!Drained \/ Loop!Close
  BY <1>7, ThreadKeeps
<1>8. ASSUME NEW c \in Coroutines, Loop!Resume(c) PROVE LoopInv'
  BY <1>8, ResumeKeeps
<1>9. CASE UNCHANGED Loop!vars
  BY <1>9 DEF Loop!vars, LoopInv, LoopIsTyped, ScheduledAreReady, StopComesOnce, TasksAreGathered
<1> QED
  BY <1>1, <1>2, <1>3, <1>4, <1>5, <1>6, <1>7, <1>8, <1>9
  DEF Loop!Next, Loop!JobStep, Loop!JoinStep, Loop!LoopStep

\* At first nothing was handed over.
LEMMA LoopInvHolds ==
  ASSUME Loop!Init
  PROVE  LoopInv
<1>1. thread = "starting" /\ ready = <<>> /\ ~done /\ task = [c \in Coroutines |-> "none"]
  BY DEF Loop!Init
<1>2. LoopIsTyped /\ ScheduledAreReady
  BY <1>1 DEF LoopIsTyped, ScheduledAreReady, TaskStates
<1>3. StopComesOnce /\ TasksAreGathered
  BY <1>1 DEF StopComesOnce, TasksAreGathered, StopIsLast, HasStop
<1> QED
  BY <1>2, <1>3 DEF LoopInv

\* "Completing uncompleted async tasks": whatever the number of coroutines, all
\* that was handed to the loop has ended when it is closed.
THEOREM CoroutinesAreCompleted == Loop!Spec => []Loop!CoroutinesComplete
<1>1. LoopInv => Loop!CoroutinesComplete
  BY DEF LoopInv, TasksAreGathered, Loop!CoroutinesComplete, Loop!Ended
<1> QED
  BY <1>1, LoopInvHolds, LoopKeeps, PTL DEF Loop!Spec
-----------------------------------------------------------------------------
(***************************************************************************)
(* What a server that joins the loop relies on, and all types              *)
(***************************************************************************)
\* The rest of the types; a server awaits one coroutine.
ServerIsTyped ==
    /\ done = (thread = "closed")
    /\ gathered \subseteq Coroutines
    /\ owner \in {"serving", "awaiting", "stopping", "waiting", "joining", "joined", "error"}
    /\ awaited \in Coroutines \union {None}
    /\ (owner = "awaiting") = (awaited # None)

\* What join found to stop has started.
JoinFoundLoop == owner \in {"stopping", "waiting"} => thread # "starting"

JoinInv == LoopInv /\ ServerIsTyped /\ JoinFoundLoop /\ Loop!JoinIsHeard

\* Another handle at the end, or one less at the front that is not the stop.
LEMMA StopStays ==
  ASSUME LoopInv, Has(ready, Loop!Stop),
         \/ UNCHANGED ready
         \/ \E h \in Handles : ready' = Append(ready, h)
         \/ \E h, d : /\ Loop!RunHandle(h) /\ h # Loop!Stop /\ d \in Coroutines
                      /\ ready' \in {Tail(ready), Append(Tail(ready), Loop!Step(d))}
  PROVE  Has(ready', Loop!Stop)
<1>1. ready \in Seq(Handles)
  BY DEF LoopInv, LoopIsTyped
<1>2. CASE UNCHANGED ready
  BY <1>2 DEF Has
<1>3. ASSUME NEW h \in Handles, ready' = Append(ready, h)
      PROVE  Has(ready', Loop!Stop)
  BY <1>1, <1>3, PushedHandles
<1>4. ASSUME NEW h, NEW d \in Coroutines, Loop!RunHandle(h), h # Loop!Stop,
             ready' \in {Tail(ready), Append(Tail(ready), Loop!Step(d))}
      PROVE  Has(ready', Loop!Stop)
  BY <1>4, TakenHandles
<1> QED
  BY <1>2, <1>3, <1>4

\* The server and the thread of the loop stay, and so does the stop.
LEMMA StayingKeeps ==
  ASSUME JoinInv, LoopInv', UNCHANGED <<thread, gathered, done, owner, awaited, premature>>,
         Has(ready, Loop!Stop) => Has(ready', Loop!Stop)
  PROVE  JoinInv'
  BY DEF JoinInv, ServerIsTyped, JoinFoundLoop, Loop!JoinIsHeard, Has

\* The loop has gone on, and the stop is behind it.
LEMMA PassingKeeps ==
  ASSUME JoinInv, LoopInv', UNCHANGED <<owner, awaited, premature>>,
         thread' \notin {"starting", "running"}, thread # "closed",
         done' = (thread' = "closed"), gathered' \subseteq Coroutines
  PROVE  JoinInv'
  BY DEF JoinInv, ServerIsTyped, JoinFoundLoop, Loop!JoinIsHeard

\* Every step of both threads keeps the stop where the loop comes to it.
LEMMA JoinKeeps ==
  ASSUME Loop!EventLoopAssumption, JoinInv, [Loop!Next]_(Loop!vars)
  PROVE  JoinInv'
<1>1. LoopInv' /\ LoopInv
  BY LoopKeeps DEF JoinInv
<1>2. ASSUME NEW c \in Coroutines, Loop!RunCoroutine(c) \/ Loop!Resume(c)
      PROVE  JoinInv'
  <2>1. UNCHANGED <<thread, gathered, done, owner, awaited, premature>>
    BY <1>2 DEF Loop!RunCoroutine, Loop!Resume
  <2>2. UNCHANGED ready \/ \E h \in Handles : ready' = Append(ready, h)
    BY <1>2, HandlesAre DEF Loop!RunCoroutine, Loop!Resume
  <2> QED
    BY <1>1, <2>1, <2>2, StopStays, StayingKeeps
<1>3. ASSUME NEW c \in Coroutines,
             \/ Loop!MakeTask(c) \/ Loop!Suspend(c) \/ Loop!Return(c) \/ Loop!Raise(c)
             \/ \E d \in Coroutines : Loop!Spawn(c, d)
      PROVE  JoinInv'
  <2>1. UNCHANGED <<thread, gathered, done, owner, awaited, premature>>
    BY <1>3 DEF Loop!MakeTask, Loop!Suspend, Loop!Return, Loop!Raise, Loop!Spawn
  <2>2. PICK h \in {Loop!Start(c), Loop!Step(c)}, d \in Coroutines :
           Loop!RunHandle(h) /\ ready' \in {Tail(ready), Append(Tail(ready), Loop!Step(d))}
    BY <1>3 DEF Loop!MakeTask, Loop!Suspend, Loop!Return, Loop!Raise, Loop!Spawn
  <2>3. h # Loop!Stop
    BY HandlesAre
  <2> QED
    BY <1>1, <2>1, <2>2, <2>3, StopStays, StayingKeeps
<1>4. ASSUME NEW c \in Coroutines, Loop!RaiseExit(c)
      PROVE  JoinInv'
  <2>1. /\ UNCHANGED <<owner, awaited, premature, gathered, done>>
        /\ thread' \in {"closing", "gathering"} /\ thread # "closed"
    BY <1>4 DEF Loop!RaiseExit, Loop!RunHandle, Loop!IsRunning
  <2> QED
    BY <1>1, <2>1, PassingKeeps DEF JoinInv, ServerIsTyped
<1>5. CASE Loop!RunStop \/ Loop!StopRunning \/ Loop!Gather \/ Loop!Drained \/ Loop!Close
  <2>1. /\ UNCHANGED <<owner, awaited, premature>>
        /\ thread' \notin {"starting", "running"} /\ thread # "closed"
        /\ gathered' \in {gathered, {c \in Coroutines : task[c] \in {"made", "suspended", "resumed"}}}
    BY <1>5 DEF Loop!RunStop, Loop!StopRunning, Loop!Gather, Loop!Drained, Loop!Close,
                Loop!RunHandle, Loop!IsRunning
  <2>2. done' = (thread' = "closed")
    BY <1>5 DEF Loop!RunStop, Loop!StopRunning, Loop!Gather, Loop!Drained, Loop!Close,
                Loop!RunHandle, Loop!IsRunning, JoinInv, ServerIsTyped
  <2>3. gathered' \subseteq Coroutines
    BY <2>1 DEF JoinInv, ServerIsTyped
  <2> QED
    BY <1>1, <2>1, <2>2, <2>3, PassingKeeps
<1>6. CASE Loop!RunForever
  <2>1. /\ thread = "starting" /\ thread' = "running"
        /\ UNCHANGED <<ready, gathered, done, owner, awaited, premature>>
    BY <1>6 DEF Loop!RunForever
  <2> QED
    BY <1>1, <2>1 DEF JoinInv, ServerIsTyped, JoinFoundLoop, Loop!JoinIsHeard
<1>7. CASE (\E c \in Coroutines : Loop!Await(c)) \/ Loop!GetResult \/ Loop!Harakiri
  <2>1. /\ UNCHANGED <<thread, ready, gathered, done, premature>>
        /\ \/ owner' = "awaiting" /\ awaited' \in Coroutines
           \/ owner' = "serving" /\ awaited' = None
    BY <1>7 DEF Loop!Await, Loop!GetResult, Loop!Harakiri
  <2>2. None \notin Coroutines
    BY DEF Loop!EventLoopAssumption
  <2> QED
    BY <1>1, <2>1, <2>2 DEF JoinInv, ServerIsTyped, JoinFoundLoop, Loop!JoinIsHeard
<1>8. CASE Loop!BeginJoin \/ Loop!ScheduleStop \/ Loop!WaitForDone \/ Loop!Join
  <2>1. UNCHANGED <<thread, gathered, done, awaited>>
    BY <1>8 DEF Loop!BeginJoin, Loop!ScheduleStop, Loop!WaitForDone, Loop!Join
  <2>2. ServerIsTyped' /\ JoinFoundLoop'
    BY <1>8, <2>1 DEF Loop!BeginJoin, Loop!ScheduleStop, Loop!WaitForDone, Loop!Join,
       Loop!IsRunning, JoinInv, ServerIsTyped, JoinFoundLoop
  <2>3. CASE Loop!ScheduleStop
    <3>1. ready \in Seq(Handles) /\ UNCHANGED premature /\ owner' # "joining"
      BY <1>1, <2>3 DEF LoopInv, LoopIsTyped, Loop!ScheduleStop
    <3>2. owner' = "waiting" => Has(ready', Loop!Stop)
      BY <2>3, <3>1, HandlesAre, PushedHandles DEF Loop!ScheduleStop
    <3> QED
      BY <1>1, <2>2, <3>1, <3>2 DEF JoinInv, Loop!JoinIsHeard, Has
  <2>4. CASE ~Loop!ScheduleStop
    <3>1. Loop!JoinIsHeard'
      BY <1>8, <2>4 DEF Loop!BeginJoin, Loop!WaitForDone, Loop!Join, Loop!IsRunning,
         JoinInv, ServerIsTyped, Loop!JoinIsHeard
    <3> QED
      BY <1>1, <2>2, <3>1 DEF JoinInv
  <2> QED
    BY <2>3, <2>4
<1>9. CASE UNCHANGED Loop!vars
  BY <1>1, <1>9 DEF Loop!vars, JoinInv, ServerIsTyped, JoinFoundLoop, Loop!JoinIsHeard
<1> QED
  BY <1>2, <1>3, <1>4, <1>5, <1>6, <1>7, <1>8, <1>9
  DEF Loop!Next, Loop!JobStep, Loop!JoinStep, Loop!LoopStep, Loop!Handle

\* Before the loop runs nobody waits for it.
LEMMA JoinInvHolds ==
  ASSUME Loop!Init
  PROVE  JoinInv
<1>1. ServerIsTyped
  <2>1. thread = "starting" /\ done = FALSE /\ gathered = {} /\ owner = "serving" /\ awaited = None
    BY DEF Loop!Init
  <2> QED
    BY <2>1 DEF ServerIsTyped
<1>2. JoinFoundLoop /\ Loop!JoinIsHeard
  BY DEF Loop!Init, JoinFoundLoop, Loop!JoinIsHeard
<1> QED
  BY <1>1, <1>2, LoopInvHolds DEF JoinInv

\* However the server's join and the thread interleave, and whatever errors the
\* coroutines raise: while the loop runs, the stop that join waits for is among
\* its handles, and only a join before the loop ran waits for a loop that runs.
THEOREM JoinsAreHeard ==
  ASSUME Loop!EventLoopAssumption
  PROVE  Loop!Spec => []Loop!JoinIsHeard
<1>1. JoinInv => Loop!JoinIsHeard
  BY DEF JoinInv
<1> QED
  BY <1>1, JoinInvHolds, JoinKeeps, PTL DEF Loop!Spec

\* Every variable of the loop's thread and of its server keeps its type.
THEOREM LoopTypesHold ==
  ASSUME Loop!EventLoopAssumption
  PROVE  Loop!Spec => []Loop!TypeOK
<1>1. JoinInv => Loop!TypeOK
  <2> SUFFICES ASSUME JoinInv PROVE Loop!TypeOK
    OBVIOUS
  <2>1. \A i \in 1..Len(ready) : ready[i] \in ({"start", "step"} \X Coroutines) \union {Loop!Stop}
    BY DEF JoinInv, LoopInv, LoopIsTyped, Handles
  <2>2. task \in [Coroutines -> Loop!Ended \union {"none", "refused", "scheduled", "made",
                                                  "suspended", "resumed", "lost"}]
    BY DEF JoinInv, LoopInv, LoopIsTyped, TaskStates, Loop!Ended
  <2>3. LoopIsTyped /\ ServerIsTyped
    BY DEF JoinInv, LoopInv
  <2> QED
    BY <2>1, <2>2, <2>3 DEF LoopIsTyped, ServerIsTyped, Loop!TypeOK
<1> QED
  BY <1>1, JoinInvHolds, JoinKeeps, PTL DEF Loop!Spec
=============================================================================
