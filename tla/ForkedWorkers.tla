---------------------------- MODULE ForkedWorkers ----------------------------
(***************************************************************************)
(* What the parent of a forked service and a worker promise each other: a  *)
(* worker serves only once it has booted, one that stops never serves      *)
(* again, and a new one is forked only where the last is gone.  ServerLoop *)
(* keeps this for one worker, ProcessMonitor for those of all monitors.    *)
(***************************************************************************)
CONSTANT Workers

VARIABLE worker    \* per worker, what its process is at

\* A worker that is started by hand is there at once.
Init == worker \in [Workers -> {"gone", "booting"}]

Becomes(w, states, state) ==
    /\ worker[w] \in states
    /\ worker' = [worker EXCEPT ![w] = state]

Fork(w) == Becomes(w, {"gone"}, "booting")

\* Server.run installs its signal handlers.
Boot(w) == Becomes(w, {"booting"}, "serving")

\* shutting_down is set, by a signal or by harakiri.
BeginStop(w) == Becomes(w, {"serving"}, "stopping")

\* Asked or unasked.
End(w) == Becomes(w, {"booting", "serving", "stopping"}, "gone")

Next == \E w \in Workers : Fork(w) \/ Boot(w) \/ BeginStop(w) \/ End(w)

Spec == Init /\ [][Next]_worker
=============================================================================
