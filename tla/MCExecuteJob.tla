---- MODULE MCExecuteJob ----
(***************************************************************************)
(* ExecuteJob for TLC: jobs of one and two actions.                        *)
(***************************************************************************)
EXTENDS ExecuteJob

Job(actions, continueOnError, suppress) ==
    [actions |-> actions, continueOnError |-> continueOnError, suppress |-> suppress]

MCJobs == {Job(1, FALSE, TRUE), Job(2, FALSE, FALSE), Job(2, TRUE, FALSE)}
====
