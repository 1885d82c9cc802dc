---------------------------- MODULE MCClientCalls ----------------------------
(***************************************************************************)
(* Small instances of ClientCalls: single calls and parallel calls, to two *)
(* services, that share one.                                               *)
(***************************************************************************)
EXTENDS ClientCalls

CONSTANTS A, B    \* two services

Single(s) == [kind |-> "actions", jobs |-> <<s>>, catch |-> FALSE, raises |-> TRUE]
Parallel(jobs, catch) == [kind |-> "jobs", jobs |-> jobs, catch |-> catch, raises |-> ~catch]

MCPlans == {Single(A), Parallel(<<A, A>>, FALSE), Parallel(<<A, B>>, TRUE)}
=============================================================================
