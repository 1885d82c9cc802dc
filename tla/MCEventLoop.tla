---------------------------- MODULE MCEventLoop ----------------------------
(***************************************************************************)
(* EventLoop for TLC: the coroutines are interchangeable.                  *)
(***************************************************************************)
EXTENDS EventLoop, TLC

Interchangeable == Permutations(Coroutines)
=============================================================================
