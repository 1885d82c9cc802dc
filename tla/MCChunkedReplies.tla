-------------------------- MODULE MCChunkedReplies --------------------------
(***************************************************************************)
(* ChunkedReplies for TLC: the servers are interchangeable.                *)
(***************************************************************************)
EXTENDS ChunkedReplies, TLC

Symmetry == Permutations(Servers)
=============================================================================
