-------------------------- MODULE MCProcessMonitor --------------------------
(***************************************************************************)
(* ProcessMonitor for TLC: the constants are given in the .cfg files.      *)
(***************************************************************************)
EXTENDS ProcessMonitor
=============================================================================
