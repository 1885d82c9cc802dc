---- MODULE MCServerLoop ----
(***************************************************************************)
(* ServerLoop for TLC: the constants are given in the .cfg files.          *)
(***************************************************************************)
EXTENDS ServerLoop
====
