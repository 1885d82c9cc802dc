-------------------------- MODULE MCRedisBackends --------------------------
(***************************************************************************)
(* RedisBackends for TLC: two members, and the orders in which a layer may *)
(* learn of them.                                                          *)
(***************************************************************************)
EXTENDS RedisBackends

CONSTANTS m1, m2
TwoServices == {m1, m2}
Configured == {<<m1, m2>>}
Discovered == {<<m1, m2>>, <<m2, m1>>}
=============================================================================
