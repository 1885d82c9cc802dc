--------------------------- MODULE MCRedisGateway ---------------------------
(***************************************************************************)
(* Small instances of RedisGateway.  The clients share the request list    *)
(* and the servers, never a reply list: to one of them the others are a    *)
(* list that is full and servers that are busy.                            *)
(***************************************************************************)
EXTENDS RedisGateway, TLC

\* Clients are interchangeable, and so are servers.
Symmetry == Permutations(Clients) \union Permutations(Servers)
=============================================================================
