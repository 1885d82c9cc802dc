--------------------------- MODULE AtMostOnceRpc ---------------------------
(***************************************************************************)
(* What pysoa's Redis gateway promises a caller, without queues, counters  *)
(* or identities of servers: a request is submitted once, and from then on *)
(* moves from waiting to executing to answered to delivered, or is lost on *)
(* the way.  It never moves back: nothing is executed again, nothing is    *)
(* answered twice and nothing is delivered that was not executed.  Nothing *)
(* is promised about progress.                                             *)
(***************************************************************************)
CONSTANT Requests   \* every request any client could ever submit

VARIABLES
    submitted,      \* requests a client has tried to send
    waiting,        \* requests that no server has taken yet
    executing,      \* requests that a server executes
    answered,       \* requests whose response is on its way
    delivered       \* requests whose response the client has received

vars == <<submitted, waiting, executing, answered, delivered>>

Init ==
    /\ submitted = {}
    /\ waiting = {}
    /\ executing = {}
    /\ answered = {}
    /\ delivered = {}

\* A request is new; it may be lost at once.
Submit(r) ==
    /\ r \notin submitted
    /\ submitted' = submitted \union {r}
    /\ waiting' \in {waiting, waiting \union {r}}
    /\ UNCHANGED <<executing, answered, delivered>>

Start(r) ==
    /\ r \in waiting
    /\ waiting' = waiting \ {r}
    /\ executing' = executing \union {r}
    /\ UNCHANGED <<submitted, answered, delivered>>

Answer(r) ==
    /\ r \in executing
    /\ executing' = executing \ {r}
    /\ answered' = answered \union {r}
    /\ UNCHANGED <<submitted, waiting, delivered>>

Deliver(r) ==
    /\ r \in answered
    /\ answered' = answered \ {r}
    /\ delivered' = delivered \union {r}
    /\ UNCHANGED <<submitted, waiting, executing>>

\* Messages expire, lists are dropped, servers crash, pushes fail.
Lose ==
    /\ waiting' \in SUBSET waiting
    /\ executing' \in SUBSET executing
    /\ answered' \in SUBSET answered
    /\ UNCHANGED <<submitted, delivered>>

Next ==
    \/ \E r \in Requests : Submit(r) \/ Start(r) \/ Answer(r) \/ Deliver(r)
    \/ Lose

Spec == Init /\ [][Next]_vars
=============================================================================
