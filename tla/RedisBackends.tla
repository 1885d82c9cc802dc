--------------------------- MODULE RedisBackends ---------------------------
(***************************************************************************)
(* Which Redis server a list of messages is on (redis_gateway/backend and  *)
(* the parts of core.py that use it).  A backend layer is a ring of Redis  *)
(* servers, or of services that Sentinel monitors, whose master moves.     *)
(* Request lists are on all members, and a layer takes them in turn; each  *)
(* reply list is on the member that its name is hashed to.                 *)
(*                                                                         *)
(* Layers are cached for the class by their settings, so that the clients  *)
(* of a process share one, each in a thread of its own, and the server     *)
(* shares its own with the calls that its actions make.  What a pushed or  *)
(* popped message goes through otherwise is the matter of RedisGateway.    *)
(***************************************************************************)
EXTENDS Integers, Sequences, FiniteSets

CONSTANTS
    Clients,      \* threads with a client each, in one process
    Server,       \* the thread of the server
    Other,        \* callers elsewhere, whose replies go elsewhere
    None,         \* no caller, or no member
    Services,     \* the members: hosts, or names that Sentinel knows
    Kinds,        \* "standard" and "sentinel" backends
    RingOrders,   \* orders in which a layer may learn of its services
    Retries,      \* sentinel_failover_retries
    Downstream,   \* how many requests a job may send through the layer of its server
    Backlog,      \* BOUND: requests of others that wait on a member
    MaxFailovers  \* BOUND: how often masters fail

RingSize == Cardinality(Services)

ASSUME RedisBackendsAssumption ==
    /\ IsFiniteSet(Services)
    /\ Other \notin Clients /\ None \notin Clients \union {Other}
    /\ Server \notin Clients
    /\ Kinds \subseteq {"standard", "sentinel"}
    /\ RingOrders \subseteq [1..RingSize -> Services]
    /\ Retries \in Nat /\ Downstream \subseteq Nat
    /\ Backlog \in Nat /\ MaxFailovers \in Nat

VARIABLES
    kind,        \* backend_type
    hash,        \* the 12 bits of the CRC of each client's reply list
    ring,        \* _services, or the connection list, of each layer
    cycle,       \* _connection_index_generator of the server, the next index in front
    masters,     \* _master_clients of each layer: the address of a master
    address,     \* where the master of a service is
    up,          \* whether there is one
    requests,    \* the request list on each member
    replies,     \* the replies on each member, by client
    serving,     \* the caller whose request the server has
    sendsLeft,   \* requests that its job has still to send
    pc,          \* where a thread is in _get_connection
    purpose,     \* what it needs the connection for
    member,      \* self._services[index]
    tries,       \* i of the loop over the retries
    connection,  \* the client it was given
    failovers,   \* how often a master failed
    unseen,      \* failovers that other threads of the process have yet to meet
    \* History, read by properties only:
    keyError,    \* the last thing that a thread met was a KeyError
    raced        \* another thread has reset the layer while it was looking

redisVars == <<address, up, failovers, unseen>>
listVars == <<requests, replies>>
jobVars == <<serving, sendsLeft>>
layerVars == <<kind, hash, ring, cycle, masters>>
fixedVars == <<kind, hash, ring, cycle>>
wayVars == <<purpose, member, tries, connection>>
history == <<keyError, raced>>
vars == <<kind, hash, ring, cycle, masters, address, up, requests, replies, serving,
          sendsLeft, pc, purpose, member, tries, connection, failovers, unseen, keyError, raced>>

Threads == Clients \union {Server}
Layers == {"clients", "server"}
Layer(t) == IF t = Server THEN "server" ELSE "clients"
Absent == -1      \* not in _master_clients
Unresolved == 0   \* a client that has yet to ask for the address

NoMasters == [s \in Services |-> Absent]

Orders(S) == {p \in [1..Cardinality(S) -> S] : \A i, j \in 1..Cardinality(S) : p[i] = p[j] => i = j}

Init ==
    /\ kind \in Kinds
    /\ hash \in [Clients -> {2047, 2048}]
    /\ ring = [l \in Layers |-> <<>>]
    /\ cycle \in Orders(0..RingSize - 1)
    /\ masters = [l \in Layers |-> NoMasters]
    /\ address = [s \in Services |-> 1]
    /\ up = [s \in Services |-> TRUE]
    /\ requests = [s \in Services |-> <<>>]
    /\ replies = [s \in Services |-> {}]
    /\ serving = None
    /\ sendsLeft = 0
    /\ pc = [t \in Threads |-> "idle"]
    /\ purpose = [t \in Threads |-> IF t = Server THEN "poll" ELSE "send"]
    /\ member = [t \in Threads |-> None]
    /\ tries = [t \in Threads |-> 0]
    /\ connection = [t \in Threads |-> Absent]
    /\ failovers = 0
    /\ unseen = 0
    /\ keyError = [t \in Threads |-> FALSE]
    /\ raced = [t \in Threads |-> FALSE]
-----------------------------------------------------------------------------
(***************************************************************************)
(* The life of a layer and the choice of a member                          *)
(***************************************************************************)
Goto(t, place) == pc' = [pc EXCEPT ![t] = place]

\* What a thread is at is over; what it needs a connection for next.
Leave(t, place, next) ==
    /\ Goto(t, place)
    /\ purpose' = [purpose EXCEPT ![t] = next]
    /\ member' = [member EXCEPT ![t] = None]
    /\ tries' = [tries EXCEPT ![t] = 0]
    /\ connection' = [connection EXCEPT ![t] = Absent]
GoOn(t, next) == Leave(t, "idle", next)

AfterError == [send |-> "send", receive |-> "receive", poll |-> "poll",
               downstream |-> "respond", respond |-> "poll"]

\* An error: the call is made again, its result asked for again, the request
\* list polled again; a job whose own call failed is answered with an error, and
\* a reply that cannot be pushed is lost.
Fail(t) ==
    /\ GoOn(t, AfterError[purpose[t]])
    /\ serving' = IF purpose[t] = "respond" THEN None ELSE serving
    /\ sendsLeft' = IF purpose[t] = "downstream" THEN 0 ELSE sendsLeft

\* MUTANT of Reset: nothing is reset.
ResetNothing(t) == UNCHANGED <<masters, raced>>

\* reset_clients, of whichever thread; one of those that look is raced.
ResetLayer(l, others) ==
    /\ masters' = [masters EXCEPT ![l] = NoMasters]
    /\ raced' = [o \in Threads |-> raced[o] \/ /\ o \in others
                                               /\ Layer(o) = l
                                               /\ pc[o] \in {"resolving", "fetching"}]
Reset(t) == ResetLayer(Layer(t), Threads \ {t})

IsBuilt(t) == ring[Layer(t)] # <<>>

\* backend_layer, the first time: the order of the members is that of the
\* settings, or that of the first Sentinel that answers.  The constructor also
\* asks for a connection to the first of them.
Build(t) ==
    /\ pc[t] = "idle" /\ ~IsBuilt(t)
    /\ \E order \in RingOrders :
          /\ ring' = [ring EXCEPT ![Layer(t)] = order]
          /\ kind = "sentinel" => up[order[1]]
          /\ masters' = IF kind = "sentinel"
                        THEN [masters EXCEPT ![Layer(t)][order[1]] = address[order[1]]]
                        ELSE masters
    /\ UNCHANGED <<kind, hash, cycle, redisVars, listVars, jobVars, pc, wayVars, history>>

\* No Sentinel answers, or the first member has no master: the layer is not kept.
BuildFails(t) ==
    /\ pc[t] = "idle" /\ ~IsBuilt(t)
    /\ kind = "sentinel"
    /\ \E s \in Services : ~up[s]
    /\ Fail(t)
    /\ UNCHANGED <<layerVars, redisVars, listVars, history>>

\* _get_consistent_hash_index
HashIndex(c) == (hash[c] * RingSize) \div 4096

\* MUTANT of IndexesFor: the server looks at one member only.
IndexesForOne(t) ==
    CASE purpose[t] = "receive" -> {HashIndex(t)}
      [] purpose[t] = "respond" -> IF serving = Other THEN {0} ELSE {HashIndex(serving)}
      [] purpose[t] = "send" -> 0..RingSize - 1
      [] OTHER -> {0}

\* The member for a reply list is fixed, those of request lists take turns.  In
\* the layer of the clients, where other threads take turns at any time, this
\* may be that of any member.
IndexesFor(t) ==
    CASE purpose[t] = "receive" -> {HashIndex(t)}
      [] purpose[t] = "respond" -> IF serving = Other THEN {0} ELSE {HashIndex(serving)}
      [] purpose[t] = "send" -> 0..RingSize - 1
      [] purpose[t] \in {"poll", "downstream"} -> {Head(cycle)}

\* get_connection
Choose(t) ==
    /\ pc[t] = "idle" /\ IsBuilt(t)
    /\ \E index \in IndexesFor(t) :
          member' = [member EXCEPT ![t] = ring[Layer(t)][index + 1]]
    /\ cycle' = IF purpose[t] \in {"poll", "downstream"}
                THEN Append(Tail(cycle), Head(cycle)) ELSE cycle
    /\ Goto(t, IF kind = "sentinel" THEN "testing" ELSE "using")
    /\ keyError' = [keyError EXCEPT ![t] = FALSE]
    /\ raced' = [raced EXCEPT ![t] = FALSE]
    /\ UNCHANGED <<kind, hash, ring, masters, redisVars, listVars, jobVars, purpose,
                   tries, connection>>
-----------------------------------------------------------------------------
(***************************************************************************)
(* _get_master_client_for.  It looks at _master_clients again and again,   *)
(* and another thread may reset them in between.                           *)
(***************************************************************************)
Cached(t) == masters[Layer(t)][member[t]]

Test(t) ==
    /\ pc[t] = "testing"
    /\ IF Cached(t) # Absent
         THEN Goto(t, "fetching") /\ UNCHANGED masters
         ELSE /\ Goto(t, "resolving")
              /\ masters' = [masters EXCEPT ![Layer(t)][member[t]] = Unresolved]
    /\ UNCHANGED <<fixedVars, redisVars, listVars, jobVars, wayVars, history>>

\* get_master_address of the client that was just put there
Resolve(t) ==
    /\ pc[t] = "resolving"
    /\ Cached(t) # Absent
    /\ up[member[t]]
    /\ masters' = [masters EXCEPT ![Layer(t)][member[t]] = address[member[t]]]
    /\ Goto(t, "fetching")
    /\ UNCHANGED <<fixedVars, redisVars, listVars, jobVars, wayVars, history>>

\* MUTANT of ResolveFails: the loop goes on behind the look that failed.
ResolveFailsFetched(t) ==
    /\ pc[t] = "resolving"
    /\ Cached(t) # Absent
    /\ ~up[member[t]]
    /\ Reset(t)
    /\ Goto(t, "fetching")
    /\ UNCHANGED <<fixedVars, redisVars, listVars, jobVars, wayVars, keyError>>

\* MasterNotFoundError: all clients are forgotten; try again or give up.
ResolveFails(t) ==
    /\ pc[t] = "resolving"
    /\ Cached(t) # Absent
    /\ ~up[member[t]]
    /\ Reset(t)
    /\ IF tries[t] < Retries
         THEN /\ tries' = [tries EXCEPT ![t] = @ + 1]
              /\ Goto(t, "testing")
              /\ UNCHANGED <<purpose, member, connection, jobVars>>
         ELSE Fail(t)
    /\ UNCHANGED <<fixedVars, redisVars, listVars, keyError>>

\* KeyError, which nobody expects, from the second look or a later one.  The layer
\* of the server has one thread, for which this step is never enabled (theorem
\* ServersMeetNoKeyError): there the error would be the end of the server.
FindNothing(t) ==
    /\ pc[t] \in {"resolving", "fetching"}
    /\ Cached(t) = Absent
    /\ keyError' = [keyError EXCEPT ![t] = TRUE]
    /\ Fail(t)
    /\ UNCHANGED <<layerVars, redisVars, listVars, raced>>

Fetch(t) ==
    /\ pc[t] = "fetching"
    /\ Cached(t) # Absent
    /\ connection' = [connection EXCEPT ![t] = Cached(t)]
    /\ Goto(t, "using")
    /\ raced' = [raced EXCEPT ![t] = FALSE]
    /\ UNCHANGED <<layerVars, redisVars, listVars, jobVars, purpose, member, tries, keyError>>
-----------------------------------------------------------------------------
(***************************************************************************)
(* Use of the connection                                                   *)
(***************************************************************************)
\* The command reaches a master: the one the client knows is the present one,
\* or it asks only now.
Reaches(t) ==
    /\ pc[t] = "using"
    /\ up[member[t]]
    /\ kind = "sentinel" => connection[t] \in {Unresolved, address[member[t]]}

\* except Exception, in send_message and _receive_message
UseFails(t) ==
    /\ pc[t] = "using"
    /\ ~Reaches(t)
    /\ IF kind = "sentinel" THEN Reset(t) ELSE UNCHANGED <<masters, raced>>
    /\ Fail(t)
    /\ UNCHANGED <<fixedVars, redisVars, listVars, keyError>>

Used(t, next) ==
    /\ GoOn(t, next)
    /\ UNCHANGED <<layerVars, redisVars, history>>

SendRequest(c) ==
    /\ purpose[c] = "send" /\ Reaches(c)
    /\ requests' = [requests EXCEPT ![member[c]] = Append(@, c)]
    /\ Used(c, "receive")
    /\ UNCHANGED <<replies, jobVars>>

ReceiveReply(c) ==
    /\ purpose[c] = "receive" /\ Reaches(c)
    /\ c \in replies[member[c]]
    /\ replies' = [replies EXCEPT ![member[c]] = @ \ {c}]
    /\ Leave(c, "answered", "send")
    /\ UNCHANGED <<layerVars, redisVars, requests, jobVars, history>>

CallAgain(c) ==
    /\ pc[c] = "answered"
    /\ Used(c, "send")
    /\ UNCHANGED <<listVars, jobVars>>

\* The reply will not come to where the caller waits for it, who gives up; one
\* that is only late is the matter of RedisGateway.
IsOwed(c) ==
    \/ \E s \in Services : \E i \in 1..Len(requests[s]) : requests[s][i] = c
    \/ serving = c
    \/ c \in replies[member[c]]

ReceiveTimesOut(c) ==
    /\ purpose[c] = "receive" /\ Reaches(c)
    /\ ~IsOwed(c)
    /\ replies' = [s \in Services |-> replies[s] \ {c}]
    /\ Used(c, "send")
    /\ UNCHANGED <<requests, jobVars>>

TakeRequest ==
    /\ purpose[Server] = "poll" /\ Reaches(Server)
    /\ requests[member[Server]] # <<>>
    /\ serving' = Head(requests[member[Server]])
    /\ requests' = [requests EXCEPT ![member[Server]] = Tail(@)]
    /\ \E sends \in Downstream :
          /\ sendsLeft' = sends
          /\ Used(Server, IF sends > 0 THEN "downstream" ELSE "respond")
    /\ UNCHANGED replies

PollTimesOut ==
    /\ purpose[Server] = "poll" /\ Reaches(Server)
    /\ requests[member[Server]] = <<>>
    /\ Used(Server, "poll")
    /\ UNCHANGED <<listVars, jobVars>>

\* A request of an action to another service, on the same members; its reply
\* list does not take a turn and is passed over.
SendDownstream ==
    /\ purpose[Server] = "downstream" /\ Reaches(Server)
    /\ sendsLeft' = sendsLeft - 1
    /\ Used(Server, IF sendsLeft > 1 THEN "downstream" ELSE "respond")
    /\ UNCHANGED <<listVars, serving>>

SendReply ==
    /\ purpose[Server] = "respond" /\ Reaches(Server)
    /\ replies' = IF serving = Other THEN replies
                  ELSE [replies EXCEPT ![member[Server]] = @ \union {serving}]
    /\ serving' = None
    /\ Used(Server, "poll")
    /\ UNCHANGED <<requests, sendsLeft>>
-----------------------------------------------------------------------------
(***************************************************************************)
(* Redis and its other users                                               *)
(***************************************************************************)
\* Clients elsewhere, of this server or of others on the same members.  They
\* leave room: what a full list does to a caller is the matter of RedisGateway.
OthersSend(s) ==
    /\ up[s]
    /\ Len(requests[s]) < Backlog
    /\ requests' = [requests EXCEPT ![s] = Append(@, Other)]
    /\ UNCHANGED <<layerVars, redisVars, replies, jobVars, pc, wayVars, history>>

MasterFails(s) ==
    /\ up[s]
    /\ failovers < MaxFailovers
    /\ failovers' = failovers + 1
    /\ unseen' = unseen + 1
    /\ up' = [up EXCEPT ![s] = FALSE]
    /\ UNCHANGED <<layerVars, address, listVars, jobVars, pc, wayVars, history>>

\* Sentinel promotes a replica; a host of a standard ring is there again.
MasterReturns(s) ==
    /\ ~up[s]
    /\ up' = [up EXCEPT ![s] = TRUE]
    /\ address' = [address EXCEPT ![s] = @ + 1]
    /\ UNCHANGED <<layerVars, failovers, unseen, listVars, jobVars, pc, wayVars, history>>

\* Another thread of the process of the clients, which shares the layer, meets
\* an error.
NeighbourResets ==
    /\ kind = "sentinel"
    /\ ring["clients"] # <<>>
    /\ unseen > 0
    /\ unseen' = unseen - 1
    /\ ResetLayer("clients", Threads)
    /\ UNCHANGED <<fixedVars, address, up, failovers, listVars, jobVars, pc, wayVars, keyError>>

Connect(t) ==
    \/ Build(t) \/ BuildFails(t) \/ Choose(t) \/ Test(t) \/ Resolve(t) \/ ResolveFails(t)
    \/ FindNothing(t) \/ Fetch(t) \/ UseFails(t)
ClientStep(c) ==
    SendRequest(c) \/ ReceiveReply(c) \/ CallAgain(c) \/ ReceiveTimesOut(c)
ServerStep == TakeRequest \/ PollTimesOut \/ SendDownstream \/ SendReply
RedisStep(s) == MasterFails(s) \/ MasterReturns(s) \/ OthersSend(s)

Next ==
    \/ \E t \in Threads : Connect(t)
    \/ \E c \in Clients : ClientStep(c)
    \/ ServerStep
    \/ NeighbourResets
    \/ \E s \in Services : RedisStep(s)

Spec == Init /\ [][Next]_vars

\* Threads run, callers call again, and a failover comes to its end.
FairSpec ==
    /\ Spec
    /\ \A c \in Clients : WF_vars(Connect(c) \/ ClientStep(c))
    /\ WF_vars(Connect(Server) \/ ServerStep)
    /\ \A s \in Services : WF_vars(MasterReturns(s))
-----------------------------------------------------------------------------
TypeOK ==
    /\ kind \in Kinds
    /\ hash \in [Clients -> {2047, 2048}]
    /\ ring \in [Layers -> RingOrders \union {<<>>}]
    /\ cycle \in Seq(0..RingSize - 1)
    /\ masters \in [Layers -> [Services -> Int]]
    /\ address \in [Services -> Nat]
    /\ up \in [Services -> BOOLEAN]
    /\ requests \in [Services -> Seq(Clients \union {Other})]
    /\ replies \in [Services -> SUBSET Clients]
    /\ serving \in Clients \union {Other, None}
    /\ sendsLeft \in Nat
    /\ pc \in [Threads -> {"idle", "testing", "resolving", "fetching", "using", "answered"}]
    /\ purpose \in [Threads -> {"send", "receive", "poll", "downstream", "respond"}]
    /\ member \in [Threads -> Services \union {None}]
    /\ tries \in [Threads -> 0..Retries]
    /\ connection \in [Threads -> Int]
    /\ failovers \in 0..MaxFailovers
    /\ unseen \in 0..failovers
    /\ keyError \in [Threads -> BOOLEAN]
    /\ raced \in [Threads -> BOOLEAN]

\* docs/api.rst: the server takes the members in turn.  None of them is left alone
\* for good, however busy another one is and whatever failovers there were.
MembersTakeTurns ==
    \A s \in Services :
        []<>(pc[Server] = "using" /\ purpose[Server] = "poll" /\ member[Server] = s)

\* The requests that a job sends go round the ring a whole number of times, so that
\* they leave the turn to the member whose turn it was.  So it is for servers whose
\* actions call nobody by this layer; for others nothing in the code ensures it.
WholeRounds == \A sends \in Downstream : sends % RingSize = 0

\* The server takes the members in turn wherever its own jobs do not disturb the
\* turns by what they send through the same generator: then none is left alone for
\* good, whatever errors and failovers come in between.
EveryMemberIsPolled == WholeRounds => MembersTakeTurns

\* A client that keeps calling keeps being answered.
CallersAreAnswered == \A c \in Clients : []<>(pc[c] = "answered")

\* A layer learns of its members in one order: that of the settings.  Sentinel's
\* own list of services, which a layer may take instead, promises none.
OneRingOrder == \A order, other \in RingOrders : order = other

\* Client and server find each other's lists, and find a new master when the one
\* they knew has failed, where the settings give the order of the members and the
\* jobs of the server do not keep it from the list that a request is on.
CallsSucceedAgain == OneRingOrder /\ WholeRounds => CallersAreAnswered

\* A look into the cache of master clients that finds nothing (KeyError, which
\* no caller of a transport is told to expect) has another thread behind it that
\* met an error in the meantime; a layer of one thread is safe.
KeyErrorNeedsARace == \A t \in Threads : keyError[t] => raced[t]

\* A client that pops looks at the list its reply is in, and at no other, though
\* the server found the place on its own, by a layer of its own.
RepliesAreFound ==
    \A c \in Clients, s \in Services :
        pc[c] = "using" /\ purpose[c] = "receive" /\ c \in replies[s] => s = member[c]

\* What send_message and receive_message say that they raise.
OnlyTransportErrors == \A t \in Threads : ~keyError[t]
=============================================================================
