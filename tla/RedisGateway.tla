---------------------------- MODULE RedisGateway ----------------------------
(***************************************************************************)
(* The Redis gateway transport of one service, end to end: clients that    *)
(* make calls (client/client.py), their transport with its counter of      *)
(* outstanding requests (redis_gateway/client.py), the bounded Redis lists *)
(* (redis_gateway/core.py, backend/base.py) and the servers that pop       *)
(* requests and push responses (redis_gateway/server.py, server.py).       *)
(*                                                                         *)
(* A request is the pair <<client, request id>>; bodies, headers and       *)
(* serialization are left to other modules.  A reply queue belongs to one  *)
(* client (its uuid and thread), so it holds request ids only.             *)
(***************************************************************************)
EXTENDS Integers, Sequences, FiniteSets

CONSTANTS
    Clients,         \* client transports, each used by one thread
    Servers,         \* server processes of the service
    None,            \* a server that serves nothing
    QueueCapacity,   \* queue_capacity: the longest a Redis list may get
    MaxRequests,     \* BOUND: requests one client makes
    Environment      \* which of Hazards may happen

(* What the environment may do to an otherwise perfect system:             *)
(*   slow        a blocking pop times out although a reply is on its way   *)
(*   connection  a Redis command raises, before or after taking effect     *)
(*   expiry      messages outlive their expiry, lists outlive their TTL    *)
(*   crash       a server dies while it executes a job                     *)
(*   suppress    callers use send_request(suppress_response=True)          *)
(*   toolarge    a request exceeds the maximum message size                *)
(*   invalid     a message is not a whole response (see ChunkedReplies)    *)
Hazards == {"slow", "connection", "expiry", "crash", "suppress", "toolarge", "invalid"}

ASSUME GatewayAssumption ==
    /\ QueueCapacity \in Nat \ {0}
    /\ MaxRequests \in Nat
    /\ Environment \subseteq Hazards
    /\ None \notin Clients \X Nat

VARIABLES
    requestQueue,     \* the service's request list, oldest first
    replyQueue,       \* per client, the reply list it pops from
    outstanding,      \* RedisClientTransport._requests_outstanding
    transportProblem, \* ..._previous_error_was_transport_problem
    nextRequestId,    \* ServiceHandler.request_counter
    status,           \* per client, the state of the future it last made
    expected,         \* ... its expected_request_id
    received,         \* ... the response ids its result() has collected
    serving,          \* per server, the request it executes, or None
    suppressing,      \* requests whose control header suppresses the response
    \* History, read by properties only:
    accepted,         \* requests whose send raised nothing
    started,          \* requests some server took
    delivered,        \* requests whose response the client's transport returned
    disturbed         \* clients whose counter may no longer match (see below)

clientVars == <<outstanding, transportProblem, nextRequestId, status, expected, received>>
history == <<accepted, started, delivered, disturbed>>
vars == <<requestQueue, replyQueue, outstanding, transportProblem,
          nextRequestId, status, expected, received, serving, suppressing,
          accepted, started, delivered, disturbed>>

Requests == Clients \X (1..MaxRequests)

\* The life of a future: created by a send ("sent"), being waited for in
\* result() ("waiting"), and what result() last did.
Statuses == {"none", "sent", "waiting", "ok", "timeout", "error", "unexpected"}

HasRoom(queue) == Len(queue) < QueueCapacity
Elements(queue) == {queue[i] : i \in 1..Len(queue)}

Init ==
    /\ requestQueue = <<>>
    /\ replyQueue = [c \in Clients |-> <<>>]
    /\ outstanding = [c \in Clients |-> 0]
    /\ transportProblem = [c \in Clients |-> FALSE]
    /\ nextRequestId = [c \in Clients |-> 1]
    /\ status = [c \in Clients |-> "none"]
    /\ expected = [c \in Clients |-> 0]
    /\ received = [c \in Clients |-> {}]
    /\ serving = [s \in Servers |-> None]
    /\ suppressing = {}
    /\ accepted = {}
    /\ started = {}
    /\ delivered = {}
    /\ disturbed = {}
-----------------------------------------------------------------------------
(***************************************************************************)
(* The client: sending                                                     *)
(***************************************************************************)
\* A caller sends one request at a time, and never from inside result().
\* Sending again abandons an earlier future that was not waited for.
ReadyToSend(c) ==
    /\ status[c] # "waiting"
    /\ nextRequestId[c] <= MaxRequests

\* ServiceHandler.send_request draws the next id even when the send raises.
DrawRequestId(c) == nextRequestId' = [nextRequestId EXCEPT ![c] = @ + 1]

NewFuture(c, outcome) ==
    /\ status' = [status EXCEPT ![c] = outcome]
    /\ expected' = [expected EXCEPT ![c] = nextRequestId[c]]
    /\ received' = [received EXCEPT ![c] = {}]

\* call_actions_future: the request is pushed, and only then counted.
SendRequest(c) ==
    LET request == <<c, nextRequestId[c]>> IN
    /\ ReadyToSend(c)
    /\ HasRoom(requestQueue)
    /\ requestQueue' = Append(requestQueue, request)
    /\ outstanding' = [outstanding EXCEPT ![c] = @ + 1]
    /\ DrawRequestId(c)
    /\ NewFuture(c, "sent")
    /\ accepted' = accepted \union {request}
    /\ UNCHANGED <<replyQueue, transportProblem, serving, suppressing,
                   started, delivered, disturbed>>

\* Client.send_request(suppress_response=True): no future is made, yet the
\* transport counts the request like any other.
SendWithoutResponse(c) ==
    LET request == <<c, nextRequestId[c]>> IN
    /\ "suppress" \in Environment
    /\ ReadyToSend(c)
    /\ HasRoom(requestQueue)
    /\ requestQueue' = Append(requestQueue, request)
    /\ outstanding' = [outstanding EXCEPT ![c] = @ + 1]
    /\ DrawRequestId(c)
    /\ NewFuture(c, "none")
    /\ suppressing' = suppressing \union {request}
    /\ accepted' = accepted \union {request}
    /\ UNCHANGED <<replyQueue, transportProblem, serving,
                   started, delivered, disturbed>>

\* MessageSendError: the list stayed full through every retry, or Redis
\* raised.  Nothing is counted, and the transport remembers the problem.
SendRequestFails(c) ==
    /\ ReadyToSend(c)
    /\ "connection" \in Environment \/ ~HasRoom(requestQueue)
    /\ transportProblem' = [transportProblem EXCEPT ![c] = TRUE]
    /\ DrawRequestId(c)
    /\ NewFuture(c, "error")
    /\ UNCHANGED <<requestQueue, replyQueue, outstanding, serving, suppressing, history>>

\* MessageSendError although the push took effect: a server will answer a
\* request that the client never counted.
SendRequestFailsLate(c) ==
    /\ ReadyToSend(c)
    /\ "connection" \in Environment
    /\ HasRoom(requestQueue)
    /\ requestQueue' = Append(requestQueue, <<c, nextRequestId[c]>>)
    /\ transportProblem' = [transportProblem EXCEPT ![c] = TRUE]
    /\ DrawRequestId(c)
    /\ NewFuture(c, "error")
    /\ disturbed' = disturbed \union {c}
    /\ UNCHANGED <<replyQueue, outstanding, serving, suppressing,
                   accepted, started, delivered>>

\* MUTANT of SendRequestTooLarge: the request is counted before it is sent.
SendRequestTooLargeCounted(c) ==
    /\ ReadyToSend(c)
    /\ "toolarge" \in Environment
    /\ outstanding' = [outstanding EXCEPT ![c] = @ + 1]
    /\ DrawRequestId(c)
    /\ NewFuture(c, "error")
    /\ UNCHANGED <<requestQueue, replyQueue, transportProblem, serving, suppressing, history>>

\* MessageTooLarge is not a transient error: no flag is raised.
SendRequestTooLarge(c) ==
    /\ ReadyToSend(c)
    /\ "toolarge" \in Environment
    /\ DrawRequestId(c)
    /\ NewFuture(c, "error")
    /\ UNCHANGED <<requestQueue, replyQueue, outstanding, transportProblem,
                   serving, suppressing, history>>
-----------------------------------------------------------------------------
(***************************************************************************)
(* The client: result() runs get_all_responses until the transport says    *)
(* there is nothing outstanding                                            *)
(***************************************************************************)
\* FutureSOAResponse.result: the first call, or another after a timeout.
\* get_response starts over with no responses collected.
BeginResult(c) ==
    /\ status[c] \in {"sent", "timeout"}
    /\ status' = [status EXCEPT ![c] = "waiting"]
    /\ received' = [received EXCEPT ![c] = {}]
    /\ UNCHANGED <<requestQueue, replyQueue, outstanding, transportProblem,
                   nextRequestId, expected, serving, suppressing, history>>

\* receive_response_message blocks in BLPOP only while something is counted.
IsBlocked(c) == status[c] = "waiting" /\ outstanding[c] > 0

ReceiveResponse(c) ==
    LET id == Head(replyQueue[c]) IN
    /\ IsBlocked(c)
    /\ replyQueue[c] # <<>>
    /\ replyQueue' = [replyQueue EXCEPT ![c] = Tail(@)]
    /\ outstanding' = [outstanding EXCEPT ![c] = @ - 1]
    /\ received' = [received EXCEPT ![c] = @ \union {id}]
    /\ delivered' = delivered \union {<<c, id>>}
    /\ UNCHANGED <<requestQueue, transportProblem, nextRequestId, status, expected,
                   serving, suppressing, accepted, started, disturbed>>

\* MUTANT of RaiseTimeout: every timeout starts the count afresh.
RaiseTimeoutResets(c) ==
    /\ outstanding' = [outstanding EXCEPT ![c] = 0]
    /\ transportProblem' = [transportProblem EXCEPT ![c] = FALSE]
    /\ status' = [status EXCEPT ![c] = "timeout"]
    /\ disturbed' = IF transportProblem[c] THEN disturbed \union {c} ELSE disturbed

\* The handler of MessageReceiveTimeout: after an earlier transport problem
\* it assumes a failover lost everything and starts counting afresh.
RaiseTimeout(c) ==
    /\ outstanding' = [outstanding EXCEPT ![c] = IF transportProblem[c] THEN 0 ELSE @]
    /\ transportProblem' = [transportProblem EXCEPT ![c] = FALSE]
    /\ status' = [status EXCEPT ![c] = "timeout"]
    /\ disturbed' = IF transportProblem[c] THEN disturbed \union {c} ELSE disturbed

ReceiveTimesOut(c) ==
    /\ IsBlocked(c)
    /\ "slow" \in Environment
    /\ replyQueue[c] = <<>>
    /\ RaiseTimeout(c)
    /\ UNCHANGED <<requestQueue, replyQueue, nextRequestId, expected, received,
                   serving, suppressing, accepted, started, delivered>>

\* A popped response that is past its expiry is reported as a timeout.
ReceiveExpiredResponse(c) ==
    /\ IsBlocked(c)
    /\ "expiry" \in Environment
    /\ replyQueue[c] # <<>>
    /\ replyQueue' = [replyQueue EXCEPT ![c] = Tail(@)]
    /\ RaiseTimeout(c)
    /\ UNCHANGED <<requestQueue, nextRequestId, expected, received, serving,
                   suppressing, accepted, started, delivered>>

\* MessageReceiveError: BLPOP raised, perhaps after the pop took effect.  The
\* transport takes no note of InvalidMessageError, which is not transient: its
\* message was popped.  The future keeps either error for good.
ReceiveFails(c) ==
    /\ IsBlocked(c)
    /\ \/ UNCHANGED replyQueue
       \/ /\ replyQueue[c] # <<>>
          /\ replyQueue' = [replyQueue EXCEPT ![c] = Tail(@)]
    /\ \/ /\ "connection" \in Environment
          /\ transportProblem' = [transportProblem EXCEPT ![c] = TRUE]
       \/ /\ "invalid" \in Environment
          /\ replyQueue' # replyQueue
          /\ UNCHANGED transportProblem
    /\ status' = [status EXCEPT ![c] = "error"]
    /\ UNCHANGED <<requestQueue, outstanding, nextRequestId, expected, received,
                   serving, suppressing, history>>

\* Nothing outstanding: the transport returns (None, None, None), the
\* generator ends, and get_response looks for the response it expects.
FinishResult(c) ==
    /\ status[c] = "waiting"
    /\ outstanding[c] <= 0
    /\ transportProblem' = [transportProblem EXCEPT ![c] = FALSE]
    /\ status' = [status EXCEPT ![c] =
                      IF expected[c] \in received[c] THEN "ok" ELSE "unexpected"]
    /\ UNCHANGED <<requestQueue, replyQueue, outstanding, nextRequestId,
                   expected, received, serving, suppressing, history>>
-----------------------------------------------------------------------------
(***************************************************************************)
(* The servers                                                             *)
(***************************************************************************)
\* MUTANT of ReceiveRequest: the request is read but stays in the list.
ReceiveRequestUnpopped(s) ==
    /\ serving[s] = None
    /\ requestQueue # <<>>
    /\ serving' = [serving EXCEPT ![s] = Head(requestQueue)]
    /\ started' = started \union {Head(requestQueue)}
    /\ UNCHANGED <<requestQueue, replyQueue, clientVars, suppressing, accepted,
                   delivered, disturbed>>

\* Server.handle_next_request pops the oldest request.
ReceiveRequest(s) ==
    /\ serving[s] = None
    /\ requestQueue # <<>>
    /\ serving' = [serving EXCEPT ![s] = Head(requestQueue)]
    /\ requestQueue' = Tail(requestQueue)
    /\ started' = started \union {Head(requestQueue)}
    /\ UNCHANGED <<replyQueue, clientVars, suppressing, accepted, delivered, disturbed>>

\* The pop found an expired or invalid request, or raised after it took effect:
\* the request is gone.  Whether the server goes back to its loop or ends, and is
\* started again, makes no difference here.
LoseRequest(s) ==
    /\ serving[s] = None
    /\ requestQueue # <<>>
    /\ Environment \intersect {"expiry", "connection", "invalid"} # {}
    /\ requestQueue' = Tail(requestQueue)
    /\ UNCHANGED <<replyQueue, clientVars, serving, suppressing, history>>

\* The job is done and its response goes to the reply_to queue.
SendResponse(s) ==
    LET c == serving[s][1] IN
    /\ serving[s] # None
    /\ serving[s] \notin suppressing
    /\ HasRoom(replyQueue[c])
    /\ replyQueue' = [replyQueue EXCEPT ![c] = Append(@, serving[s][2])]
    /\ serving' = [serving EXCEPT ![s] = None]
    /\ UNCHANGED <<requestQueue, clientVars, suppressing, history>>

SuppressResponse(s) ==
    /\ serving[s] # None
    /\ serving[s] \in suppressing
    /\ serving' = [serving EXCEPT ![s] = None]
    /\ UNCHANGED <<requestQueue, replyQueue, clientVars, suppressing, history>>

\* MessageSendError on the way back: the server backs off and goes on to
\* the next request.  The response is not sent again.
SendResponseFails(s) ==
    LET c == serving[s][1] IN
    /\ serving[s] # None
    /\ serving[s] \notin suppressing
    /\ \/ /\ "connection" \in Environment \/ ~HasRoom(replyQueue[c])
          /\ UNCHANGED replyQueue
       \/ /\ "connection" \in Environment
          /\ HasRoom(replyQueue[c])
          /\ replyQueue' = [replyQueue EXCEPT ![c] = Append(@, serving[s][2])]
    /\ serving' = [serving EXCEPT ![s] = None]
    /\ UNCHANGED <<requestQueue, clientVars, suppressing, history>>

\* MUTANT of Crash: a request that was being executed is queued again.
CrashRequeues(s) ==
    /\ "crash" \in Environment
    /\ serving[s] # None
    /\ HasRoom(requestQueue)
    /\ requestQueue' = Append(requestQueue, serving[s])
    /\ serving' = [serving EXCEPT ![s] = None]
    /\ UNCHANGED <<replyQueue, clientVars, suppressing, history>>

\* The process dies in the middle of a job and is started again.
Crash(s) ==
    /\ "crash" \in Environment
    /\ serving[s] # None
    /\ serving' = [serving EXCEPT ![s] = None]
    /\ UNCHANGED <<requestQueue, replyQueue, clientVars, suppressing, history>>

\* The TTL set by the script's EXPIRE runs out and Redis drops a whole list.
RequestQueueExpires ==
    /\ "expiry" \in Environment
    /\ requestQueue # <<>>
    /\ requestQueue' = <<>>
    /\ UNCHANGED <<replyQueue, clientVars, serving, suppressing, history>>

ReplyQueueExpires(c) ==
    /\ "expiry" \in Environment
    /\ replyQueue[c] # <<>>
    /\ replyQueue' = [replyQueue EXCEPT ![c] = <<>>]
    /\ UNCHANGED <<requestQueue, clientVars, serving, suppressing, history>>
-----------------------------------------------------------------------------
ClientSends(c) ==
    \/ SendRequest(c)
    \/ SendWithoutResponse(c)
    \/ SendRequestFails(c)
    \/ SendRequestFailsLate(c)
    \/ SendRequestTooLarge(c)

\* The steps of a client inside result().
ClientWaits(c) ==
    \/ ReceiveResponse(c)
    \/ ReceiveTimesOut(c)
    \/ ReceiveExpiredResponse(c)
    \/ ReceiveFails(c)
    \/ FinishResult(c)

\* The steps of a server that its own loop takes.
ServerWorks(s) ==
    \/ ReceiveRequest(s)
    \/ LoseRequest(s)
    \/ SendResponse(s)
    \/ SuppressResponse(s)
    \/ SendResponseFails(s)

Next ==
    \/ \E c \in Clients : ClientSends(c) \/ BeginResult(c) \/ ClientWaits(c)
    \/ \E s \in Servers : ServerWorks(s) \/ Crash(s)
    \/ RequestQueueExpires
    \/ \E c \in Clients : ReplyQueueExpires(c)

Spec == Init /\ [][Next]_vars

\* A server loops until it is told to stop, and a client inside result() is a
\* thread that runs: whatever either can do next, it does.  Nobody is obliged
\* to make calls, to use the futures they made, or to fail.
FairSpec ==
    /\ Spec
    /\ \A s \in Servers : WF_vars(ServerWorks(s))
    /\ \A c \in Clients : WF_vars(ClientWaits(c))
-----------------------------------------------------------------------------
(***************************************************************************)
(* Properties                                                              *)
(***************************************************************************)
\* Every variable holds a value of its type: the counter is never negative,
\* however many responses arrive that nobody counted.
TypeOK ==
    /\ requestQueue \in Seq(Requests)
    /\ replyQueue \in [Clients -> Seq(1..MaxRequests)]
    /\ outstanding \in [Clients -> Nat]
    /\ transportProblem \in [Clients -> BOOLEAN]
    /\ nextRequestId \in [Clients -> 1..(MaxRequests + 1)]
    /\ status \in [Clients -> Statuses]
    /\ expected \in [Clients -> 0..MaxRequests]
    /\ received \in [Clients -> SUBSET (1..MaxRequests)]
    /\ serving \in [Servers -> Requests \union {None}]
    /\ suppressing \subseteq Requests
    /\ accepted \subseteq Requests
    /\ started \subseteq Requests
    /\ delivered \subseteq Requests
    /\ disturbed \subseteq Clients

\* Requests of client c that were sent and whose response it has not received,
\* whether or not that response still exists anywhere.
Unanswered(c) == {i \in 1..MaxRequests : <<c, i>> \in accepted \ delivered}

\* Request ids for which a response may still reach client c.
InFlight(c) == {i \in 1..MaxRequests :
    \/ i \in Elements(replyQueue[c])
    \/ /\ <<c, i>> \notin suppressing
       /\ \/ <<c, i>> \in Elements(requestQueue)
          \/ \E s \in Servers : serving[s] = <<c, i>>}

\* _requests_outstanding is exactly the number of requests sent and not yet
\* answered, through lost requests, crashes, timeouts, abandoned futures and
\* retries, as long as no Redis error left the client guessing: a push that
\* raised after taking effect, or a reset after a suspected failover.
OutstandingIsExact == \A c \in Clients :
    c \notin disturbed => outstanding[c] = Cardinality(Unanswered(c))

\* The counter never runs ahead of the replies: as long as a response may
\* still come, get_all_responses will not stop before it.  This is what keeps
\* one call from finding the response of another in its queue.
NothingInFlightIsUncounted == \A c \in Clients :
    c \notin disturbed => InFlight(c) \subseteq Unanswered(c)

\* call_actions_future raises "Got unexpected response(s)" only to a client
\* that was disturbed by a Redis error, or to a caller that retries a future
\* whose response an earlier result() received and then lost to a timeout.
UnexpectedIsExplained == \A c \in Clients :
    status[c] = "unexpected" =>
        c \in disturbed \/ <<c, expected[c]>> \in delivered

\* The gateway is an at-most-once RPC: no crash, retry of a push, timeout or
\* expiry makes a request wait, execute or be answered a second time, or hands
\* a client a response twice or to a request that no server executed.
Rpc == INSTANCE AtMostOnceRpc WITH
    submitted <- {r \in Requests : r[2] < nextRequestId[r[1]]},
    waiting <- Elements(requestQueue),
    executing <- {serving[s] : s \in Servers} \ {None},
    answered <- {r \in Requests : r[2] \in Elements(replyQueue[r[1]])}
RefinesAtMostOnceRpc == Rpc!Spec

\* With servers that answer and an environment that does nothing wrong, every
\* caller that waits gets the response to its own request.
EveryCallSucceeds == \A c \in Clients :
    status[c] = "waiting" ~> status[c] = "ok"

-----------------------------------------------------------------------------
(***************************************************************************)
(* The inductive invariant                                                 *)
(***************************************************************************)
\* No element occurs twice in the queue.
Distinct(queue) == \A i, j \in 1..Len(queue) : queue[i] = queue[j] => i = j

\* Ids are drawn once: what was ever queued, accepted or started is behind
\* the counter the next id is drawn from.
IdsAreDrawn == \A r \in started \union accepted \union Elements(requestQueue) :
    r[2] < nextRequestId[r[1]]

\* A request waits in the queue once, and only before it is started.
QueuedOnce ==
    /\ Distinct(requestQueue)
    /\ Elements(requestQueue) \intersect started = {}

\* A started request is in the hands of one server, or its one response is in
\* its client's list, or that response was delivered, or it is gone.
AnsweredOnce ==
    /\ delivered \subseteq started
    /\ \A s \in Servers : serving[s] # None =>
          /\ serving[s] \in started \ delivered
          /\ serving[s][2] \notin Elements(replyQueue[serving[s][1]])
          /\ \A t \in Servers : serving[t] = serving[s] => t = s
    /\ \A c \in Clients :
          /\ Distinct(replyQueue[c])
          /\ \A i \in Elements(replyQueue[c]) : <<c, i>> \in started \ delivered

\* A future that result() may still be called on belongs to an accepted request.
FuturesAreAccepted == \A c \in Clients :
    status[c] \in {"sent", "waiting", "timeout"} => <<c, expected[c]>> \in accepted

\* Servers only ever see requests of undisturbed clients that were counted.
OnlyAcceptedIsSeen == \A r \in started \union Elements(requestQueue) :
    r[1] \notin disturbed => r \in accepted

\* The conjunction that each step preserves; the properties follow from it.
IInv ==
    /\ TypeOK
    /\ IdsAreDrawn
    /\ QueuedOnce
    /\ AnsweredOnce
    /\ FuturesAreAccepted
    /\ OnlyAcceptedIsSeen
    /\ OutstandingIsExact
    /\ UnexpectedIsExplained
-----------------------------------------------------------------------------
(***************************************************************************)
(* What the code's comments and documentation say, and the code does not   *)
(* do                                                                      *)
(***************************************************************************)
\* client.py on the branch that raises "Got unexpected response(s)": "This
\* error should be impossible if `get_all_responses` is behaving correctly".
UnexpectedResponseIsImpossible == \A c \in Clients : status[c] # "unexpected"

\* FutureSOAResponse.result on a timeout: "subsequent calls [...] will be
\* treated like first-time calls until a response is returned".  A first-time
\* call whose response has reached the client returns that response.
RetryIsLikeAFirstCall == \A c \in Clients :
    status[c] = "unexpected" => <<c, expected[c]>> \notin delivered

\* RedisClientTransport.requests_outstanding: "the number of requests
\* currently outstanding, which still need to be received".
OutstandingStillToBeReceived == \A c \in Clients :
    outstanding[c] <= Cardinality(InFlight(c))
=============================================================================
