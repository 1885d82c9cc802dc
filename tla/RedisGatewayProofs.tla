------------------------- MODULE RedisGatewayProofs -------------------------
(***************************************************************************)
(* Theorems about RedisGateway, for any number of clients, servers and     *)
(* requests, any queue capacity and any environment; and about the         *)
(* backends that it goes through, an instance of RedisBackends.            *)
(***************************************************************************)
EXTENDS RedisGateway, FiniteSetTheorems, TLAPS

-----------------------------------------------------------------------------
(***************************************************************************)
(* Queues                                                                  *)
(***************************************************************************)
\* What a push does to the elements of a list.
LEMMA ElementsOfAppend ==
    ASSUME NEW S, NEW queue \in Seq(S), NEW e \in S
    PROVE  Elements(Append(queue, e)) = Elements(queue) \union {e}
  <1>1. Len(Append(queue, e)) = Len(queue) + 1 /\ Len(queue) \in Nat
    OBVIOUS
  <1>2. \A i \in 1..Len(queue) : Append(queue, e)[i] = queue[i]
    OBVIOUS
  <1>3. Append(queue, e)[Len(queue) + 1] = e
    OBVIOUS
  <1>4. 1..(Len(queue) + 1) = (1..Len(queue)) \union {Len(queue) + 1}
    BY <1>1
  <1> QED BY <1>1, <1>2, <1>3, <1>4, Zenon DEF Elements

\* What a pop does to the elements of a list.
LEMMA ElementsOfTail ==
    ASSUME NEW S, NEW queue \in Seq(S), queue # <<>>
    PROVE  /\ Head(queue) \in S
           /\ Head(queue) \in Elements(queue)
           /\ Tail(queue) \in Seq(S)
           /\ Elements(Tail(queue)) \subseteq Elements(queue)
  BY DEF Elements

\* Pushing a new element keeps a list free of duplicates.
LEMMA DistinctAppend ==
    ASSUME NEW S, NEW queue \in Seq(S), NEW e \in S,
           Distinct(queue), e \notin Elements(queue)
    PROVE  Distinct(Append(queue, e))
  BY DEF Distinct, Elements

\* Popping keeps a list free of duplicates, and what was popped is gone.
LEMMA DistinctTail ==
    ASSUME NEW S, NEW queue \in Seq(S), queue # <<>>, Distinct(queue)
    PROVE  Distinct(Tail(queue)) /\ Head(queue) \notin Elements(Tail(queue))
  BY DEF Distinct, Elements

\* An empty list has no elements.
LEMMA EmptyQueue == Elements(<<>>) = {} /\ Distinct(<<>>)
  BY DEF Distinct, Elements
-----------------------------------------------------------------------------
(***************************************************************************)
(* Type correctness                                                        *)
(***************************************************************************)
\* Sending: ids stay within the bound, and only requests are queued.
LEMMA TypeClientSends ==
    ASSUME TypeOK, NEW c \in Clients, ClientSends(c)
    PROVE  TypeOK'
  <1> DEFINE request == <<c, nextRequestId[c]>>
  <1> USE GatewayAssumption
  <1>1. ReadyToSend(c)
    BY DEF ClientSends, SendRequest, SendWithoutResponse, SendRequestFails,
           SendRequestFailsLate, SendRequestTooLarge
  <1>2. nextRequestId[c] \in 1..MaxRequests /\ request \in Requests
    BY <1>1 DEF ReadyToSend, TypeOK, Requests
  <1>3. Append(requestQueue, request) \in Seq(Requests)
    BY <1>2 DEF TypeOK
  <1>4. DrawRequestId(c) => nextRequestId' \in [Clients -> 1..(MaxRequests + 1)]
    BY <1>2 DEF DrawRequestId, TypeOK
  <1>5. \A outcome \in Statuses : NewFuture(c, outcome) =>
            /\ status' \in [Clients -> Statuses]
            /\ expected' \in [Clients -> 0..MaxRequests]
            /\ received' \in [Clients -> SUBSET (1..MaxRequests)]
    BY <1>2 DEF NewFuture, TypeOK
  <1>6. {"none", "sent", "error"} \subseteq Statuses
    BY DEF Statuses
  <1>7. CASE SendRequest(c)
    <2>1. /\ requestQueue' \in Seq(Requests)
          /\ accepted' \subseteq Requests
          /\ suppressing' \subseteq Requests
      BY <1>2, <1>3, <1>7 DEF SendRequest, TypeOK
    <2>2. outstanding' \in [Clients -> Nat]
      BY <1>7 DEF SendRequest, TypeOK
    <2> QED BY <1>4, <1>5, <1>6, <1>7, <2>1, <2>2 DEF SendRequest, TypeOK
  <1>8. CASE SendWithoutResponse(c)
    <2>1. /\ requestQueue' \in Seq(Requests)
          /\ accepted' \subseteq Requests
          /\ suppressing' \subseteq Requests
      BY <1>2, <1>3, <1>8 DEF SendWithoutResponse, TypeOK
    <2>2. outstanding' \in [Clients -> Nat]
      BY <1>8 DEF SendWithoutResponse, TypeOK
    <2> QED BY <1>4, <1>5, <1>6, <1>8, <2>1, <2>2 DEF SendWithoutResponse, TypeOK
  <1>9. CASE SendRequestFails(c)
    BY <1>4, <1>5, <1>6, <1>9 DEF SendRequestFails, TypeOK, history
  <1>10. CASE SendRequestFailsLate(c)
    BY <1>3, <1>4, <1>5, <1>6, <1>10 DEF SendRequestFailsLate, TypeOK
  <1>11. CASE SendRequestTooLarge(c)
    BY <1>4, <1>5, <1>6, <1>11 DEF SendRequestTooLarge, TypeOK, history
  <1> QED BY <1>7, <1>8, <1>9, <1>10, <1>11 DEF ClientSends

\* Waiting: the counter is only decremented when it is positive.
LEMMA TypeClientWaits ==
    ASSUME TypeOK, NEW c \in Clients, BeginResult(c) \/ ClientWaits(c)
    PROVE  TypeOK'
  <1> USE GatewayAssumption
  <1>1. CASE BeginResult(c)
    BY <1>1 DEF BeginResult, TypeOK, Statuses, history
  <1>2. CASE ReceiveResponse(c)
    <2>1. replyQueue[c] \in Seq(1..MaxRequests) /\ replyQueue[c] # <<>>
      BY <1>2 DEF ReceiveResponse, TypeOK
    <2>2. /\ Head(replyQueue[c]) \in 1..MaxRequests
          /\ Tail(replyQueue[c]) \in Seq(1..MaxRequests)
      BY <2>1, ElementsOfTail
    <2>3. replyQueue' \in [Clients -> Seq(1..MaxRequests)]
      BY <1>2, <2>2 DEF ReceiveResponse, TypeOK
    <2>4. received' \in [Clients -> SUBSET (1..MaxRequests)]
      BY <1>2, <2>2 DEF ReceiveResponse, TypeOK
    <2>5. outstanding' \in [Clients -> Nat]
      BY <1>2 DEF ReceiveResponse, IsBlocked, TypeOK
    <2>6. delivered' \subseteq Requests
      BY <1>2, <2>2 DEF ReceiveResponse, TypeOK, Requests
    <2> QED BY <1>2, <2>3, <2>4, <2>5, <2>6 DEF ReceiveResponse, TypeOK
  <1>3. CASE ReceiveTimesOut(c)
    BY <1>3 DEF ReceiveTimesOut, RaiseTimeout, TypeOK, Statuses
  <1>4. CASE ReceiveExpiredResponse(c)
    <2>1. replyQueue' \in [Clients -> Seq(1..MaxRequests)]
      BY <1>4, ElementsOfTail DEF ReceiveExpiredResponse, TypeOK
    <2> QED
      BY <1>4, <2>1 DEF ReceiveExpiredResponse, RaiseTimeout, TypeOK, Statuses
  <1>5. CASE ReceiveFails(c)
    <2>1. CASE UNCHANGED replyQueue
      BY <1>5, <2>1 DEF ReceiveFails, TypeOK, Statuses, history
    <2>2. CASE /\ replyQueue[c] # <<>>
               /\ replyQueue' = [replyQueue EXCEPT ![c] = Tail(@)]
      <3>1. Tail(replyQueue[c]) \in Seq(1..MaxRequests)
        BY <2>2, ElementsOfTail DEF TypeOK
      <3> QED BY <1>5, <2>2, <3>1 DEF ReceiveFails, TypeOK, Statuses, history
    <2> QED BY <1>5, <2>1, <2>2 DEF ReceiveFails
  <1>6. CASE FinishResult(c)
    BY <1>6 DEF FinishResult, TypeOK, Statuses, history
  <1> QED BY <1>1, <1>2, <1>3, <1>4, <1>5, <1>6 DEF ClientWaits

\* Serving: what a server takes is a request, what it answers is that request.
LEMMA TypeServers ==
    ASSUME TypeOK, NEW s \in Servers, ServerWorks(s) \/ Crash(s)
    PROVE  TypeOK'
  <1> USE GatewayAssumption
  <1>1. CASE ReceiveRequest(s)
    BY <1>1, ElementsOfTail DEF ReceiveRequest, TypeOK, clientVars
  <1>2. CASE LoseRequest(s)
    BY <1>2, ElementsOfTail DEF LoseRequest, TypeOK, clientVars, history
  <1>3. CASE SendResponse(s) \/ SendResponseFails(s)
    <2>1. serving[s] # None
      BY <1>3 DEF SendResponse, SendResponseFails
    <2>2. serving[s][1] \in Clients /\ serving[s][2] \in 1..MaxRequests
      BY <2>1 DEF TypeOK, Requests
    <2>3. Append(replyQueue[serving[s][1]], serving[s][2]) \in Seq(1..MaxRequests)
      BY <2>2 DEF TypeOK
    <2>4. \/ replyQueue' = [replyQueue EXCEPT
                ![serving[s][1]] = Append(replyQueue[serving[s][1]], serving[s][2])]
          \/ UNCHANGED replyQueue
      BY <1>3 DEF SendResponse, SendResponseFails
    <2>5. replyQueue' \in [Clients -> Seq(1..MaxRequests)]
      BY <2>2, <2>3, <2>4 DEF TypeOK
    <2> QED
      BY <1>3, <2>5 DEF SendResponse, SendResponseFails, TypeOK, clientVars, history
  <1>4. CASE SuppressResponse(s)
    BY <1>4 DEF SuppressResponse, TypeOK, clientVars, history
  <1>5. CASE Crash(s)
    BY <1>5 DEF Crash, TypeOK, clientVars, history
  <1> QED BY <1>1, <1>2, <1>3, <1>4, <1>5 DEF ServerWorks

\* The initial state is well typed.
LEMMA TypeInit == Init => TypeOK
  BY GatewayAssumption DEF Init, TypeOK, Statuses

\* Every step keeps the types: the counter of outstanding requests stays a natural.
LEMMA TypeStep == TypeOK /\ [Next]_vars => TypeOK'
  <1> SUFFICES ASSUME TypeOK, [Next]_vars PROVE TypeOK'
    OBVIOUS
  <1>1. ASSUME NEW c \in Clients, ClientSends(c) \/ BeginResult(c) \/ ClientWaits(c)
        PROVE  TypeOK'
    BY <1>1, TypeClientSends, TypeClientWaits
  <1>2. ASSUME NEW s \in Servers, ServerWorks(s) \/ Crash(s)
        PROVE  TypeOK'
    BY <1>2, TypeServers
  <1>3. CASE RequestQueueExpires
    BY <1>3 DEF RequestQueueExpires, TypeOK, clientVars, history
  <1>4. ASSUME NEW c \in Clients, ReplyQueueExpires(c)
        PROVE  TypeOK'
    BY <1>4 DEF ReplyQueueExpires, TypeOK, clientVars, history
  <1>5. CASE UNCHANGED vars
    BY <1>5 DEF vars, TypeOK
  <1> QED BY <1>1, <1>2, <1>3, <1>4, <1>5 DEF Next

\* Every variable keeps its type: the counter of outstanding requests is never
\* negative, and every queued or served request is one a client drew.
THEOREM TypeCorrect == Spec => []TypeOK
  BY TypeInit, TypeStep, PTL DEF Spec
-----------------------------------------------------------------------------
(***************************************************************************)
(* The inductive invariant: sending                                        *)
(***************************************************************************)
\* The next id of a client was never used for anything.
LEMMA NextRequestIsNew ==
    ASSUME IInv, NEW c \in Clients, ReadyToSend(c)
    PROVE  /\ <<c, nextRequestId[c]>> \in Requests
           /\ <<c, nextRequestId[c]>> \notin started
           /\ <<c, nextRequestId[c]>> \notin accepted
           /\ <<c, nextRequestId[c]>> \notin delivered
           /\ <<c, nextRequestId[c]>> \notin Elements(requestQueue)
  <1> USE GatewayAssumption
  <1>1. nextRequestId[c] \in 1..MaxRequests
    BY DEF IInv, TypeOK, ReadyToSend
  <1>2. ~(nextRequestId[c] < nextRequestId[c])
    BY <1>1
  <1> QED BY <1>1, <1>2 DEF IInv, IdsAreDrawn, AnsweredOnce, Requests

\* Drawing an id leaves every id drawn before behind the counter.
LEMMA DrawingKeepsIdsDrawn ==
    ASSUME IInv, NEW c \in Clients, ReadyToSend(c), DrawRequestId(c),
           NEW r \in Requests, r[2] < nextRequestId[r[1]]
    PROVE  r[2] < nextRequestId'[r[1]]
  <1> USE GatewayAssumption
  <1>1. r[1] \in Clients /\ r[2] \in 1..MaxRequests
    BY DEF Requests
  <1>2. nextRequestId[c] \in 1..MaxRequests /\ nextRequestId[r[1]] \in 1..(MaxRequests + 1)
    BY <1>1 DEF IInv, TypeOK, ReadyToSend
  <1>3. nextRequestId'[r[1]] = IF r[1] = c THEN nextRequestId[c] + 1 ELSE nextRequestId[r[1]]
    BY <1>1 DEF DrawRequestId, IInv, TypeOK
  <1> QED BY <1>1, <1>2, <1>3

\* A push of the new request, counted as accepted or not.
LEMMA QueuesWhenSent ==
    ASSUME IInv, NEW c \in Clients, ReadyToSend(c), DrawRequestId(c),
           requestQueue' = Append(requestQueue, <<c, nextRequestId[c]>>),
           accepted' \subseteq accepted \union {<<c, nextRequestId[c]>>},
           UNCHANGED <<replyQueue, serving, started, delivered>>
    PROVE  IdsAreDrawn' /\ QueuedOnce' /\ AnsweredOnce'
  <1> USE GatewayAssumption
  <1> DEFINE request == <<c, nextRequestId[c]>>
  <1>1. /\ request \in Requests
        /\ request \notin started
        /\ request \notin Elements(requestQueue)
    BY NextRequestIsNew
  <1>2. requestQueue \in Seq(Requests) /\ started \subseteq Requests /\ accepted \subseteq Requests
    BY DEF IInv, TypeOK
  <1>3. Elements(requestQueue)' = Elements(requestQueue) \union {request}
    <2>1. Elements(requestQueue)' = Elements(requestQueue')
      BY DEF Elements
    <2> QED BY <1>1, <1>2, <2>1, ElementsOfAppend
  <1>4. IdsAreDrawn'
    <2>1. request[2] < nextRequestId'[request[1]]
      <3>1. nextRequestId[c] \in 1..MaxRequests
        BY DEF IInv, TypeOK, ReadyToSend
      <3>2. nextRequestId'[c] = nextRequestId[c] + 1
        BY DEF IInv, TypeOK, DrawRequestId
      <3> QED BY <3>1, <3>2
    <2>2. \A r \in started \union accepted \union Elements(requestQueue) :
              r \in Requests /\ r[2] < nextRequestId'[r[1]]
      <3>1. Elements(requestQueue) \subseteq Requests
        BY <1>2 DEF Elements
      <3> QED BY <1>2, <3>1, DrawingKeepsIdsDrawn DEF IInv, IdsAreDrawn
    <2> QED BY <1>3, <2>1, <2>2 DEF IdsAreDrawn
  <1>5. QueuedOnce'
    <2>1. Distinct(requestQueue')
      BY <1>1, <1>2, DistinctAppend DEF IInv, QueuedOnce
    <2>2. Elements(requestQueue)' \intersect started' = {}
      BY <1>1, <1>3 DEF IInv, QueuedOnce
    <2> QED BY <2>1, <2>2 DEF QueuedOnce, Distinct
  <1>6. AnsweredOnce'
    BY DEF IInv, AnsweredOnce, Distinct, Elements
  <1> QED BY <1>4, <1>5, <1>6

\* Requests are bounded, so those of one client can be counted.
LEMMA UnansweredIsFinite == \A c : IsFiniteSet(Unanswered(c))
  <1> TAKE c
  <1>1. IsFiniteSet(1..MaxRequests)
    BY GatewayAssumption, FS_Interval
  <1>2. Unanswered(c) \subseteq 1..MaxRequests
    BY DEF Unanswered
  <1> QED BY <1>1, <1>2, FS_Subset

\* A counted push: one more request is unanswered.
LEMMA CountWhenAccepted ==
    ASSUME IInv, NEW c \in Clients, ReadyToSend(c),
           accepted' = accepted \union {<<c, nextRequestId[c]>>},
           outstanding' = [outstanding EXCEPT ![c] = @ + 1],
           UNCHANGED <<delivered, disturbed>>
    PROVE  OutstandingIsExact'
  <1> USE GatewayAssumption
  <1> SUFFICES ASSUME NEW d \in Clients, d \notin disturbed
               PROVE  outstanding'[d] = Cardinality(Unanswered(d)')
    BY DEF OutstandingIsExact
  <1>1. outstanding[d] = Cardinality(Unanswered(d))
    BY DEF IInv, OutstandingIsExact
  <1>2. CASE d = c
    <2>1. nextRequestId[c] \in 1..MaxRequests
      BY DEF IInv, TypeOK, ReadyToSend
    <2>2. Unanswered(c)' = Unanswered(c) \union {nextRequestId[c]}
      BY <2>1, NextRequestIsNew DEF Unanswered
    <2>3. nextRequestId[c] \notin Unanswered(c)
      BY NextRequestIsNew DEF Unanswered
    <2>4. IsFiniteSet(Unanswered(c))
      BY UnansweredIsFinite
    <2>5. Cardinality(Unanswered(c)') = Cardinality(Unanswered(c)) + 1
      BY <2>2, <2>3, <2>4, FS_AddElement
    <2>6. outstanding'[c] = outstanding[c] + 1
      BY DEF IInv, TypeOK
    <2> QED BY <1>1, <1>2, <2>5, <2>6
  <1>3. CASE d # c
    <2>1. Unanswered(d)' = Unanswered(d)
      BY <1>3 DEF Unanswered
    <2>2. outstanding'[d] = outstanding[d]
      BY <1>3 DEF IInv, TypeOK
    <2> QED BY <1>1, <2>1, <2>2
  <1> QED BY <1>2, <1>3

\* Nothing that was in a queue, or unanswered, changes.
LEMMA NothingMoves ==
    ASSUME IInv,
           UNCHANGED <<requestQueue, replyQueue, serving, accepted, started, delivered>>
    PROVE  /\ UNCHANGED Elements(requestQueue)
           /\ QueuedOnce'
           /\ AnsweredOnce'
           /\ \A c \in Clients : UNCHANGED Unanswered(c)
  BY DEF IInv, QueuedOnce, AnsweredOnce, Distinct, Elements, Unanswered

\* The future a send makes belongs to an accepted request, or can not be waited for.
LEMMA FutureWhenSent ==
    ASSUME IInv, NEW c \in Clients, NEW outcome \in {"none", "sent", "error"},
           NewFuture(c, outcome),
           accepted \subseteq accepted',
           outcome = "sent" => <<c, nextRequestId[c]>> \in accepted',
           delivered' = delivered, disturbed \subseteq disturbed'
    PROVE  FuturesAreAccepted' /\ UnexpectedIsExplained'
  <1> SUFFICES ASSUME NEW d \in Clients
               PROVE  /\ status'[d] \in {"sent", "waiting", "timeout"}
                           => <<d, expected'[d]>> \in accepted'
                      /\ status'[d] = "unexpected"
                           => d \in disturbed' \/ <<d, expected'[d]>> \in delivered'
    BY DEF FuturesAreAccepted, UnexpectedIsExplained
  <1>1. CASE d = c
    <2>1. status'[c] = outcome /\ expected'[c] = nextRequestId[c]
      BY DEF NewFuture, IInv, TypeOK
    <2> QED BY <1>1, <2>1
  <1>2. CASE d # c
    <2>1. status'[d] = status[d] /\ expected'[d] = expected[d]
      BY <1>2 DEF NewFuture, IInv, TypeOK
    <2> QED BY <2>1 DEF IInv, FuturesAreAccepted, UnexpectedIsExplained
  <1> QED BY <1>1, <1>2

\* Sending keeps the invariant.
LEMMA InvClientSends ==
    ASSUME IInv, NEW c \in Clients, ClientSends(c)
    PROVE  IInv'
  <1> DEFINE request == <<c, nextRequestId[c]>>
  <1>0. TypeOK'
    BY TypeClientSends DEF IInv
  <1>1. CASE SendRequest(c) \/ SendWithoutResponse(c)
    <2>1. /\ ReadyToSend(c) /\ DrawRequestId(c)
          /\ requestQueue' = Append(requestQueue, request)
          /\ accepted' = accepted \union {request}
          /\ outstanding' = [outstanding EXCEPT ![c] = @ + 1]
          /\ UNCHANGED <<replyQueue, serving, started, delivered, disturbed>>
      BY <1>1 DEF SendRequest, SendWithoutResponse
    <2>2. NewFuture(c, "sent") \/ NewFuture(c, "none")
      BY <1>1 DEF SendRequest, SendWithoutResponse
    <2>3. IdsAreDrawn' /\ QueuedOnce' /\ AnsweredOnce'
      BY <2>1, QueuesWhenSent
    <2>4. OutstandingIsExact'
      BY <2>1, CountWhenAccepted
    <2>5. FuturesAreAccepted' /\ UnexpectedIsExplained'
      BY <2>1, <2>2, FutureWhenSent
    <2>6. OnlyAcceptedIsSeen'
      <3>1. Elements(requestQueue)' = Elements(requestQueue) \union {request}
        <4>1. requestQueue \in Seq(Requests) /\ request \in Requests
          BY <2>1, NextRequestIsNew DEF IInv, TypeOK
        <4> QED BY <2>1, <4>1, ElementsOfAppend DEF Elements
      <3> QED BY <2>1, <3>1 DEF IInv, OnlyAcceptedIsSeen
    <2> QED BY <1>0, <2>3, <2>4, <2>5, <2>6 DEF IInv
  <1>2. CASE SendRequestFailsLate(c)
    <2>1. /\ ReadyToSend(c) /\ DrawRequestId(c) /\ NewFuture(c, "error")
          /\ requestQueue' = Append(requestQueue, request)
          /\ disturbed' = disturbed \union {c}
          /\ UNCHANGED <<outstanding, replyQueue, serving, accepted, started, delivered>>
      BY <1>2 DEF SendRequestFailsLate
    <2>2. IdsAreDrawn' /\ QueuedOnce' /\ AnsweredOnce'
      BY <2>1, QueuesWhenSent
    <2>3. OutstandingIsExact'
      BY <2>1 DEF IInv, OutstandingIsExact, Unanswered
    <2>4. FuturesAreAccepted' /\ UnexpectedIsExplained'
      BY <2>1, FutureWhenSent
    <2>5. OnlyAcceptedIsSeen'
      <3>1. Elements(requestQueue)' = Elements(requestQueue) \union {request}
        <4>1. requestQueue \in Seq(Requests) /\ request \in Requests
          BY <2>1, NextRequestIsNew DEF IInv, TypeOK
        <4> QED BY <2>1, <4>1, ElementsOfAppend DEF Elements
      <3> QED BY <2>1, <3>1 DEF IInv, OnlyAcceptedIsSeen
    <2> QED BY <1>0, <2>2, <2>3, <2>4, <2>5 DEF IInv
  <1>3. CASE SendRequestFails(c) \/ SendRequestTooLarge(c)
    <2>1. /\ ReadyToSend(c) /\ DrawRequestId(c) /\ NewFuture(c, "error")
          /\ UNCHANGED <<requestQueue, outstanding, replyQueue, serving, accepted,
                         started, delivered, disturbed>>
      BY <1>3 DEF SendRequestFails, SendRequestTooLarge, history
    <2>2. /\ UNCHANGED Elements(requestQueue)
          /\ QueuedOnce' /\ AnsweredOnce'
          /\ \A d \in Clients : UNCHANGED Unanswered(d)
      BY <2>1, NothingMoves
    <2>3. IdsAreDrawn'
      <3>1. started \union accepted \union Elements(requestQueue) \subseteq Requests
        BY DEF IInv, TypeOK, Elements
      <3> QED BY <2>1, <2>2, <3>1, DrawingKeepsIdsDrawn DEF IInv, IdsAreDrawn
    <2>4. OutstandingIsExact' /\ OnlyAcceptedIsSeen'
      BY <2>1, <2>2 DEF IInv, OutstandingIsExact, OnlyAcceptedIsSeen
    <2>5. FuturesAreAccepted' /\ UnexpectedIsExplained'
      BY <2>1, FutureWhenSent
    <2> QED BY <1>0, <2>2, <2>3, <2>4, <2>5 DEF IInv
  <1> QED BY <1>1, <1>2, <1>3 DEF ClientSends
-----------------------------------------------------------------------------
(***************************************************************************)
(* The inductive invariant: waiting                                        *)
(***************************************************************************)
\* A reply list that only gets shorter keeps every response single.
LEMMA RepliesWhenShortened ==
    ASSUME IInv, NEW c \in Clients,
           NEW queue \in Seq(1..MaxRequests),
           Distinct(queue), Elements(queue) \subseteq Elements(replyQueue[c]),
           replyQueue' = [replyQueue EXCEPT ![c] = queue],
           UNCHANGED <<serving, started, delivered>>
    PROVE  AnsweredOnce'
  <1>1. \A d \in Clients : /\ Distinct(replyQueue'[d])
                           /\ Elements(replyQueue'[d]) \subseteq Elements(replyQueue[d])
    BY DEF IInv, TypeOK, AnsweredOnce
  <1>2. \A s \in Servers : serving[s] # None => serving[s][1] \in Clients
    BY DEF IInv, TypeOK, Requests
  <1>3. \A d \in Clients : Elements(replyQueue[d])' = Elements(replyQueue'[d])
    BY DEF Elements
  <1>4. \A d \in Clients : Distinct(replyQueue[d])' = Distinct(replyQueue'[d])
    BY DEF Distinct
  <1> QED BY <1>1, <1>2, <1>3, <1>4 DEF IInv, AnsweredOnce

\* A pop shortens a reply list.
LEMMA RepliesWhenPopped ==
    ASSUME IInv, NEW c \in Clients, replyQueue[c] # <<>>,
           replyQueue' = [replyQueue EXCEPT ![c] = Tail(@)],
           UNCHANGED <<serving, started, delivered>>
    PROVE  AnsweredOnce'
  <1> DEFINE queue == Tail(replyQueue[c])
  <1>1. replyQueue[c] \in Seq(1..MaxRequests) /\ Distinct(replyQueue[c])
    BY DEF IInv, TypeOK, AnsweredOnce
  <1>2. /\ queue \in Seq(1..MaxRequests)
        /\ Distinct(queue)
        /\ Elements(queue) \subseteq Elements(replyQueue[c])
    BY <1>1, ElementsOfTail, DistinctTail
  <1>3. replyQueue' = [replyQueue EXCEPT ![c] = queue]
    OBVIOUS
  <1> HIDE DEF queue
  <1> QED BY <1>2, <1>3, RepliesWhenShortened

\* A response that reaches the caller: one request fewer is unanswered.
LEMMA InvReceiveResponse ==
    ASSUME IInv, NEW c \in Clients, ReceiveResponse(c)
    PROVE  IInv'
  <1> DEFINE id == Head(replyQueue[c])
             rest == Tail(replyQueue[c])
  <1>0. TypeOK'
    BY TypeClientWaits DEF IInv, ClientWaits
  <1>1. /\ replyQueue[c] # <<>> /\ outstanding[c] > 0
        /\ replyQueue' = [replyQueue EXCEPT ![c] = rest]
        /\ outstanding' = [outstanding EXCEPT ![c] = @ - 1]
        /\ delivered' = delivered \union {<<c, id>>}
        /\ UNCHANGED <<requestQueue, nextRequestId, status, expected, serving,
                       accepted, started, disturbed>>
    BY DEF ReceiveResponse, IsBlocked
  <1>2. replyQueue[c] \in Seq(1..MaxRequests) /\ Distinct(replyQueue[c])
    BY DEF IInv, TypeOK, AnsweredOnce
  <1>3. /\ id \in 1..MaxRequests
        /\ id \in Elements(replyQueue[c])
        /\ id \notin Elements(rest)
        /\ Elements(rest) \subseteq Elements(replyQueue[c])
        /\ Distinct(rest)
    BY <1>1, <1>2, ElementsOfTail, DistinctTail
  <1>4. <<c, id>> \in started \ delivered
    BY <1>3 DEF IInv, AnsweredOnce
  <1>5. AnsweredOnce'
    <2>1. \A d \in Clients : replyQueue'[d] = IF d = c THEN rest ELSE replyQueue[d]
      BY <1>1 DEF IInv, TypeOK
    <2>2. \A d \in Clients : Distinct(replyQueue'[d])
      BY <2>1, <1>3 DEF IInv, AnsweredOnce
    <2>3. \A d \in Clients : Elements(replyQueue'[d]) \subseteq Elements(replyQueue[d])
      BY <2>1, <1>3
    <2>4. \A d \in Clients : \A i \in Elements(replyQueue'[d]) :
              <<d, i>> \in started \ delivered'
      <3> SUFFICES ASSUME NEW d \in Clients, NEW i \in Elements(replyQueue'[d])
                   PROVE  <<d, i>> \in started \ delivered'
        OBVIOUS
      <3>1. <<d, i>> \in started \ delivered
        BY <2>3 DEF IInv, AnsweredOnce
      <3>2. <<d, i>> # <<c, id>>
        BY <2>1, <1>3
      <3> QED BY <1>1, <3>1, <3>2
    <2>5. ASSUME NEW s \in Servers, serving[s] # None
          PROVE  /\ serving[s] \in started \ delivered'
                 /\ serving[s][2] \notin Elements(replyQueue'[serving[s][1]])
                 /\ \A t \in Servers : serving[t] = serving[s] => t = s
      <3>1. /\ serving[s] \in started \ delivered
            /\ serving[s][2] \notin Elements(replyQueue[serving[s][1]])
            /\ \A t \in Servers : serving[t] = serving[s] => t = s
        BY <2>5 DEF IInv, AnsweredOnce
      <3>2. serving[s] # <<c, id>>
        BY <1>3, <3>1
      <3>3. serving[s][1] \in Clients
        BY <2>5 DEF IInv, TypeOK, Requests
      <3> QED BY <1>1, <2>3, <3>1, <3>2, <3>3
    <2>6. \A d \in Clients : /\ Elements(replyQueue[d])' = Elements(replyQueue'[d])
                             /\ Distinct(replyQueue[d])' = Distinct(replyQueue'[d])
      BY DEF Elements, Distinct
    <2>7. \A s \in Servers : serving[s] # None => serving[s][1] \in Clients
      BY DEF IInv, TypeOK, Requests
    <2>8. delivered' \subseteq started
      BY <1>1, <1>4 DEF IInv, AnsweredOnce
    <2> QED BY <1>1, <2>2, <2>4, <2>5, <2>6, <2>7, <2>8 DEF AnsweredOnce
  <1>6. OutstandingIsExact'
    <2> SUFFICES ASSUME NEW d \in Clients, d \notin disturbed
                 PROVE  outstanding'[d] = Cardinality(Unanswered(d)')
      BY <1>1 DEF OutstandingIsExact
    <2>1. outstanding[d] = Cardinality(Unanswered(d)) /\ outstanding[d] \in Nat
      BY DEF IInv, TypeOK, OutstandingIsExact
    <2>2. CASE d = c
      <3>1. <<c, id>> \in accepted
        BY <2>2, <1>4 DEF IInv, OnlyAcceptedIsSeen
      <3>2. id \in Unanswered(c)
        BY <1>3, <1>4, <3>1 DEF Unanswered
      <3>3. Unanswered(c)' = Unanswered(c) \ {id}
        BY <1>1, <1>3 DEF Unanswered
      <3>4. Cardinality(Unanswered(c)') = Cardinality(Unanswered(c)) - 1
        BY <3>2, <3>3, UnansweredIsFinite, FS_RemoveElement
      <3>5. outstanding'[c] = outstanding[c] - 1
        BY <1>1 DEF IInv, TypeOK
      <3> QED BY <2>1, <2>2, <3>4, <3>5
    <2>3. CASE d # c
      <3>1. Unanswered(d)' = Unanswered(d)
        BY <1>1, <2>3 DEF Unanswered
      <3>2. outstanding'[d] = outstanding[d]
        BY <1>1, <2>3 DEF IInv, TypeOK
      <3> QED BY <2>1, <3>1, <3>2
    <2> QED BY <2>2, <2>3
  <1>7. IdsAreDrawn' /\ QueuedOnce' /\ FuturesAreAccepted' /\ OnlyAcceptedIsSeen'
    BY <1>1 DEF IInv, IdsAreDrawn, QueuedOnce, FuturesAreAccepted,
                OnlyAcceptedIsSeen, Distinct, Elements
  <1>8. UnexpectedIsExplained'
    BY <1>1 DEF IInv, UnexpectedIsExplained
  <1> QED BY <1>0, <1>5, <1>6, <1>7, <1>8 DEF IInv

\* A timeout resets the counter only for a client it marks as disturbed.
LEMMA InvTimeout ==
    ASSUME IInv, NEW c \in Clients, ReceiveTimesOut(c) \/ ReceiveExpiredResponse(c)
    PROVE  IInv'
  <1>0. TypeOK'
    BY TypeClientWaits DEF IInv, ClientWaits
  <1>1. /\ status[c] = "waiting" /\ RaiseTimeout(c)
        /\ UNCHANGED <<requestQueue, nextRequestId, expected, serving, accepted,
                       started, delivered>>
    BY DEF ReceiveTimesOut, ReceiveExpiredResponse, IsBlocked
  <1>2. AnsweredOnce'
    <2>1. CASE ReceiveTimesOut(c)
      BY <2>1, NothingMoves DEF ReceiveTimesOut
    <2>2. CASE ReceiveExpiredResponse(c)
      BY <2>2, RepliesWhenPopped DEF ReceiveExpiredResponse
    <2> QED BY <2>1, <2>2
  <1>3. IdsAreDrawn' /\ QueuedOnce'
    BY <1>1 DEF IInv, IdsAreDrawn, QueuedOnce, Distinct, Elements
  <1>4. OnlyAcceptedIsSeen'
    BY <1>1 DEF IInv, OnlyAcceptedIsSeen, RaiseTimeout, Elements
  <1>5. OutstandingIsExact'
    <2> SUFFICES ASSUME NEW d \in Clients, d \notin disturbed'
                 PROVE  outstanding'[d] = Cardinality(Unanswered(d)')
      BY DEF OutstandingIsExact
    <2>1. d \notin disturbed /\ outstanding'[d] = outstanding[d]
      BY <1>1 DEF RaiseTimeout, IInv, TypeOK
    <2>2. Unanswered(d)' = Unanswered(d)
      BY <1>1 DEF Unanswered
    <2> QED BY <2>1, <2>2 DEF IInv, OutstandingIsExact
  <1>6. FuturesAreAccepted' /\ UnexpectedIsExplained'
    BY <1>1 DEF RaiseTimeout, IInv, TypeOK, FuturesAreAccepted, UnexpectedIsExplained
  <1> QED BY <1>0, <1>2, <1>3, <1>4, <1>5, <1>6 DEF IInv

\* A receive that raises leaves the counter alone.
LEMMA InvReceiveFails ==
    ASSUME IInv, NEW c \in Clients, ReceiveFails(c)
    PROVE  IInv'
  <1>0. TypeOK'
    BY TypeClientWaits DEF IInv, ClientWaits
  <1>1. /\ status' = [status EXCEPT ![c] = "error"]
        /\ UNCHANGED <<requestQueue, nextRequestId, outstanding, expected, serving,
                       accepted, started, delivered, disturbed>>
    BY DEF ReceiveFails, history
  <1>2. AnsweredOnce'
    BY NothingMoves, RepliesWhenPopped, <1>1 DEF ReceiveFails
  <1>3. IdsAreDrawn' /\ QueuedOnce' /\ OnlyAcceptedIsSeen'
    BY <1>1 DEF IInv, IdsAreDrawn, QueuedOnce, OnlyAcceptedIsSeen, Distinct, Elements
  <1>4. OutstandingIsExact'
    BY <1>1 DEF IInv, OutstandingIsExact, Unanswered
  <1>5. FuturesAreAccepted' /\ UnexpectedIsExplained'
    BY <1>1 DEF IInv, TypeOK, FuturesAreAccepted, UnexpectedIsExplained
  <1> QED BY <1>0, <1>2, <1>3, <1>4, <1>5 DEF IInv

\* Starting and ending result() moves no message.  When it ends with nothing
\* outstanding, an undisturbed client has received every response it was owed.
LEMMA InvBeginFinish ==
    ASSUME IInv, NEW c \in Clients, BeginResult(c) \/ FinishResult(c)
    PROVE  IInv'
  <1>0. TypeOK'
    BY TypeClientWaits DEF IInv, ClientWaits
  <1>1. UNCHANGED <<requestQueue, replyQueue, nextRequestId, outstanding, expected,
                    serving, accepted, started, delivered, disturbed>>
    BY DEF BeginResult, FinishResult, history
  <1>2. /\ UNCHANGED Elements(requestQueue)
        /\ QueuedOnce' /\ AnsweredOnce'
        /\ \A d \in Clients : UNCHANGED Unanswered(d)
    BY <1>1, NothingMoves
  <1>3. IdsAreDrawn' /\ OnlyAcceptedIsSeen' /\ OutstandingIsExact'
    BY <1>1, <1>2 DEF IInv, IdsAreDrawn, OnlyAcceptedIsSeen, OutstandingIsExact
  <1>4. FuturesAreAccepted'
    BY <1>1 DEF IInv, TypeOK, FuturesAreAccepted, BeginResult, FinishResult
  <1>5. UnexpectedIsExplained'
    <2>1. CASE BeginResult(c)
      BY <1>1, <2>1 DEF IInv, TypeOK, UnexpectedIsExplained, BeginResult
    <2>2. CASE FinishResult(c)
      <3>1. c \in disturbed \/ <<c, expected[c]>> \in delivered
        <4> SUFFICES ASSUME c \notin disturbed PROVE <<c, expected[c]>> \in delivered
          OBVIOUS
        <4>1. outstanding[c] = 0
          BY <2>2 DEF FinishResult, IInv, TypeOK
        <4>2. Unanswered(c) = {}
          BY <4>1, UnansweredIsFinite, FS_EmptySet DEF IInv, OutstandingIsExact
        <4>3. <<c, expected[c]>> \in accepted
          BY <2>2 DEF FinishResult, IInv, FuturesAreAccepted
        <4>4. expected[c] \in 1..MaxRequests
          BY <4>3 DEF IInv, TypeOK, Requests
        <4> QED BY <4>2, <4>3, <4>4 DEF Unanswered
      <3>2. \A d \in Clients : d # c => status'[d] = status[d]
        BY <2>2 DEF FinishResult, IInv, TypeOK
      <3> QED BY <1>1, <3>1, <3>2 DEF IInv, UnexpectedIsExplained
    <2> QED BY <2>1, <2>2
  <1> QED BY <1>0, <1>2, <1>3, <1>4, <1>5 DEF IInv
-----------------------------------------------------------------------------
(***************************************************************************)
(* The inductive invariant: serving                                        *)
(***************************************************************************)
\* What no server or list step touches.
LEMMA ClientsKeepTheirs ==
    ASSUME IInv,
           UNCHANGED <<clientVars, accepted, delivered, disturbed>>
    PROVE  FuturesAreAccepted' /\ UnexpectedIsExplained' /\ OutstandingIsExact'
  BY DEF IInv, FuturesAreAccepted, UnexpectedIsExplained, OutstandingIsExact,
         Unanswered, clientVars

\* Taking the oldest request: it was waiting once, so nobody ever took it.
LEMMA InvReceiveRequest ==
    ASSUME IInv, NEW s \in Servers, ReceiveRequest(s)
    PROVE  IInv'
  <1> DEFINE request == Head(requestQueue)
             rest == Tail(requestQueue)
  <1>0. TypeOK'
    BY TypeServers DEF IInv, ServerWorks
  <1>1. /\ serving[s] = None /\ requestQueue # <<>>
        /\ serving' = [serving EXCEPT ![s] = request]
        /\ requestQueue' = rest
        /\ started' = started \union {request}
        /\ UNCHANGED <<replyQueue, clientVars, accepted, delivered, disturbed>>
    BY DEF ReceiveRequest
  <1>2. requestQueue \in Seq(Requests) /\ Distinct(requestQueue)
    BY DEF IInv, TypeOK, QueuedOnce
  <1>3. /\ request \in Requests
        /\ request \in Elements(requestQueue)
        /\ request \notin Elements(rest)
        /\ Elements(rest) \subseteq Elements(requestQueue)
        /\ Distinct(rest)
    BY <1>1, <1>2, ElementsOfTail, DistinctTail
  <1>4. request \notin started
    BY <1>3 DEF IInv, QueuedOnce
  <1>5. Elements(requestQueue)' = Elements(rest) /\ Distinct(requestQueue)' = Distinct(rest)
    BY <1>1 DEF Elements, Distinct
  <1>6. IdsAreDrawn'
    BY <1>1, <1>3, <1>5 DEF IInv, IdsAreDrawn, clientVars
  <1>7. QueuedOnce'
    BY <1>1, <1>3, <1>5 DEF IInv, QueuedOnce
  <1>8. OnlyAcceptedIsSeen'
    BY <1>1, <1>3, <1>5 DEF IInv, OnlyAcceptedIsSeen
  <1>9. AnsweredOnce'
    <2>1. \A t \in Servers : serving'[t] = IF t = s THEN request ELSE serving[t]
      BY <1>1 DEF IInv, TypeOK
    <2>2. \A t \in Servers : serving[t] # request
      <3>1. request # None
        BY <1>3, GatewayAssumption DEF Requests
      <3> QED BY <1>4, <3>1 DEF IInv, AnsweredOnce
    <2>3. request \notin delivered /\ request[1] \in Clients
          /\ request = <<request[1], request[2]>>
      BY <1>3, <1>4 DEF IInv, AnsweredOnce, Requests
    <2>4. request[2] \notin Elements(replyQueue[request[1]])
      BY <1>4, <2>3 DEF IInv, AnsweredOnce
    <2>5. \A c \in Clients : /\ Distinct(replyQueue'[c])
                             /\ \A i \in Elements(replyQueue'[c]) : <<c, i>> \in started' \ delivered'
      BY <1>1 DEF IInv, AnsweredOnce
    <2>6. ASSUME NEW t \in Servers, serving'[t] # None
          PROVE  /\ serving'[t] \in started' \ delivered
                 /\ serving'[t][2] \notin Elements(replyQueue'[serving'[t][1]])
                 /\ \A u \in Servers : serving'[u] = serving'[t] => u = t
      <3>1. CASE t = s
        BY <1>1, <2>1, <2>2, <2>3, <2>4, <3>1
      <3>2. CASE t # s
        <4>1. /\ serving[t] # None /\ serving'[t] = serving[t]
          BY <2>1, <2>6, <3>2
        <4> QED BY <1>1, <2>1, <2>2, <4>1 DEF IInv, AnsweredOnce
      <3> QED BY <3>1, <3>2
    <2>7. delivered' \subseteq started'
      BY <1>1 DEF IInv, AnsweredOnce
    <2>8. \A c : /\ Elements(replyQueue[c])' = Elements(replyQueue'[c])
                 /\ Distinct(replyQueue[c])' = Distinct(replyQueue'[c])
      BY DEF Elements, Distinct
    <2>9. UNCHANGED delivered
      BY <1>1
    <2> QED BY <2>5, <2>6, <2>7, <2>8, <2>9 DEF AnsweredOnce
  <1>10. FuturesAreAccepted' /\ UnexpectedIsExplained' /\ OutstandingIsExact'
    BY <1>1, ClientsKeepTheirs
  <1> QED BY <1>0, <1>6, <1>7, <1>8, <1>9, <1>10 DEF IInv

\* Answering hands the request over from the server to its client's list.
LEMMA RepliesWhenAnswered ==
    ASSUME IInv, NEW s \in Servers, serving[s] # None,
           serving' = [serving EXCEPT ![s] = None],
           replyQueue' = [replyQueue EXCEPT
                ![serving[s][1]] = Append(@, serving[s][2])],
           UNCHANGED <<started, delivered>>
    PROVE  AnsweredOnce'
  <1> DEFINE c == serving[s][1]
             id == serving[s][2]
             longer == Append(replyQueue[c], id)
  <1>1. /\ c \in Clients /\ id \in 1..MaxRequests
        /\ serving[s] = <<c, id>>
    BY DEF IInv, TypeOK, Requests
  <1>2. replyQueue[c] \in Seq(1..MaxRequests) /\ Distinct(replyQueue[c])
    BY <1>1 DEF IInv, TypeOK, AnsweredOnce
  <1>3. id \notin Elements(replyQueue[c]) /\ <<c, id>> \in started \ delivered
    BY <1>1 DEF IInv, AnsweredOnce
  <1>4. Elements(longer) = Elements(replyQueue[c]) \union {id} /\ Distinct(longer)
    <2> DEFINE S == 1..MaxRequests
    <2>0. id \in S /\ replyQueue[c] \in Seq(S)
      BY <1>1, <1>2
    <2> HIDE DEF c, id, S
    <2>1. Elements(longer) = Elements(replyQueue[c]) \union {id}
      BY <2>0, ElementsOfAppend
    <2>2. Distinct(longer)
      BY <2>0, <1>2, <1>3, DistinctAppend
    <2> QED BY <2>1, <2>2
  <1>5. \A d \in Clients : replyQueue'[d] = IF d = c THEN longer ELSE replyQueue[d]
    BY <1>1 DEF IInv, TypeOK
  <1>6. \A d \in Clients : /\ Elements(replyQueue[d])' = Elements(replyQueue'[d])
                           /\ Distinct(replyQueue[d])' = Distinct(replyQueue'[d])
    BY DEF Elements, Distinct
  <1> HIDE DEF longer
  <1>7. \A d \in Clients : /\ Distinct(replyQueue'[d])
                           /\ \A i \in Elements(replyQueue'[d]) : <<d, i>> \in started \ delivered
    BY <1>3, <1>4, <1>5 DEF IInv, AnsweredOnce
  <1>8. ASSUME NEW t \in Servers, serving'[t] # None
        PROVE  /\ serving'[t] \in started \ delivered
               /\ serving'[t][1] \in Clients
               /\ serving'[t][2] \notin Elements(replyQueue'[serving'[t][1]])
               /\ \A u \in Servers : serving'[u] = serving'[t] => u = t
    <2>1. t # s /\ serving'[t] = serving[t] /\ serving[t] # None
      BY <1>8 DEF IInv, TypeOK
    <2>2. /\ serving[t] \in started \ delivered
          /\ serving[t][2] \notin Elements(replyQueue[serving[t][1]])
          /\ \A u \in Servers : serving[u] = serving[t] => u = t
      BY <2>1 DEF IInv, AnsweredOnce
    <2>3. serving[t][1] \in Clients /\ serving[t] = <<serving[t][1], serving[t][2]>>
      BY <2>1 DEF IInv, TypeOK, Requests
    <2>4. serving[t] # <<c, id>>
      BY <1>1, <2>1, <2>2
    <2>5. serving[t][2] \notin Elements(replyQueue'[serving[t][1]])
      BY <1>4, <1>5, <2>2, <2>3, <2>4
    <2>6. \A u \in Servers : serving'[u] = IF u = s THEN None ELSE serving[u]
      BY DEF IInv, TypeOK
    <2> QED BY <1>8, <2>1, <2>2, <2>3, <2>5, <2>6
  <1> QED BY <1>6, <1>7, <1>8 DEF IInv, AnsweredOnce

\* A server that lets go of its request leaves everything else as it was.
LEMMA RepliesWhenDropped ==
    ASSUME IInv, NEW s \in Servers,
           serving' = [serving EXCEPT ![s] = None],
           UNCHANGED <<replyQueue, started, delivered>>
    PROVE  AnsweredOnce'
  <1>1. \A t \in Servers : serving'[t] = IF t = s THEN None ELSE serving[t]
    BY DEF IInv, TypeOK
  <1>2. ASSUME NEW t \in Servers, serving'[t] # None
        PROVE  /\ serving'[t] \in started \ delivered
               /\ serving'[t][2] \notin Elements(replyQueue[serving'[t][1]])
               /\ \A u \in Servers : serving'[u] = serving'[t] => u = t
    BY <1>1, <1>2 DEF IInv, AnsweredOnce
  <1>3. \A c \in Clients : /\ Distinct(replyQueue[c])'
                           /\ \A i \in Elements(replyQueue[c])' : <<c, i>> \in started \ delivered
    BY DEF IInv, AnsweredOnce, Distinct, Elements
  <1> QED BY <1>2, <1>3 DEF IInv, AnsweredOnce, Elements

\* Every other step of a server.
LEMMA InvServers ==
    ASSUME IInv, NEW s \in Servers, ServerWorks(s) \/ Crash(s)
    PROVE  IInv'
  <1>0. TypeOK'
    BY TypeServers DEF IInv
  <1>1. CASE ReceiveRequest(s)
    BY <1>1, InvReceiveRequest
  <1>2. CASE LoseRequest(s)
    <2>1. /\ requestQueue # <<>> /\ requestQueue' = Tail(requestQueue)
          /\ UNCHANGED <<replyQueue, clientVars, serving, accepted, started,
                         delivered, disturbed>>
      BY <1>2 DEF LoseRequest, history
    <2>2. /\ Distinct(Tail(requestQueue))
          /\ Elements(Tail(requestQueue)) \subseteq Elements(requestQueue)
      BY <2>1, ElementsOfTail, DistinctTail DEF IInv, TypeOK, QueuedOnce
    <2>3. /\ Elements(requestQueue)' = Elements(Tail(requestQueue))
          /\ Distinct(requestQueue)' = Distinct(Tail(requestQueue))
      BY <2>1 DEF Elements, Distinct
    <2>4. IdsAreDrawn' /\ QueuedOnce' /\ OnlyAcceptedIsSeen'
      BY <2>1, <2>2, <2>3 DEF IInv, IdsAreDrawn, QueuedOnce, OnlyAcceptedIsSeen, clientVars
    <2>5. AnsweredOnce'
      BY <2>1 DEF IInv, AnsweredOnce, Distinct, Elements
    <2> QED BY <1>0, <2>1, <2>4, <2>5, ClientsKeepTheirs DEF IInv
  <1>3. CASE SendResponse(s) \/ SendResponseFails(s) \/ SuppressResponse(s) \/ Crash(s)
    <2>1. /\ serving[s] # None
          /\ serving' = [serving EXCEPT ![s] = None]
          /\ UNCHANGED <<requestQueue, clientVars, accepted, started, delivered, disturbed>>
      BY <1>3 DEF SendResponse, SendResponseFails, SuppressResponse, Crash, history
    <2>2. \/ UNCHANGED replyQueue
          \/ replyQueue' = [replyQueue EXCEPT ![serving[s][1]] = Append(@, serving[s][2])]
      BY <1>3 DEF SendResponse, SendResponseFails, SuppressResponse, Crash
    <2>3. AnsweredOnce'
      BY <2>1, <2>2, RepliesWhenAnswered, RepliesWhenDropped
    <2>4. IdsAreDrawn' /\ QueuedOnce' /\ OnlyAcceptedIsSeen'
      BY <2>1 DEF IInv, IdsAreDrawn, QueuedOnce, OnlyAcceptedIsSeen, clientVars,
                  Distinct, Elements
    <2> QED BY <1>0, <2>1, <2>3, <2>4, ClientsKeepTheirs DEF IInv
  <1> QED BY <1>1, <1>2, <1>3 DEF ServerWorks

\* Redis drops a list.
LEMMA InvExpiry ==
    ASSUME IInv, RequestQueueExpires \/ \E c \in Clients : ReplyQueueExpires(c)
    PROVE  IInv'
  <1>0. TypeOK'
    BY TypeStep DEF IInv, Next
  <1>1. CASE RequestQueueExpires
    <2>1. /\ requestQueue' = <<>>
          /\ UNCHANGED <<replyQueue, clientVars, serving, accepted, started,
                         delivered, disturbed>>
      BY <1>1 DEF RequestQueueExpires, history
    <2>2. Elements(requestQueue)' = {} /\ Distinct(requestQueue)'
      BY <2>1 DEF Elements, Distinct
    <2>3. IdsAreDrawn' /\ QueuedOnce' /\ OnlyAcceptedIsSeen'
      BY <2>1, <2>2 DEF IInv, IdsAreDrawn, QueuedOnce, OnlyAcceptedIsSeen, clientVars
    <2>4. AnsweredOnce'
      BY <2>1 DEF IInv, AnsweredOnce, Distinct, Elements
    <2> QED BY <1>0, <2>1, <2>3, <2>4, ClientsKeepTheirs DEF IInv
  <1>2. ASSUME NEW c \in Clients, ReplyQueueExpires(c)
        PROVE  IInv'
    <2>1. /\ replyQueue' = [replyQueue EXCEPT ![c] = <<>>]
          /\ UNCHANGED <<requestQueue, clientVars, serving, accepted, started,
                         delivered, disturbed>>
      BY <1>2 DEF ReplyQueueExpires, history
    <2>2. IdsAreDrawn' /\ QueuedOnce' /\ OnlyAcceptedIsSeen'
      BY <2>1 DEF IInv, IdsAreDrawn, QueuedOnce, OnlyAcceptedIsSeen, clientVars,
                  Distinct, Elements
    <2>3. AnsweredOnce'
      BY <2>1, EmptyQueue, RepliesWhenShortened, <<>> \in Seq(1..MaxRequests)
    <2> QED BY <1>0, <2>1, <2>2, <2>3, ClientsKeepTheirs DEF IInv
  <1> QED BY <1>1, <1>2
-----------------------------------------------------------------------------
\* The inductive invariant holds initially.
LEMMA InvInit == Init => IInv
  <1> SUFFICES ASSUME Init PROVE IInv
    OBVIOUS
  <1>1. TypeOK
    BY TypeInit
  <1>2. Elements(requestQueue) = {} /\ Distinct(requestQueue)
    BY EmptyQueue DEF Init
  <1>3. \A c \in Clients : Elements(replyQueue[c]) = {} /\ Distinct(replyQueue[c])
    BY EmptyQueue DEF Init
  <1>4. OutstandingIsExact
    BY FS_EmptySet DEF Init, OutstandingIsExact, Unanswered
  <1>5. AnsweredOnce
    BY <1>3 DEF Init, AnsweredOnce
  <1>6. IdsAreDrawn /\ QueuedOnce /\ OnlyAcceptedIsSeen
    BY <1>2 DEF Init, IdsAreDrawn, QueuedOnce, OnlyAcceptedIsSeen
  <1>7. FuturesAreAccepted /\ UnexpectedIsExplained
    BY DEF Init, FuturesAreAccepted, UnexpectedIsExplained
  <1> QED BY <1>1, <1>4, <1>5, <1>6, <1>7 DEF IInv

\* Every step of the gateway preserves the inductive invariant.
LEMMA InvStep == IInv /\ [Next]_vars => IInv'
  <1> SUFFICES ASSUME IInv, [Next]_vars PROVE IInv'
    OBVIOUS
  <1>1. ASSUME NEW c \in Clients, ClientSends(c) PROVE IInv'
    BY <1>1, InvClientSends
  <1>2. ASSUME NEW c \in Clients, BeginResult(c) \/ ClientWaits(c) PROVE IInv'
    BY <1>2, InvReceiveResponse, InvTimeout, InvReceiveFails, InvBeginFinish DEF ClientWaits
  <1>3. ASSUME NEW s \in Servers, ServerWorks(s) \/ Crash(s) PROVE IInv'
    BY <1>3, InvServers
  <1>4. CASE RequestQueueExpires \/ \E c \in Clients : ReplyQueueExpires(c)
    BY <1>4, InvExpiry
  <1>5. CASE UNCHANGED vars
    BY <1>5 DEF vars, IInv, TypeOK, IdsAreDrawn, QueuedOnce, AnsweredOnce,
                FuturesAreAccepted, OnlyAcceptedIsSeen, OutstandingIsExact,
                UnexpectedIsExplained, Distinct, Elements, Unanswered
  <1> QED BY <1>1, <1>2, <1>3, <1>4, <1>5 DEF Next

\* The strengthening that the theorems below read their facts from.
THEOREM Inductive == Spec => []IInv
  BY InvInit, InvStep, PTL DEF Spec

\* RedisClientTransport._requests_outstanding counts exactly the requests sent
\* and not yet answered, except at clients that a Redis error left guessing.
THEOREM CounterIsExact == Spec => []OutstandingIsExact
  <1>1. IInv => OutstandingIsExact
    BY DEF IInv
  <1> QED BY <1>1, Inductive, PTL

\* "Got unexpected response(s)" (call_actions_future) is raised only after such
\* an error, or for a response that an earlier result() lost to a timeout.
THEOREM UnexpectedExplained == Spec => []UnexpectedIsExplained
  <1>1. IInv => UnexpectedIsExplained
    BY DEF IInv
  <1> QED BY <1>1, Inductive, PTL

\* Whatever may still reach an undisturbed client is counted: its
\* get_all_responses does not stop while a response is on its way.
THEOREM InFlightIsCounted == Spec => []NothingInFlightIsUncounted
  <1>1. IInv => NothingInFlightIsUncounted
    <2> SUFFICES ASSUME IInv, NEW c \in Clients, c \notin disturbed,
                        NEW i \in InFlight(c)
                 PROVE  i \in Unanswered(c)
      BY DEF NothingInFlightIsUncounted
    <2>1. i \in 1..MaxRequests
      BY DEF InFlight
    <2>2. \/ i \in Elements(replyQueue[c])
          \/ <<c, i>> \in Elements(requestQueue)
          \/ \E s \in Servers : serving[s] = <<c, i>>
      BY DEF InFlight
    <2>3. None # <<c, i>>
      BY <2>1, GatewayAssumption
    <2>4. <<c, i>> \in started \union Elements(requestQueue) /\ <<c, i>> \notin delivered
      BY <2>2, <2>3 DEF IInv, AnsweredOnce, QueuedOnce
    <2> QED BY <2>1, <2>4 DEF IInv, OnlyAcceptedIsSeen, Unanswered
  <1> QED BY <1>1, Inductive, PTL
-----------------------------------------------------------------------------
(***************************************************************************)
(* Refinement                                                              *)
(***************************************************************************)
Submitted == {r \in Requests : r[2] < nextRequestId[r[1]]}
Waiting == Elements(requestQueue)
Executing == {serving[s] : s \in Servers} \ {None}
Answered == {r \in Requests : r[2] \in Elements(replyQueue[r[1]])}

\* Popping a list without duplicates takes its head away and nothing else.
LEMMA ElementsOfDistinctTail ==
    ASSUME NEW S, NEW queue \in Seq(S), queue # <<>>, Distinct(queue)
    PROVE  Elements(Tail(queue)) = Elements(queue) \ {Head(queue)}
  <1>1. Elements(Tail(queue)) \subseteq Elements(queue) \ {Head(queue)}
    BY ElementsOfTail, DistinctTail
  <1>2. ASSUME NEW i \in 1..Len(queue), queue[i] # Head(queue)
        PROVE  queue[i] \in Elements(Tail(queue))
    <2>1. i # 1 /\ i - 1 \in 1..Len(Tail(queue)) /\ Tail(queue)[i - 1] = queue[i]
      BY <1>2
    <2> QED BY <2>1 DEF Elements
  <1> QED BY <1>1, <1>2 DEF Elements

\* The abstract actions, on the concrete state.
LEMMA AbstractActions ==
    /\ Rpc!Lose <=>
          /\ Waiting' \in SUBSET Waiting
          /\ Executing' \in SUBSET Executing
          /\ Answered' \in SUBSET Answered
          /\ UNCHANGED <<Submitted, delivered>>
    /\ \A r : Rpc!Submit(r) <=>
          /\ r \notin Submitted
          /\ Submitted' = Submitted \union {r}
          /\ Waiting' \in {Waiting, Waiting \union {r}}
          /\ UNCHANGED <<Executing, Answered, delivered>>
    /\ \A r : Rpc!Start(r) <=>
          /\ r \in Waiting
          /\ Waiting' = Waiting \ {r}
          /\ Executing' = Executing \union {r}
          /\ UNCHANGED <<Submitted, Answered, delivered>>
    /\ \A r : Rpc!Answer(r) <=>
          /\ r \in Executing
          /\ Executing' = Executing \ {r}
          /\ Answered' = Answered \union {r}
          /\ UNCHANGED <<Submitted, Waiting, delivered>>
    /\ \A r : Rpc!Deliver(r) <=>
          /\ r \in Answered
          /\ Answered' = Answered \ {r}
          /\ delivered' = delivered \union {r}
          /\ UNCHANGED <<Submitted, Waiting, Executing>>
  BY Zenon DEF Rpc!Lose, Rpc!Submit, Rpc!Start, Rpc!Answer, Rpc!Deliver,
               Submitted, Waiting, Executing, Answered

\* What does not touch a variable leaves its image alone.
LEMMA ImagesUnchanged ==
    /\ UNCHANGED nextRequestId => UNCHANGED Submitted
    /\ UNCHANGED requestQueue => UNCHANGED Waiting
    /\ UNCHANGED serving => UNCHANGED Executing
    /\ UNCHANGED replyQueue => UNCHANGED Answered
  BY DEF Submitted, Waiting, Executing, Answered, Elements

\* A pop of the request list.
LEMMA PopsRequest ==
    ASSUME IInv, requestQueue # <<>>, requestQueue' = Tail(requestQueue)
    PROVE  /\ Head(requestQueue) \in Waiting \intersect Requests
           /\ Waiting' = Waiting \ {Head(requestQueue)}
  <1>1. requestQueue \in Seq(Requests) /\ Distinct(requestQueue)
    BY DEF IInv, TypeOK, QueuedOnce
  <1>2. Waiting' = Elements(Tail(requestQueue))
    BY DEF Waiting, Elements
  <1> QED BY <1>1, <1>2, ElementsOfTail, ElementsOfDistinctTail DEF Waiting

\* A server is done with its request, however it ended.
LEMMA FreesServer ==
    ASSUME IInv, NEW s \in Servers, serving[s] # None,
           serving' = [serving EXCEPT ![s] = None]
    PROVE  serving[s] \in Executing /\ Executing' = Executing \ {serving[s]}
  <1>1. \A t \in Servers : serving'[t] = IF t = s THEN None ELSE serving[t]
    BY DEF IInv, TypeOK
  <1>2. \A t \in Servers : serving[t] = serving[s] => t = s
    BY DEF IInv, AnsweredOnce
  <1>3. Executing' = {serving'[t] : t \in Servers} \ {None}
    BY DEF Executing
  <1> QED BY <1>1, <1>2, <1>3, Zenon DEF Executing

\* A pop of a client's reply list.
LEMMA PopsResponse ==
    ASSUME IInv, NEW c \in Clients, replyQueue[c] # <<>>,
           replyQueue' = [replyQueue EXCEPT ![c] = Tail(@)]
    PROVE  LET r == <<c, Head(replyQueue[c])>> IN
           r \in Answered /\ Answered' = Answered \ {r}
  <1> DEFINE r == <<c, Head(replyQueue[c])>>
  <1>1. replyQueue[c] \in Seq(1..MaxRequests) /\ Distinct(replyQueue[c])
    BY DEF IInv, TypeOK, AnsweredOnce
  <1>2. /\ Head(replyQueue[c]) \in 1..MaxRequests
        /\ Head(replyQueue[c]) \in Elements(replyQueue[c])
    BY <1>1, ElementsOfTail
  <1>3. r \in Requests /\ r[1] = c /\ r[2] = Head(replyQueue[c])
    BY <1>2 DEF Requests
  <1>4. Elements(replyQueue'[c]) = Elements(replyQueue[c]) \ {Head(replyQueue[c])}
    <2>1. replyQueue'[c] = Tail(replyQueue[c])
      BY DEF IInv, TypeOK
    <2> QED BY <1>1, <2>1, ElementsOfDistinctTail
  <1>5. \A d \in Clients \ {c} : replyQueue'[d] = replyQueue[d]
    BY DEF IInv, TypeOK
  <1>6. Answered' = {q \in Requests : q[2] \in Elements(replyQueue'[q[1]])}
    BY Zenon DEF Answered, Elements
  <1>7. ASSUME NEW q \in Requests
        PROVE  q[2] \in Elements(replyQueue'[q[1]]) <=>
                  q[2] \in Elements(replyQueue[q[1]]) /\ q # r
    <2>1. q[1] \in Clients /\ q = <<q[1], q[2]>>
      BY DEF Requests
    <2>2. CASE q[1] = c
      BY <1>3, <1>4, <2>1, <2>2
    <2>3. CASE q[1] # c
      BY <1>3, <1>5, <2>1, <2>3
    <2> QED BY <2>2, <2>3
  <1> QED BY <1>2, <1>3, <1>6, <1>7 DEF Answered

\* A push of a response.
LEMMA PushesResponse ==
    ASSUME IInv, NEW s \in Servers, serving[s] # None,
           replyQueue' = [replyQueue EXCEPT
               ![serving[s][1]] = Append(@, serving[s][2])]
    PROVE  Answered' = Answered \union {serving[s]}
  <1>1. PICK c \in Clients, i \in 1..MaxRequests : serving[s] = <<c, i>>
    <2>1. serving[s] \in Requests
      BY DEF IInv, TypeOK
    <2>2. PICK c \in Clients, i \in 1..MaxRequests : serving[s] = <<c, i>>
      BY <2>1 DEF Requests
    <2> QED BY <2>2
  <1>2. replyQueue[c] \in Seq(1..MaxRequests) /\ <<c, i>> \in Requests
    BY <1>1 DEF IInv, TypeOK, Requests
  <1>3. Elements(replyQueue'[c]) = Elements(replyQueue[c]) \union {i}
    <2>1. replyQueue'[c] = Append(replyQueue[c], i)
      BY <1>1 DEF IInv, TypeOK
    <2>2. Elements(Append(replyQueue[c], i)) = Elements(replyQueue[c]) \union {i}
      <3>1. \A S : replyQueue[c] \in Seq(S) /\ i \in S =>
                Elements(Append(replyQueue[c], i)) = Elements(replyQueue[c]) \union {i}
        BY ElementsOfAppend
      <3>2. PICK S : S = 1..MaxRequests
        OBVIOUS
      <3>3. replyQueue[c] \in Seq(S) /\ i \in S
        BY <1>2, <3>2
      <3> QED BY <3>1, <3>3
    <2> QED BY <2>1, <2>2, Zenon
  <1>4. \A d \in Clients \ {c} : replyQueue'[d] = replyQueue[d]
    BY <1>1 DEF IInv, TypeOK
  <1>5. Answered' = {q \in Requests : q[2] \in Elements(replyQueue'[q[1]])}
    BY Zenon DEF Answered, Elements
  <1>6. ASSUME NEW q \in Requests
        PROVE  q[2] \in Elements(replyQueue'[q[1]]) <=>
                  q[2] \in Elements(replyQueue[q[1]]) \/ q = <<c, i>>
    <2>1. q[1] \in Clients /\ q = <<q[1], q[2]>>
      BY DEF Requests
    <2>2. CASE q[1] = c
      BY <1>3, <2>1, <2>2
    <2>3. CASE q[1] # c
      BY <1>4, <2>1, <2>3
    <2> QED BY <2>2, <2>3
  <1> QED BY <1>1, <1>2, <1>5, <1>6 DEF Answered

\* A send submits one new request to the abstract service.
LEMMA SendSubmits ==
    ASSUME IInv, NEW c \in Clients, ClientSends(c)
    PROVE  Rpc!Next
  <1>1. /\ ReadyToSend(c) /\ DrawRequestId(c)
        /\ UNCHANGED <<replyQueue, serving, delivered>>
    BY DEF ClientSends, SendRequest, SendWithoutResponse, SendRequestFails,
           SendRequestFailsLate, SendRequestTooLarge, history
  <1>2. PICK request \in Requests : request = <<c, nextRequestId[c]>>
    BY <1>1, NextRequestIsNew
  <1>3. request \notin Submitted
    <2>1. nextRequestId[c] \in Nat
      BY DEF IInv, TypeOK
    <2> QED BY <1>2, <2>1 DEF Submitted
  <1>4. Submitted' = Submitted \union {request}
    <2> SUFFICES ASSUME NEW r \in Requests
                 PROVE  r[2] < nextRequestId'[r[1]] <=> r \in Submitted \/ r = request
      BY <1>2 DEF Submitted
    <2>1. r[1] \in Clients /\ r[2] \in 1..MaxRequests /\ r = <<r[1], r[2]>>
      BY DEF Requests
    <2>2. nextRequestId[r[1]] \in 1..(MaxRequests + 1)
      BY <2>1 DEF IInv, TypeOK
    <2>3. nextRequestId'[r[1]] = IF r[1] = c THEN nextRequestId[c] + 1 ELSE nextRequestId[r[1]]
      BY <1>1, <2>1 DEF DrawRequestId, IInv, TypeOK
    <2>4. CASE r[1] = c
      BY <1>2, <2>1, <2>2, <2>3, <2>4 DEF Submitted
    <2>5. CASE r[1] # c
      BY <1>2, <2>1, <2>3, <2>5 DEF Submitted
    <2> QED BY <2>4, <2>5
  <1>5. Waiting' \in {Waiting, Waiting \union {request}}
    <2>1. UNCHANGED requestQueue \/ requestQueue' = Append(requestQueue, request)
      BY <1>2 DEF ClientSends, SendRequest, SendWithoutResponse, SendRequestFails,
                  SendRequestFailsLate, SendRequestTooLarge
    <2>2. CASE UNCHANGED requestQueue
      BY <2>2, ImagesUnchanged
    <2>3. CASE requestQueue' = Append(requestQueue, request)
      <3>1. Waiting' = Elements(Append(requestQueue, request))
        BY <2>3 DEF Waiting, Elements
      <3>2. requestQueue \in Seq(Requests)
        BY DEF IInv, TypeOK
      <3> QED BY <3>1, <3>2, ElementsOfAppend DEF Waiting
    <2> QED BY <2>1, <2>2, <2>3
  <1>6. Rpc!Submit(request)
    BY <1>1, <1>3, <1>4, <1>5, ImagesUnchanged, AbstractActions
  <1> QED BY <1>6 DEF Rpc!Next

\* A client in result() delivers a response, loses one, or changes nothing.
LEMMA WaitDelivers ==
    ASSUME IInv, NEW c \in Clients, BeginResult(c) \/ ClientWaits(c)
    PROVE  Rpc!Next
  <1>1. UNCHANGED <<requestQueue, serving, nextRequestId>>
    BY DEF BeginResult, ClientWaits, ReceiveResponse, ReceiveTimesOut,
           ReceiveExpiredResponse, ReceiveFails, FinishResult
  <1>2. UNCHANGED <<Submitted, Waiting, Executing>>
    BY <1>1, ImagesUnchanged
  <1>3. CASE ReceiveResponse(c)
    <2>1. PICK r \in Answered : /\ r = <<c, Head(replyQueue[c])>>
                                /\ Answered' = Answered \ {r}
      BY <1>3, PopsResponse DEF ReceiveResponse
    <2>2. delivered' = delivered \union {r}
      BY <1>3, <2>1 DEF ReceiveResponse
    <2>3. Rpc!Deliver(r)
      BY <1>2, <2>1, <2>2, AbstractActions
    <2>4. r \in Requests
      BY DEF Answered
    <2> QED BY <2>3, <2>4, Zenon DEF Rpc!Next
  <1>4. CASE ~ReceiveResponse(c)
    <2>1. UNCHANGED delivered
      BY <1>4 DEF BeginResult, ClientWaits, ReceiveTimesOut, ReceiveExpiredResponse,
                  ReceiveFails, FinishResult, history
    <2>2. \/ UNCHANGED replyQueue
          \/ /\ replyQueue[c] # <<>>
             /\ replyQueue' = [replyQueue EXCEPT ![c] = Tail(@)]
      BY <1>4 DEF BeginResult, ClientWaits, ReceiveTimesOut, ReceiveExpiredResponse,
                  ReceiveFails, FinishResult
    <2>3. Answered' \in SUBSET Answered
      BY <2>2, PopsResponse, ImagesUnchanged
    <2> QED BY <1>2, <2>1, <2>3, AbstractActions DEF Rpc!Next
  <1> QED BY <1>3, <1>4

\* A server starts a request, answers it, or loses it.
LEMMA ServerAnswers ==
    ASSUME IInv, NEW s \in Servers, ServerWorks(s) \/ Crash(s)
    PROVE  Rpc!Next
  <1>1. UNCHANGED <<Submitted, delivered>>
    <2>1. UNCHANGED <<nextRequestId, delivered>>
      BY DEF ServerWorks, ReceiveRequest, LoseRequest, SendResponse, SuppressResponse,
             SendResponseFails, Crash, clientVars, history
    <2> QED BY <2>1, ImagesUnchanged
  <1>2. CASE ReceiveRequest(s)
    <2> DEFINE r == Head(requestQueue)
    <2>1. r \in Waiting \intersect Requests /\ Waiting' = Waiting \ {r}
      BY <1>2, PopsRequest DEF ReceiveRequest
    <2>2. Executing' = Executing \union {r}
      <3>1. \A t \in Servers : serving'[t] = IF t = s THEN r ELSE serving[t]
        BY <1>2 DEF ReceiveRequest, IInv, TypeOK
      <3>2. Executing' = {serving'[t] : t \in Servers} \ {None}
        BY DEF Executing
      <3>3. serving[s] = None /\ r # None
        BY <1>2, <2>1, GatewayAssumption DEF ReceiveRequest, Requests
      <3> QED BY <3>1, <3>2, <3>3, Zenon DEF Executing
    <2>3. UNCHANGED Answered
      BY <1>2, ImagesUnchanged DEF ReceiveRequest
    <2> QED BY <1>1, <2>1, <2>2, <2>3, AbstractActions DEF Rpc!Next
  <1>3. CASE LoseRequest(s)
    <2>1. Waiting' \in SUBSET Waiting
      BY <1>3, PopsRequest DEF LoseRequest
    <2>2. UNCHANGED <<Executing, Answered>>
      BY <1>3, ImagesUnchanged DEF LoseRequest
    <2> QED BY <1>1, <2>1, <2>2, AbstractActions DEF Rpc!Next
  <1>4. CASE SendResponse(s) \/ SuppressResponse(s) \/ SendResponseFails(s) \/ Crash(s)
    <2>1. serving[s] # None /\ serving' = [serving EXCEPT ![s] = None]
      BY <1>4 DEF SendResponse, SuppressResponse, SendResponseFails, Crash
    <2>2. serving[s] \in Executing /\ Executing' = Executing \ {serving[s]}
      BY <2>1, FreesServer
    <2>3. UNCHANGED Waiting
      BY <1>4, ImagesUnchanged DEF SendResponse, SuppressResponse, SendResponseFails, Crash
    <2>4. CASE UNCHANGED replyQueue
      BY <1>1, <2>2, <2>3, <2>4, ImagesUnchanged, AbstractActions DEF Rpc!Next
    <2>5. CASE replyQueue' = [replyQueue EXCEPT
                   ![serving[s][1]] = Append(@, serving[s][2])]
      <3>1. Answered' = Answered \union {serving[s]}
        BY <2>1, <2>5, PushesResponse
      <3>2. serving[s] \in Requests
        BY <2>1 DEF IInv, TypeOK
      <3> QED BY <1>1, <2>2, <2>3, <3>1, <3>2, AbstractActions DEF Rpc!Next
    <2>6. \/ UNCHANGED replyQueue
          \/ replyQueue' = [replyQueue EXCEPT
                 ![serving[s][1]] = Append(@, serving[s][2])]
      BY <1>4 DEF SendResponse, SuppressResponse, SendResponseFails, Crash
    <2> QED BY <2>4, <2>5, <2>6
  <1> QED BY <1>2, <1>3, <1>4 DEF ServerWorks

\* Redis drops a list.
LEMMA ExpiryLoses ==
    ASSUME IInv, RequestQueueExpires \/ \E c \in Clients : ReplyQueueExpires(c)
    PROVE  Rpc!Next
  <1>1. CASE RequestQueueExpires
    <2>1. Waiting' = {}
      BY <1>1, EmptyQueue DEF RequestQueueExpires, Waiting, Elements
    <2>2. UNCHANGED <<Submitted, Executing, Answered, delivered>>
      BY <1>1, ImagesUnchanged DEF RequestQueueExpires, clientVars, history
    <2> QED BY <2>1, <2>2, AbstractActions DEF Rpc!Next
  <1>2. ASSUME NEW c \in Clients, ReplyQueueExpires(c) PROVE Rpc!Next
    <2>1. Answered' \in SUBSET Answered
      <3>1. \A d \in Clients : replyQueue'[d] = IF d = c THEN <<>> ELSE replyQueue[d]
        BY <1>2 DEF ReplyQueueExpires, IInv, TypeOK
      <3>2. Answered' = {q \in Requests : q[2] \in Elements(replyQueue'[q[1]])}
        BY Zenon DEF Answered, Elements
      <3>3. \A q \in Requests : q[1] \in Clients
        BY DEF Requests
      <3>4. \A q \in Requests : q[2] \in Elements(replyQueue'[q[1]]) =>
                q[2] \in Elements(replyQueue[q[1]])
        BY <3>1, <3>3, EmptyQueue
      <3> QED BY <3>2, <3>4 DEF Answered
    <2>2. UNCHANGED <<Submitted, Waiting, Executing, delivered>>
      BY <1>2, ImagesUnchanged DEF ReplyQueueExpires, clientVars, history
    <2> QED BY <2>1, <2>2, AbstractActions DEF Rpc!Next
  <1> QED BY <1>1, <1>2

\* Every step is a step of the abstract service or leaves it alone.
LEMMA StepRefines == IInv /\ [Next]_vars => [Rpc!Next]_(Rpc!vars)
  <1> SUFFICES ASSUME IInv, [Next]_vars PROVE [Rpc!Next]_(Rpc!vars)
    OBVIOUS
  <1>1. CASE Next
    BY <1>1, SendSubmits, WaitDelivers, ServerAnswers, ExpiryLoses DEF Next
  <1>2. CASE UNCHANGED vars
    <2>1. UNCHANGED <<Submitted, Waiting, Executing, Answered, delivered>>
      BY <1>2, ImagesUnchanged DEF vars
    <2> QED BY <2>1, Zenon DEF Rpc!vars, Submitted, Waiting, Executing, Answered
  <1> QED BY <1>1, <1>2

\* Initially no request was submitted, so none is anywhere.
LEMMA InitRefines == Init => Rpc!Init
  <1> SUFFICES ASSUME Init PROVE Rpc!Init
    OBVIOUS
  <1>1. \A r \in Requests : ~(r[2] < nextRequestId[r[1]])
    BY GatewayAssumption DEF Init, Requests
  <1>2. Elements(requestQueue) = {}
    BY EmptyQueue DEF Init
  <1>3. \A r \in Requests : Elements(replyQueue[r[1]]) = {}
    BY EmptyQueue DEF Init, Requests
  <1>4. \A s \in Servers : serving[s] = None
    BY DEF Init
  <1> QED BY <1>1, <1>2, <1>3, <1>4 DEF Init, Rpc!Init

\* The gateway implements the at-most-once RPC: no crash, timeout, failed push
\* or expiry makes a request run twice or a response arrive twice.
THEOREM ImplementsAtMostOnceRpc == Spec => RefinesAtMostOnceRpc
  BY InitRefines, StepRefines, Inductive, PTL DEF Spec, RefinesAtMostOnceRpc, Rpc!Spec
-----------------------------------------------------------------------------
(***************************************************************************)
(* The backends behind the transport (an instance of RedisBackends): what  *)
(* a thread has chosen stays a member of the ring, and what it has put     *)
(* into the cache of masters stays there unless another thread resets it.  *)
(***************************************************************************)
\* Those of RedisBackends; "serving" goes by another name.
CONSTANTS Server, Other, Services, Kinds, RingOrders, Retries, Downstream, Backlog, MaxFailovers
VARIABLES kind, hash, ring, cycle, masters, address, up, requests, replies, held, sendsLeft,
          pc, purpose, member, tries, connection, failovers, unseen, keyError, raced

Backend == INSTANCE RedisBackends WITH serving <- held

\* Whose requests there are, and the indexes of members.
Callers == Clients \union {Other}
Indexes == 0..(Backend!RingSize - 1)
Places == {"idle", "testing", "resolving", "fetching", "using", "answered"}

\* The variables that the choice of a member and the looks at it depend on.
BackendIsTyped ==
    /\ hash \in [Clients -> {2047, 2048}]
    /\ ring \in [Backend!Layers -> RingOrders \union {<<>>}]
    /\ cycle \in Seq(Indexes) /\ Len(cycle) = Backend!RingSize
    /\ masters \in [Backend!Layers -> [Services -> Int]]
    /\ address \in [Services -> Nat]
    /\ requests \in [Services -> Seq(Callers)]
    /\ pc \in [Backend!Threads -> Places]
    /\ member \in [Backend!Threads -> Services \union {None}]
    /\ keyError \in [Backend!Threads -> BOOLEAN]
    /\ raced \in [Backend!Threads -> BOOLEAN]

\* What a thread needs a connection for, and for whom.
CallersAreKnown ==
    /\ purpose \in [Backend!Threads -> {"send", "receive", "poll", "downstream", "respond"}]
    /\ \A c \in Clients : purpose[c] \in {"send", "receive"}
    /\ purpose[Server] \in {"poll", "downstream", "respond"}
    /\ purpose[Server] \in {"downstream", "respond"} => held \in Callers

\* A thread that has chosen a member met no KeyError since; and between its looks
\* there is something to find, unless another thread was there.
LookIsFounded(t) ==
    /\ keyError[t] => raced[t]
    /\ pc[t] \in {"testing", "resolving", "fetching", "using"} =>
          member[t] \in Services /\ ~keyError[t]
    /\ pc[t] \in {"resolving", "fetching"} =>
          masters[Backend!Layer(t)][member[t]] # Backend!Absent \/ raced[t]

LooksAreFounded == \A t \in Backend!Threads : LookIsFounded(t)

BackendInv == BackendIsTyped /\ CallersAreKnown /\ LooksAreFounded

USE DEF Backend!redisVars, Backend!listVars, Backend!jobVars, Backend!layerVars,
        Backend!fixedVars, Backend!wayVars, Backend!history, Backend!Goto, Backend!Leave,
        Backend!GoOn, Backend!Fail, Backend!AfterError, Backend!Absent, Backend!Unresolved

\* The settings name finitely many members.
LEMMA RingSizeIsNatural ==
  ASSUME Backend!RedisBackendsAssumption
  PROVE  Backend!RingSize \in Nat /\ Cardinality(Indexes) = Backend!RingSize
<1>1. IsFiniteSet(Services)
  BY DEF Backend!RedisBackendsAssumption, Backend!IsFiniteSet, IsFiniteSet
<1>2. Backend!RingSize = Cardinality(Services)
  BY DEF Backend!RingSize, Backend!Cardinality, Cardinality
<1>3. Backend!RingSize \in Nat
  BY <1>1, <1>2, FS_CardinalityType
<1> QED
  BY <1>3, FS_Interval DEF Indexes

\* Each thread has a layer.
LEMMA LayersAre ==
  /\ \A t \in Backend!Threads : Backend!Layer(t) \in Backend!Layers
  /\ Server \in Backend!Threads /\ \A c \in Clients : c \in Backend!Threads
  /\ \A t \in Backend!Threads : t \in Clients \/ t = Server
  BY DEF Backend!Layer, Backend!Layers, Backend!Threads

\* What a thread may choose is a member of the ring.
LEMMA IndexesAreInRing ==
  ASSUME Backend!RedisBackendsAssumption, BackendInv, NEW t \in Backend!Threads,
         Backend!IsBuilt(t), NEW index \in Backend!IndexesFor(t)
  PROVE  ring[Backend!Layer(t)][index + 1] \in Services
<1> DEFINE R == Backend!RingSize
<1>1. R \in Nat /\ Other \notin Clients
  BY RingSizeIsNatural DEF Backend!RedisBackendsAssumption
<1>2. /\ ring[Backend!Layer(t)] \in [1..R -> Services] /\ ring[Backend!Layer(t)] # <<>>
  BY LayersAre DEF BackendInv, BackendIsTyped, Backend!IsBuilt, Backend!RedisBackendsAssumption
<1>3. R > 0
  <2> SUFFICES ASSUME R = 0 PROVE FALSE
    BY <1>1
  <2>1. ring[Backend!Layer(t)] \in Seq(Services) /\ Len(ring[Backend!Layer(t)]) = 0
    BY <1>2
  <2> QED
    BY <1>2, <2>1
<1>4. index \in 0..(R - 1)
  <2> HIDE DEF R
  <2>1. ASSUME NEW c \in Clients PROVE (hash[c] * R) \div 4096 \in 0..(R - 1)
    <3>1. hash[c] \in {2047, 2048}
      BY DEF BackendInv, BackendIsTyped
    <3>2. (2047 * R) \div 4096 \in 0..(R - 1) /\ (2048 * R) \div 4096 \in 0..(R - 1)
      BY <1>1, <1>3
    <3> QED
      BY <3>1, <3>2
  <2>2. CASE purpose[t] = "receive"
    <3>1. t \in Clients
      BY <2>2, LayersAre DEF BackendInv, CallersAreKnown
    <3>2. index = (hash[t] * R) \div 4096
      BY <2>2 DEF Backend!IndexesFor, Backend!HashIndex, R
    <3> QED
      BY <2>1, <3>1, <3>2
  <2>3. CASE purpose[t] = "respond"
    <3>1. held \in Callers
      BY <2>3, LayersAre DEF BackendInv, CallersAreKnown
    <3>2. index = IF held = Other THEN 0 ELSE (hash[held] * R) \div 4096
      BY <2>3 DEF Backend!IndexesFor, Backend!HashIndex, R
    <3>3. CASE held = Other
      BY <1>1, <1>3, <3>2, <3>3
    <3>4. CASE held # Other
      BY <2>1, <3>1, <3>2, <3>4 DEF Callers
    <3> QED
      BY <3>3, <3>4
  <2>4. CASE purpose[t] = "send"
    BY <2>4 DEF Backend!IndexesFor, R
  <2>5. CASE purpose[t] \in {"poll", "downstream"}
    <3>1. index = Head(cycle)
      BY <2>5 DEF Backend!IndexesFor
    <3>2. cycle \in Seq(0..(R - 1)) /\ Len(cycle) = R
      BY DEF BackendInv, BackendIsTyped, Indexes, R
    <3>3. cycle # <<>>
      BY <1>3, <3>2
    <3> QED
      BY <3>1, <3>2, <3>3
  <2> QED
    BY <2>2, <2>3, <2>4, <2>5 DEF BackendInv, CallersAreKnown
<1>5. index + 1 \in 1..R
  BY <1>1, <1>4
<1> QED
  BY <1>2, <1>5

\* What was found stays there, of the layers and members there are.
MastersGrow == \A l \in Backend!Layers, s \in Services :
    masters[l][s] # Backend!Absent => masters'[l][s] # Backend!Absent

\* Thread o is left alone, but may be raced.
IsLeftAlone(o) ==
    /\ pc'[o] = pc[o] /\ member'[o] = member[o] /\ keyError'[o] = keyError[o]
    /\ raced[o] => raced'[o]

\* A thread that is left alone keeps what it looks at, or is raced.
LEMMA LooksStayFounded ==
  ASSUME BackendInv, NEW o \in Backend!Threads, IsLeftAlone(o),
         \/ MastersGrow
         \/ pc[o] \in {"resolving", "fetching"} => raced'[o]
         \/ UNCHANGED masters[Backend!Layer(o)]
  PROVE  LookIsFounded(o)'
<1>1. LookIsFounded(o) /\ Backend!Layer(o) \in Backend!Layers
  BY LayersAre DEF BackendInv, LooksAreFounded
<1>2. Backend!Layer(o)' = Backend!Layer(o)
  BY DEF Backend!Layer
<1> QED
  BY <1>1, <1>2 DEF LookIsFounded, IsLeftAlone, MastersGrow

\* A step of one thread, of which the rest follows from the others.
LEMMA ThreadKeeps ==
  ASSUME BackendInv, NEW t \in Backend!Threads, BackendIsTyped', CallersAreKnown',
         LookIsFounded(t)',
         \A o \in Backend!Threads \ {t} : IsLeftAlone(o),
         \/ MastersGrow
         \/ \A o \in Backend!Threads \ {t} :
               \/ pc[o] \in {"resolving", "fetching"} => raced'[o]
               \/ UNCHANGED masters[Backend!Layer(o)]
  PROVE  BackendInv'
<1>1. ASSUME NEW o \in Backend!Threads PROVE LookIsFounded(o)'
  <2>1. CASE o = t
    BY <2>1
  <2>2. CASE o # t
    BY <2>2, LooksStayFounded
  <2> QED
    BY <2>1, <2>2
<1> QED
  BY <1>1 DEF BackendInv, LooksAreFounded, Backend!Threads

\* What a thread comes back from: it was its own KeyError, or none at all.
LEMMA FailKeeps ==
  ASSUME BackendInv, NEW t \in Backend!Threads, Backend!Fail(t),
         UNCHANGED <<hash, ring, cycle, address, requests>>,
         masters' \in [Backend!Layers -> [Services -> Int]],
         keyError' \in [Backend!Threads -> BOOLEAN], raced' \in [Backend!Threads -> BOOLEAN],
         keyError'[t] => raced'[t],
         \A o \in Backend!Threads \ {t} : keyError'[o] = keyError[o] /\ (raced[o] => raced'[o]),
         \/ MastersGrow
         \/ \A o \in Backend!Threads \ {t} :
               \/ pc[o] \in {"resolving", "fetching"} => raced'[o]
               \/ UNCHANGED masters[Backend!Layer(o)]
  PROVE  BackendInv'
<1>1. /\ pc' = [pc EXCEPT ![t] = "idle"]
      /\ purpose' = [purpose EXCEPT ![t] = Backend!AfterError[purpose[t]]]
      /\ member' = [member EXCEPT ![t] = None]
      /\ held' = IF purpose[t] = "respond" THEN None ELSE held
  BY DEF Backend!Fail
<1>2. BackendIsTyped'
  <2>1. pc' \in [Backend!Threads -> Places] /\ member' \in [Backend!Threads -> Services \union {None}]
    BY <1>1 DEF BackendInv, BackendIsTyped, Places
  <2>2. UNCHANGED <<hash, ring, cycle, address, requests>>
    OBVIOUS
  <2> QED
    BY <2>1, <2>2 DEF BackendInv, BackendIsTyped
<1>3. CallersAreKnown'
  <2>1. /\ purpose \in [Backend!Threads -> {"send", "receive", "poll", "downstream", "respond"}]
        /\ \A c \in Clients : purpose[c] \in {"send", "receive"}
        /\ purpose[Server] \in {"poll", "downstream", "respond"}
        /\ purpose[Server] \in {"downstream", "respond"} => held \in Callers
    BY DEF BackendInv, CallersAreKnown
  <2> QED
    BY <1>1, <2>1, LayersAre DEF CallersAreKnown
<1>4. LookIsFounded(t)'
  BY <1>1, <1>2 DEF BackendInv, BackendIsTyped, LookIsFounded
<1>5. \A o \in Backend!Threads \ {t} : IsLeftAlone(o)
  BY <1>1 DEF BackendInv, BackendIsTyped, IsLeftAlone
<1> QED
  BY <1>2, <1>3, <1>4, <1>5, ThreadKeeps

\* reset_clients races whoever looks in the same layer.
LEMMA ResetIs ==
  ASSUME BackendInv, NEW l \in Backend!Layers, NEW others, Backend!ResetLayer(l, others)
  PROVE  /\ masters' \in [Backend!Layers -> [Services -> Int]]
         /\ raced' \in [Backend!Threads -> BOOLEAN]
         /\ \A o \in Backend!Threads :
               /\ raced[o] => raced'[o]
               /\ o \notin others => raced'[o] = raced[o]
               /\ o \in others =>
                     \/ pc[o] \in {"resolving", "fetching"} => raced'[o]
                     \/ UNCHANGED masters[Backend!Layer(o)]
<1>1. /\ masters' = [masters EXCEPT ![l] = Backend!NoMasters]
      /\ raced' = [o \in Backend!Threads |->
                     \/ raced[o]
                     \/ o \in others /\ Backend!Layer(o) = l /\ pc[o] \in {"resolving", "fetching"}]
  BY DEF Backend!ResetLayer
<1>2. masters \in [Backend!Layers -> [Services -> Int]] /\ raced \in [Backend!Threads -> BOOLEAN]
  BY DEF BackendInv, BackendIsTyped
<1>3. masters' \in [Backend!Layers -> [Services -> Int]]
  BY <1>1, <1>2 DEF Backend!NoMasters
<1>4. \A o \in Backend!Threads : Backend!Layer(o)' = Backend!Layer(o)
  BY DEF Backend!Layer
<1> QED
  BY <1>1, <1>2, <1>3, <1>4, LayersAre

\* A master, or a client that has yet to ask for it, is put into a layer.
LEMMA MastersAreSet ==
  ASSUME masters \in [Backend!Layers -> [Services -> Int]], NEW l \in Backend!Layers,
         NEW s, NEW found, s \in Services => found \in Nat,
         masters' = [masters EXCEPT ![l][s] = found]
  PROVE  masters' \in [Backend!Layers -> [Services -> Int]] /\ MastersGrow
<1>1. masters' \in [Backend!Layers -> [Services -> Int]]
  <2>1. [masters[l] EXCEPT ![s] = found] \in [Services -> Int]
    <3>1. CASE s \in Services
      BY <3>1
    <3>2. CASE s \notin Services
      BY <3>2
    <3> QED
      BY <3>1, <3>2
  <2> QED
    BY <2>1
<1>2. ASSUME NEW m \in Backend!Layers, NEW x \in Services
      PROVE  masters'[m][x] = masters[m][x] \/ masters'[m][x] = found
  OBVIOUS
<1> QED
  BY <1>1, <1>2 DEF MastersGrow

\* The layer is built while its thread looks at nothing.
LEMMA BuildKeeps ==
  ASSUME Backend!RedisBackendsAssumption, BackendInv, NEW t \in Backend!Threads, Backend!Build(t)
  PROVE  BackendInv'
<1>1. PICK order \in RingOrders :
         /\ ring' = [ring EXCEPT ![Backend!Layer(t)] = order]
         /\ masters' = IF kind = "sentinel"
                       THEN [masters EXCEPT ![Backend!Layer(t)][order[1]] = address[order[1]]]
                       ELSE masters
  BY DEF Backend!Build
<1>2. UNCHANGED <<hash, cycle, address, requests, held, pc, purpose, member, keyError, raced>>
  BY DEF Backend!Build
<1>3. /\ masters \in [Backend!Layers -> [Services -> Int]] /\ address \in [Services -> Nat]
      /\ ring \in [Backend!Layers -> RingOrders \union {<<>>}] /\ pc[t] = "idle"
  BY DEF BackendInv, BackendIsTyped, Backend!Build
<1>4. masters' \in [Backend!Layers -> [Services -> Int]] /\ MastersGrow
  <2>1. CASE kind = "sentinel"
    <3>1. order[1] \in Services => address[order[1]] \in Nat
      BY <1>3
    <3> QED
      BY <1>1, <1>3, <2>1, <3>1, LayersAre, MastersAreSet
  <2>2. CASE kind # "sentinel"
    BY <1>1, <1>3, <2>2 DEF MastersGrow
  <2> QED
    BY <2>1, <2>2
<1>5. ring' \in [Backend!Layers -> RingOrders \union {<<>>}]
  BY <1>1, <1>3
<1>6. BackendIsTyped' /\ CallersAreKnown'
  BY <1>2, <1>4, <1>5 DEF BackendInv, BackendIsTyped, CallersAreKnown
<1>7. LookIsFounded(t)'
  BY <1>2, <1>3 DEF BackendInv, LooksAreFounded, LookIsFounded
<1>8. \A o \in Backend!Threads \ {t} : IsLeftAlone(o)
  BY <1>2 DEF IsLeftAlone
<1> QED
  BY <1>4, <1>6, <1>7, <1>8, ThreadKeeps

\* A member is chosen, and what happened before is forgotten.
LEMMA ChooseKeeps ==
  ASSUME Backend!RedisBackendsAssumption, BackendInv, NEW t \in Backend!Threads, Backend!Choose(t)
  PROVE  BackendInv'
<1>1. PICK index \in Backend!IndexesFor(t) :
         member' = [member EXCEPT ![t] = ring[Backend!Layer(t)][index + 1]]
  BY DEF Backend!Choose
<1>2. ring[Backend!Layer(t)][index + 1] \in Services
  BY IndexesAreInRing DEF Backend!Choose
<1>3. /\ cycle' = IF purpose[t] \in {"poll", "downstream"}
                  THEN Append(Tail(cycle), Head(cycle)) ELSE cycle
      /\ \E place \in {"testing", "using"} : pc' = [pc EXCEPT ![t] = place]
      /\ keyError' = [keyError EXCEPT ![t] = FALSE]
      /\ raced' = [raced EXCEPT ![t] = FALSE]
      /\ UNCHANGED <<hash, ring, masters, address, requests, held, purpose>>
  BY DEF Backend!Choose
<1>4. cycle' \in Seq(Indexes) /\ Len(cycle') = Backend!RingSize
  <2>1. cycle \in Seq(Indexes) /\ Len(cycle) = Backend!RingSize /\ Backend!RingSize \in Nat
    BY RingSizeIsNatural DEF BackendInv, BackendIsTyped
  <2>2. CASE cycle' = cycle
    BY <2>1, <2>2
  <2>3. CASE cycle' = Append(Tail(cycle), Head(cycle))
    <3>1. cycle # <<>>
      <4>1. /\ ring[Backend!Layer(t)] \in [1..Backend!RingSize -> Services]
            /\ ring[Backend!Layer(t)] # <<>>
        BY LayersAre DEF BackendInv, BackendIsTyped, Backend!Choose, Backend!IsBuilt,
                         Backend!RedisBackendsAssumption
      <4>2. ring[Backend!Layer(t)] \in Seq(Services) /\ Len(ring[Backend!Layer(t)]) = Backend!RingSize
        BY <2>1, <4>1
      <4> QED
        BY <2>1, <4>1, <4>2
    <3>2. Tail(cycle) \in Seq(Indexes) /\ Len(Tail(cycle)) = Len(cycle) - 1 /\ Head(cycle) \in Indexes
      BY <2>1, <3>1
    <3> QED
      BY <2>1, <2>3, <3>2
  <2> QED
    BY <1>3, <2>2, <2>3
<1>5. BackendIsTyped'
  <2>1. pc' \in [Backend!Threads -> Places] /\ member' \in [Backend!Threads -> Services \union {None}]
    BY <1>1, <1>2, <1>3 DEF BackendInv, BackendIsTyped, Places
  <2>2. keyError' \in [Backend!Threads -> BOOLEAN] /\ raced' \in [Backend!Threads -> BOOLEAN]
    BY <1>3 DEF BackendInv, BackendIsTyped
  <2> QED
    BY <1>3, <1>4, <2>1, <2>2 DEF BackendInv, BackendIsTyped
<1>6. CallersAreKnown' /\ MastersGrow
  BY <1>3 DEF BackendInv, CallersAreKnown, MastersGrow
<1>7. LookIsFounded(t)'
  BY <1>1, <1>2, <1>3 DEF BackendInv, BackendIsTyped, LookIsFounded
<1>8. \A o \in Backend!Threads \ {t} : IsLeftAlone(o)
  BY <1>1, <1>3 DEF BackendInv, BackendIsTyped, IsLeftAlone
<1> QED
  BY <1>5, <1>6, <1>7, <1>8, ThreadKeeps

\* The look that finds a master, or puts a client there, and the next one.
LEMMA LookKeeps ==
  ASSUME BackendInv, NEW t \in Backend!Threads,
         Backend!Test(t) \/ Backend!Resolve(t) \/ Backend!Fetch(t)
  PROVE  BackendInv'
<1> DEFINE l == Backend!Layer(t)
<1>1. /\ masters \in [Backend!Layers -> [Services -> Int]] /\ address \in [Services -> Nat]
      /\ member[t] \in Services /\ ~keyError[t] /\ l \in Backend!Layers
  BY LayersAre DEF BackendInv, BackendIsTyped, LooksAreFounded, LookIsFounded,
                   Backend!Test, Backend!Resolve, Backend!Fetch
<1>2. UNCHANGED <<hash, ring, cycle, address, requests, held, purpose, member, keyError>>
  BY DEF Backend!Test, Backend!Resolve, Backend!Fetch
<1>3. \/ masters' = masters
      \/ masters' = [masters EXCEPT ![l][member[t]] = 0]
      \/ masters' = [masters EXCEPT ![l][member[t]] = address[member[t]]]
  BY DEF Backend!Test, Backend!Resolve, Backend!Fetch
<1>4. masters' \in [Backend!Layers -> [Services -> Int]] /\ MastersGrow
  <2>1. CASE masters' = masters
    BY <1>1, <2>1 DEF MastersGrow
  <2>2. CASE masters' # masters
    BY <1>1, <1>3, <2>2, MastersAreSet
  <2> QED
    BY <2>1, <2>2
<1>5. /\ \E place \in {"fetching", "resolving", "using"} : pc' = [pc EXCEPT ![t] = place]
      /\ raced' \in {raced, [raced EXCEPT ![t] = FALSE]}
  BY DEF Backend!Test, Backend!Resolve, Backend!Fetch
<1>6. BackendIsTyped'
  <2>1. pc' \in [Backend!Threads -> Places]
    BY <1>5 DEF BackendInv, BackendIsTyped, Places
  <2>2. raced' \in [Backend!Threads -> BOOLEAN]
    <3>1. raced \in [Backend!Threads -> BOOLEAN]
      BY DEF BackendInv, BackendIsTyped
    <3>2. CASE raced' = raced
      BY <3>1, <3>2
    <3>3. CASE raced' = [raced EXCEPT ![t] = FALSE]
      BY <3>1, <3>3
    <3> QED
      BY <1>5, <3>2, <3>3
  <2> QED
    BY <1>2, <1>4, <2>1, <2>2 DEF BackendInv, BackendIsTyped
<1>7. CallersAreKnown'
  BY <1>2 DEF BackendInv, CallersAreKnown
<1>8. LookIsFounded(t)'
  <2>1. pc'[t] \in {"resolving", "fetching"} => masters'[l][member[t]] # -1
    BY <1>1, <1>4
    DEF BackendInv, BackendIsTyped, MastersGrow, Backend!Test, Backend!Resolve, Backend!Fetch,
        Backend!Cached
  <2>2. Backend!Layer(t)' = l
    BY DEF Backend!Layer
  <2> QED
    BY <1>1, <1>2, <2>1, <2>2 DEF LookIsFounded
<1>9. \A o \in Backend!Threads \ {t} : IsLeftAlone(o)
  BY <1>2, <1>5 DEF BackendInv, BackendIsTyped, IsLeftAlone
<1> QED
  BY <1>4, <1>6, <1>7, <1>8, <1>9, ThreadKeeps

\* Nothing is found: another thread was there.
LEMMA FindNothingKeeps ==
  ASSUME BackendInv, NEW t \in Backend!Threads, Backend!FindNothing(t) \/ Backend!BuildFails(t)
  PROVE  BackendInv'
<1>1. /\ UNCHANGED <<hash, ring, cycle, masters, address, requests, raced>> /\ Backend!Fail(t)
      /\ \/ keyError' = keyError
         \/ keyError' = [keyError EXCEPT ![t] = TRUE] /\ pc[t] \in {"resolving", "fetching"}
            /\ masters[Backend!Layer(t)][member[t]] = -1
  BY DEF Backend!FindNothing, Backend!BuildFails, Backend!Cached
<1>2. LookIsFounded(t)
  BY DEF BackendInv, LooksAreFounded
<1>3. /\ keyError \in [Backend!Threads -> BOOLEAN] /\ raced \in [Backend!Threads -> BOOLEAN]
      /\ masters \in [Backend!Layers -> [Services -> Int]]
  BY DEF BackendInv, BackendIsTyped
<1>4. keyError' \in [Backend!Threads -> BOOLEAN] /\ (keyError'[t] => raced'[t])
  BY <1>1, <1>2, <1>3 DEF LookIsFounded
<1>5. MastersGrow
  BY <1>1 DEF MastersGrow
<1> QED
  BY <1>1, <1>3, <1>4, <1>5, FailKeeps

\* A thread meets an error: it resets the layer and races the others.
LEMMA ErrorKeeps ==
  ASSUME BackendInv, NEW t \in Backend!Threads, Backend!ResolveFails(t) \/ Backend!UseFails(t)
  PROVE  BackendInv'
<1> DEFINE others == Backend!Threads \ {t}
<1>1. UNCHANGED <<hash, ring, cycle, address, requests, keyError>>
  BY DEF Backend!ResolveFails, Backend!UseFails
<1>2. /\ masters \in [Backend!Layers -> [Services -> Int]]
      /\ keyError \in [Backend!Threads -> BOOLEAN] /\ raced \in [Backend!Threads -> BOOLEAN]
      /\ LookIsFounded(t)
  BY DEF BackendInv, BackendIsTyped, LooksAreFounded
<1>3. CASE Backend!ResetLayer(Backend!Layer(t), others)
  <2>1. /\ masters' \in [Backend!Layers -> [Services -> Int]]
        /\ raced' \in [Backend!Threads -> BOOLEAN] /\ raced'[t] = raced[t]
        /\ \A o \in others :
              /\ raced[o] => raced'[o]
              /\ \/ pc[o] \in {"resolving", "fetching"} => raced'[o]
                 \/ UNCHANGED masters[Backend!Layer(o)]
    BY <1>3, LayersAre, ResetIs
  <2>2. CASE Backend!Fail(t)
    <3>1. keyError'[t] => raced'[t]
      BY <1>1, <1>2, <2>1 DEF LookIsFounded
    <3> QED
      BY <1>1, <1>2, <2>1, <2>2, <3>1, FailKeeps
  <2>3. CASE /\ pc' = [pc EXCEPT ![t] = "testing"] /\ pc[t] = "resolving"
             /\ UNCHANGED <<purpose, member, held>>
    <3>1. BackendIsTyped'
      <4>1. pc' \in [Backend!Threads -> Places]
        BY <2>3 DEF BackendInv, BackendIsTyped, Places
      <4> QED
        BY <1>1, <2>1, <2>3, <4>1 DEF BackendInv, BackendIsTyped
    <3>2. CallersAreKnown'
      BY <2>3 DEF BackendInv, CallersAreKnown
    <3>3. LookIsFounded(t)'
      <4>1. pc'[t] = "testing" /\ member'[t] = member[t] /\ keyError'[t] = keyError[t]
        BY <1>1, <2>3 DEF BackendInv, BackendIsTyped
      <4> QED
        BY <1>2, <2>1, <2>3, <4>1 DEF LookIsFounded
    <3>4. \A o \in others : IsLeftAlone(o)
      BY <1>1, <2>1, <2>3 DEF BackendInv, BackendIsTyped, IsLeftAlone
    <3> QED
      BY <2>1, <3>1, <3>2, <3>3, <3>4, ThreadKeeps
  <2> QED
    BY <2>2, <2>3 DEF Backend!ResolveFails, Backend!UseFails
<1>4. CASE Backend!Fail(t) /\ UNCHANGED <<masters, raced>>
  <2>1. MastersGrow
    BY <1>4 DEF MastersGrow
  <2>2. keyError'[t] => raced'[t]
    BY <1>1, <1>2, <1>4 DEF LookIsFounded
  <2> QED
    BY <1>1, <1>2, <1>4, <2>1, <2>2, FailKeeps
<1> QED
  BY <1>3, <1>4 DEF Backend!ResolveFails, Backend!UseFails, Backend!Reset

\* A thread is done with its connection, and goes on.
LEMMA UseKeeps ==
  ASSUME BackendInv, NEW t \in Backend!Threads, NEW place \in {"idle", "answered"}, NEW next,
         Backend!Leave(t, place, next),
         UNCHANGED <<hash, ring, cycle, masters, address, keyError, raced>>,
         requests' \in [Services -> Seq(Callers)], CallersAreKnown'
  PROVE  BackendInv'
<1>1. /\ pc' = [pc EXCEPT ![t] = place] /\ member' = [member EXCEPT ![t] = None]
      /\ LookIsFounded(t)
  BY DEF BackendInv, LooksAreFounded
<1>2. BackendIsTyped'
  <2>1. pc' \in [Backend!Threads -> Places] /\ member' \in [Backend!Threads -> Services \union {None}]
    BY <1>1 DEF BackendInv, BackendIsTyped, Places
  <2>2. UNCHANGED <<hash, ring, cycle, masters, address, keyError, raced>>
    OBVIOUS
  <2> QED
    BY <2>1, <2>2 DEF BackendInv, BackendIsTyped
<1>3. LookIsFounded(t)'
  BY <1>1 DEF BackendInv, BackendIsTyped, LookIsFounded
<1>4. \A o \in Backend!Threads \ {t} : IsLeftAlone(o)
  BY <1>1 DEF BackendInv, BackendIsTyped, IsLeftAlone
<1>5. MastersGrow
  BY DEF MastersGrow
<1> QED
  BY <1>2, <1>3, <1>4, <1>5, ThreadKeeps

\* Requests are those of callers, whoever pushes or pops one.
LEMMA RequestsAre ==
  ASSUME BackendIsTyped, NEW s, NEW c \in Callers
  PROVE  /\ [requests EXCEPT ![s] = Append(@, c)] \in [Services -> Seq(Callers)]
         /\ s \in Services /\ requests[s] # <<>> =>
               /\ [requests EXCEPT ![s] = Tail(@)] \in [Services -> Seq(Callers)]
               /\ Head(requests[s]) \in Callers
<1>1. requests \in [Services -> Seq(Callers)]
  BY DEF BackendIsTyped
<1>2. CASE s \in Services
  <2>1. Append(requests[s], c) \in Seq(Callers)
    BY <1>1, <1>2
  <2>2. requests[s] # <<>> => Tail(requests[s]) \in Seq(Callers) /\ Head(requests[s]) \in Callers
    BY <1>1, <1>2
  <2> QED
    BY <1>1, <1>2, <2>1, <2>2
<1>3. CASE s \notin Services
  BY <1>1, <1>3
<1> QED
  BY <1>2, <1>3

\* What a client does with its connection.
LEMMA ClientKeeps ==
  ASSUME BackendInv, NEW c \in Clients, Backend!ClientStep(c), Server \notin Clients
  PROVE  BackendInv'
<1>1. /\ UNCHANGED <<hash, ring, cycle, masters, address, keyError, raced, held>>
      /\ requests' \in {requests, [requests EXCEPT ![member[c]] = Append(@, c)]}
      /\ \E place \in {"idle", "answered"}, next \in {"send", "receive"} :
            Backend!Leave(c, place, next)
  BY DEF Backend!ClientStep, Backend!SendRequest, Backend!ReceiveReply, Backend!CallAgain,
         Backend!ReceiveTimesOut, Backend!Used
<1>2. requests' \in [Services -> Seq(Callers)]
  <2>1. BackendIsTyped /\ c \in Callers
    BY DEF BackendInv, Callers
  <2>2. requests \in [Services -> Seq(Callers)]
    BY <2>1 DEF BackendIsTyped
  <2>3. [requests EXCEPT ![member[c]] = Append(@, c)] \in [Services -> Seq(Callers)]
    BY <2>1, RequestsAre, Zenon
  <2> QED
    BY <1>1, <2>2, <2>3, Zenon
<1>3. PICK place \in {"idle", "answered"}, next \in {"send", "receive"} :
         Backend!Leave(c, place, next)
  BY <1>1
<1>4. CallersAreKnown'
  <2>1. /\ purpose' = [purpose EXCEPT ![c] = next] /\ held' = held
    BY <1>1, <1>3
  <2> QED
    BY <2>1, LayersAre DEF BackendInv, CallersAreKnown
<1> QED
  BY <1>1, <1>2, <1>3, <1>4, LayersAre, UseKeeps

\* What the server does with its connection: it has a caller until it has replied.
LEMMA ServerKeeps ==
  ASSUME BackendInv, Backend!ServerStep, Server \notin Clients
  PROVE  BackendInv'
<1>1. UNCHANGED <<hash, ring, cycle, masters, address, keyError, raced>>
  BY DEF Backend!ServerStep, Backend!TakeRequest, Backend!PollTimesOut, Backend!SendDownstream,
         Backend!SendReply, Backend!Used
<1>2. /\ Server \in Backend!Threads
      /\ pc[Server] = "using" => member[Server] \in Services
  BY LayersAre DEF BackendInv, LooksAreFounded, LookIsFounded
<1>3. ASSUME NEW next \in {"poll", "downstream", "respond"}, Backend!Leave(Server, "idle", next),
             next \in {"downstream", "respond"} => held' \in Callers
      PROVE  CallersAreKnown'
  <2>1. purpose' = [purpose EXCEPT ![Server] = next]
    BY <1>3
  <2> QED
    BY <1>2, <1>3, <2>1 DEF BackendInv, CallersAreKnown
<1>4. CASE Backend!TakeRequest
  <2>1. /\ pc[Server] = "using" /\ requests[member[Server]] # <<>>
        /\ held' = Head(requests[member[Server]])
        /\ requests' = [requests EXCEPT ![member[Server]] = Tail(@)]
        /\ \E next \in {"downstream", "respond"} : Backend!Leave(Server, "idle", next)
    BY <1>4 DEF Backend!TakeRequest, Backend!Used, Backend!Reaches
  <2>2. requests' \in [Services -> Seq(Callers)] /\ held' \in Callers
    BY <1>2, <2>1, RequestsAre DEF BackendInv, Callers
  <2> QED
    BY <1>1, <1>2, <1>3, <2>1, <2>2, UseKeeps
<1>5. CASE Backend!PollTimesOut
  <2>1. requests' = requests /\ Backend!Leave(Server, "idle", "poll")
    BY <1>5 DEF Backend!PollTimesOut, Backend!Used
  <2>2. requests' \in [Services -> Seq(Callers)]
    BY <2>1 DEF BackendInv, BackendIsTyped
  <2> QED
    BY <1>1, <1>2, <1>3, <2>1, <2>2, UseKeeps
<1>6. CASE Backend!SendDownstream
  <2>1. /\ requests' = requests /\ held' = held /\ purpose[Server] = "downstream"
        /\ \E next \in {"downstream", "respond"} : Backend!Leave(Server, "idle", next)
    BY <1>6 DEF Backend!SendDownstream, Backend!Used
  <2>2. requests' \in [Services -> Seq(Callers)] /\ held' \in Callers
    BY <2>1 DEF BackendInv, BackendIsTyped, CallersAreKnown
  <2> QED
    BY <1>1, <1>2, <1>3, <2>1, <2>2, UseKeeps
<1>7. CASE Backend!SendReply
  <2>1. requests' = requests /\ Backend!Leave(Server, "idle", "poll")
    BY <1>7 DEF Backend!SendReply, Backend!Used
  <2>2. requests' \in [Services -> Seq(Callers)]
    BY <2>1 DEF BackendInv, BackendIsTyped
  <2> QED
    BY <1>1, <1>2, <1>3, <2>1, <2>2, UseKeeps
<1> QED
  BY <1>4, <1>5, <1>6, <1>7 DEF Backend!ServerStep

\* What happens elsewhere: to the masters, and in the other threads of the process.
LEMMA ElsewhereKeeps ==
  ASSUME BackendInv,
         \/ Backend!NeighbourResets
         \/ \E s \in Services : Backend!RedisStep(s)
         \/ UNCHANGED Backend!vars
  PROVE  BackendInv'
<1>1. /\ UNCHANGED <<hash, ring, cycle, held, pc, purpose, member, keyError>>
  BY DEF Backend!NeighbourResets, Backend!RedisStep, Backend!MasterFails, Backend!MasterReturns,
         Backend!OthersSend, Backend!vars
<1>2. address' \in [Services -> Nat]
  BY DEF BackendInv, BackendIsTyped, Backend!NeighbourResets, Backend!RedisStep,
         Backend!MasterFails, Backend!MasterReturns, Backend!OthersSend, Backend!vars
<1>3. requests' \in [Services -> Seq(Callers)]
  <2>1. \/ requests' = requests
        \/ \E s \in Services : requests' = [requests EXCEPT ![s] = Append(@, Other)]
    BY DEF Backend!NeighbourResets, Backend!RedisStep, Backend!MasterFails,
           Backend!MasterReturns, Backend!OthersSend, Backend!vars
  <2>2. BackendIsTyped /\ Other \in Callers
    BY DEF BackendInv, Callers
  <2>3. requests \in [Services -> Seq(Callers)]
    BY <2>2 DEF BackendIsTyped
  <2>4. \A s \in Services : [requests EXCEPT ![s] = Append(@, Other)] \in [Services -> Seq(Callers)]
    BY <2>2, RequestsAre, Zenon
  <2> QED
    BY <2>1, <2>3, <2>4, Zenon
<1>4. /\ masters' \in [Backend!Layers -> [Services -> Int]]
      /\ raced' \in [Backend!Threads -> BOOLEAN]
      /\ \A o \in Backend!Threads :
            /\ raced[o] => raced'[o]
            /\ \/ pc[o] \in {"resolving", "fetching"} => raced'[o]
               \/ UNCHANGED masters[Backend!Layer(o)]
  <2>1. CASE Backend!NeighbourResets
    <3>1. Backend!ResetLayer("clients", Backend!Threads) /\ "clients" \in Backend!Layers
      BY <2>1 DEF Backend!NeighbourResets, Backend!Layers
    <3> QED
      BY <3>1, ResetIs
  <2>2. CASE ~Backend!NeighbourResets
    <3>1. UNCHANGED <<masters, raced>>
      BY <2>2 DEF Backend!RedisStep, Backend!MasterFails, Backend!MasterReturns,
                  Backend!OthersSend, Backend!vars
    <3>2. \A o \in Backend!Threads : Backend!Layer(o)' = Backend!Layer(o)
      BY DEF Backend!Layer
    <3> QED
      BY <3>1, <3>2 DEF BackendInv, BackendIsTyped
  <2> QED
    BY <2>1, <2>2
<1>5. BackendIsTyped' /\ CallersAreKnown'
  BY <1>1, <1>2, <1>3, <1>4 DEF BackendInv, BackendIsTyped, CallersAreKnown
<1>6. ASSUME NEW o \in Backend!Threads PROVE LookIsFounded(o)'
  BY <1>1, <1>4, LooksStayFounded DEF IsLeftAlone
<1> QED
  BY <1>5, <1>6 DEF BackendInv, LooksAreFounded, Backend!Threads

\* The invariant holds at first and every step keeps it.
LEMMA BackendInvHolds ==
  ASSUME Backend!RedisBackendsAssumption, Backend!Init
  PROVE  BackendInv
<1>1. cycle \in Seq(Indexes) /\ Len(cycle) = Backend!RingSize
  <2>1. cycle \in [1..Backend!RingSize -> Indexes]
    <3>1. Backend!Cardinality(Indexes) = Cardinality(Indexes)
      BY DEF Backend!Cardinality, Cardinality
    <3> QED
      BY <3>1, RingSizeIsNatural DEF Backend!Init, Backend!Orders, Indexes
  <2> QED
    BY <2>1, RingSizeIsNatural
<1>2. BackendIsTyped
  BY <1>1 DEF Backend!Init, BackendIsTyped, Places, Backend!NoMasters
<1>3. CallersAreKnown
  BY LayersAre DEF Backend!Init, CallersAreKnown, Backend!RedisBackendsAssumption
<1>4. LooksAreFounded
  BY DEF Backend!Init, LooksAreFounded, LookIsFounded
<1> QED
  BY <1>2, <1>3, <1>4 DEF BackendInv

\* Every step of threads, Redis and its other users.
LEMMA BackendInvIsKept ==
  ASSUME Backend!RedisBackendsAssumption, BackendInv, [Backend!Next]_(Backend!vars)
  PROVE  BackendInv'
<1>1. Server \notin Clients
  BY DEF Backend!RedisBackendsAssumption
<1>2. ASSUME NEW t \in Backend!Threads, Backend!Connect(t) PROVE BackendInv'
  BY <1>2, BuildKeeps, ChooseKeeps, LookKeeps, FindNothingKeeps, ErrorKeeps
  DEF Backend!Connect
<1> QED
  BY <1>1, <1>2, ClientKeeps, ServerKeeps, ElsewhereKeeps DEF Backend!Next

\* For any number of client threads, members and failovers, a KeyError of
\* _get_master_client_for has another thread behind it that reset the layer in
\* between: two looks of one thread alone find the same.
THEOREM KeyErrorsAreRaces ==
  ASSUME Backend!RedisBackendsAssumption
  PROVE  Backend!Spec => []Backend!KeyErrorNeedsARace
<1>1. BackendInv => Backend!KeyErrorNeedsARace
  BY DEF BackendInv, LooksAreFounded, LookIsFounded, Backend!KeyErrorNeedsARace
<1> QED
  BY <1>1, BackendInvHolds, BackendInvIsKept, PTL DEF Backend!Spec

\* Nobody resets the layer of the server but the server.
LEMMA ServerIsNotRaced ==
  ASSUME Backend!RedisBackendsAssumption, BackendInv, ~raced[Server],
         [Backend!Next]_(Backend!vars)
  PROVE  ~raced'[Server]
<1>1. \/ raced' = raced
      \/ \E t \in Backend!Threads : raced' = [raced EXCEPT ![t] = FALSE]
      \/ \E t \in Backend!Threads : Backend!Reset(t)
      \/ Backend!ResetLayer("clients", Backend!Threads)
  BY DEF Backend!Next, Backend!Connect, Backend!ClientStep, Backend!ServerStep,
         Backend!RedisStep, Backend!NeighbourResets, Backend!Build, Backend!BuildFails,
         Backend!Choose, Backend!Test, Backend!Resolve, Backend!ResolveFails,
         Backend!FindNothing, Backend!Fetch, Backend!UseFails, Backend!Used,
         Backend!SendRequest, Backend!ReceiveReply, Backend!CallAgain,
         Backend!ReceiveTimesOut, Backend!TakeRequest, Backend!PollTimesOut,
         Backend!SendDownstream, Backend!SendReply, Backend!MasterFails,
         Backend!MasterReturns, Backend!OthersSend, Backend!vars
<1>2. Server \in Backend!Threads /\ Backend!Layer(Server) = "server"
  BY DEF Backend!Threads, Backend!Layer
<1>3. ASSUME NEW t \in Backend!Threads, Backend!Reset(t)
      PROVE  ~raced'[Server]
  <2>1. t = Server \/ Backend!Layer(t) = "clients"
    BY DEF Backend!Layer
  <2> QED
    BY <1>2, <1>3, <2>1 DEF Backend!Reset, Backend!ResetLayer
<1>4. ASSUME Backend!ResetLayer("clients", Backend!Threads)
      PROVE  ~raced'[Server]
  BY <1>2, <1>4 DEF Backend!ResetLayer
<1>5. ASSUME NEW t \in Backend!Threads, raced' = [raced EXCEPT ![t] = FALSE]
      PROVE  ~raced'[Server]
  BY <1>2, <1>5 DEF BackendInv, BackendIsTyped
<1> QED
  BY <1>1, <1>3, <1>4, <1>5

\* A server shares its layer with the calls of its own actions and with no other
\* thread: it never meets a KeyError, whatever its clients' layers go through.
THEOREM ServersMeetNoKeyError ==
  ASSUME Backend!RedisBackendsAssumption
  PROVE  Backend!Spec => [](~keyError[Server])
<1> DEFINE Safe == BackendInv /\ ~raced[Server]
<1>1. Backend!Init => Safe
  BY BackendInvHolds DEF Backend!Init, Backend!Threads
<1>2. Safe /\ [Backend!Next]_(Backend!vars) => Safe'
  BY BackendInvIsKept, ServerIsNotRaced
<1>3. Safe => ~keyError[Server]
  BY LayersAre DEF BackendInv, LooksAreFounded, LookIsFounded
<1> QED
  BY <1>1, <1>2, <1>3, PTL DEF Backend!Spec
-----------------------------------------------------------------------------
(***************************************************************************)
(* Where replies are: server and clients hash a reply list by layers of    *)
(* their own, and come to one member if these are built in one order.      *)
(***************************************************************************)
HIDE DEF Backend!Leave, Backend!GoOn, Backend!Fail, Backend!AfterError

TheOrder == CHOOSE order \in RingOrders : TRUE
Home(c) == TheOrder[Backend!HashIndex(c) + 1]

Looking == {"testing", "resolving", "fetching", "using"}

\* The member that a thread has chosen for a reply list is that of its hash.
ChoiceIsHome(t) ==
    pc[t] \in Looking =>
        /\ t \in Clients /\ purpose[t] = "receive" => member[t] = Home(t)
        /\ t = Server /\ purpose[t] = "respond" /\ held \in Clients => member[t] = Home(held)

ChoicesAreHome == \A t \in Backend!Threads : ChoiceIsHome(t)

RepliesAreHome == \A c \in Clients, s \in Services : c \in replies[s] => s = Home(c)

\* Choices and replies are home, and only clients have reply lists.
RepliesInv ==
    /\ BackendInv /\ ChoicesAreHome /\ RepliesAreHome
    /\ replies \in [Services -> SUBSET Clients]

\* Where a thread looks stays the same, or it no longer looks.
GoesOnLooking(t) ==
    pc'[t] \in Looking =>
        /\ pc[t] \in Looking
        /\ purpose'[t] = purpose[t] /\ member'[t] = member[t]
        /\ t = Server => held' = held

\* The member of a list is a matter of its name and of the order.
LEMMA HomesStay ==
  ASSUME UNCHANGED hash, NEW c
  PROVE  Home(c)' = Home(c)
  BY DEF Home, TheOrder, Backend!HashIndex, Backend!RingSize, Backend!Cardinality

\* A thread that looks where it looked has chosen right before.
LEMMA ChoicesStayHome ==
  ASSUME RepliesInv, UNCHANGED hash, NEW t \in Backend!Threads, GoesOnLooking(t)
  PROVE  ChoiceIsHome(t)'
<1>1. ChoiceIsHome(t)
  BY DEF RepliesInv, ChoicesAreHome
<1>2. Home(t)' = Home(t) /\ (held' = held => Home(held)' = Home(held))
  BY HomesStay
<1> QED
  BY <1>1, <1>2 DEF ChoiceIsHome, GoesOnLooking

\* What a layer is built in is the one order there is.
LEMMA ChosenIsHome ==
  ASSUME Backend!RedisBackendsAssumption, Backend!OneRingOrder, RepliesInv,
         NEW t \in Backend!Threads, Backend!Choose(t)
  PROVE  ChoiceIsHome(t)'
<1>1. PICK index \in Backend!IndexesFor(t) :
         member' = [member EXCEPT ![t] = ring[Backend!Layer(t)][index + 1]]
  BY DEF Backend!Choose
<1>2. ring[Backend!Layer(t)] = TheOrder
  <2>1. ring[Backend!Layer(t)] \in RingOrders
    BY LayersAre DEF RepliesInv, BackendInv, BackendIsTyped, Backend!Choose, Backend!IsBuilt
  <2> QED
    BY <2>1 DEF TheOrder, Backend!OneRingOrder
<1>3. UNCHANGED <<hash, purpose, held>>
  BY DEF Backend!Choose
<1>4. /\ t \in Clients /\ purpose[t] = "receive" => index = Backend!HashIndex(t)
      /\ purpose[t] = "respond" /\ held # Other => index = Backend!HashIndex(held)
  BY Zenon DEF Backend!IndexesFor
<1>5. member'[t] = TheOrder[index + 1]
  BY <1>1, <1>2 DEF RepliesInv, BackendInv, BackendIsTyped
<1>6. Other \notin Clients
  BY DEF Backend!RedisBackendsAssumption
<1>7. Home(t)' = Home(t) /\ Home(held)' = Home(held)
  BY <1>3, HomesStay
<1> QED
  BY <1>3, <1>4, <1>5, <1>6, <1>7 DEF ChoiceIsHome, Home

\* Every thread goes on looking where it looked, except one that chooses.
LEMMA OthersGoOnLooking ==
  ASSUME RepliesInv, [Backend!Next]_(Backend!vars)
  PROVE  \A o \in Backend!Threads : GoesOnLooking(o) \/ Backend!Choose(o)
<1>1. /\ pc \in [Backend!Threads -> Places]
      /\ purpose \in [Backend!Threads -> {"send", "receive", "poll", "downstream", "respond"}]
      /\ member \in [Backend!Threads -> Services \union {None}]
      /\ \A c \in Clients : purpose[c] # "respond"
  <2>1. BackendIsTyped /\ CallersAreKnown
    BY DEF RepliesInv, BackendInv
  <2>2. \A c \in Clients : purpose[c] # "respond"
    BY <2>1 DEF CallersAreKnown
  <2>3. purpose \in [Backend!Threads -> {"send", "receive", "poll", "downstream", "respond"}]
    BY <2>1 DEF CallersAreKnown
  <2> QED
    BY <2>1, <2>2, <2>3 DEF BackendIsTyped
<1>2. ASSUME NEW t \in Backend!Threads, NEW place \in {"idle", "answered"}, NEW next,
             Backend!Leave(t, place, next), t # Server => held' = held
      PROVE  \A o \in Backend!Threads : GoesOnLooking(o)
  <2>1. /\ pc' = [pc EXCEPT ![t] = place]
        /\ purpose' = [purpose EXCEPT ![t] = next]
        /\ member' = [member EXCEPT ![t] = None]
    BY <1>2 DEF Backend!Leave
  <2> QED
    BY <1>1, <1>2, <2>1 DEF GoesOnLooking, Looking
<1>3. ASSUME NEW t \in Backend!Threads, Backend!Fail(t)
      PROVE  \A o \in Backend!Threads : GoesOnLooking(o)
  <2>1. /\ Backend!Leave(t, "idle", Backend!AfterError[purpose[t]])
        /\ purpose[t] # "respond" => held' = held
    BY <1>3 DEF Backend!Fail, Backend!GoOn
  <2>2. t # Server => held' = held
    BY <1>1, <2>1, LayersAre
  <2> QED
    BY <1>2, <2>1, <2>2
<1>4. ASSUME NEW t \in Backend!Threads, Backend!Connect(t)
      PROVE  \A o \in Backend!Threads : GoesOnLooking(o) \/ Backend!Choose(o)
  <2>1. CASE Backend!Fail(t)
    BY <1>3, <2>1
  <2>2. CASE Backend!Choose(t)
    <3>1. /\ \E place : pc' = [pc EXCEPT ![t] = place]
          /\ UNCHANGED <<purpose, held>>
      BY <2>2 DEF Backend!Choose
    <3>2. \E s : member' = [member EXCEPT ![t] = s]
      BY <2>2 DEF Backend!Choose
    <3> QED
      BY <1>1, <2>2, <3>1, <3>2 DEF GoesOnLooking
  <2>3. CASE ~Backend!Fail(t) /\ ~Backend!Choose(t)
    <3>1. /\ UNCHANGED <<purpose, member, held>>
          /\ \/ UNCHANGED pc
             \/ pc[t] \in Looking /\ \E place : pc' = [pc EXCEPT ![t] = place]
      BY <2>3, <1>4
      DEF Backend!Connect, Backend!Build, Backend!BuildFails, Backend!Test, Backend!Resolve,
          Backend!ResolveFails, Backend!FindNothing, Backend!Fetch, Backend!UseFails, Looking
    <3> QED
      BY <1>1, <3>1 DEF GoesOnLooking
  <2> QED
    BY <2>1, <2>2, <2>3
<1>5. ASSUME NEW c \in Clients, Backend!ClientStep(c)
      PROVE  \A o \in Backend!Threads : GoesOnLooking(o)
  <2>1. /\ held' = held
        /\ \E place \in {"idle", "answered"}, next \in {"send", "receive"} :
              Backend!Leave(c, place, next)
    BY <1>5 DEF Backend!ClientStep, Backend!SendRequest, Backend!ReceiveReply,
                Backend!CallAgain, Backend!ReceiveTimesOut, Backend!Used, Backend!GoOn
  <2>2. PICK place \in {"idle", "answered"}, next \in {"send", "receive"} :
           Backend!Leave(c, place, next)
    BY <2>1
  <2> QED
    BY <1>2, <2>1, <2>2, LayersAre
<1>6. ASSUME Backend!ServerStep
      PROVE  \A o \in Backend!Threads : GoesOnLooking(o)
  <2>1. \E next : Backend!Leave(Server, "idle", next)
    BY <1>6 DEF Backend!ServerStep, Backend!TakeRequest, Backend!PollTimesOut,
                Backend!SendDownstream, Backend!SendReply, Backend!Used, Backend!GoOn
  <2>2. PICK next : Backend!Leave(Server, "idle", next)
    BY <2>1
  <2> QED
    BY <1>2, <2>2, LayersAre
<1>7. ASSUME \/ Backend!NeighbourResets
             \/ \E s \in Services : Backend!RedisStep(s)
             \/ UNCHANGED Backend!vars
      PROVE  \A o \in Backend!Threads : GoesOnLooking(o)
  <2>1. UNCHANGED <<pc, purpose, member, held>>
    BY <1>7 DEF Backend!NeighbourResets, Backend!RedisStep, Backend!MasterFails,
                Backend!MasterReturns, Backend!OthersSend, Backend!vars
  <2> QED
    BY <2>1 DEF GoesOnLooking
<1> QED
  BY <1>4, <1>5, <1>6, <1>7 DEF Backend!Next

\* A reply goes to the member that its list is hashed to, and none goes elsewhere.
LEMMA RepliesStayHome ==
  ASSUME Backend!RedisBackendsAssumption, RepliesInv, [Backend!Next]_(Backend!vars)
  PROVE  RepliesAreHome' /\ replies' \in [Services -> SUBSET Clients]
<1>1. RepliesAreHome /\ UNCHANGED hash
  <2>1. UNCHANGED hash
    BY DEF Backend!Next, Backend!Connect, Backend!ClientStep, Backend!ServerStep,
           Backend!RedisStep, Backend!NeighbourResets, Backend!Build, Backend!BuildFails,
           Backend!Choose, Backend!Test, Backend!Resolve, Backend!ResolveFails,
           Backend!FindNothing, Backend!Fetch, Backend!UseFails, Backend!Used,
           Backend!SendRequest, Backend!ReceiveReply, Backend!CallAgain,
           Backend!ReceiveTimesOut, Backend!TakeRequest, Backend!PollTimesOut,
           Backend!SendDownstream, Backend!SendReply, Backend!MasterFails,
           Backend!MasterReturns, Backend!OthersSend, Backend!vars
  <2> QED
    BY <2>1 DEF RepliesInv
<1>2. ASSUME replies' \in [Services -> SUBSET Clients],
             \A c \in Clients, s \in Services :
                c \in replies'[s] => c \in replies[s] \/ s = Home(c)
      PROVE  RepliesAreHome' /\ replies' \in [Services -> SUBSET Clients]
  <2>1. ASSUME NEW c \in Clients PROVE Home(c)' = Home(c)
    BY <1>1, HomesStay
  <2> QED
    BY <1>1, <1>2, <2>1 DEF RepliesAreHome
<1>3. CASE Backend!SendReply
  <2>1. /\ purpose[Server] = "respond" /\ pc[Server] = "using"
        /\ replies' = IF held = Other THEN replies
                      ELSE [replies EXCEPT ![member[Server]] = @ \union {held}]
    BY <1>3 DEF Backend!SendReply, Backend!Reaches
  <2>2. held # Other => held \in Clients
    BY <2>1 DEF RepliesInv, BackendInv, CallersAreKnown, Callers
  <2>3. held # Other => member[Server] = Home(held)
    BY <2>1, <2>2, LayersAre DEF RepliesInv, ChoicesAreHome, ChoiceIsHome, Looking
  <2>4. replies \in [Services -> SUBSET Clients]
    BY DEF RepliesInv
  <2> QED
    BY <1>2, <2>1, <2>2, <2>3, <2>4
<1>4. CASE ~Backend!SendReply
  <2>1. \/ UNCHANGED replies
        \/ \E c \in Clients : Backend!ReceiveReply(c) \/ Backend!ReceiveTimesOut(c)
    BY <1>4 DEF Backend!Next, Backend!Connect, Backend!ClientStep, Backend!ServerStep,
           Backend!RedisStep, Backend!NeighbourResets, Backend!Build, Backend!BuildFails,
           Backend!Choose, Backend!Test, Backend!Resolve, Backend!ResolveFails,
           Backend!FindNothing, Backend!Fetch, Backend!UseFails,
           Backend!SendRequest, Backend!CallAgain,
           Backend!TakeRequest, Backend!PollTimesOut,
           Backend!SendDownstream, Backend!MasterFails,
           Backend!MasterReturns, Backend!OthersSend, Backend!vars
  <2>2. replies \in [Services -> SUBSET Clients]
    BY DEF RepliesInv
  <2>3. ASSUME NEW c \in Clients, Backend!ReceiveReply(c)
        PROVE  RepliesAreHome' /\ replies' \in [Services -> SUBSET Clients]
    <3>1. replies' = [replies EXCEPT ![member[c]] = @ \ {c}]
      BY <2>3 DEF Backend!ReceiveReply
    <3> QED
      BY <1>2, <2>2, <3>1
  <2>4. ASSUME NEW c \in Clients, Backend!ReceiveTimesOut(c)
        PROVE  RepliesAreHome' /\ replies' \in [Services -> SUBSET Clients]
    <3>1. replies' = [s \in Services |-> replies[s] \ {c}]
      BY <2>4 DEF Backend!ReceiveTimesOut
    <3> QED
      BY <1>2, <2>2, <3>1
  <2>5. CASE UNCHANGED replies
    BY <1>2, <2>2, <2>5
  <2> QED
    BY <2>1, <2>3, <2>4, <2>5
<1> QED
  BY <1>3, <1>4

\* Every step of threads, Redis and its other users.
LEMMA RepliesInvIsKept ==
  ASSUME Backend!RedisBackendsAssumption, Backend!OneRingOrder,
         RepliesInv, [Backend!Next]_(Backend!vars)
  PROVE  RepliesInv'
<1>1. BackendInv'
  BY BackendInvIsKept DEF RepliesInv
<1>2. ASSUME NEW t \in Backend!Threads
      PROVE  ChoiceIsHome(t)'
  <2>1. CASE Backend!Choose(t)
    BY <2>1, ChosenIsHome
  <2>2. CASE GoesOnLooking(t)
    <3>1. UNCHANGED hash
      BY DEF Backend!Next, Backend!Connect, Backend!ClientStep, Backend!ServerStep,
             Backend!RedisStep, Backend!NeighbourResets, Backend!Build, Backend!BuildFails,
             Backend!Choose, Backend!Test, Backend!Resolve, Backend!ResolveFails,
             Backend!FindNothing, Backend!Fetch, Backend!UseFails, Backend!Used,
             Backend!SendRequest, Backend!ReceiveReply, Backend!CallAgain,
             Backend!ReceiveTimesOut, Backend!TakeRequest, Backend!PollTimesOut,
             Backend!SendDownstream, Backend!SendReply, Backend!MasterFails,
             Backend!MasterReturns, Backend!OthersSend, Backend!vars
    <3> QED
      BY <2>2, <3>1, ChoicesStayHome
  <2> QED
    BY <2>1, <2>2, OthersGoOnLooking
<1>3. ChoicesAreHome'
  BY <1>2 DEF ChoicesAreHome, Backend!Threads
<1> QED
  BY <1>1, <1>3, RepliesStayHome DEF RepliesInv

\* For any number of clients, members, failovers and resets: where the settings
\* give the members one order, a client that pops looks at the member that its
\* reply is on, although the server hashed the list by a layer of its own.
THEOREM RepliesFindCallers ==
  ASSUME Backend!RedisBackendsAssumption, Backend!OneRingOrder
  PROVE  Backend!Spec => []Backend!RepliesAreFound
<1>1. Backend!Init => RepliesInv
  BY BackendInvHolds
  DEF Backend!Init, RepliesInv, ChoicesAreHome, ChoiceIsHome, RepliesAreHome, Looking
<1>2. RepliesInv /\ [Backend!Next]_(Backend!vars) => RepliesInv'
  BY RepliesInvIsKept
<1>3. RepliesInv => Backend!RepliesAreFound
  BY LayersAre
  DEF RepliesInv, ChoicesAreHome, ChoiceIsHome, RepliesAreHome, Looking, Backend!RepliesAreFound
<1> QED
  BY <1>1, <1>2, <1>3, PTL DEF Backend!Spec
-----------------------------------------------------------------------------
\* A job that is about to send a request has one left to send, tries stay below
\* the retries of the settings, and what is unseen of failovers has happened.
CountsAreTyped ==
    /\ kind \in Kinds
    /\ held \in Callers \union {None}
    /\ sendsLeft \in Nat
    /\ purpose[Server] = "downstream" => sendsLeft > 0
    /\ failovers \in 0..MaxFailovers /\ unseen \in 0..failovers

ThreadsAreTyped ==
    /\ tries \in [Backend!Threads -> 0..Retries]
    /\ connection \in [Backend!Threads -> Int]

MembersAreTyped ==
    /\ up \in [Services -> BOOLEAN]
    /\ replies \in [Services -> SUBSET Clients]

TypesInv == BackendInv /\ CountsAreTyped /\ ThreadsAreTyped /\ MembersAreTyped

\* What a thread leaves behind when it is through with a connection.
IsLeft(t) ==
    /\ tries' = [tries EXCEPT ![t] = 0]
    /\ connection' = [connection EXCEPT ![t] = Backend!Absent]

LEMMA LeaveIsTyped ==
  ASSUME Backend!RedisBackendsAssumption, ThreadsAreTyped, NEW t \in Backend!Threads, IsLeft(t)
  PROVE  ThreadsAreTyped'
<1>1. Retries \in Nat /\ Backend!Absent \in Int
  BY DEF Backend!RedisBackendsAssumption
<1>2. Backend!Threads' = Backend!Threads
  BY DEF Backend!Threads
<1> QED
  BY <1>1, <1>2 DEF ThreadsAreTyped, IsLeft

\* Tries and connections: only steps of threads touch them.
LEMMA ThreadsStayTyped ==
  ASSUME Backend!RedisBackendsAssumption, TypesInv, [Backend!Next]_(Backend!vars)
  PROVE  ThreadsAreTyped'
<1>1. ThreadsAreTyped /\ BackendIsTyped /\ LooksAreFounded
  BY DEF TypesInv, BackendInv
<1>2. ASSUME NEW t \in Backend!Threads, Backend!Connect(t)
      PROVE  ThreadsAreTyped'
  <2>1. CASE Backend!Fetch(t)
    <3>1. connection' = [connection EXCEPT ![t] = Backend!Cached(t)] /\ tries' = tries
      BY <2>1 DEF Backend!Fetch
    <3>2. Backend!Cached(t) \in Int
      <4>1. member[t] \in Services
        BY <1>1, <1>2, <2>1 DEF LooksAreFounded, LookIsFounded, Backend!Fetch
      <4> QED
        BY <1>1, <4>1, LayersAre DEF Backend!Cached, BackendIsTyped
    <3> QED
      BY <1>1, <3>1, <3>2 DEF ThreadsAreTyped, Backend!Threads
  <2>2. CASE Backend!ResolveFails(t)
    <3>1. \/ /\ tries[t] < Retries /\ tries' = [tries EXCEPT ![t] = @ + 1]
             /\ connection' = connection
          \/ IsLeft(t)
      BY <2>2 DEF Backend!ResolveFails, Backend!Fail, Backend!GoOn, Backend!Leave, IsLeft
    <3>2. CASE IsLeft(t)
      BY <1>1, <1>2, <3>2, LeaveIsTyped
    <3>3. CASE /\ tries[t] < Retries /\ tries' = [tries EXCEPT ![t] = @ + 1]
               /\ connection' = connection
      BY <1>1, <1>2, <3>3 DEF ThreadsAreTyped, Backend!Threads, Backend!RedisBackendsAssumption
    <3> QED
      BY <3>1, <3>2, <3>3
  <2>3. CASE Backend!BuildFails(t) \/ Backend!FindNothing(t) \/ Backend!UseFails(t)
    <3>1. IsLeft(t)
      BY <2>3 DEF Backend!BuildFails, Backend!FindNothing, Backend!UseFails, Backend!Fail,
                  Backend!GoOn, Backend!Leave, IsLeft
    <3> QED
      BY <1>1, <1>2, <3>1, LeaveIsTyped
  <2>4. CASE Backend!Build(t) \/ Backend!Choose(t) \/ Backend!Test(t) \/ Backend!Resolve(t)
    <3>1. UNCHANGED <<tries, connection>>
      BY <2>4 DEF Backend!Build, Backend!Choose, Backend!Test, Backend!Resolve
    <3> QED
      BY <1>1, <3>1 DEF ThreadsAreTyped, Backend!Threads
  <2> QED
    BY <1>2, <2>1, <2>2, <2>3, <2>4 DEF Backend!Connect
<1>3. CASE (\E c \in Clients : Backend!ClientStep(c)) \/ Backend!ServerStep
  <2>1. \E t \in Backend!Threads : IsLeft(t)
    BY <1>3 DEF Backend!ClientStep, Backend!SendRequest, Backend!ReceiveReply,
                Backend!CallAgain, Backend!ReceiveTimesOut, Backend!ServerStep,
                Backend!TakeRequest, Backend!PollTimesOut, Backend!SendDownstream,
                Backend!SendReply, Backend!Used, Backend!GoOn, Backend!Leave, IsLeft,
                Backend!Threads
  <2> QED
    BY <1>1, <2>1, LeaveIsTyped
<1>4. CASE \/ Backend!NeighbourResets
           \/ \E s \in Services : Backend!RedisStep(s)
           \/ UNCHANGED Backend!vars
  <2>1. UNCHANGED <<tries, connection>>
    BY <1>4 DEF Backend!NeighbourResets, Backend!RedisStep, Backend!MasterFails,
                Backend!MasterReturns, Backend!OthersSend, Backend!vars
  <2> QED
    BY <1>1, <2>1 DEF ThreadsAreTyped, Backend!Threads
<1> QED
  BY <1>2, <1>3, <1>4 DEF Backend!Next

\* The lists of replies, and whether there is a master.
LEMMA MembersStayTyped ==
  ASSUME Backend!RedisBackendsAssumption, TypesInv, [Backend!Next]_(Backend!vars)
  PROVE  MembersAreTyped'
<1>1. up \in [Services -> BOOLEAN] /\ replies \in [Services -> SUBSET Clients]
  BY DEF TypesInv, MembersAreTyped
<1>2. up' \in [Services -> BOOLEAN]
  <2>1. \/ up' = up
        \/ \E s \in Services : up' = [up EXCEPT ![s] = FALSE]
        \/ \E s \in Services : up' = [up EXCEPT ![s] = TRUE]
    BY DEF Backend!Next, Backend!Connect, Backend!ClientStep, Backend!ServerStep,
           Backend!RedisStep, Backend!NeighbourResets, Backend!Build, Backend!BuildFails,
           Backend!Choose, Backend!Test, Backend!Resolve, Backend!ResolveFails,
           Backend!FindNothing, Backend!Fetch, Backend!UseFails, Backend!Used,
           Backend!SendRequest, Backend!ReceiveReply, Backend!CallAgain,
           Backend!ReceiveTimesOut, Backend!TakeRequest, Backend!PollTimesOut,
           Backend!SendDownstream, Backend!SendReply, Backend!MasterFails,
           Backend!MasterReturns, Backend!OthersSend, Backend!vars
  <2> QED
    BY <1>1, <2>1
<1>3. replies' \in [Services -> SUBSET Clients]
  <2>1. \/ UNCHANGED replies
        \/ \E c \in Clients : Backend!ReceiveReply(c) \/ Backend!ReceiveTimesOut(c)
        \/ Backend!SendReply
    BY DEF Backend!Next, Backend!Connect, Backend!ClientStep, Backend!ServerStep,
           Backend!RedisStep, Backend!NeighbourResets, Backend!Build, Backend!BuildFails,
           Backend!Choose, Backend!Test, Backend!Resolve, Backend!ResolveFails,
           Backend!FindNothing, Backend!Fetch, Backend!UseFails,
           Backend!SendRequest, Backend!CallAgain,
           Backend!TakeRequest, Backend!PollTimesOut,
           Backend!SendDownstream, Backend!MasterFails,
           Backend!MasterReturns, Backend!OthersSend, Backend!vars
  <2>2. CASE \E c \in Clients : Backend!ReceiveReply(c) \/ Backend!ReceiveTimesOut(c)
    <3>1. \E c \in Clients : \/ replies' = [replies EXCEPT ![member[c]] = @ \ {c}]
                             \/ replies' = [s \in Services |-> replies[s] \ {c}]
      BY <2>2 DEF Backend!ReceiveReply, Backend!ReceiveTimesOut
    <3> QED
      BY <1>1, <3>1
  <2>3. CASE Backend!SendReply
    <3>1. /\ purpose[Server] = "respond"
          /\ replies' = IF held = Other THEN replies
                        ELSE [replies EXCEPT ![member[Server]] = @ \union {held}]
      BY <2>3 DEF Backend!SendReply
    <3>2. held = Other \/ held \in Clients
      BY <3>1 DEF TypesInv, BackendInv, CallersAreKnown, Callers
    <3> QED
      BY <1>1, <3>1, <3>2
  <2> QED
    BY <1>1, <2>1, <2>2, <2>3
<1> QED
  BY <1>2, <1>3 DEF MembersAreTyped

\* The request that the server has, and what is left of its job.
LEMMA JobStaysTyped ==
  ASSUME Backend!RedisBackendsAssumption, TypesInv, [Backend!Next]_(Backend!vars)
  PROVE  /\ held' \in Callers \union {None}
         /\ sendsLeft' \in Nat
         /\ purpose'[Server] = "downstream" => sendsLeft' > 0
<1>1. /\ held \in Callers \union {None} /\ sendsLeft \in Nat /\ Downstream \subseteq Nat
      /\ purpose[Server] = "downstream" => sendsLeft > 0
      /\ purpose \in [Backend!Threads -> {"send", "receive", "poll", "downstream", "respond"}]
      /\ \A c \in Clients : purpose[c] \in {"send", "receive"}
      /\ Server \in Backend!Threads /\ Server \notin Clients
  BY LayersAre DEF TypesInv, CountsAreTyped, BackendInv, CallersAreKnown, Backend!RedisBackendsAssumption
<1>2. CASE \E t \in Backend!Threads : Backend!Connect(t)
  <2>1. PICK t \in Backend!Threads : Backend!Connect(t)
    BY <1>2
  <2>2. CASE Backend!Fail(t)
    <3>1. /\ purpose' = [purpose EXCEPT ![t] = Backend!AfterError[purpose[t]]]
          /\ held' = IF purpose[t] = "respond" THEN None ELSE held
          /\ sendsLeft' = IF purpose[t] = "downstream" THEN 0 ELSE sendsLeft
      BY <2>2 DEF Backend!Fail, Backend!GoOn, Backend!Leave
    <3>2. CASE t = Server
      <4>1. purpose'[Server] # "downstream"
        BY <1>1, <3>1, <3>2 DEF Backend!AfterError
      <4> QED
        BY <1>1, <3>1, <4>1
    <3>3. CASE t # Server
      <4>1. purpose[t] \in {"send", "receive"} /\ purpose'[Server] = purpose[Server]
        BY <1>1, <3>1, <3>3 DEF Backend!Threads
      <4> QED
        BY <1>1, <3>1, <4>1
    <3> QED
      BY <3>2, <3>3
  <2>3. CASE ~Backend!Fail(t)
    <3>1. UNCHANGED <<held, sendsLeft, purpose>>
      BY <2>1, <2>3 DEF Backend!Connect, Backend!Build, Backend!BuildFails, Backend!Choose,
         Backend!Test, Backend!Resolve, Backend!ResolveFails, Backend!FindNothing,
         Backend!Fetch, Backend!UseFails
    <3> QED
      BY <1>1, <3>1
  <2> QED
    BY <2>2, <2>3
<1>3. CASE \E c \in Clients : Backend!ClientStep(c)
  <2>1. /\ UNCHANGED <<held, sendsLeft>>
        /\ \E c \in Clients, next \in {"send", "receive"} : purpose' = [purpose EXCEPT ![c] = next]
    BY <1>3 DEF Backend!ClientStep, Backend!SendRequest, Backend!ReceiveReply,
       Backend!CallAgain, Backend!ReceiveTimesOut, Backend!Used, Backend!GoOn, Backend!Leave
  <2>2. purpose'[Server] = purpose[Server]
    BY <1>1, <2>1
  <2> QED
    BY <1>1, <2>1, <2>2
<1>4. CASE Backend!TakeRequest
  <2>1. PICK sends \in Downstream :
           /\ sendsLeft' = sends
           /\ purpose' = [purpose EXCEPT ![Server] = IF sends > 0 THEN "downstream" ELSE "respond"]
    BY <1>4 DEF Backend!TakeRequest, Backend!Used, Backend!GoOn, Backend!Leave
  <2>2. held' \in Callers
    <3>1. purpose'[Server] \in {"downstream", "respond"}
      BY <1>1, <2>1
    <3>2. BackendInv'
      BY BackendInvIsKept DEF TypesInv
    <3>3. purpose'[Server] \in {"downstream", "respond"} => held' \in Callers'
      BY <3>2 DEF BackendInv, CallersAreKnown
    <3> QED
      BY <3>1, <3>3 DEF Callers
  <2> QED
    BY <1>1, <2>1, <2>2
<1>5. CASE Backend!PollTimesOut
  <2>1. UNCHANGED <<held, sendsLeft>> /\ purpose' = [purpose EXCEPT ![Server] = "poll"]
    BY <1>5 DEF Backend!PollTimesOut, Backend!Used, Backend!GoOn, Backend!Leave
  <2> QED
    BY <1>1, <2>1
<1>6. CASE Backend!SendDownstream
  <2>1. /\ purpose[Server] = "downstream" /\ held' = held /\ sendsLeft' = sendsLeft - 1
        /\ purpose' = [purpose EXCEPT ![Server] = IF sendsLeft > 1 THEN "downstream" ELSE "respond"]
    BY <1>6 DEF Backend!SendDownstream, Backend!Used, Backend!GoOn, Backend!Leave
  <2> QED
    BY <1>1, <2>1
<1>7. CASE Backend!SendReply
  <2>1. /\ held' = None /\ sendsLeft' = sendsLeft
        /\ purpose' = [purpose EXCEPT ![Server] = "poll"]
    BY <1>7 DEF Backend!SendReply, Backend!Used, Backend!GoOn, Backend!Leave
  <2> QED
    BY <1>1, <2>1
<1>8. CASE \/ Backend!NeighbourResets
           \/ \E s \in Services : Backend!RedisStep(s)
           \/ UNCHANGED Backend!vars
  <2>1. UNCHANGED <<held, sendsLeft, purpose>>
    BY <1>8 DEF Backend!NeighbourResets, Backend!RedisStep, Backend!MasterFails,
                Backend!MasterReturns, Backend!OthersSend, Backend!vars
  <2> QED
    BY <1>1, <2>1
<1> QED
  BY <1>2, <1>3, <1>4, <1>5, <1>6, <1>7, <1>8 DEF Backend!Next, Backend!ServerStep

\* Failovers are counted, and met by other threads no more often than they happened.
LEMMA FailoversStayTyped ==
  ASSUME Backend!RedisBackendsAssumption, TypesInv, [Backend!Next]_(Backend!vars)
  PROVE  /\ failovers' \in 0..MaxFailovers /\ unseen' \in 0..failovers'
         /\ kind' \in Kinds
<1>1. /\ failovers \in 0..MaxFailovers /\ unseen \in 0..failovers /\ kind \in Kinds
      /\ MaxFailovers \in Nat
  BY DEF TypesInv, CountsAreTyped, Backend!RedisBackendsAssumption
<1>2. /\ kind' = kind
      /\ \/ UNCHANGED <<failovers, unseen>>
         \/ failovers < MaxFailovers /\ failovers' = failovers + 1 /\ unseen' = unseen + 1
         \/ failovers' = failovers /\ unseen > 0 /\ unseen' = unseen - 1
  BY DEF Backend!Next, Backend!Connect, Backend!ClientStep, Backend!ServerStep,
         Backend!RedisStep, Backend!NeighbourResets, Backend!Build, Backend!BuildFails,
         Backend!Choose, Backend!Test, Backend!Resolve, Backend!ResolveFails,
         Backend!FindNothing, Backend!Fetch, Backend!UseFails, Backend!Used,
         Backend!SendRequest, Backend!ReceiveReply, Backend!CallAgain,
         Backend!ReceiveTimesOut, Backend!TakeRequest, Backend!PollTimesOut,
         Backend!SendDownstream, Backend!SendReply, Backend!MasterFails,
         Backend!MasterReturns, Backend!OthersSend, Backend!vars
<1> QED
  BY <1>1, <1>2

\* For any number of clients and members, every variable of the backends keeps
\* its type: retries end, and no job sends more than it has to.
THEOREM BackendTypesHold ==
  ASSUME Backend!RedisBackendsAssumption
  PROVE  Backend!Spec => []Backend!TypeOK
<1>1. ASSUME Backend!Init PROVE TypesInv
  <2>1. /\ Retries \in Nat /\ MaxFailovers \in Nat
        /\ Server \in Backend!Threads /\ Backend!Absent \in Int
    BY LayersAre DEF Backend!RedisBackendsAssumption
  <2>2. CountsAreTyped
    BY <1>1, <2>1 DEF Backend!Init, CountsAreTyped
  <2>3. ThreadsAreTyped
    BY <1>1, <2>1 DEF Backend!Init, ThreadsAreTyped
  <2>4. MembersAreTyped
    BY <1>1 DEF Backend!Init, MembersAreTyped
  <2> QED
    BY <1>1, <2>2, <2>3, <2>4, BackendInvHolds DEF TypesInv
<1>2. ASSUME TypesInv, [Backend!Next]_(Backend!vars) PROVE TypesInv'
  <2>1. CountsAreTyped'
    BY <1>2, JobStaysTyped, FailoversStayTyped DEF CountsAreTyped, Callers
  <2> QED
    BY <1>2, <2>1, BackendInvIsKept, ThreadsStayTyped, MembersStayTyped DEF TypesInv
<1>3. TypesInv => Backend!TypeOK
  BY DEF TypesInv, BackendInv, BackendIsTyped, CallersAreKnown, CountsAreTyped, ThreadsAreTyped,
         MembersAreTyped, Callers, Places, Indexes, Backend!TypeOK
<1> QED
  BY <1>1, <1>2, <1>3, PTL DEF Backend!Spec
=============================================================================
