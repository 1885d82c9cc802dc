--------------------------- MODULE ExpansionsProofs ---------------------------
(***************************************************************************)
(* Theorems about Expansions, for any configuration, database and response:*)
(* a field is filled with what its own route has under its identifier; a   *)
(* field that was to be filled and is not has an explanation; and a call   *)
(* that returns raised the errors it was to raise and has received every   *)
(* response.                                                               *)
(***************************************************************************)
EXTENDS Expansions, SequenceTheorems, TLAPS

\* An object and an expansion of its type that was asked for.
IsPair(pair) ==
    /\ pair[2] \in Nodes
    /\ pair[2].path # <<>>
    /\ TypeOf(Parent(pair[2])) = pair[1].data.type

PairsAreTyped == \A pair \in toExpand : IsPair(pair)

\* The nodes of a request are for its action; one of them named the field.
IsRequest(nodes, service, action, field) ==
    /\ \A pair \in nodes : IsPair(pair) /\ Target(pair) = <<service, action>>
    /\ \E first \in nodes : Route(first[2]).field = field

PendingAreRequests == \A q \in pending : IsRequest(q.nodes, q.service, q.action, q.field)

SentAreRequests ==
    /\ requests \in Seq({requests[i] : i \in DOMAIN requests})
    /\ answers \in Seq({"none", "objects", "errors"})
    /\ Len(answers) = Len(requests)
    /\ \A i \in 1..Len(requests) :
        /\ requests[i].key = <<requests[i].key[1], requests[i].key[2], requests[i].key[3]>>
        /\ IsRequest(requests[i].nodes, requests[i].key[1], requests[i].key[2],
                     requests[i].key[3])

\* What is outstanding was sent, to a service that is still to be visited.
OutstandingAreVisited ==
    /\ outstanding \subseteq 1..Len(requests)
    /\ toVisit \subseteq Services
    /\ visiting = None => toVisit = {}
    /\ stage \in {"forming", "errors", "returned"} => outstanding = {}
    /\ stage = "receiving" =>
          \A i \in outstanding : ServiceOf(i) \in toVisit \union {visiting}

\* An error of an expansion that raises is kept until the round ends.
ErrorsAreKept ==
    /\ \A i \in 1..Len(requests) : answers[i] = "errors" /\ NotesErrors(i) => i \in raising
    /\ stage \in {"forming", "sending", "returned"} => raising = {}

IInv ==
    /\ PairsAreTyped
    /\ PendingAreRequests
    /\ SentAreRequests
    /\ OutstandingAreVisited
    /\ ErrorsAreKept
-----------------------------------------------------------------------------
(***************************************************************************)
(* What is found                                                           *)
(***************************************************************************)
\* An object is paired with the expansions of the type that it was found by.
LEMMA FoundArePairs ==
  ASSUME NEW i, NEW body, NEW n, NEW pair \in Extend(i, body, n)
  PROVE  IsPair(pair)
<1>1. PICK o \in Find(i, body, TypeOf(n)), m \in Children(n) : pair = <<o, m>>
  BY DEF Extend
<1>2. o.data.type = TypeOf(n)
  BY <1>1 DEF Find
<1>3. m \in Nodes /\ m.path # <<>> /\ Parent(m) = n
  BY <1>1 DEF Children
<1>4. pair[1] = o /\ pair[2] = m
  BY <1>1
<1> QED
  BY <1>2, <1>3, <1>4 DEF IsPair

\* So is every object that a body or response is searched for.
LEMMA AllFoundArePairs ==
  ASSUME NEW i, NEW body, NEW pair \in ExtendAll(i, body)
  PROVE  IsPair(pair)
<1>1. PICK t \in DOMAIN Requested : pair \in Extend(i, body, Root(t))
  BY DEF ExtendAll
<1> QED
  BY <1>1, FoundArePairs

\* The route of a node is that of an expansion that is configured.
LEMMA RoutesAreKnown ==
  ASSUME NEW pair, IsPair(pair)
  PROVE  Route(pair[2]).service \in Services
<1> DEFINE n == pair[2]
<1>1. /\ TypeOf(Parent(n)) \in DOMAIN TypeExpansions
      /\ Last(n.path) \in DOMAIN TypeExpansions[TypeOf(Parent(n))]
  BY RequestedAssumption DEF IsPair
<1>2. Definition(n).route \in DOMAIN TypeRoutes
  BY <1>1, ExpansionsAssumption DEF Definition
<1> QED
  BY <1>2 DEF Route, Services

\* The call starts without requests.
LEMMA InitHolds == Init => IInv
<1> SUFFICES ASSUME Init PROVE IInv
  OBVIOUS
<1>1. PICK body \in Bodies : toExpand = ExtendAll(0, body)
  BY DEF Init
<1>2. PairsAreTyped
  BY <1>1, AllFoundArePairs DEF PairsAreTyped
<1>3. PendingAreRequests
  BY DEF Init, PendingAreRequests
<1>4. requests = <<>> /\ answers = <<>>
  BY DEF Init
<1>5. SentAreRequests
  BY <1>4 DEF SentAreRequests
<1>6. OutstandingAreVisited
  BY DEF Init, OutstandingAreVisited
<1>7. ErrorsAreKept
  BY <1>4 DEF Init, ErrorsAreKept
<1> QED
  BY <1>2, <1>3, <1>5, <1>6, <1>7 DEF IInv
-----------------------------------------------------------------------------
(***************************************************************************)
(* The steps                                                               *)
(***************************************************************************)
\* Each request of a round merges the pairs of one action, the first of which
\* names its field.
LEMMA FormRequestsKeeps == ASSUME IInv, FormRequests PROVE IInv'
<1> USE DEF IInv
<1> DEFINE open == {pair \in toExpand : IsOpen(pair)}
           nodes(target) == {pair \in open : Target(pair) = target}
<1>1. /\ stage = "forming" /\ stage' = "sending" /\ toExpand' = {}
      /\ UNCHANGED <<made, requests, outstanding, visiting, toVisit, filled, raising, answers>>
  BY DEF FormRequests, Merge
<1>2. PICK first \in [{Target(pair) : pair \in open} -> open] :
        /\ \A target \in DOMAIN first : first[target] \in nodes(target)
        /\ pending' = {[service |-> target[1], action |-> target[2],
                        field |-> Route(first[target][2]).field,
                        nodes |-> nodes(target)] : target \in DOMAIN first}
  BY DEF FormRequests, Merge
<1>3. PendingAreRequests'
  <2> SUFFICES ASSUME NEW q \in pending'
               PROVE  IsRequest(q.nodes, q.service, q.action, q.field)
    BY DEF PendingAreRequests
  <2>1. PICK target \in DOMAIN first :
          q = [service |-> target[1], action |-> target[2],
               field |-> Route(first[target][2]).field, nodes |-> nodes(target)]
    BY <1>2
  <2>2. /\ q.service = target[1] /\ q.action = target[2] /\ q.nodes = nodes(target)
        /\ q.field = Route(first[target][2]).field
    BY <2>1
  <2>3. target = <<target[1], target[2]>>
    BY DEF Target
  <2>4. \A pair \in nodes(target) : IsPair(pair) /\ Target(pair) = target
    BY DEF PairsAreTyped
  <2>5. first[target] \in nodes(target)
    BY <1>2
  <2> HIDE DEF nodes
  <2> QED
    BY <2>2, <2>3, <2>4, <2>5 DEF IsRequest
<1>4. PairsAreTyped'
  BY <1>1 DEF PairsAreTyped
<1>5. SentAreRequests'
  BY <1>1 DEF SentAreRequests
<1>6. OutstandingAreVisited'
  BY <1>1 DEF OutstandingAreVisited, ServiceOf
<1>7. ErrorsAreKept'
  BY <1>1 DEF ErrorsAreKept, NotesErrors
<1> QED
  BY <1>3, <1>4, <1>5, <1>6, <1>7

\* A request that asks for nothing new is left out.
LEMMA SkipRequestKeeps == ASSUME IInv, NEW q \in pending, SkipRequest(q) PROVE IInv'
<1> USE DEF IInv, SkipRequest, history
<1>1. PairsAreTyped'
  BY DEF PairsAreTyped
<1>2. PendingAreRequests'
  BY DEF PendingAreRequests
<1>3. SentAreRequests'
  BY DEF SentAreRequests
<1>4. OutstandingAreVisited'
  BY DEF OutstandingAreVisited, ServiceOf
<1>5. ErrorsAreKept'
  BY DEF ErrorsAreKept, NotesErrors
<1> QED
  BY <1>1, <1>2, <1>3, <1>4, <1>5

\* Functions on 1..n are sequences.
LEMMA FunctionsAreSequences ==
  ASSUME NEW S, NEW n \in Nat, NEW f \in [1..n -> S]
  PROVE  f \in Seq(S)
  BY SeqDef

\* What a request appended to the others is.
LEMMA RequestsGrow ==
  ASSUME NEW r, requests \in Seq({requests[i] : i \in DOMAIN requests}),
         requests' = Append(requests, r)
  PROVE  /\ Len(requests') = Len(requests) + 1
         /\ requests'[Len(requests) + 1] = r
         /\ \A i \in 1..Len(requests) : requests'[i] = requests[i]
         /\ requests' \in Seq({requests'[i] : i \in DOMAIN requests'})
<1> DEFINE S == {requests[i] : i \in DOMAIN requests}
           T == {requests'[i] : i \in DOMAIN requests'}
<1>1. requests \in Seq(S \union {r}) /\ r \in S \union {r}
  OBVIOUS
<1>2. /\ Len(requests') = Len(requests) + 1
      /\ requests'[Len(requests) + 1] = r
      /\ \A i \in 1..Len(requests) : requests'[i] = requests[i]
      /\ requests' \in Seq(S \union {r})
  BY <1>1, AppendProperties
<1>3. /\ Len(requests') \in Nat /\ DOMAIN requests' = 1..Len(requests')
      /\ requests' \in [1..Len(requests') -> S \union {r}]
  BY <1>2, LenProperties
<1>4. requests' \in [1..Len(requests') -> T]
  BY <1>3
<1> HIDE DEF T
<1>5. requests' \in Seq(T)
  BY <1>3, <1>4, FunctionsAreSequences
<1> QED
  BY <1>2, <1>5 DEF T

\* A request that is sent is the last, and outstanding.
LEMMA SendRequestKeeps == ASSUME IInv, NEW q \in pending, SendRequest(q) PROVE IInv'
<1> USE DEF IInv
<1> DEFINE r == [key |-> Key(q), values |-> NewValues(q), nodes |-> q.nodes, before |-> before]
           n == Len(requests)
<1>1. /\ stage = "sending" /\ pending' = pending \ {q}
      /\ requests' = Append(requests, r)
      /\ answers' = Append(answers, "none")
      /\ outstanding' = outstanding \union {n + 1}
      /\ UNCHANGED <<stage, toExpand, visiting, toVisit, raising>>
  BY DEF SendRequest
<1>2. /\ Len(requests') = n + 1 /\ n \in Nat
      /\ requests'[n + 1] = r
      /\ \A i \in 1..n : requests'[i] = requests[i]
      /\ requests' \in Seq({requests'[i] : i \in DOMAIN requests'})
  BY <1>1, RequestsGrow DEF SentAreRequests
<1>3. /\ Len(answers') = n + 1
      /\ answers'[n + 1] = "none"
      /\ \A i \in 1..n : answers'[i] = answers[i]
      /\ answers' \in Seq({"none", "objects", "errors"})
  BY <1>1, AppendProperties DEF SentAreRequests
<1>4. /\ r.key = <<q.service, q.action, q.field>> /\ r.nodes = q.nodes
      /\ IsRequest(q.nodes, q.service, q.action, q.field)
  BY DEF Key, PendingAreRequests
<1> HIDE DEF r, n
<1>5. PairsAreTyped'
  BY <1>1 DEF PairsAreTyped
<1>6. PendingAreRequests'
  BY <1>1 DEF PendingAreRequests
<1>7. SentAreRequests'
  <2> SUFFICES ASSUME NEW i \in 1..Len(requests')
               PROVE  /\ requests'[i].key = <<requests'[i].key[1], requests'[i].key[2],
                                              requests'[i].key[3]>>
                      /\ IsRequest(requests'[i].nodes, requests'[i].key[1],
                                   requests'[i].key[2], requests'[i].key[3])
    BY <1>2, <1>3 DEF SentAreRequests
  <2>1. CASE i = n + 1
    BY <2>1, <1>2, <1>4
  <2>2. CASE i \in 1..n
    BY <2>2, <1>2 DEF SentAreRequests, n
  <2> QED
    BY <2>1, <2>2, <1>2
<1>8. OutstandingAreVisited'
  <2>1. outstanding' \subseteq 1..Len(requests')
    <3>1. outstanding \subseteq 1..n
      BY DEF OutstandingAreVisited, n
    <3> QED
      BY <1>1, <1>2, <3>1
  <2>2. /\ toVisit \subseteq Services /\ (visiting = None => toVisit = {})
        /\ stage' = "sending" /\ toVisit' = toVisit /\ visiting' = visiting
    BY <1>1 DEF OutstandingAreVisited
  <2> QED
    BY <2>1, <2>2 DEF OutstandingAreVisited
<1>9. ErrorsAreKept'
  <2> SUFFICES ASSUME NEW i \in 1..Len(requests'), answers'[i] = "errors", NotesErrors(i)'
               PROVE  i \in raising
    BY <1>1 DEF ErrorsAreKept
  <2>1. i \in 1..n /\ answers[i] = "errors" /\ NotesErrors(i)
    BY <1>2, <1>3 DEF NotesErrors
  <2> QED
    BY <2>1 DEF ErrorsAreKept, n
<1> QED
  BY <1>5, <1>6, <1>7, <1>8, <1>9

\* A request went to a service.
LEMMA SentToServices ==
  ASSUME SentAreRequests, NEW i \in 1..Len(requests)
  PROVE  ServiceOf(i) \in Services
<1>1. PICK first \in requests[i].nodes : IsPair(first)
  BY DEF SentAreRequests, IsRequest
<1>2. Target(first)[1] = requests[i].key[1]
  BY DEF SentAreRequests, IsRequest
<1> QED
  BY <1>1, <1>2, RoutesAreKnown DEF Target, ServiceOf

\* Going on to the next service changes nothing about the requests.
LEMMA VisitsKeep ==
  ASSUME NEW services \in SUBSET Services, VisitNext(services)
  PROVE  /\ toVisit' \subseteq Services
         /\ visiting' = None => toVisit' = {}
         /\ services \subseteq toVisit' \union {visiting'}
  BY ExpansionsAssumption DEF VisitNext

\* The steps that leave the requests and their answers alone.
LEMMA SentStay ==
  ASSUME IInv, UNCHANGED <<toExpand, pending, requests, answers, outstanding, raising>>
  PROVE  /\ PairsAreTyped' /\ PendingAreRequests' /\ SentAreRequests'
         /\ \A i : ServiceOf(i)' = ServiceOf(i) /\ NotesErrors(i)' = NotesErrors(i)
  BY DEF IInv, PairsAreTyped, PendingAreRequests, SentAreRequests, ServiceOf, NotesErrors

\* A transport error leaves the call with what it has.
LEMMA FailKeeps == ASSUME IInv, Fail PROVE IInv'
<1>1. PairsAreTyped' /\ PendingAreRequests' /\ SentAreRequests'
  BY SentStay DEF Fail, history
<1>2. OutstandingAreVisited'
  BY DEF IInv, Fail, OutstandingAreVisited
<1>3. ErrorsAreKept'
  BY DEF IInv, Fail, history, ErrorsAreKept, NotesErrors
<1> QED
  BY <1>1, <1>2, <1>3 DEF IInv

\* Receiving starts when every request of the round is sent.
LEMMA BeginReceivingKeeps == ASSUME IInv, BeginReceiving PROVE IInv'
<1>1. PairsAreTyped' /\ PendingAreRequests' /\ SentAreRequests'
  BY SentStay DEF BeginReceiving, history
<1>2. OutstandingAreVisited'
  <2> DEFINE services == {ServiceOf(i) : i \in outstanding}
  <2>1. services \subseteq Services /\ outstanding \subseteq 1..Len(requests)
    BY SentToServices DEF IInv, OutstandingAreVisited
  <2>2. VisitNext(services) /\ stage' = "receiving" /\ UNCHANGED <<requests, outstanding>>
    BY DEF BeginReceiving
  <2> HIDE DEF services
  <2>3. /\ toVisit' \subseteq Services
        /\ visiting' = None => toVisit' = {}
        /\ services \subseteq toVisit' \union {visiting'}
    BY <2>1, <2>2, VisitsKeep
  <2> QED
    BY <2>1, <2>2, <2>3 DEF OutstandingAreVisited, services, ServiceOf
<1>3. ErrorsAreKept'
  BY DEF IInv, BeginReceiving, history, ErrorsAreKept, NotesErrors
<1> QED
  BY <1>1, <1>2, <1>3 DEF IInv

\* A response takes its request from what is outstanding; its objects are
\* paired with the nodes that asked for them, its errors kept.
LEMMA ReceiveKeeps ==
  ASSUME IInv, stage = "receiving", NEW i \in outstanding, Receive(i)
  PROVE  IInv'
<1> USE DEF IInv
<1>1. /\ outstanding' = outstanding \ {i}
      /\ UNCHANGED <<stage, pending, requests, visiting, toVisit>>
  BY DEF Receive
<1>2. i \in 1..Len(requests) /\ i \in 1..Len(answers)
  BY DEF OutstandingAreVisited, SentAreRequests
<1>3. PICK how \in {"objects", "errors"} :
        /\ answers' = [answers EXCEPT ![i] = how]
        /\ how = "objects" => raising' = raising
        /\ how = "errors" => raising' = IF NotesErrors(i) THEN raising \union {i} ELSE raising
  BY DEF Receive, ReceiveObjects, ReceiveErrors
<1>4. /\ answers' \in Seq({"none", "objects", "errors"})
      /\ Len(answers') = Len(answers)
      /\ \A j \in 1..Len(answers) : answers'[j] = IF j = i THEN how ELSE answers[j]
  BY <1>2, <1>3, ExceptSeq DEF SentAreRequests
<1>5. PairsAreTyped'
  <2>1. \A pair \in toExpand : IsPair(pair)
    BY DEF PairsAreTyped
  <2>2. \A pair \in ExtendAll(i, Answer(requests[i])) : IsPair(pair)
    BY AllFoundArePairs
  <2>3. \A n : \A pair \in Extend(i, Answer(requests[i]), n) : IsPair(pair)
    BY FoundArePairs
  <2>4. toExpand' \subseteq toExpand \union ExtendAll(i, Answer(requests[i])) \union
            UNION {Extend(i, Answer(requests[i]), pair[2]) : pair \in requests[i].nodes}
    BY DEF Receive, ReceiveObjects, ReceiveErrors
  <2> QED
    BY <2>1, <2>2, <2>3, <2>4 DEF PairsAreTyped
<1>6. PendingAreRequests'
  BY <1>1 DEF PendingAreRequests
<1>7. SentAreRequests'
  BY <1>1, <1>4 DEF SentAreRequests
<1>8. OutstandingAreVisited'
  BY <1>1 DEF OutstandingAreVisited, ServiceOf
<1>9. ErrorsAreKept'
  BY <1>1, <1>3, <1>4 DEF SentAreRequests, ErrorsAreKept, NotesErrors
<1> QED
  BY <1>5, <1>6, <1>7, <1>8, <1>9

\* A response to a future is popped without a request of this call.
LEMMA ReceiveForeignKeeps == ASSUME IInv, ReceiveForeign PROVE IInv'
<1>1. PairsAreTyped' /\ PendingAreRequests' /\ SentAreRequests'
  BY SentStay DEF ReceiveForeign, history
<1>2. OutstandingAreVisited'
  BY DEF IInv, ReceiveForeign, OutstandingAreVisited
<1>3. ErrorsAreKept'
  BY DEF IInv, ReceiveForeign, history, ErrorsAreKept, NotesErrors
<1> QED
  BY <1>1, <1>2, <1>3 DEF IInv

\* The service that is left has answered everything.
LEMMA ReceiveNothingKeeps ==
  ASSUME IInv, stage = "receiving", ReceiveNothing
  PROVE  IInv'
<1>1. PairsAreTyped' /\ PendingAreRequests' /\ SentAreRequests'
  BY SentStay DEF ReceiveNothing, history
<1>2. OutstandingAreVisited'
  <2>1. /\ VisitNext(toVisit) /\ UNCHANGED <<stage, requests, outstanding>>
        /\ \A i \in outstanding : ServiceOf(i) # visiting
    BY DEF ReceiveNothing
  <2>2. /\ toVisit' \subseteq Services
        /\ visiting' = None => toVisit' = {}
        /\ toVisit \subseteq toVisit' \union {visiting'}
    BY <2>1, VisitsKeep DEF IInv, OutstandingAreVisited
  <2> QED
    BY <2>1, <2>2 DEF IInv, OutstandingAreVisited, ServiceOf
<1>3. ErrorsAreKept'
  BY DEF IInv, ReceiveNothing, history, ErrorsAreKept, NotesErrors
<1> QED
  BY <1>1, <1>2, <1>3 DEF IInv

\* When every service was visited nothing is outstanding.
LEMMA EndRoundKeeps == ASSUME IInv, EndRound PROVE IInv'
<1>1. PairsAreTyped' /\ PendingAreRequests' /\ SentAreRequests'
  BY SentStay DEF EndRound, history
<1>2. outstanding = {}
  <2>1. \A i \in outstanding : ServiceOf(i) = None /\ ServiceOf(i) \in Services
    BY SentToServices DEF IInv, EndRound, AllVisited, OutstandingAreVisited
  <2> QED
    BY <2>1, ExpansionsAssumption
<1>3. OutstandingAreVisited'
  BY <1>2 DEF IInv, EndRound, OutstandingAreVisited
<1>4. ErrorsAreKept'
  BY DEF IInv, EndRound, history, ErrorsAreKept, NotesErrors
<1> QED
  BY <1>1, <1>3, <1>4 DEF IInv

\* The call returns from between two rounds.
LEMMA ReturnKeeps == ASSUME IInv, Return PROVE IInv'
<1>1. PairsAreTyped' /\ PendingAreRequests' /\ SentAreRequests'
  BY SentStay DEF Return, history
<1>2. OutstandingAreVisited'
  BY DEF IInv, Return, OutstandingAreVisited
<1>3. ErrorsAreKept'
  BY DEF IInv, Return, history, ErrorsAreKept, NotesErrors
<1> QED
  BY <1>1, <1>2, <1>3 DEF IInv

\* Every step of the call keeps the invariant.
LEMMA NextKeeps == IInv /\ [Next]_vars => IInv'
<1> SUFFICES ASSUME IInv, [Next]_vars PROVE IInv'
  OBVIOUS
<1>1. CASE UNCHANGED vars
  <2>1. PairsAreTyped' /\ PendingAreRequests' /\ SentAreRequests'
    BY <1>1, SentStay DEF vars
  <2>2. OutstandingAreVisited' /\ ErrorsAreKept'
    BY <1>1 DEF vars, IInv, OutstandingAreVisited, ServiceOf, ErrorsAreKept, NotesErrors
  <2> QED
    BY <2>1, <2>2 DEF IInv
<1> QED
  BY <1>1, FormRequestsKeeps, SkipRequestKeeps, SendRequestKeeps, FailKeeps,
     BeginReceivingKeeps, ReceiveKeeps, ReceiveForeignKeeps, ReceiveNothingKeeps,
     EndRoundKeeps, ReturnKeeps DEF Next

\* The requests, what is outstanding and the errors that were noted agree, in
\* every state of the call: the inductive invariant of the theorems below.
THEOREM ExpansionsInductive == Spec => []IInv
  BY InitHolds, NextKeeps, PTL DEF Spec

\* A call that returns raised every error that it was to raise, and one that
\* returns or raises them leaves no response behind at a service.
THEOREM ErrorsAreAllRaised == Spec => []ErrorsAreRaised
<1>1. IInv => ErrorsAreRaised
  BY DEF IInv, ErrorsAreKept, OutstandingAreVisited, ErrorsAreRaised, NotesErrors
<1> QED
  BY <1>1, ExpansionsInductive, PTL
-----------------------------------------------------------------------------
(***************************************************************************)
(* Types.  What is found came with a response, and what is asked for is    *)
(* an identifier that the service knows of.                                *)
(***************************************************************************)
Stages == Ended \union {"forming", "sending", "receiving"}

ObjectsAreKnown == \A pair \in toExpand :
    pair[1].data \in AllObjects /\ pair[1].request \in Received

HasSources(nodes) == \A pair \in nodes :
    /\ pair[1].data \in AllObjects
    /\ Definition(pair[2]).source \in DOMAIN pair[1].data.fields

PendingHaveSources == \A q \in pending : HasSources(q.nodes)

\* No request asks for what its service does not know of.
ValuesAreKnown ==
    /\ DOMAIN made = DOMAIN Database
    /\ \A k \in DOMAIN Database : made[k] \subseteq DOMAIN Database[k]
    /\ \A i \in 1..Len(requests) :
        /\ requests[i].key \in DOMAIN Database
        /\ requests[i].values \subseteq DOMAIN Database[requests[i].key]

OutstandingAreNew ==
    /\ before \in 0..Len(requests)
    /\ \A i \in outstanding : i > before /\ answers[i] = "none"

FilledWereReceived == \A x \in DOMAIN filled : filled[x].request \in Received

RestIsTyped ==
    /\ stage \in Stages
    /\ visiting \in Services \union {None}
    /\ raising \subseteq 1..Len(requests)
    /\ foreign \subseteq Services

TypesInv ==
    /\ ObjectsAreKnown /\ PendingHaveSources /\ ValuesAreKnown
    /\ OutstandingAreNew /\ FilledWereReceived /\ RestIsTyped

\* What is found in known objects is one of them, or within one.
LEMMA FoundAreKnown ==
  ASSUME NEW i, NEW body, \A v \in DOMAIN body : body[v] \in WholeObjects,
         NEW n, NEW pair \in Extend(i, body, n)
  PROVE  pair[1].data \in AllObjects /\ pair[1].request = i
<1>1. \A o \in Top(i, body) : o.data \in WholeObjects /\ o.request = i
  BY DEF Top, Object
<1>2. ASSUME NEW o \in Top(i, body), NEW p \in Inner(o)
      PROVE  p.data \in AllObjects /\ p.request = i
  <2>1. /\ p = Object(o.request, o.value, o.data.inner)
        /\ p # Object(o.request, o.value, None)
    BY DEF Inner
  <2>2. p.data = o.data.inner /\ p.data # None /\ p.request = o.request
    BY <2>1 DEF Object
  <2> QED
    BY <1>1, <2>2 DEF AllObjects
<1>3. pair[1] \in Top(i, body) \/ \E o \in Top(i, body) : pair[1] \in Inner(o)
  BY DEF Extend, Find
<1> QED
  BY <1>1, <1>2, <1>3 DEF AllObjects

\* A request has a key under which its service knows every identifier in the
\* source fields of its objects, whichever pair named the field.
LEMMA SourcesAreKnown ==
  ASSUME NEW nodes, NEW service, NEW action, NEW field,
         IsRequest(nodes, service, action, field), HasSources(nodes)
  PROVE  /\ <<service, action, field>> \in DOMAIN Database
         /\ \A pair \in nodes : Source(pair) \in DOMAIN Database[<<service, action, field>>]
<1>1. PICK first \in nodes : Route(first[2]).field = field
  BY DEF IsRequest
<1>2. \A pair \in nodes : IsPair(pair) /\ Target(pair) = <<service, action>>
  BY DEF IsRequest
<1>3. \A pair \in nodes : Route(pair[2]).service = service /\ Route(pair[2]).action = action
  BY <1>2 DEF Target
<1>4. <<service, action, field>> \in DOMAIN Database
  <2>1. /\ TypeOf(Parent(first[2])) \in DOMAIN TypeExpansions
        /\ Last(first[2].path) \in DOMAIN TypeExpansions[TypeOf(Parent(first[2]))]
    BY <1>2, RequestedAssumption DEF IsPair
  <2>2. Definition(first[2]).route \in DOMAIN TypeRoutes
    BY <2>1, ExpansionsAssumption DEF Definition
  <2>3. <<Route(first[2]).service, Route(first[2]).action, Route(first[2]).field>> \in DOMAIN Database
    BY <2>2, ExpansionsAssumption DEF Route
  <2> QED
    BY <1>1, <1>3, <2>3
<1>5. ASSUME NEW pair \in nodes
      PROVE  Source(pair) \in DOMAIN Database[<<service, action, field>>]
  <2>1. /\ pair[2] \in Nodes /\ pair[2].path # <<>> /\ TypeOf(Parent(pair[2])) = pair[1].data.type
        /\ first[2] \in Nodes /\ first[2].path # <<>>
    BY <1>2 DEF IsPair
  <2>2. pair[1].data \in AllObjects /\ Definition(pair[2]).source \in DOMAIN pair[1].data.fields
    BY DEF HasSources
  <2>3. pair[1].data.fields[Definition(pair[2]).source] \in
          DOMAIN Database[<<Route(pair[2]).service, Route(pair[2]).action, Route(first[2]).field>>]
    BY <1>3, <2>1, <2>2, DatabaseAssumption
  <2> QED
    BY <1>1, <1>3, <2>3 DEF Source
<1> QED
  BY <1>4, <1>5

\* The objects of bodies and of the database.
LEMMA BodiesAreWhole ==
  ASSUME NEW body \in Bodies, NEW o \in ObjectsOf(body)
  PROVE  o \in WholeObjects
<1>1. o \in UNION {ObjectsOf(b) : b \in Bodies}
  BY Zenon
<1> QED
  BY <1>1 DEF WholeObjects

LEMMA AnsweredAreWhole ==
  ASSUME NEW k \in DOMAIN Database, NEW o \in ObjectsOf(Database[k]), o # None
  PROVE  o \in WholeObjects
<1>1. o \in UNION {ObjectsOf(Database[j]) : j \in DOMAIN Database}
  BY Zenon
<1> QED
  BY <1>1 DEF WholeObjects

\* A response has objects that there are.
LEMMA AnswersAreKnown ==
  ASSUME ValuesAreKnown, NEW i \in 1..Len(requests), NEW v \in DOMAIN Answer(requests[i])
  PROVE  Answer(requests[i])[v] \in WholeObjects
<1> DEFINE q == requests[i]
<1>1. /\ q.key \in DOMAIN Database /\ v \in DOMAIN Database[q.key]
      /\ Database[q.key][v] # None /\ Answer(q)[v] = Database[q.key][v]
  BY DEF ValuesAreKnown, Answer
<1> HIDE DEF q
<1>2. Database[q.key][v] \in ObjectsOf(Database[q.key])
  BY <1>1 DEF ObjectsOf
<1>3. Database[q.key][v] \in WholeObjects
  BY <1>1, <1>2, AnsweredAreWhole
<1> QED
  BY <1>1, <1>3 DEF q

\* Steps that leave alone what was sent and how it was answered.
LEMMA TypesStay ==
  ASSUME TypesInv, UNCHANGED <<made, requests, answers, before>>,
         toExpand' \subseteq toExpand, pending' \subseteq pending,
         outstanding' \subseteq outstanding, UNCHANGED <<filled, raising>>,
         foreign' \subseteq foreign, stage' \in Stages, visiting' \in Services \union {None}
  PROVE  TypesInv'
<1>1. Received' = Received
  BY DEF Received
<1>2. ObjectsAreKnown' /\ PendingHaveSources' /\ FilledWereReceived'
  BY <1>1 DEF TypesInv, ObjectsAreKnown, PendingHaveSources, HasSources, FilledWereReceived
<1>3. ValuesAreKnown' /\ OutstandingAreNew' /\ RestIsTyped'
  BY DEF TypesInv, ValuesAreKnown, OutstandingAreNew, RestIsTyped
<1> QED
  BY <1>2, <1>3 DEF TypesInv

\* At first there are the objects of the response to the call itself.
LEMMA InitIsTyped == ASSUME Init PROVE TypesInv
<1>1. PICK body \in Bodies : toExpand = ExtendAll(0, body)
  BY DEF Init
<1>2. \A v \in DOMAIN body : body[v] \in WholeObjects
  BY BodiesAreWhole DEF ObjectsOf
<1>3. ASSUME NEW pair \in toExpand
      PROVE  pair[1].data \in AllObjects /\ pair[1].request \in Received
  <2>1. PICK t \in DOMAIN Requested : pair \in Extend(0, body, Root(t))
    BY <1>1, <1>3 DEF ExtendAll
  <2> QED
    BY <1>2, <2>1, FoundAreKnown DEF Received
<1>4. requests = <<>> /\ answers = <<>> /\ Len(requests) = 0
  BY DEF Init
<1>5. ValuesAreKnown /\ OutstandingAreNew
  BY <1>4 DEF Init, ValuesAreKnown, OutstandingAreNew
<1>6. PendingHaveSources /\ FilledWereReceived /\ RestIsTyped
  BY DEF Init, PendingHaveSources, FilledWereReceived, RestIsTyped, Stages
<1> QED
  BY <1>3, <1>5, <1>6 DEF TypesInv, ObjectsAreKnown

\* The pairs of a round are open: their source fields are there.
LEMMA FormRequestsTyped == ASSUME IInv, TypesInv, FormRequests PROVE TypesInv'
<1> DEFINE open == {pair \in toExpand : IsOpen(pair)}
           nodes(target) == {pair \in open : Target(pair) = target}
<1>1. /\ stage = "forming" /\ stage' = "sending" /\ toExpand' = {} /\ before' = Len(requests)
      /\ UNCHANGED <<made, requests, outstanding, visiting, filled, raising, foreign, answers>>
  BY DEF FormRequests, Merge
<1>2. PICK first \in [{Target(pair) : pair \in open} -> open] :
        pending' = {[service |-> target[1], action |-> target[2],
                     field |-> Route(first[target][2]).field,
                     nodes |-> nodes(target)] : target \in DOMAIN first}
  BY DEF FormRequests, Merge
<1>3. \A q \in pending' : q.nodes \subseteq open
  BY <1>2
<1>4. HasSources(open)
  BY DEF HasSources, IsOpen, TypesInv, ObjectsAreKnown
<1>5. PendingHaveSources'
  BY <1>3, <1>4 DEF PendingHaveSources, HasSources
<1>6. outstanding = {} /\ Len(requests) \in Nat
  BY <1>1, LenProperties DEF IInv, OutstandingAreVisited, SentAreRequests
<1>7. Received' = Received
  BY <1>1 DEF Received
<1>8. ObjectsAreKnown' /\ ValuesAreKnown' /\ OutstandingAreNew' /\ FilledWereReceived' /\ RestIsTyped'
  BY <1>1, <1>6, <1>7 DEF TypesInv, ObjectsAreKnown, ValuesAreKnown, OutstandingAreNew,
     FilledWereReceived, RestIsTyped, Stages
<1> QED
  BY <1>5, <1>8 DEF TypesInv

\* A request asks for the identifiers of its own pairs.
LEMMA SendRequestTyped == ASSUME IInv, TypesInv, NEW q \in pending, SendRequest(q) PROVE TypesInv'
<1> DEFINE r == [key |-> Key(q), values |-> NewValues(q), nodes |-> q.nodes, before |-> before]
           n == Len(requests)
<1>1. /\ stage = "sending" /\ pending' = pending \ {q}
      /\ made' = [made EXCEPT ![Key(q)] = @ \union NewValues(q)]
      /\ requests' = Append(requests, r)
      /\ answers' = Append(answers, "none")
      /\ outstanding' = outstanding \union {n + 1}
      /\ UNCHANGED <<stage, toExpand, visiting, filled, raising, foreign, before>>
  BY DEF SendRequest
<1>2. /\ Len(requests') = n + 1 /\ n \in Nat /\ Len(answers) = n
      /\ requests'[n + 1] = r
      /\ \A i \in 1..n : requests'[i] = requests[i]
  BY <1>1, RequestsGrow DEF IInv, SentAreRequests
<1>3. /\ answers'[n + 1] = "none"
      /\ \A i \in 1..n : answers'[i] = answers[i]
  BY <1>1, <1>2, AppendProperties DEF IInv, SentAreRequests
<1>4. Key(q) \in DOMAIN Database /\ NewValues(q) \subseteq DOMAIN Database[Key(q)]
  <2>1. IsRequest(q.nodes, q.service, q.action, q.field) /\ HasSources(q.nodes)
    BY DEF IInv, PendingAreRequests, TypesInv, PendingHaveSources
  <2> QED
    BY <2>1, SourcesAreKnown DEF Key, NewValues
<1>5. r.key = Key(q) /\ r.values = NewValues(q)
  OBVIOUS
<1> HIDE DEF r, n
<1>6. Received \subseteq Received'
  <2>1. \A i \in 1..n : i \in 1..(n + 1)
    BY <1>2
  <2> QED
    BY <1>2, <1>3, <2>1 DEF Received, n
<1>7. ObjectsAreKnown' /\ FilledWereReceived' /\ PendingHaveSources'
  BY <1>1, <1>6 DEF TypesInv, ObjectsAreKnown, FilledWereReceived, PendingHaveSources, HasSources
<1>8. ValuesAreKnown'
  <2>1. /\ DOMAIN made' = DOMAIN Database
        /\ \A k \in DOMAIN Database : made'[k] \subseteq DOMAIN Database[k]
    BY <1>1, <1>4 DEF TypesInv, ValuesAreKnown
  <2>2. ASSUME NEW i \in 1..Len(requests')
        PROVE  /\ requests'[i].key \in DOMAIN Database
               /\ requests'[i].values \subseteq DOMAIN Database[requests'[i].key]
    <3>1. CASE i = n + 1
      BY <1>2, <1>4, <1>5, <3>1
    <3>2. CASE i \in 1..n
      BY <1>2, <3>2 DEF TypesInv, ValuesAreKnown, n
    <3> QED
      BY <1>2, <2>2, <3>1, <3>2
  <2> QED
    BY <2>1, <2>2 DEF ValuesAreKnown
<1>9. OutstandingAreNew'
  <2>1. /\ before \in 0..n /\ outstanding \subseteq 1..n
        /\ \A i \in outstanding : i > before /\ answers[i] = "none"
    BY DEF TypesInv, OutstandingAreNew, IInv, OutstandingAreVisited, n
  <2>2. \A i \in outstanding' : i > before /\ answers'[i] = "none"
    BY <1>1, <1>2, <1>3, <2>1
  <2> QED
    BY <1>1, <1>2, <2>1, <2>2 DEF OutstandingAreNew
<1>10. RestIsTyped'
  <2>1. raising \subseteq 1..n
    BY DEF TypesInv, RestIsTyped, n
  <2>2. raising' \subseteq 1..Len(requests')
    BY <1>1, <1>2, <2>1
  <2> QED
    BY <1>1, <2>2 DEF TypesInv, RestIsTyped
<1> QED
  BY <1>7, <1>8, <1>9, <1>10 DEF TypesInv

\* A response brings objects that there are, and its request counts as received.
LEMMA ReceiveTyped ==
  ASSUME IInv, TypesInv, NEW i \in outstanding, Receive(i)
  PROVE  TypesInv'
<1> DEFINE body == Answer(requests[i])
<1>1. /\ outstanding' = outstanding \ {i}
      /\ UNCHANGED <<stage, pending, made, requests, visiting, foreign, before>>
  BY DEF Receive
<1>2. i \in 1..Len(requests) /\ i \in 1..Len(answers) /\ answers[i] = "none"
  BY DEF IInv, OutstandingAreVisited, SentAreRequests, TypesInv, OutstandingAreNew
<1>3. PICK how \in {"objects", "errors"} :
        /\ answers' = [answers EXCEPT ![i] = how]
        /\ how = "objects" => ReceiveObjects(i)
        /\ how = "errors" => UNCHANGED <<filled, toExpand>>
        /\ raising' \subseteq raising \union {i}
  BY DEF Receive, ReceiveObjects, ReceiveErrors
<1>4. \A j \in 1..Len(answers) : answers'[j] = IF j = i THEN how ELSE answers[j]
  BY <1>2, <1>3 DEF IInv, SentAreRequests
<1>5. Received \subseteq Received' /\ (how = "objects" => i \in Received')
  BY <1>1, <1>2, <1>4 DEF Received, IInv, SentAreRequests
<1>6. ObjectsAreKnown'
  <2>1. \A v \in DOMAIN body : body[v] \in WholeObjects
    BY <1>2, AnswersAreKnown DEF TypesInv
  <2> HIDE DEF body
  <2>2. \A n : \A pair \in Extend(i, body, n) : pair[1].data \in AllObjects /\ pair[1].request = i
    BY <2>1, FoundAreKnown
  <2>3. \A pair \in ExtendAll(i, body) : pair[1].data \in AllObjects /\ pair[1].request = i
    BY <2>2 DEF ExtendAll
  <2>4. ASSUME NEW pair \in toExpand', pair \notin toExpand
        PROVE  how = "objects" /\ pair[1].data \in AllObjects /\ pair[1].request = i
    <3>1. how = "objects"
      BY <1>3, <2>4
    <3>2. toExpand' = toExpand \union ExtendAll(i, body)
                         \union UNION {Extend(i, body, p[2]) : p \in requests[i].nodes}
      BY <1>3, <3>1 DEF ReceiveObjects, body
    <3> QED
      BY <2>2, <2>3, <2>4, <3>1, <3>2
  <2> QED
    BY <1>5, <2>4 DEF TypesInv, ObjectsAreKnown
<1>7. FilledWereReceived'
  <2>1. CASE how = "errors"
    BY <1>3, <1>5, <2>1 DEF TypesInv, FilledWereReceived
  <2>2. CASE how = "objects"
    <3> DEFINE new == Fill(i, body)
    <3>1. filled' = [x \in DOMAIN filled \union {f.destination : f \in new} |->
                        IF \E f \in new : f.destination = x
                          THEN (CHOOSE f \in new : f.destination = x).object
                          ELSE filled[x]]
      BY <1>3, <2>2 DEF ReceiveObjects
    <3>2. \A f \in new : f.object.request = i
      BY DEF Fill, Object
    <3> HIDE DEF new
    <3>3. ASSUME NEW x \in DOMAIN filled' PROVE filled'[x].request \in Received'
      <4>1. CASE \E f \in new : f.destination = x
        <5>1. \E f \in new : filled'[x] = f.object
          BY <3>1, <3>3, <4>1
        <5> QED
          BY <1>5, <2>2, <3>2, <5>1
      <4>2. CASE ~\E f \in new : f.destination = x
        <5>1. x \in DOMAIN filled /\ filled'[x] = filled[x]
          BY <3>1, <3>3, <4>2
        <5> QED
          BY <1>5, <5>1 DEF TypesInv, FilledWereReceived
      <4> QED
        BY <4>1, <4>2
    <3> QED
      BY <3>3 DEF FilledWereReceived
  <2> QED
    BY <2>1, <2>2
<1>8. OutstandingAreNew'
  <2>1. outstanding \subseteq 1..Len(answers)
    BY DEF IInv, OutstandingAreVisited, SentAreRequests
  <2> QED
    BY <1>1, <1>4, <2>1 DEF TypesInv, OutstandingAreNew
<1>9. PendingHaveSources' /\ ValuesAreKnown' /\ RestIsTyped'
  BY <1>1, <1>2, <1>3 DEF TypesInv, PendingHaveSources, HasSources, ValuesAreKnown, RestIsTyped
<1> QED
  BY <1>6, <1>7, <1>8, <1>9 DEF TypesInv

\* Every step of the call keeps the types.
LEMMA NextIsTyped == IInv /\ TypesInv /\ [Next]_vars => TypesInv'
<1> SUFFICES ASSUME IInv, TypesInv, [Next]_vars PROVE TypesInv'
  OBVIOUS
<1>1. stage \in Stages /\ visiting \in Services \union {None}
  BY DEF TypesInv, RestIsTyped
<1>2. ASSUME NEW q \in pending, SkipRequest(q) PROVE TypesInv'
  BY <1>1, <1>2, TypesStay DEF SkipRequest, history
<1>3. ASSUME Fail \/ EndRound \/ Return \/ UNCHANGED vars PROVE TypesInv'
  <2>1. stage' \in Stages
    BY <1>1, <1>3 DEF Fail, EndRound, Return, vars, Stages, Ended
  <2> QED
    BY <1>1, <1>3, <2>1, TypesStay DEF Fail, EndRound, Return, vars, history
<1>4. ASSUME BeginReceiving PROVE TypesInv'
  <2>1. \A i \in outstanding : ServiceOf(i) \in Services
    BY SentToServices DEF IInv, OutstandingAreVisited
  <2>2. visiting' \in Services \union {None} /\ stage' \in Stages
    BY <1>4, <2>1 DEF BeginReceiving, VisitNext, Stages
  <2> QED
    BY <1>4, <2>2, TypesStay DEF BeginReceiving, history
<1>5. ASSUME ReceiveForeign PROVE TypesInv'
  <2>1. stage' \in Stages
    BY <1>5 DEF ReceiveForeign, Stages, Ended
  <2> QED
    BY <1>1, <1>5, <2>1, TypesStay DEF ReceiveForeign, history
<1>6. ASSUME ReceiveNothing PROVE TypesInv'
  <2>1. visiting' \in Services \union {None}
    BY <1>6 DEF ReceiveNothing, VisitNext, IInv, OutstandingAreVisited
  <2> QED
    BY <1>1, <1>6, <2>1, TypesStay DEF ReceiveNothing, history
<1> QED
  BY <1>2, <1>3, <1>4, <1>5, <1>6, FormRequestsTyped, SendRequestTyped, ReceiveTyped DEF Next

\* Every variable of a call with expansions keeps its type: objects to expand
\* and objects filled in came with a response, no service is asked for what it
\* does not know of, and what is outstanding was sent in this round.
THEOREM ExpansionsTypeCorrect == Spec => []TypeOK
<1>1. IInv /\ TypesInv => TypeOK
  BY DEF IInv, PairsAreTyped, IsPair, OutstandingAreVisited, TypesInv, ObjectsAreKnown,
         ValuesAreKnown, OutstandingAreNew, FilledWereReceived, RestIsTyped, Stages, TypeOK
<1> QED
  BY <1>1, InitIsTyped, NextIsTyped, ExpansionsInductive, PTL DEF Spec
-----------------------------------------------------------------------------
(***************************************************************************)
(* What fields are filled with, where routes to one action name one field: *)
(* a request to it goes out in the field of whichever pair came first.     *)
(***************************************************************************)
OneFieldPerAction == \A r, s \in DOMAIN TypeRoutes :
    TypeRoutes[r].service = TypeRoutes[s].service /\ TypeRoutes[r].action = TypeRoutes[s].action
    => TypeRoutes[r].field = TypeRoutes[s].field

\* The definition of an expansion that was asked for has a route.
LEMMA DefinitionsAreRouted ==
  ASSUME NEW pair, IsPair(pair)
  PROVE  \E r \in DOMAIN TypeRoutes : Route(pair[2]) = TypeRoutes[r]
<1> DEFINE n == pair[2]
<1>1. /\ TypeOf(Parent(n)) \in DOMAIN TypeExpansions
      /\ Last(n.path) \in DOMAIN TypeExpansions[TypeOf(Parent(n))]
  BY RequestedAssumption DEF IsPair
<1>2. Definition(n).route \in DOMAIN TypeRoutes
  BY <1>1, ExpansionsAssumption DEF Definition
<1> QED
  BY <1>2 DEF Route

\* A request asks by the route of each of its nodes.
LEMMA NodesAskByTheirRoutes ==
  ASSUME OneFieldPerAction, NEW nodes, NEW service, NEW action, NEW field,
         IsRequest(nodes, service, action, field), NEW pair \in nodes
  PROVE  IsPair(pair) /\ RouteKey(pair[2]) = <<service, action, field>>
<1>1. PICK first \in nodes : Route(first[2]).field = field
  BY DEF IsRequest
<1>2. /\ IsPair(pair) /\ Target(pair) = <<service, action>>
      /\ IsPair(first) /\ Target(first) = <<service, action>>
  BY DEF IsRequest
<1>3. /\ Route(pair[2]).service = service /\ Route(pair[2]).action = action
      /\ Route(first[2]).service = service /\ Route(first[2]).action = action
  BY <1>2 DEF Target
<1>4. Route(pair[2]).field = field
  BY <1>1, <1>2, <1>3, DefinitionsAreRouted DEF OneFieldPerAction
<1> QED
  BY <1>2, <1>3, <1>4 DEF RouteKey

\* So does a request that was sent.
LEMMA KeysAreRoutes ==
  ASSUME OneFieldPerAction, SentAreRequests, NEW i \in 1..Len(requests),
         NEW pair \in requests[i].nodes
  PROVE  IsPair(pair) /\ RouteKey(pair[2]) = requests[i].key
<1> DEFINE key == requests[i].key
<1>1. key = <<key[1], key[2], key[3]>> /\ IsRequest(requests[i].nodes, key[1], key[2], key[3])
  BY DEF SentAreRequests
<1> HIDE DEF key
<1>2. IsPair(pair) /\ RouteKey(pair[2]) = <<key[1], key[2], key[3]>>
  BY <1>1, NodesAskByTheirRoutes
<1> QED
  BY <1>1, <1>2 DEF key

\* What the definition of a field says of its object.
IsFilledRightly(x, object) == \E n \in Nodes :
    /\ n.path # <<>>
    /\ TypeOf(Parent(n)) = x[1].data.type
    /\ Definition(n).destination = x[2]
    /\ Database[RouteKey(n)][Source(<<x[1], n>>)] = object.data

\* What a response fills is what its own route has.
LEMMA FillsAreRight ==
  ASSUME OneFieldPerAction, SentAreRequests, NEW i \in 1..Len(requests),
         NEW f \in Fill(i, Answer(requests[i]))
  PROVE  IsFilledRightly(f.destination, f.object)
<1> DEFINE q == requests[i]
           body == Answer(q)
<1>1. PICK pair \in q.nodes :
        /\ Source(pair) \in DOMAIN body
        /\ f = [destination |-> Destination(pair),
                object |-> Object(i, Source(pair), body[Source(pair)])]
  BY DEF Fill
<1>2. /\ f.destination[1] = pair[1] /\ f.destination[2] = Definition(pair[2]).destination
      /\ f.object.data = body[Source(pair)]
  BY <1>1 DEF Destination, Object
<1>3. body[Source(pair)] = Database[q.key][Source(pair)]
  BY <1>1 DEF Answer
<1>4. IsPair(pair) /\ RouteKey(pair[2]) = q.key
  BY <1>1, KeysAreRoutes
<1>5. Source(<<f.destination[1], pair[2]>>) = Source(pair)
  BY <1>2 DEF Source
<1> QED
  BY <1>2, <1>3, <1>4, <1>5 DEF IsPair, IsFilledRightly

\* Filled fields stay as they were, and new ones are filled rightly.
LEMMA FilledStayRight ==
  ASSUME OneFieldPerAction
  PROVE  IInv /\ FilledByItsRoute /\ [Next]_vars => FilledByItsRoute'
<1> SUFFICES ASSUME IInv, FilledByItsRoute, [Next]_vars PROVE FilledByItsRoute'
  OBVIOUS
<1>1. CASE UNCHANGED filled
  BY <1>1 DEF FilledByItsRoute
<1>2. ASSUME NEW i \in outstanding, ReceiveObjects(i) PROVE FilledByItsRoute'
  <2> DEFINE new == Fill(i, Answer(requests[i]))
  <2>1. \A f \in new : IsFilledRightly(f.destination, f.object)
    BY FillsAreRight DEF IInv, OutstandingAreVisited
  <2>2. filled' = [x \in DOMAIN filled \union {f.destination : f \in new} |->
                     IF \E f \in new : f.destination = x
                       THEN (CHOOSE f \in new : f.destination = x).object
                       ELSE filled[x]]
    BY <1>2 DEF ReceiveObjects
  <2> HIDE DEF new
  <2>3. ASSUME NEW x \in DOMAIN filled' PROVE IsFilledRightly(x, filled'[x])
    <3>1. CASE \E f \in new : f.destination = x
      <4>1. PICK f \in new : f.destination = x /\ filled'[x] = f.object
        BY <2>2, <2>3, <3>1
      <4> QED
        BY <2>1, <4>1
    <3>2. CASE ~\E f \in new : f.destination = x
      <4>1. x \in DOMAIN filled /\ filled'[x] = filled[x]
        BY <2>2, <2>3, <3>2
      <4> QED
        BY <4>1 DEF FilledByItsRoute, IsFilledRightly
    <3> QED
      BY <3>1, <3>2
  <2> QED
    BY <2>3 DEF FilledByItsRoute, IsFilledRightly
<1>3. \/ UNCHANGED filled
      \/ \E i \in outstanding : ReceiveObjects(i)
  BY DEF Next, vars, FormRequests, Merge, SkipRequest, SendRequest, Fail, BeginReceiving,
         Receive, ReceiveErrors, ReceiveForeign, ReceiveNothing, EndRound, Return
<1> QED
  BY <1>1, <1>2, <1>3

\* Whatever else was asked for in the same request, a field is filled with the
\* object that the route of its own expansion has for it.
THEOREM FieldsAreFilledByTheirRoutes ==
  ASSUME OneFieldPerAction
  PROVE  Spec => []FilledByItsRoute
<1>1. Init => FilledByItsRoute
  BY DEF Init, FilledByItsRoute
<1>2. IInv /\ FilledByItsRoute /\ [Next]_vars => FilledByItsRoute'
  BY FilledStayRight
<1> QED
  BY <1>1, <1>2, ExpansionsInductive, PTL DEF Spec
-----------------------------------------------------------------------------
(***************************************************************************)
(* What is left unfilled.  Every pair that the call is to expand is still  *)
(* to be asked for, or asked for, or filled, or its identifier was asked   *)
(* for in a round before its object was received, or answered with errors. *)
(***************************************************************************)
\* Rounds follow one another; what is outstanding was sent in this one.
RoundsAreCounted ==
    /\ before \in 0..Len(requests)
    /\ \A i \in 1..Len(requests) : requests[i].before \in 0..before
    /\ \A i \in outstanding :
        /\ i > before /\ requests[i].before = before
        /\ answers[i] = "none"
    /\ stage \in {"sending", "returned"} => toExpand = {}
    /\ stage \in {"forming", "receiving", "errors", "returned"} => pending = {}

\* Objects to expand came with the call, or in the last round.
FoundAreLatest == \A pair \in toExpand :
    IF pair[1].request = 0
      THEN Len(requests) = 0
      ELSE /\ pair[1].request \in 1..Len(requests)
           /\ requests[pair[1].request].before = before

IsOld(o) ==
    IF o.request = 0
      THEN before = 0
      ELSE /\ o.request \in 1..Len(requests)
           /\ \A j \in 1..before : requests[j].before <= requests[o.request].before

\* What is asked for in a round comes from those before it, by action.
PendingAreNew ==
    /\ \A q \in pending : \A pair \in q.nodes : IsOld(pair[1])
    /\ \A q, r \in pending : q.service = r.service /\ q.action = r.action => q = r
    /\ \A q \in pending : \A j \in 1..Len(requests) : requests[j].key = Key(q) => j <= before

MadeWereSent ==
    /\ DOMAIN made = DOMAIN Database
    /\ \A k \in DOMAIN made : \A v \in made[k] :
          \E j \in 1..Len(requests) : requests[j].key = k /\ v \in requests[j].values

IsExplained(pair) ==
    \/ Destination(pair) \in DOMAIN filled
    \/ ~HasObject(pair)
    \/ \E i \in AskedFor(pair) : answers[i] = "errors" \/ IsEarlier(i, pair[1])

IsHandled(pair) ==
    \/ pair \in toExpand
    \/ \E q \in pending : pair \in q.nodes
    \/ \E i \in outstanding : pair \in requests[i].nodes /\ Source(pair) \in requests[i].values
    \/ IsExplained(pair)

WantedAreHandled == \A pair \in Wanted : IsHandled(pair)

ExplainInv ==
    /\ RoundsAreCounted
    /\ FoundAreLatest
    /\ PendingAreNew
    /\ MadeWereSent
    /\ WantedAreHandled

\* find_objects looks at everything that is wanted of a body.
LEMMA WantedIsFound ==
  ASSUME NEW i, NEW body, NEW nodes, NEW n \in Nodes, n.path # <<>>,
         NEW o \in Top(i, body) \union UNION {Inner(p) : p \in Top(i, body)},
         o.data.type = TypeOf(Parent(n)),
         Parent(n).path = <<>> \/ \E pair \in nodes : pair[2] = Parent(n),
         ~\E p \in Top(i, body) : o \in Inner(p) /\ p.data.type = o.data.type
  PROVE  <<o, n>> \in ExtendAll(i, body) \union UNION {Extend(i, body, pair[2]) : pair \in nodes}
<1> DEFINE m == Parent(n)
<1>1. o \in Find(i, body, TypeOf(m))
  <2>1. CASE o \in Top(i, body)
    BY <2>1 DEF Find
  <2>2. CASE \E p \in Top(i, body) : o \in Inner(p)
    <3>1. PICK p \in Top(i, body) : o \in Inner(p) /\ p.data.type # TypeOf(m)
      BY <2>2
    <3> QED
      BY <3>1 DEF Find
  <2> QED
    BY <2>1, <2>2
<1>2. n \in Children(m)
  BY DEF Children
<1>3. <<o, n>> \in Extend(i, body, m)
  BY <1>1, <1>2 DEF Extend
<1>4. CASE m.path = <<>>
  <2>1. PICK t \in DOMAIN Requested : \E p : n = [tree |-> t, path |-> p]
    BY DEF Nodes
  <2>2. m = [tree |-> t, path |-> <<>>]
    BY <2>1, <1>4 DEF Parent
  <2> QED
    BY <1>3, <2>2 DEF ExtendAll, Root
<1>5. CASE \E pair \in nodes : pair[2] = m
  BY <1>3, <1>5
<1> QED
  BY <1>4, <1>5

\* An object knows the request that it came with.
LEMMA ObjectsCame ==
  ASSUME NEW i, NEW body,
         NEW o \in Top(i, body) \union UNION {Inner(p) : p \in Top(i, body)}
  PROVE  o.request = i
<1>1. \A p \in Top(i, body) : p.request = i
  BY DEF Top, Object
<1>2. \A p \in Top(i, body) : \A q \in Inner(p) : q.request = p.request
  BY DEF Inner, Object
<1> QED
  BY <1>1, <1>2

\* Objects are found in the response that they came with.
LEMMA FoundCame ==
  ASSUME NEW i, NEW body, NEW n, NEW pair \in Extend(i, body, n)
  PROVE  pair[1].request = i
<1>1. pair[1] \in Find(i, body, TypeOf(n))
  BY DEF Extend
<1>2. pair[1] \in Top(i, body) \union UNION {Inner(p) : p \in Top(i, body)}
  BY <1>1 DEF Find
<1> QED
  BY <1>2, ObjectsCame

\* Objects that are to be expanded were received.
LEMMA WantedCame == \A pair \in Wanted : pair[1].request \in Received
<1> SUFFICES ASSUME NEW pair \in Wanted PROVE pair[1].request \in Received
  OBVIOUS
<1>1. PICK i \in Received : pair \in Everything(i) \X {n \in Nodes : n.path # <<>>}
  BY DEF Wanted
<1>2. pair[1] \in Everything(i)
  BY <1>1
<1> QED
  BY <1>2, ObjectsCame DEF Everything
-----------------------------------------------------------------------------
(***************************************************************************)
(* The steps, again                                                        *)
(***************************************************************************)
\* Nothing more is wanted while nothing more is received.
LEMMA WantedStay ==
  ASSUME UNCHANGED <<requests, response, answers>>
  PROVE  Wanted' = Wanted
<1>1. Received' = Received
  BY DEF Received
<1>2. \A i : Body(i)' = Body(i)
  BY DEF Body
<1>3. \A i : Everything(i)' = Everything(i)
  BY <1>2 DEF Everything
<1>4. \A i, o, n : IsWanted(i, o, n)' = IsWanted(i, o, n)
  BY <1>2 DEF IsWanted
<1> QED
  BY <1>1, <1>3, <1>4 DEF Wanted

\* What explains that a field is unfilled goes on doing so.
LEMMA ExplainedStay ==
  ASSUME NEW pair, pair[1].request \in 0..Len(requests), Len(requests) \in Nat,
         Len(requests') \in Nat, Len(requests) <= Len(requests'),
         \A i \in 1..Len(requests) : requests'[i] = requests[i],
         \A i \in 1..Len(requests) : answers[i] = "errors" => answers'[i] = "errors",
         DOMAIN filled \subseteq DOMAIN filled', IsExplained(pair)
  PROVE  IsExplained(pair)'
<1>1. CASE Destination(pair) \in DOMAIN filled \/ ~HasObject(pair)
  BY <1>1 DEF IsExplained
<1>2. CASE \E i \in AskedFor(pair) : answers[i] = "errors" \/ IsEarlier(i, pair[1])
  <2>1. PICK i \in AskedFor(pair) : answers[i] = "errors" \/ IsEarlier(i, pair[1])
    BY <1>2
  <2>2. i \in 1..Len(requests)
    BY DEF AskedFor
  <2>3. i \in AskedFor(pair)'
    BY <2>2 DEF AskedFor
  <2>4. IsEarlier(i, pair[1]) => IsEarlier(i, pair[1])'
    BY <2>2 DEF IsEarlier
  <2> QED
    BY <2>1, <2>2, <2>3, <2>4 DEF IsExplained
<1> QED
  BY <1>1, <1>2 DEF IsExplained

\* A step that sends, receives and fills nothing explains what it did before.
LEMMA QuietKeeps ==
  ASSUME ExplainInv, stage' \in {"sending", "returned"} => toExpand = {},
         stage' \in {"forming", "receiving", "errors", "returned"} => pending = {},
         UNCHANGED <<toExpand, pending, made, requests, outstanding, filled>>,
         UNCHANGED <<response, before, answers>>
  PROVE  ExplainInv'
<1>1. RoundsAreCounted'
  BY DEF ExplainInv, RoundsAreCounted
<1>2. FoundAreLatest'
  BY DEF ExplainInv, FoundAreLatest
<1>3. PendingAreNew'
  BY DEF ExplainInv, PendingAreNew, IsOld
<1>4. MadeWereSent'
  BY DEF ExplainInv, MadeWereSent
<1>5. \A pair : IsHandled(pair)' = IsHandled(pair)
  BY DEF IsHandled, IsExplained, AskedFor, IsEarlier
<1>6. WantedAreHandled'
  BY <1>5, WantedStay DEF ExplainInv, WantedAreHandled
<1> QED
  BY <1>1, <1>2, <1>3, <1>4, <1>6 DEF ExplainInv

\* All that the first response asks to expand is to be expanded.
LEMMA InitExplained == ASSUME Init PROVE ExplainInv
<1>1. PICK body \in Bodies : toExpand = ExtendAll(0, body) /\ response = body
  BY DEF Init
<1>2. requests = <<>> /\ answers = <<>> /\ Len(requests) = 0
  BY DEF Init
<1>3. RoundsAreCounted
  BY <1>2 DEF Init, RoundsAreCounted
<1>4. FoundAreLatest
  BY <1>1, <1>2, FoundCame DEF FoundAreLatest, ExtendAll
<1>5. PendingAreNew /\ MadeWereSent
  BY <1>2 DEF Init, PendingAreNew, MadeWereSent
<1>6. WantedAreHandled
  <2> SUFFICES ASSUME NEW pair \in Wanted PROVE pair \in toExpand
    BY DEF WantedAreHandled, IsHandled
  <2>1. Received = {0} /\ Body(0) = body
    BY <1>1, <1>2 DEF Received, Body
  <2>2. PICK o \in Everything(0), n \in Nodes :
          pair = <<o, n>> /\ n.path # <<>> /\ IsWanted(0, o, n)
    BY <2>1 DEF Wanted
  <2>3. /\ o \in Top(0, body) \union UNION {Inner(p) : p \in Top(0, body)}
        /\ o.data.type = TypeOf(Parent(n)) /\ Parent(n).path = <<>>
        /\ ~\E p \in Top(0, body) : o \in Inner(p) /\ p.data.type = o.data.type
    BY <2>1, <2>2 DEF Everything, IsWanted
  <2>4. pair \in ExtendAll(0, body) \union UNION {Extend(0, body, p[2]) : p \in {}}
    BY <2>2, <2>3, WantedIsFound
  <2> QED
    BY <1>1, <2>4
<1> QED
  BY <1>3, <1>4, <1>5, <1>6 DEF ExplainInv

\* Objects that are to be expanded are asked for, unless their field is filled
\* or has no source.
LEMMA FormRequestsExplains == ASSUME IInv, ExplainInv, FormRequests PROVE ExplainInv'
<1> DEFINE open == {pair \in toExpand : IsOpen(pair)}
           nodes(target) == {pair \in open : Target(pair) = target}
<1>1. /\ stage = "forming" /\ stage' = "sending" /\ toExpand' = {} /\ before' = Len(requests)
      /\ UNCHANGED <<made, requests, outstanding, filled, response, answers>>
  BY DEF FormRequests, Merge
<1>2. PICK first \in [{Target(pair) : pair \in open} -> open] :
        pending' = {[service |-> target[1], action |-> target[2],
                     field |-> Route(first[target][2]).field,
                     nodes |-> nodes(target)] : target \in DOMAIN first}
  BY DEF FormRequests, Merge
<1>3. outstanding = {} /\ pending = {} /\ Len(requests) \in Nat
  BY <1>1 DEF IInv, OutstandingAreVisited, ExplainInv, RoundsAreCounted, SentAreRequests
<1>4. RoundsAreCounted'
  BY <1>1, <1>3 DEF ExplainInv, RoundsAreCounted
<1>5. FoundAreLatest' /\ MadeWereSent'
  BY <1>1 DEF ExplainInv, FoundAreLatest, MadeWereSent
<1>6. \A pair \in toExpand : IsOld(pair[1])'
  <2> SUFFICES ASSUME NEW pair \in toExpand PROVE IsOld(pair[1])'
    OBVIOUS
  <2>1. CASE pair[1].request = 0
    BY <1>1, <2>1 DEF ExplainInv, FoundAreLatest, IsOld
  <2>2. CASE pair[1].request # 0
    <3>1. /\ pair[1].request \in 1..Len(requests)
          /\ requests[pair[1].request].before = before
      BY <2>2 DEF ExplainInv, FoundAreLatest
    <3>2. \A j \in 1..Len(requests) : requests[j].before <= before
      BY <1>3 DEF ExplainInv, RoundsAreCounted
    <3> QED
      BY <1>1, <2>2, <3>1, <3>2 DEF IsOld
  <2> QED
    BY <2>1, <2>2
<1>7. PendingAreNew'
  <2>1. \A q \in pending' : q.nodes \subseteq toExpand
    BY <1>2
  <2>2. \A q, r \in pending' : q.service = r.service /\ q.action = r.action => q = r
    <3> SUFFICES ASSUME NEW q \in pending', NEW r \in pending',
                        q.service = r.service, q.action = r.action
                 PROVE  q = r
      OBVIOUS
    <3>1. PICK t \in DOMAIN first :
            q = [service |-> t[1], action |-> t[2], field |-> Route(first[t][2]).field,
                 nodes |-> nodes(t)]
      BY <1>2
    <3>2. PICK u \in DOMAIN first :
            r = [service |-> u[1], action |-> u[2], field |-> Route(first[u][2]).field,
                 nodes |-> nodes(u)]
      BY <1>2
    <3>3. t = <<t[1], t[2]>> /\ u = <<u[1], u[2]>>
      BY DEF Target
    <3>4. t = u
      BY <3>1, <3>2, <3>3
    <3> QED
      BY <3>1, <3>2, <3>4
  <2>3. \A j \in 1..Len(requests') : j <= before'
    BY <1>1, <1>3
  <2> QED
    BY <1>6, <2>1, <2>2, <2>3 DEF PendingAreNew
<1>8. WantedAreHandled'
  <2> SUFFICES ASSUME NEW pair \in Wanted PROVE IsHandled(pair)'
    BY <1>1, WantedStay DEF WantedAreHandled
  <2>1. pair \in toExpand \/ IsExplained(pair)
    BY <1>3 DEF ExplainInv, WantedAreHandled, IsHandled
  <2>2. CASE IsExplained(pair)
    BY <1>1, <2>2 DEF IsHandled, IsExplained, AskedFor, IsEarlier
  <2>3. CASE pair \in open
    <3>1. Target(pair) \in DOMAIN first /\ pair \in nodes(Target(pair))
      BY <2>3
    <3> DEFINE t == Target(pair)
               q == [service |-> t[1], action |-> t[2], field |-> Route(first[t][2]).field,
                     nodes |-> nodes(t)]
    <3>2. q \in pending'
      BY <1>2, <3>1
    <3>3. pair \in q.nodes
      BY <3>1
    <3> QED
      BY <3>2, <3>3 DEF IsHandled
  <2>4. CASE pair \in toExpand \ open
    <3>1. Definition(pair[2]).source \in DOMAIN pair[1].data.fields
      BY DEF Wanted, IsWanted
    <3>2. Destination(pair) \in DOMAIN filled
      BY <2>4, <3>1 DEF IsOpen
    <3> QED
      BY <1>1, <3>2 DEF IsHandled, IsExplained
  <2> QED
    BY <2>1, <2>2, <2>3, <2>4
<1> QED
  BY <1>4, <1>5, <1>7, <1>8 DEF ExplainInv

\* What was made before this round explains what is not asked for again in it.
LEMMA MadeBefore ==
  ASSUME OneFieldPerAction, IInv, ExplainInv, NEW q \in pending, NEW pair \in q.nodes,
         Key(q) \in DOMAIN made, Source(pair) \in made[Key(q)]
  PROVE  IsExplained(pair)
<1>1. PICK j \in 1..Len(requests) : requests[j].key = Key(q) /\ Source(pair) \in requests[j].values
  BY DEF ExplainInv, MadeWereSent
<1>2. RouteKey(pair[2]) = Key(q)
  BY NodesAskByTheirRoutes DEF IInv, PendingAreRequests, Key
<1>3. j \in AskedFor(pair)
  BY <1>1, <1>2 DEF AskedFor
<1>4. j \in 1..before /\ IsOld(pair[1]) /\ before \in Nat
  BY <1>1 DEF ExplainInv, PendingAreNew, RoundsAreCounted
<1>5. IsEarlier(j, pair[1])
  BY <1>4 DEF IsOld, IsEarlier
<1> QED
  BY <1>3, <1>5 DEF IsExplained

\* The key of a request is one that a service has objects for.
LEMMA KeysAreKnown ==
  ASSUME IInv, ExplainInv, NEW q \in pending
  PROVE  Key(q) \in DOMAIN made
<1>1. PICK first \in q.nodes :
        /\ Route(first[2]).field = q.field
        /\ IsPair(first) /\ Target(first) = <<q.service, q.action>>
  BY DEF IInv, PendingAreRequests, IsRequest
<1>2. PICK r \in DOMAIN TypeRoutes : Route(first[2]) = TypeRoutes[r]
  BY <1>1, DefinitionsAreRouted
<1>3. Key(q) = <<TypeRoutes[r].service, TypeRoutes[r].action, TypeRoutes[r].field>>
  BY <1>1, <1>2 DEF Target, Key
<1>4. Key(q) \in DOMAIN Database
  BY <1>3, ExpansionsAssumption
<1> QED
  BY <1>4 DEF ExplainInv, MadeWereSent

\* What a request that is left out asks for was asked for in an earlier round.
LEMMA SkipRequestExplains ==
  ASSUME OneFieldPerAction, IInv, ExplainInv, NEW q \in pending, SkipRequest(q)
  PROVE  ExplainInv'
<1>1. /\ NewValues(q) = {} /\ pending' = pending \ {q} /\ stage = "sending"
      /\ UNCHANGED <<stage, toExpand, made, requests, outstanding, filled>>
      /\ UNCHANGED <<response, before, answers>>
  BY DEF SkipRequest, history
<1>2. RoundsAreCounted' /\ FoundAreLatest' /\ MadeWereSent'
  BY <1>1 DEF ExplainInv, RoundsAreCounted, FoundAreLatest, MadeWereSent
<1>3. PendingAreNew'
  BY <1>1 DEF ExplainInv, PendingAreNew, IsOld
<1>4. WantedAreHandled'
  <2> SUFFICES ASSUME NEW pair \in Wanted PROVE IsHandled(pair)'
    BY <1>1, WantedStay DEF WantedAreHandled
  <2>1. pair \in q.nodes => IsExplained(pair)
    BY <1>1, MadeBefore, KeysAreKnown DEF NewValues
  <2>2. IsExplained(pair)' = IsExplained(pair)
    BY <1>1 DEF IsExplained, AskedFor, IsEarlier
  <2>3. IsHandled(pair)
    BY DEF ExplainInv, WantedAreHandled
  <2> QED
    BY <1>1, <2>1, <2>2, <2>3 DEF IsHandled
<1> QED
  BY <1>2, <1>3, <1>4 DEF ExplainInv

\* A request that is sent asks for what its objects need, or it was asked for
\* in an earlier round.
LEMMA SendRequestExplains ==
  ASSUME OneFieldPerAction, IInv, ExplainInv, NEW q \in pending, SendRequest(q)
  PROVE  ExplainInv'
<1> DEFINE r == [key |-> Key(q), values |-> NewValues(q), nodes |-> q.nodes, before |-> before]
           n == Len(requests)
<1>1. /\ stage = "sending" /\ pending' = pending \ {q}
      /\ made' = [made EXCEPT ![Key(q)] = @ \union NewValues(q)]
      /\ requests' = Append(requests, r) /\ answers' = Append(answers, "none")
      /\ outstanding' = outstanding \union {n + 1}
      /\ UNCHANGED <<stage, toExpand, filled, response, before>>
  BY DEF SendRequest
<1>2. /\ Len(requests') = n + 1 /\ n \in Nat
      /\ requests'[n + 1] = r
      /\ \A i \in 1..n : requests'[i] = requests[i]
  BY <1>1, RequestsGrow DEF IInv, SentAreRequests
<1>3. /\ Len(answers) = n /\ Len(answers') = n + 1
      /\ answers'[n + 1] = "none"
      /\ \A i \in 1..n : answers'[i] = answers[i]
  BY <1>1, AppendProperties DEF IInv, SentAreRequests
<1>4. /\ r.key = Key(q) /\ r.values = NewValues(q) /\ r.nodes = q.nodes /\ r.before = before
  OBVIOUS
<1>5. /\ before \in 0..n /\ toExpand = {} /\ outstanding \subseteq 1..n
  BY <1>1 DEF IInv, ExplainInv, RoundsAreCounted, OutstandingAreVisited
<1> HIDE DEF r, n
<1>6. RoundsAreCounted'
  <2>1. \A i \in 1..(n + 1) : requests'[i].before \in 0..before
    BY <1>2, <1>4, <1>5 DEF ExplainInv, RoundsAreCounted, n
  <2>2. \A i \in outstanding' :
          i > before /\ requests'[i].before = before /\ answers'[i] = "none"
    BY <1>1, <1>2, <1>3, <1>4, <1>5 DEF ExplainInv, RoundsAreCounted
  <2>3. before' \in 0..Len(requests')
    BY <1>1, <1>2, <1>5
  <2>4. before' = before /\ Len(requests') = n + 1 /\ stage' = "sending" /\ toExpand' = {}
    BY <1>1, <1>2, <1>5
  <2> QED
    BY <2>1, <2>2, <2>3, <2>4 DEF RoundsAreCounted
<1>7. FoundAreLatest'
  BY <1>1, <1>5 DEF FoundAreLatest
<1>8. PendingAreNew'
  <2>1. \A p \in pending : \A pair \in p.nodes : IsOld(pair[1])'
    <3> SUFFICES ASSUME NEW o, IsOld(o) PROVE IsOld(o)'
      BY DEF ExplainInv, PendingAreNew
    <3> QED
      BY <1>1, <1>2, <1>5 DEF IsOld, n
  <2>2. \A p \in pending' : Key(p) # Key(q)
    BY <1>1 DEF ExplainInv, PendingAreNew, Key
  <2>3. \A p \in pending' : \A j \in 1..(n + 1) : requests'[j].key = Key(p) => j <= before
    BY <1>1, <1>2, <1>4, <2>2 DEF ExplainInv, PendingAreNew, n
  <2> QED
    BY <1>1, <1>2, <2>1, <2>3 DEF ExplainInv, PendingAreNew
<1>9. MadeWereSent'
  <2>1. Key(q) \in DOMAIN made
    BY KeysAreKnown
  <2> SUFFICES ASSUME NEW k \in DOMAIN made, NEW v \in made'[k]
               PROVE  \E j \in 1..(n + 1) : requests'[j].key = k /\ v \in requests'[j].values
    BY <1>1, <1>2, <2>1 DEF ExplainInv, MadeWereSent
  <2>2. CASE v \in made[k]
    BY <1>2, <2>2 DEF ExplainInv, MadeWereSent, n
  <2>3. CASE v \notin made[k]
    <3>1. k = Key(q) /\ v \in NewValues(q)
      BY <1>1, <2>3
    <3> QED
      BY <1>2, <1>4, <3>1
  <2> QED
    BY <2>2, <2>3
<1>10. Wanted' \subseteq Wanted
  <2>1. \A i \in Received' : i \in Received /\ (i = 0 \/ i \in 1..n)
    BY <1>2, <1>3 DEF Received, n
  <2>2. \A i \in Received' : Body(i)' = Body(i)
    BY <1>1, <1>2, <2>1 DEF Body
  <2>3. \A i \in Received' : Everything(i)' = Everything(i)
    BY <2>2 DEF Everything
  <2>4. \A i \in Received' : \A o, m : IsWanted(i, o, m)' => IsWanted(i, o, m)
    BY <1>2, <2>1, <2>2 DEF IsWanted
  <2> QED
    BY <2>1, <2>3, <2>4 DEF Wanted
<1>11. WantedAreHandled'
  <2> SUFFICES ASSUME NEW pair \in Wanted PROVE IsHandled(pair)'
    BY <1>10 DEF WantedAreHandled
  <2>1. IsExplained(pair) => IsExplained(pair)'
    <3>1. pair[1].request \in 0..n
      BY <1>2, WantedCame DEF Received, n
    <3> QED
      BY <1>1, <1>2, <1>3, <3>1, ExplainedStay DEF n
  <2>2. ASSUME NEW p \in pending, pair \in p.nodes PROVE IsHandled(pair)'
    <3>1. CASE p # q
      BY <1>1, <2>2, <3>1 DEF IsHandled
    <3>2. CASE p = q /\ Source(pair) \in NewValues(q)
      <4>1. n + 1 \in outstanding' /\ requests'[n + 1] = r
        BY <1>1, <1>2
      <4>2. pair \in requests'[n + 1].nodes /\ Source(pair) \in requests'[n + 1].values
        BY <1>4, <2>2, <3>2, <4>1
      <4> QED
        BY <4>1, <4>2 DEF IsHandled
    <3>3. CASE p = q /\ Source(pair) \notin NewValues(q)
      <4>1. Source(pair) \in made[Key(q)]
        BY <2>2, <3>3 DEF NewValues
      <4> QED
        BY <2>1, <2>2, <3>3, <4>1, MadeBefore, KeysAreKnown DEF IsHandled
    <3> QED
      BY <3>1, <3>2, <3>3
  <2>3. ASSUME NEW i \in outstanding, pair \in requests[i].nodes,
               Source(pair) \in requests[i].values
        PROVE  IsHandled(pair)'
    <3>1. i \in outstanding' /\ requests'[i] = requests[i]
      BY <1>1, <1>2, <1>5
    <3> QED
      BY <2>3, <3>1 DEF IsHandled
  <2> QED
    BY <1>5, <2>1, <2>2, <2>3 DEF ExplainInv, WantedAreHandled, IsHandled
<1> QED
  BY <1>6, <1>7, <1>8, <1>9, <1>11 DEF ExplainInv

\* What is found in a response is to be expanded, and what asked for it is
\* filled, or explained by its errors.
LEMMA ReceiveExplains ==
  ASSUME OneFieldPerAction, IInv, ExplainInv, stage = "receiving",
         NEW i \in outstanding, Receive(i)
  PROVE  ExplainInv'
<1> DEFINE body == Answer(requests[i])
           found == ExtendAll(i, body)
                    \union UNION {Extend(i, body, pair[2]) : pair \in requests[i].nodes}
<1>1. /\ outstanding' = outstanding \ {i} /\ pending = {} /\ pending' = {}
      /\ stage' = "receiving"
      /\ UNCHANGED <<made, requests, response, before>>
  BY DEF Receive, ExplainInv, RoundsAreCounted
<1>2. /\ i \in 1..Len(requests) /\ i \in 1..Len(answers) /\ Len(requests) \in Nat
      /\ Len(answers) = Len(requests)
  BY DEF IInv, OutstandingAreVisited, SentAreRequests
<1>3. PICK how \in {"objects", "errors"} :
        /\ answers' = [answers EXCEPT ![i] = how]
        /\ how = "objects" => ReceiveObjects(i)
        /\ how = "errors" => UNCHANGED <<filled, toExpand>>
  BY DEF Receive, ReceiveObjects, ReceiveErrors
<1>4. /\ Len(answers') = Len(answers)
      /\ \A j \in 1..Len(answers) : answers'[j] = IF j = i THEN how ELSE answers[j]
  BY <1>2, <1>3, ExceptSeq DEF IInv, SentAreRequests
<1>5. how = "objects" => toExpand' = toExpand \union found
  BY <1>3 DEF ReceiveObjects
<1>6. /\ requests[i].before = before /\ answers[i] = "none"
      /\ i # 0
  BY <1>2 DEF ExplainInv, RoundsAreCounted
<1>7. DOMAIN filled \subseteq DOMAIN filled'
  BY <1>3 DEF ReceiveObjects
<1> HIDE DEF body, found
<1>8. RoundsAreCounted'
  <2>1. \A j \in outstanding' : j > before /\ requests[j].before = before /\ answers'[j] = "none"
    BY <1>1, <1>2, <1>4 DEF IInv, OutstandingAreVisited, ExplainInv, RoundsAreCounted
  <2> QED
    BY <1>1, <2>1 DEF ExplainInv, RoundsAreCounted
<1>9. FoundAreLatest'
  <2>1. \A pair \in found : pair[1].request = i
    BY FoundCame DEF found, ExtendAll
  <2> QED
    BY <1>1, <1>2, <1>3, <1>5, <1>6, <2>1 DEF ExplainInv, FoundAreLatest
<1>10. PendingAreNew' /\ MadeWereSent'
  BY <1>1 DEF ExplainInv, PendingAreNew, MadeWereSent
<1>11. \A pair \in Wanted' : pair \in Wanted \/ pair \in toExpand'
  <2> SUFFICES ASSUME NEW pair \in Wanted' PROVE pair \in Wanted \/ pair \in toExpand'
    OBVIOUS
  <2>1. \A j : Body(j)' = Body(j) /\ Everything(j)' = Everything(j)
    BY <1>1 DEF Body, Everything
  <2>2. \A j, o, n : IsWanted(j, o, n)' = IsWanted(j, o, n)
    BY <1>1 DEF IsWanted, Body
  <2>0. PICK j \in Received' : \E o \in Everything(j), n \in Nodes :
          pair = <<o, n>> /\ n.path # <<>> /\ IsWanted(j, o, n)
    BY <2>1, <2>2 DEF Wanted
  <2>3. PICK o \in Everything(j), n \in Nodes :
          pair = <<o, n>> /\ n.path # <<>> /\ IsWanted(j, o, n)
    BY <2>0
  <2>4. CASE j \in Received
    BY <2>3, <2>4 DEF Wanted
  <2>5. CASE j \notin Received
    <3>1. j = i /\ how = "objects"
      BY <1>1, <1>2, <1>4, <2>5 DEF Received
    <3>2. Body(j) = body
      BY <1>6, <3>1 DEF Body, body
    <3>3. /\ o \in Top(i, body) \union UNION {Inner(p) : p \in Top(i, body)}
          /\ o.data.type = TypeOf(Parent(n))
          /\ Parent(n).path = <<>> \/ \E p \in requests[i].nodes : p[2] = Parent(n)
          /\ ~\E p \in Top(i, body) : o \in Inner(p) /\ p.data.type = o.data.type
      BY <2>3, <3>1, <3>2 DEF Everything, IsWanted
    <3>4. pair \in found
      BY <2>3, <3>3, WantedIsFound DEF found
    <3> QED
      BY <1>5, <3>1, <3>4
  <2> QED
    BY <2>4, <2>5
<1>12. WantedAreHandled'
  <2> SUFFICES ASSUME NEW pair \in Wanted PROVE IsHandled(pair)'
    BY <1>11 DEF WantedAreHandled, IsHandled
  <2>1. CASE pair \in toExpand
    BY <1>3, <1>5, <2>1 DEF IsHandled
  <2>2. CASE IsExplained(pair)
    <3>1. pair[1].request \in 0..Len(requests)
      BY <1>2, WantedCame DEF Received
    <3>2. IsExplained(pair)'
      BY <1>1, <1>2, <1>4, <1>6, <1>7, <2>2, <3>1, ExplainedStay
    <3> QED
      BY <3>2 DEF IsHandled
  <2>3. ASSUME NEW j \in outstanding, pair \in requests[j].nodes,
               Source(pair) \in requests[j].values, j # i
        PROVE  IsHandled(pair)'
    BY <1>1, <2>3 DEF IsHandled
  <2>4. ASSUME pair \in requests[i].nodes, Source(pair) \in requests[i].values
        PROVE  IsHandled(pair)'
    <3>1. RouteKey(pair[2]) = requests[i].key
      BY <1>2, <2>4, KeysAreRoutes DEF IInv
    <3>2. CASE how = "errors"
      <4>1. i \in AskedFor(pair)' /\ answers'[i] = "errors"
        BY <1>1, <1>2, <1>4, <2>4, <3>1, <3>2 DEF AskedFor
      <4> QED
        BY <4>1 DEF IsHandled, IsExplained
    <3>3. CASE how = "objects" /\ HasObject(pair)
      <4>1. Source(pair) \in DOMAIN body
        BY <2>4, <3>1, <3>3 DEF HasObject, Answer, body
      <4>2. PICK f \in Fill(i, body) : f.destination = Destination(pair)
        <5> DEFINE new == [destination |-> Destination(pair),
                           object |-> Object(i, Source(pair), body[Source(pair)])]
        <5>1. new \in Fill(i, body)
          BY <2>4, <4>1, Zenon DEF Fill
        <5>2. new.destination = Destination(pair)
          OBVIOUS
        <5> QED
          BY <5>1, <5>2
      <4>3. DOMAIN filled' = DOMAIN filled \union {g.destination : g \in Fill(i, body)}
        BY <1>3, <3>3 DEF ReceiveObjects, body
      <4> QED
        BY <4>2, <4>3 DEF IsHandled, IsExplained
    <3>4. CASE ~HasObject(pair)
      BY <3>4 DEF IsHandled, IsExplained
    <3> QED
      BY <3>2, <3>3, <3>4
  <2> QED
    BY <1>1, <2>1, <2>2, <2>3, <2>4 DEF ExplainInv, WantedAreHandled, IsHandled
<1> QED
  BY <1>8, <1>9, <1>10, <1>12 DEF ExplainInv

\* Every step explains what is not expanded.
LEMMA NextExplains ==
  ASSUME OneFieldPerAction
  PROVE  IInv /\ ExplainInv /\ [Next]_vars => ExplainInv'
<1> SUFFICES ASSUME IInv, ExplainInv, [Next]_vars PROVE ExplainInv'
  OBVIOUS
<1>1. ASSUME stage \in {"sending", "receiving"}, Fail PROVE ExplainInv'
  BY <1>1, QuietKeeps DEF Fail, history
<1>2. ASSUME BeginReceiving PROVE ExplainInv'
  BY <1>2, QuietKeeps DEF BeginReceiving, history
<1>3. ASSUME stage = "receiving", ReceiveForeign PROVE ExplainInv'
  BY <1>3, QuietKeeps DEF ReceiveForeign, history
<1>4. ASSUME stage = "receiving", ReceiveNothing PROVE ExplainInv'
  BY <1>4, QuietKeeps DEF ReceiveNothing, history, ExplainInv, RoundsAreCounted
<1>5. ASSUME EndRound PROVE ExplainInv'
  BY <1>5, QuietKeeps DEF EndRound, history, ExplainInv, RoundsAreCounted
<1>6. ASSUME Return PROVE ExplainInv'
  BY <1>6, QuietKeeps DEF Return, history, ExplainInv, RoundsAreCounted
<1>7. ASSUME UNCHANGED vars PROVE ExplainInv'
  BY <1>7, QuietKeeps DEF vars, ExplainInv, RoundsAreCounted
<1> QED
  BY <1>1, <1>2, <1>3, <1>4, <1>5, <1>6, <1>7, FormRequestsExplains, SkipRequestExplains,
     SendRequestExplains, ReceiveExplains DEF Next

\* Objects are left unexpanded only where the service had none, answered with
\* errors, or had been asked for the same before they were received.
THEOREM UnexpandedAreExplained ==
  ASSUME OneFieldPerAction
  PROVE  Spec => []UnexpandedIsExplained
<1>1. Init => ExplainInv
  BY InitExplained
<1>2. IInv /\ ExplainInv /\ [Next]_vars => ExplainInv'
  BY NextExplains
<1>3. IInv /\ ExplainInv => UnexpandedIsExplained
  <2> SUFFICES ASSUME IInv, ExplainInv, stage = "returned",
                      NEW pair \in Unexpanded, HasObject(pair)
               PROVE  \E i \in AskedFor(pair) : answers[i] = "errors" \/ IsEarlier(i, pair[1])
    BY DEF UnexpandedIsExplained
  <2>1. pending = {} /\ outstanding = {} /\ toExpand = {}
    BY DEF IInv, OutstandingAreVisited, ExplainInv, RoundsAreCounted
  <2>2. IsHandled(pair)
    BY DEF ExplainInv, WantedAreHandled, Unexpanded
  <2>3. IsExplained(pair)
    BY <2>1, <2>2 DEF IsHandled
  <2> QED
    BY <2>3 DEF IsExplained, Unexpanded
<1> QED
  BY <1>1, <1>2, <1>3, ExpansionsInductive, PTL DEF Spec
=============================================================================
