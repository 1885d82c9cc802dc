---------------------------- MODULE Expansions ----------------------------
(***************************************************************************)
(* Expansions (Client._perform_expansion, client/expander.py): a call      *)
(* whose responses hold identifiers asks other services, round by round,   *)
(* for the objects behind them, and puts these into the responses.         *)
(*                                                                         *)
(* One call, from its response to the end of its expansions.  Objects that *)
(* are found more than once in a round are processed once, which makes no  *)
(* difference to them; in the code they are looked at again.  Routes to    *)
(* one action have one response field.                                     *)
(***************************************************************************)
EXTENDS Integers, Sequences, SequencesExt

CONSTANTS
    None,             \* no service, no type, no object
    TypeExpansions,   \* type -> name -> [type, route, source, destination, raises]
    TypeRoutes,       \* route -> [service, action, field]
    Requested,        \* the expansions argument: type -> set of dotted names
    Database,         \* <<service, action, field>> -> identifier -> an object
    Bodies,           \* responses of the call: identifier -> an object
    Faults            \* which of PossibleFaults may happen

(*   errors     an expansion is answered by a job error or an action error *)
(*   transport  sending or receiving raises, also for lack of a response   *)
(*   foreign    another future has an open request to a service            *)
PossibleFaults == {"errors", "transport", "foreign"}

\* An object is its _type, its fields that hold an identifier, and perhaps one
\* object within it, which has none within.
ObjectsOf(body) == {body[v] : v \in DOMAIN body}
Services == {TypeRoutes[r].service : r \in DOMAIN TypeRoutes}

ASSUME ExpansionsAssumption ==
    /\ \A t \in DOMAIN TypeExpansions : \A name \in DOMAIN TypeExpansions[t] :
        LET expansion == TypeExpansions[t][name] IN
        /\ expansion.route \in DOMAIN TypeRoutes
        /\ expansion.source # expansion.destination
        /\ \A other \in DOMAIN TypeExpansions[t] \ {name} :
              TypeExpansions[t][other].destination # expansion.destination
    /\ \A r \in DOMAIN TypeRoutes :
        <<TypeRoutes[r].service, TypeRoutes[r].action, TypeRoutes[r].field>> \in DOMAIN Database
    /\ None \notin Services
    /\ Faults \subseteq PossibleFaults

(***************************************************************************)
(* ExpansionConverter.dict_to_trees: a node of a tree is known by the type *)
(* at its root and the names that lead to it; strings that begin alike     *)
(* share nodes.                                                            *)
(***************************************************************************)
Nodes == UNION {UNION {{[tree |-> t, path |-> p] : p \in Prefixes(string)} :
                       string \in Requested[t]} : t \in DOMAIN Requested}
Root(t) == [tree |-> t, path |-> <<>>]
Parent(n) == [n EXCEPT !.path = Front(@)]
Children(n) == {m \in Nodes : m.path # <<>> /\ Parent(m) = n}

TypeOf(n) == FoldLeft(LAMBDA type, name : TypeExpansions[type][name].type, n.tree, n.path)

\* dict_to_trees finds the expansion of each name that is requested.
ASSUME RequestedAssumption == \A n \in Nodes : n.path # <<>> =>
    /\ TypeOf(Parent(n)) \in DOMAIN TypeExpansions
    /\ Last(n.path) \in DOMAIN TypeExpansions[TypeOf(Parent(n))]

Definition(n) == TypeExpansions[TypeOf(Parent(n))][Last(n.path)]
Route(n) == TypeRoutes[Definition(n).route]

\* What services may answer with, and the objects within.
WholeObjects == (UNION {ObjectsOf(body) : body \in Bodies})
                \union ((UNION {ObjectsOf(Database[k]) : k \in DOMAIN Database}) \ {None})
AllObjects == WholeObjects \union ({o.inner : o \in WholeObjects} \ {None})

\* A service knows of every identifier that it may be asked for whether it has
\* an object, in whichever field of its action the identifier is sent.
ASSUME DatabaseAssumption == \A n, m \in Nodes, o \in AllObjects :
    /\ n.path # <<>> /\ m.path # <<>>
    /\ Route(n).service = Route(m).service /\ Route(n).action = Route(m).action
    /\ TypeOf(Parent(n)) = o.type /\ Definition(n).source \in DOMAIN o.fields
    => o.fields[Definition(n).source] \in
          DOMAIN Database[<<Route(n).service, Route(n).action, Route(m).field>>]

VARIABLES
    stage,       \* where the call is, or how it ended
    toExpand,    \* objects_to_expand: pairs of an object and a node
    pending,     \* pending_expansion_requests, not sent yet
    made,        \* expansion_requests_made, by service, action and field
    requests,    \* requests sent in all rounds; one is known by its index
    outstanding, \* those whose response is still to be received
    visiting,    \* the service whose responses are received
    toVisit,     \* ... and those to turn to later in this round
    filled,      \* destination fields of objects that were filled
    raising,     \* requests whose errors are to be raised
    foreign,     \* services that owe a response to another future
    \* History, read by properties only:
    response,    \* the body that the call itself received
    before,      \* the number of requests sent before this round
    answers      \* how each request was answered

history == <<response, before, answers>>
vars == <<stage, toExpand, pending, made, requests, outstanding, visiting, toVisit,
          filled, raising, foreign, response, before, answers>>

\* An object in memory: the request it came with (0 is the call itself), the
\* identifier it was given under, and what the service said of it.
Object(i, v, data) == [request |-> i, value |-> v, data |-> data]
Top(i, body) == {Object(i, v, body[v]) : v \in DOMAIN body}
Inner(o) == {Object(o.request, o.value, o.data.inner)} \ {Object(o.request, o.value, None)}

\* MUTANT of Find: only the elements of a body are looked at.
FindAtTop(i, body, type) == {o \in Top(i, body) : o.data.type = type}

\* TypeNode.find_objects: it does not look into an object that it found.
Find(i, body, type) ==
    LET matching(S) == {o \in S : o.data.type = type}
        top == Top(i, body) IN
    matching(top) \union matching(UNION {Inner(o) : o \in top \ matching(top)})

Extend(i, body, n) == Find(i, body, TypeOf(n)) \X Children(n)
ExtendAll(i, body) == UNION {Extend(i, body, Root(t)) : t \in DOMAIN Requested}

Init == \E body \in Bodies :
    /\ stage = "forming"
    /\ toExpand = ExtendAll(0, body)
    /\ pending = {}
    /\ made = [k \in DOMAIN Database |-> {}]
    /\ requests = <<>>
    /\ outstanding = {}
    /\ visiting = None
    /\ toVisit = {}
    /\ filled = [x \in {} |-> None]
    /\ raising = {}
    /\ foreign \in IF "foreign" \in Faults THEN SUBSET Services ELSE {{}}
    /\ response = body
    /\ before = 0
    /\ answers = <<>>
-----------------------------------------------------------------------------
(***************************************************************************)
(* A round: form requests, send them, receive their responses              *)
(***************************************************************************)
Source(pair) == pair[1].data.fields[Definition(pair[2]).source]
Destination(pair) == <<pair[1], Definition(pair[2]).destination>>

\* The destination is not there yet, and the source is there and not false.
IsOpen(pair) ==
    /\ Destination(pair) \notin DOMAIN filled
    /\ Definition(pair[2]).source \in DOMAIN pair[1].data.fields

Target(pair) == <<Route(pair[2]).service, Route(pair[2]).action>>

\* Requests are merged by service and action.  Whichever pair comes first
\* determines the field that the identifiers of all are sent in.
Merge ==
    LET open == {pair \in toExpand : IsOpen(pair)}
        nodes(target) == {pair \in open : Target(pair) = target} IN
    /\ stage = "forming"
    /\ toExpand # {}
    /\ \E first \in [{Target(pair) : pair \in open} -> open] :
        /\ \A target \in DOMAIN first : first[target] \in nodes(target)
        /\ pending' = {[service |-> target[1], action |-> target[2],
                        field |-> Route(first[target][2]).field,
                        nodes |-> nodes(target)] : target \in DOMAIN first}
    /\ stage' = "sending"
    /\ before' = Len(requests)
    /\ UNCHANGED <<made, requests, outstanding, visiting, toVisit, filled, raising,
                   foreign, response, answers>>

\* MUTANT of FormRequests: the objects stay in the list.
FormRequestsAgain == Merge /\ UNCHANGED toExpand

FormRequests == Merge /\ toExpand' = {}

Key(q) == <<q.service, q.action, q.field>>

NewValues(q) == {Source(pair) : pair \in q.nodes} \ made[Key(q)]

\* "Avoiding infinite recursion by skipping duplicate expansion"
SkipRequest(q) ==
    /\ stage = "sending"
    /\ NewValues(q) = {}
    /\ pending' = pending \ {q}
    /\ UNCHANGED <<stage, toExpand, made, requests, outstanding, visiting, toVisit, filled,
                   raising, foreign, history>>

SendRequest(q) ==
    /\ stage = "sending"
    /\ NewValues(q) # {}
    /\ pending' = pending \ {q}
    /\ made' = [made EXCEPT ![Key(q)] = @ \union NewValues(q)]
    /\ requests' = Append(requests, [key |-> Key(q), values |-> NewValues(q),
                                     nodes |-> q.nodes, before |-> before])
    /\ answers' = Append(answers, "none")
    /\ outstanding' = outstanding \union {Len(requests) + 1}
    /\ UNCHANGED <<stage, toExpand, visiting, toVisit, filled, raising, foreign, response, before>>

\* PySOATransportError from send_request or get_all_responses, that of a
\* timeout among them, goes up to the caller.
Fail ==
    /\ "transport" \in Faults
    /\ \/ \E q \in pending : NewValues(q) # {}
       \/ visiting # None
    /\ stage' = "transport"
    /\ UNCHANGED <<toExpand, pending, made, requests, outstanding, visiting, toVisit,
                   filled, raising, foreign, history>>

VisitNext(services) ==
    \/ services = {} /\ visiting' = None /\ toVisit' = {}
    \/ \E s \in services : visiting' = s /\ toVisit' = services \ {s}

ServiceOf(i) == requests[i].key[1]

BeginReceiving ==
    /\ stage = "sending"
    /\ pending = {}
    /\ stage' = "receiving"
    /\ VisitNext({ServiceOf(i) : i \in outstanding})
    /\ UNCHANGED <<toExpand, pending, made, requests, outstanding, filled, raising,
                   foreign, history>>

\* What the service answers with: the objects that it has.
Answer(q) == [v \in {u \in q.values : Database[q.key][u] # None} |-> Database[q.key][v]]

\* MUTANT of Fill: a value is filled in by the identifier of any node.
FillAny(i, body) ==
    {[destination |-> Destination(pair), object |-> Object(i, v, body[v])] :
        pair \in requests[i].nodes, v \in DOMAIN body}

Fill(i, body) ==
    {[destination |-> Destination(pair), object |-> Object(i, Source(pair), body[Source(pair)])] :
        pair \in {p \in requests[i].nodes : Source(p) \in DOMAIN body}}

ReceiveObjects(i) ==
    LET body == Answer(requests[i])
        new == Fill(i, body) IN
    /\ answers' = [answers EXCEPT ![i] = "objects"]
    /\ filled' = [x \in DOMAIN filled \union {f.destination : f \in new} |->
                     IF \E f \in new : f.destination = x
                       THEN (CHOOSE f \in new : f.destination = x).object
                       ELSE filled[x]]
    /\ toExpand' = toExpand \union ExtendAll(i, body)
                      \union UNION {Extend(i, body, pair[2]) : pair \in requests[i].nodes}
    /\ UNCHANGED raising

NotesErrors(i) == \E pair \in requests[i].nodes : Definition(pair[2]).raises

\* A job error, or an action error with an empty body: execute_job of the server
\* answers an action that failed without one.  (A body beside errors, as a custom
\* action could build it, would be filled in before the errors are raised.)
ReceiveErrors(i) ==
    /\ "errors" \in Faults
    /\ answers' = [answers EXCEPT ![i] = "errors"]
    /\ raising' = IF NotesErrors(i) THEN raising \union {i} ELSE raising
    /\ UNCHANGED <<filled, toExpand>>

Receive(i) ==
    /\ visiting = ServiceOf(i)
    /\ outstanding' = outstanding \ {i}
    /\ ReceiveObjects(i) \/ ReceiveErrors(i)
    /\ UNCHANGED <<stage, pending, made, requests, visiting, toVisit, foreign, response, before>>

\* The mapping of requests to objects knows no such request: KeyError.
ReceiveForeign ==
    /\ visiting \in foreign
    /\ stage' = "key error"
    /\ foreign' = foreign \ {visiting}
    /\ UNCHANGED <<toExpand, pending, made, requests, outstanding, visiting, toVisit,
                   filled, raising, history>>

ReceiveNothing ==
    /\ visiting # None
    /\ visiting \notin foreign
    /\ \A i \in outstanding : ServiceOf(i) # visiting
    /\ VisitNext(toVisit)
    /\ UNCHANGED <<stage, toExpand, pending, made, requests, outstanding, filled, raising,
                   foreign, history>>

\* MUTANT of AllVisited: errors are raised as soon as they are received.
VisitedOrRaising == visiting = None \/ raising # {}

AllVisited == visiting = None

EndRound ==
    /\ stage = "receiving"
    /\ AllVisited
    /\ stage' = IF raising # {} THEN "errors" ELSE "forming"
    /\ UNCHANGED <<toExpand, pending, made, requests, outstanding, visiting, toVisit,
                   filled, raising, foreign, history>>

Return ==
    /\ stage = "forming"
    /\ toExpand = {}
    /\ stage' = "returned"
    /\ UNCHANGED <<toExpand, pending, made, requests, outstanding, visiting, toVisit,
                   filled, raising, foreign, history>>

Next ==
    \/ FormRequests
    \/ \E q \in pending : SkipRequest(q) \/ SendRequest(q)
    \/ stage \in {"sending", "receiving"} /\ Fail
    \/ BeginReceiving
    \/ stage = "receiving" /\ (\/ \E i \in outstanding : Receive(i)
                               \/ ReceiveForeign
                               \/ ReceiveNothing)
    \/ EndRound
    \/ Return

Spec == Init /\ [][Next]_vars
FairSpec == Spec /\ WF_vars(Next)
-----------------------------------------------------------------------------
(***************************************************************************)
(* Properties                                                              *)
(***************************************************************************)
Ended == {"returned", "errors", "transport", "key error"}
Body(i) == IF i = 0 THEN response ELSE Answer(requests[i])
Received == {i \in 1..Len(requests) : answers[i] = "objects"} \union {0}

\* Every variable holds a value of its type, and what is outstanding was sent
\* in this round, to a service that is still to be visited.
TypeOK ==
    /\ stage \in Ended \union {"forming", "sending", "receiving"}
    /\ \A pair \in toExpand : pair[2] \in Nodes /\ pair[1].request \in Received
    /\ \A k \in DOMAIN made : made[k] \subseteq DOMAIN Database[k]
    /\ \A i \in outstanding :
        /\ i > before
        /\ stage = "receiving" => ServiceOf(i) \in toVisit \union {visiting}
    /\ toVisit \subseteq Services /\ visiting \in Services \union {None}
    /\ \A x \in DOMAIN filled : filled[x].request \in Received
    /\ raising \subseteq 1..Len(requests)
    /\ foreign \subseteq Services

RouteKey(n) == <<Route(n).service, Route(n).action, Route(n).field>>

\* A field is only ever filled with the object that the route of its own
\* expansion has under the identifier in its source field, whatever else was
\* asked for in the same request.
FilledByItsRoute == \A x \in DOMAIN filled : \E n \in Nodes :
    /\ n.path # <<>>
    /\ TypeOf(Parent(n)) = x[1].data.type
    /\ Definition(n).destination = x[2]
    /\ Database[RouteKey(n)][Source(<<x[1], n>>)] = filled[x].data

\* The pairs that the expansions argument asks for: an object of a type that is
\* listed there, or one that came by an expansion with names after it, and is
\* not within another of its type.
IsWanted(i, o, n) ==
    /\ o.data.type = TypeOf(Parent(n))
    /\ Definition(n).source \in DOMAIN o.data.fields
    /\ Parent(n).path = <<>> \/ (i # 0 /\ \E pair \in requests[i].nodes : pair[2] = Parent(n))
    /\ ~\E p \in Top(i, Body(i)) : o \in Inner(p) /\ p.data.type = o.data.type

Everything(i) == Top(i, Body(i)) \union UNION {Inner(p) : p \in Top(i, Body(i))}

Wanted == UNION {{pair \in Everything(i) \X {n \in Nodes : n.path # <<>>} :
                     IsWanted(i, pair[1], pair[2])} : i \in Received}

Unexpanded == {pair \in Wanted : Destination(pair) \notin DOMAIN filled}

AskedFor(pair) == {i \in 1..Len(requests) :
    requests[i].key = RouteKey(pair[2]) /\ Source(pair) \in requests[i].values}

HasObject(pair) == Database[RouteKey(pair[2])][Source(pair)] # None

\* Requests are of the same round if as many were sent before it.
IsEarlier(i, o) == o.request # 0 /\ requests[i].before <= requests[o.request].before

\* When the call returns, each field that it was to fill is filled, unless the
\* service has no such object, answered with an error, or had been asked for
\* the same identifier before this object was received.
UnexpandedIsExplained == stage = "returned" => \A pair \in Unexpanded :
    HasObject(pair) => \E i \in AskedFor(pair) :
        answers[i] = "errors" \/ IsEarlier(i, pair[1])

\* A call returns only if no expansion that raises its errors was answered by
\* one, however many expansions shared its request; and whether it returns or
\* raises them, it leaves no response behind that a later call would stumble
\* over.
ErrorsAreRaised ==
    /\ stage = "returned" => \A i \in 1..Len(requests) :
          answers[i] = "errors" => ~\E pair \in requests[i].nodes : Definition(pair[2]).raises
    /\ stage \in {"returned", "errors"} => outstanding = {}

\* Expansions end, though objects refer to each other in cycles.
ExpansionsEnd == <>(stage \in Ended)
-----------------------------------------------------------------------------
\* docs/api.rst: expansions={"foo": ["bar"]} tells the Client "for each object
\* of type foo in the response, perform an expansion of type bar".
EveryObjectIsExpanded == stage = "returned" => \A pair \in Unexpanded :
    HasObject(pair) => \E i \in AskedFor(pair) : answers[i] = "errors"
=============================================================================
