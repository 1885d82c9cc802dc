---------------------------- MODULE ClientCalls ----------------------------
(***************************************************************************)
(* The calls of one Client to several services (client/client.py): the     *)
(* futures that call_actions_future and call_jobs_parallel_future return,  *)
(* several of which may be open, and what their result() makes of the      *)
(* responses of each service.  One thread makes all calls, one at a time.  *)
(*                                                                         *)
(* The transport of a service is its counter of outstanding requests and   *)
(* the set of responses that may still come, in any order: RedisGateway    *)
(* has the lists behind it.  Blocking calls are a future and its result(). *)
(***************************************************************************)
EXTENDS Integers, Sequences, FiniteSets

CONSTANTS
    Services,    \* services that the client is configured for
    None,        \* no service
    Plans,       \* the calls that the caller may make
    MaxCalls,    \* BOUND: calls it makes
    Faults       \* which of PossibleFaults may happen

(*   slow        result() times out although a response is on its way      *)
(*   loss        a request or its response is lost                         *)
(*   connection  a transport error, on a send perhaps after its effect     *)
(*   invalid     a message that is received is not a whole response        *)
PossibleFaults == {"slow", "loss", "connection", "invalid"}

\* kind: "actions" for one job to one service, whose other responses are
\* dropped; "jobs" for several.  raises: raise_job_errors and
\* raise_action_errors; catch: catch_transport_errors.
PossiblePlans == [kind : {"actions", "jobs"}, jobs : Seq(Services),
                  catch : BOOLEAN, raises : BOOLEAN]

ASSUME CallsAssumption ==
    /\ None \notin Services \union (Services \X Nat)
    /\ Plans \subseteq PossiblePlans
    /\ \A p \in Plans : p.kind = "actions" => Len(p.jobs) = 1 /\ ~p.catch
    /\ MaxCalls \in Nat
    /\ Faults \subseteq PossibleFaults

VARIABLES
    nextRequestId,    \* per service, ServiceHandler.request_counter
    outstanding,      \* ... its transport's _requests_outstanding
    transportProblem, \* ... and _previous_error_was_transport_problem
    coming,           \* requests whose response may still be received
    calls,            \* the calls made so far
    current,          \* the call being sent or in result(), or 0
    visiting,         \* the service whose responses result() receives
    toVisit,          \* ... and those it turns to later
    got,              \* service_responses, by their key
    failed,           \* transport_errors of this result()
    \* History, read by properties only:
    erred,            \* requests that were answered by an error
    tainted           \* calls that may see responses of others (see below)

transport == <<nextRequestId, outstanding, transportProblem, coming>>
result == <<visiting, toVisit, got, failed>>
vars == <<nextRequestId, outstanding, transportProblem, coming, calls, current,
          visiting, toVisit, got, failed, erred, tainted>>

\* A request is known by its service and its id.  A request that could not be
\* sent has an id of its own below 1; here it is 0, and stands for the error.
Requests == Services \X Nat
ErrorOf(r) == <<r[1], 0>>
WasSent(r) == r[2] > 0

Call == calls[current]
Plan == Call.plan

Init ==
    /\ nextRequestId = [s \in Services |-> 1]
    /\ outstanding = [s \in Services |-> 0]
    /\ transportProblem = [s \in Services |-> FALSE]
    /\ coming = {}
    /\ calls = <<>>
    /\ current = 0
    /\ visiting = None
    /\ toVisit = {}
    /\ got = {}
    /\ failed = {}
    /\ erred = {}
    /\ tainted = {}
-----------------------------------------------------------------------------
(***************************************************************************)
(* Making a call                                                           *)
(***************************************************************************)
Begin(plan) ==
    /\ current = 0
    /\ Len(calls) < MaxCalls
    /\ calls' = Append(calls, [plan |-> plan, keys |-> <<>>, expecting |-> {},
                               status |-> "sending", answer |-> <<>>])
    /\ current' = Len(calls) + 1
    /\ UNCHANGED <<transport, result, erred, tainted>>

Keys(call) == {call.keys[i] : i \in 1..Len(call.keys)}
SentTo(call, s) == {r \in Keys(call) : r[1] = s /\ WasSent(r)}
IsOpen(call) == call.status \in {"sending", "future", "timeout", "receiving"}

\* Sending to a service where another call is open taints both, since either
\* may receive the other's responses; and one that owes the client anything but
\* responses to this call taints this call.
Taint(s) ==
    LET others == {i \in 1..Len(calls) : i # current /\ IsOpen(calls[i])
                                         /\ SentTo(calls[i], s) # {}}
        owed == \/ outstanding[s] # Cardinality(SentTo(Call, s))
                \/ \E r \in coming : r[1] = s /\ r \notin Keys(Call) IN
    tainted \union others \union (IF others # {} \/ owed THEN {current} ELSE {})

NextService == Plan.jobs[Len(Call.keys) + 1]

IsSending ==
    /\ current # 0
    /\ Call.status = "sending"
    /\ Len(Call.keys) < Len(Plan.jobs)

DrawRequestId(s) == nextRequestId' = [nextRequestId EXCEPT ![s] = @ + 1]

\* MUTANT of Expect: only the last request to each service is remembered.
ExpectLast(expecting, r) == {q \in expecting : q[1] # r[1]} \union {r}

\* service_request_ids.setdefault(...).add(sent_request_id)
Expect(expecting, r) == expecting \union {r}

\* The current call with the key of its next job.
WithKey(key, expecting) ==
    [plan |-> Plan, keys |-> Append(Call.keys, key), expecting |-> expecting,
     status |-> "sending", answer |-> <<>>]

SendRequest ==
    LET s == NextService
        r == <<s, nextRequestId[s]>> IN
    /\ IsSending
    /\ DrawRequestId(s)
    /\ outstanding' = [outstanding EXCEPT ![s] = @ + 1]
    /\ coming' = coming \union {r}
    /\ calls' = [calls EXCEPT ![current] = WithKey(r, Expect(Call.expecting, r))]
    /\ tainted' = Taint(s)
    /\ UNCHANGED <<transportProblem, current, result, erred>>

\* PySOATransportError from send_request: another job goes on if errors are
\* caught; otherwise the caller gets the error instead of a future, and the
\* requests sent so far are left to whoever asks these services next.
SendFails ==
    LET s == NextService
        r == <<s, nextRequestId[s]>> IN
    /\ IsSending
    /\ "connection" \in Faults
    /\ DrawRequestId(s)
    /\ \/ /\ coming' \in {coming, coming \union {r}}
          /\ transportProblem' = [transportProblem EXCEPT ![s] = TRUE]
       \/ UNCHANGED <<coming, transportProblem>>     \* MessageTooLarge
    /\ IF Plan.catch
         THEN /\ calls' = [calls EXCEPT ![current] = WithKey(ErrorOf(r), Call.expecting)]
              /\ UNCHANGED current
         ELSE /\ calls' = [calls EXCEPT ![current].status = "failed"]
              /\ current' = 0
    /\ tainted' = Taint(s) \union (IF r \in coming' THEN {current} ELSE {})
    /\ UNCHANGED <<outstanding, result, erred>>

ReturnFuture ==
    /\ current # 0
    /\ Call.status = "sending"
    /\ Len(Call.keys) = Len(Plan.jobs)
    /\ calls' = [calls EXCEPT ![current].status = "future"]
    /\ current' = 0
    /\ UNCHANGED <<transport, result, erred, tainted>>
-----------------------------------------------------------------------------
(***************************************************************************)
(* FutureSOAResponse.result                                                *)
(***************************************************************************)
\* The services in the order of a dict.
VisitNext(services) ==
    \/ /\ services = {}
       /\ visiting' = None
       /\ toVisit' = {}
    \/ \E s \in services :
       /\ visiting' = s
       /\ toVisit' = services \ {s}

\* The first result(), or another after a timeout: it starts with nothing.
BeginResult(f) ==
    /\ current = 0
    /\ calls[f].status \in {"future", "timeout"}
    /\ calls' = [calls EXCEPT ![f].status = "receiving"]
    /\ current' = f
    /\ VisitNext({r[1] : r \in {q \in Keys(calls[f]) : WasSent(q)}})
    /\ UNCHANGED <<transport, got, failed, erred, tainted>>

\* The local variables of get_response are gone with it.
Forget ==
    /\ visiting' = None
    /\ toVisit' = {}
    /\ got' = {}
    /\ failed' = {}

EndResult(status) ==
    /\ calls' = [calls EXCEPT ![current].status = status]
    /\ current' = 0
    /\ Forget

IsReceiving == current # 0 /\ visiting # None

IsBlocked == IsReceiving /\ outstanding[visiting] > 0

Pop(r) ==
    /\ IsBlocked
    /\ r[1] = visiting
    /\ outstanding' = [outstanding EXCEPT ![visiting] = @ - 1]
    /\ coming' = coming \ {r}
    /\ UNCHANGED <<nextRequestId, transportProblem>>

IsForeign(r) == Plan.kind = "jobs" /\ r \notin Call.expecting

Receive(r) ==
    /\ Pop(r)
    /\ ~IsForeign(r)
    /\ got' = got \union {r}
    /\ erred' \in {erred, erred \union {r}}
    /\ calls' = [calls EXCEPT ![current].expecting = IF Plan.catch THEN @ \ {r} ELSE @]
    /\ UNCHANGED <<current, visiting, toVisit, failed, tainted>>

\* "Got response ID ..., not in set of expected IDs": neither caught nor
\* a timeout, so that the future keeps it.
ReceiveForeign(r) ==
    /\ Pop(r)
    /\ IsForeign(r)
    /\ EndResult("unexpected")
    /\ UNCHANGED <<erred, tainted>>

\* Nothing is outstanding at this service: on to the next.
ReceiveNothing ==
    /\ IsReceiving
    /\ outstanding[visiting] = 0
    /\ transportProblem' = [transportProblem EXCEPT ![visiting] = FALSE]
    /\ VisitNext(toVisit)
    /\ UNCHANGED <<nextRequestId, outstanding, coming, calls, current, got, failed,
                   erred, tainted>>

\* MUTANT of RaiseOrCatch: a service that failed is asked again.
RaiseOrCatchAgain(status) ==
    IF Plan.catch
      THEN /\ failed' = failed \union {r \in Call.expecting : r[1] = visiting}
           /\ VisitNext(toVisit \union {visiting})
           /\ UNCHANGED <<calls, current, got, tainted>>
      ELSE /\ EndResult(status)
           /\ tainted' = tainted \union {current}

\* A transport error while receiving.  What this result() received so far is
\* only kept if errors are caught.
RaiseOrCatch(status) ==
    IF Plan.catch
      THEN /\ failed' = failed \union {r \in Call.expecting : r[1] = visiting}
           /\ VisitNext(toVisit)
           /\ UNCHANGED <<calls, current, got, tainted>>
      ELSE /\ EndResult(status)
           /\ tainted' = tainted \union {current}

\* MessageReceiveTimeout, which result() does not keep.
ReceiveTimesOut ==
    /\ IsBlocked
    /\ "slow" \in Faults \/ \A r \in coming : r[1] # visiting
    /\ outstanding' = [outstanding EXCEPT ![visiting] =
                          IF transportProblem[visiting] THEN 0 ELSE @]
    /\ transportProblem' = [transportProblem EXCEPT ![visiting] = FALSE]
    /\ RaiseOrCatch("timeout")
    /\ UNCHANGED <<nextRequestId, coming, erred>>

\* MessageReceiveError, or InvalidMessageError, of which the transport takes no
\* note (the response that the message was to be is lost).  result() keeps both.
ReceiveFails ==
    /\ IsBlocked
    /\ \/ /\ "connection" \in Faults
          /\ transportProblem' = [transportProblem EXCEPT ![visiting] = TRUE]
       \/ "invalid" \in Faults /\ UNCHANGED transportProblem
    /\ RaiseOrCatch("transport")
    /\ UNCHANGED <<nextRequestId, outstanding, coming, erred>>

\* MUTANT of StoredUnder: responses are kept by request id alone.
StoredUnderId(key) == {r \in got : r[2] = key[2]}

StoredUnder(key) == {r \in got : r = key}

\* What becomes of the job behind a key: its response, a caught error, or
\* nothing at all.
Outcome(key) ==
    IF WasSent(key) /\ StoredUnder(key) # {}
      THEN CHOOSE r \in StoredUnder(key) : TRUE
      ELSE IF ~WasSent(key) \/ key \in failed THEN ErrorOf(key) ELSE None

Returned(answer) ==
    [plan |-> Plan, keys |-> Call.keys, expecting |-> Call.expecting,
     status |-> "returned", answer |-> answer]

\* The responses in the order of the jobs.  The first job that has no outcome,
\* or one that raises, ends it.
Answer ==
    LET outcome == [i \in 1..Len(Call.keys) |-> Outcome(Call.keys[i])]
        raising == {i \in 1..Len(Call.keys) :
                        outcome[i] = None \/ (Plan.raises /\ outcome[i] \in erred)} IN
    /\ current # 0
    /\ Call.status = "receiving"
    /\ visiting = None
    /\ \/ /\ raising = {}
          /\ calls' = [calls EXCEPT ![current] = Returned(outcome)]
       \/ \E first \in raising :
          /\ \A i \in raising : first <= i
          /\ calls' = [calls EXCEPT
                 ![current].status = IF outcome[first] # None THEN "errors"
                                     ELSE IF Plan.kind = "jobs" THEN "missing" ELSE "unexpected"]
    /\ current' = 0
    /\ Forget
    /\ UNCHANGED <<transport, erred, tainted>>
-----------------------------------------------------------------------------
LoseResponse(r) ==
    /\ "loss" \in Faults
    /\ coming' = coming \ {r}
    /\ UNCHANGED <<nextRequestId, outstanding, transportProblem, calls, current, result,
                   erred, tainted>>

\* The thread inside one of the client's methods.
ClientStep ==
    \/ SendRequest
    \/ SendFails
    \/ ReturnFuture
    \/ \E r \in coming : Receive(r) \/ ReceiveForeign(r)
    \/ ReceiveNothing
    \/ ReceiveTimesOut
    \/ ReceiveFails
    \/ Answer

Next ==
    \/ \E plan \in Plans : Begin(plan)
    \/ \E f \in 1..Len(calls) : BeginResult(f)
    \/ ClientStep
    \/ \E r \in coming : LoseResponse(r)

Spec == Init /\ [][Next]_vars

\* A thread that is inside the client runs, and blocking receives time out.
FairSpec == Spec /\ WF_vars(ClientStep)
-----------------------------------------------------------------------------
(***************************************************************************)
(* Properties                                                              *)
(***************************************************************************)
Statuses == {"sending", "future", "failed", "receiving", "timeout", "returned",
             "errors", "missing", "unexpected", "transport"}

\* Every variable holds a value of its type.
TypeOK ==
    /\ nextRequestId \in [Services -> Nat \ {0}]
    /\ outstanding \in [Services -> Nat]
    /\ transportProblem \in [Services -> BOOLEAN]
    /\ coming \subseteq Requests
    /\ calls \in Seq([plan : Plans, keys : Seq(Requests), expecting : SUBSET Requests,
                      status : Statuses, answer : Seq(Requests)])
    /\ current \in 0..Len(calls)
    /\ visiting \in Services \union {None}
    /\ toVisit \subseteq Services
    /\ got \subseteq Requests /\ failed \subseteq Requests /\ erred \subseteq Requests
    /\ tainted \subseteq 1..Len(calls)

\* A call that returns has an answer to each of its jobs, in their order and
\* from their service: the response, which is no error if errors are raised,
\* or, only where errors are caught, a transport error.
AnswersFollowJobs == \A i \in 1..Len(calls) :
    LET call == calls[i] IN
    call.status = "returned" =>
        /\ Len(call.answer) = Len(call.plan.jobs)
        /\ \A j \in 1..Len(call.answer) :
            /\ call.keys[j][1] = call.plan.jobs[j]
            /\ \/ call.answer[j] = call.keys[j]
               \/ call.answer[j] = ErrorOf(call.keys[j]) /\ call.plan.catch
            /\ call.plan.raises => call.answer[j] \notin erred

\* A call to services that owed the client nothing, and that no other call
\* used before it was done, is never confused by responses of others, however
\* the responses of its own jobs are ordered and whatever else is in progress
\* elsewhere; unless a timeout or a failed send came between.
CleanCallsAreNotConfused == \A i \in 1..Len(calls) :
    calls[i].status \in {"missing", "unexpected"} => i \in tainted

\* result() does not block for ever, whatever was lost: each service it visits
\* is left when nothing is outstanding there or the time is up.
ResultReturns == \A i \in 1..MaxCalls :
    (current = i) ~> (current # i)
-----------------------------------------------------------------------------
\* call_jobs_parallel_future on the branch that raises "There was no response
\* for service ...": "It shouldn't be possible for this to happen unless the
\* code has a bug".
NoResponseIsMissing == \A i \in 1..Len(calls) : calls[i].status # "missing"
=============================================================================
