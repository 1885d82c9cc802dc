----------------------------- MODULE ExecuteJob -----------------------------
(***************************************************************************)
(* What a server does with a request (Server.handle_next_request,          *)
(* process_job, execute_job), and the context under which it logs          *)
(* (PySOALogContextFilter).  An action may call another service through    *)
(* the local transport, whose server then handles that request in the same *)
(* thread, below the first; and it may hand a coroutine to the event loop  *)
(* thread, which shares the lists that hold the context.                   *)
(*                                                                         *)
(* Action middleware is part of the action, job middleware of the job.     *)
(***************************************************************************)
EXTENDS Integers, Sequences, SequencesExt

CONSTANTS
    Jobs,             \* jobs of requests: [actions, continueOnError, suppress]
    MaxRequests,      \* BOUND: requests to the server
    MaxLocalCalls,    \* BOUND: local calls of one job
    MaxCoroutines,    \* BOUND: coroutines
    LocalCoroutines,  \* do actions of a server that is called locally use run_coroutine?
    Faults            \* which of PossibleFaults may happen

(*   harakiri  SIGALRM                                                     *)
(*   job       a job that is not valid, a JobError, or middleware that fails *)
(*   cleanup   what runs before or after a request fails                   *)
(*   send      the transport fails                                         *)
(*   swallow   an action catches HarakiriInterrupt                         *)
PossibleFaults == {"harakiri", "job", "cleanup", "send", "swallow"}

ASSUME JobAssumption ==
    /\ \A job \in Jobs : /\ job.actions \in Nat \ {0}
                         /\ job.continueOnError \in BOOLEAN /\ job.suppress \in BOOLEAN
    /\ MaxRequests \in Nat /\ MaxLocalCalls \in Nat /\ MaxCoroutines \in Nat
    /\ LocalCoroutines \in BOOLEAN
    /\ Faults \subseteq PossibleFaults

VARIABLES
    stack,       \* the requests that the main thread handles, the last one now
    lists,       \* the lists of each kind that were ever created
    mine,        \* which of them the main thread's context variables hold, 0 for None
    coroutines,  \* those that were handed to run_coroutine
    up,          \* run takes another request: not shutting_down, and not ended
    requests,    \* how many it took
    \* History, read by properties only:
    alarmed,     \* SIGALRM came
    swallowed    \* an action caught it, or it ended what was called locally and no more

vars == <<stack, lists, mine, coroutines, up, requests, alarmed, swallowed>>
log == <<lists, mine>>

Kinds == {"request", "action"}

(***************************************************************************)
(* PySOALogContextFilter.  ids are the lists that a context holds.         *)
(***************************************************************************)
\* MUTANT of NeedsList: "if value is None".
NeedsListIfNone(ids, kind) == ids[kind] = 0

\* "if not value": an empty list is not used again.
NeedsList(ids, kind) == ids[kind] = 0 \/ lists[kind][ids[kind]] = <<>>

Pushed(ids, kind, name) ==
    IF NeedsList(ids, kind) THEN [lists EXCEPT ![kind] = Append(@, <<name>>)]
    ELSE [lists EXCEPT ![kind][ids[kind]] = Append(@, name)]

AfterPush(ids, kind) ==
    IF NeedsList(ids, kind) THEN [ids EXCEPT ![kind] = Len(lists[kind]) + 1] ELSE ids

\* MUTANT of Popped: it is the first name that is removed.
PoppedFirst(ids, kind) ==
    IF NeedsList(ids, kind) THEN lists ELSE [lists EXCEPT ![kind][ids[kind]] = Tail(@)]

Popped(ids, kind) ==
    IF ids[kind] = 0 THEN lists ELSE [lists EXCEPT ![kind][ids[kind]] = Front(@)]

None == <<>>
Named(ids, kind) ==
    IF ids[kind] = 0 \/ lists[kind][ids[kind]] = <<>> THEN None ELSE Last(lists[kind][ids[kind]])
-----------------------------------------------------------------------------
(***************************************************************************)
(* A request is <<n, 0>>, or <<n, k>> if it is the kth local call of the   *)
(* nth.  A frame is the activation of handle_next_request for it:          *)
(*   at       received, entered (the context is set), preparing (in try),  *)
(*            job, trying (in try), action (named), leaving, responding,   *)
(*            closing (in finally), raising                                *)
(*   answers  action responses so far, whether each has errors             *)
(*   failed   whether the job response has errors                          *)
(*   raised   what leaves handle_next_request                              *)
(*   inbox    response_messages of the transport of its client             *)
(*   waits    the coroutine the action waits for, 0 for none               *)
(* and of its local calls: how many, whether one raised after it was       *)
(* answered, whether one met a response that was not its own.              *)
(***************************************************************************)
Depth == Len(stack)
Top == stack[Depth]
At(place) == Depth > 0 /\ Top.at = place
IsLocal == Depth > 1

Handling(request, job) ==
    [req |-> request, job |-> job, at |-> "received", answers |-> <<>>, failed |-> FALSE,
     answered |-> FALSE, raised |-> "nothing", inbox |-> <<>>, waits |-> 0, calls |-> 0,
     orphaned |-> FALSE, surprised |-> FALSE]

Init ==
    /\ stack = <<>>
    /\ lists = [kind \in Kinds |-> <<>>]
    /\ mine = [kind \in Kinds |-> 0]
    /\ coroutines = <<>>
    /\ up = TRUE
    /\ requests = 0
    /\ alarmed = FALSE
    /\ swallowed = FALSE

TakeRequest(job) ==
    /\ stack = <<>>
    /\ up
    /\ requests < MaxRequests
    /\ requests' = requests + 1
    /\ stack' = <<Handling(<<requests + 1, 0>>, job)>>
    /\ UNCHANGED <<log, coroutines, up, alarmed, swallowed>>

Becomes(frame) ==
    /\ stack' = [stack EXCEPT ![Depth] = frame]
    /\ UNCHANGED <<coroutines, up, requests>>

MoveTo(place) == Becomes([Top EXCEPT !.at = place])

\* An exception takes the request there.
Failing(place, error) == [[Top EXCEPT !.at = place] EXCEPT !.raised = error]

Push(kind, name) ==
    /\ lists' = Pushed(mine, kind, name)
    /\ mine' = AfterPush(mine, kind)

Pop(kind) ==
    /\ lists' = Popped(mine, kind)
    /\ UNCHANGED mine

EnterContext ==
    /\ At("received")
    /\ Push("request", Top.req)
    /\ MoveTo("entered")
    /\ UNCHANGED <<alarmed, swallowed>>

Prepare ==
    /\ At("entered")
    /\ MoveTo("preparing")
    /\ UNCHANGED <<log, alarmed, swallowed>>

\* perform_pre_request_actions raises.
PreparationFails ==
    /\ At("preparing")
    /\ "cleanup" \in Faults
    /\ Becomes(Failing("closing", "error"))
    /\ UNCHANGED <<log, alarmed, swallowed>>

BeginJob ==
    /\ At("preparing")
    /\ MoveTo("job")
    /\ UNCHANGED <<log, alarmed, swallowed>>

\* What process_job makes of a job that is not valid, of a JobError, of
\* middleware that fails and of an interrupt outside of actions: the responses
\* of the actions that ran are not in it.
JobFailed ==
    LET response == [[Top EXCEPT !.answers = <<>>] EXCEPT !.failed = TRUE] IN
    [[response EXCEPT !.waits = 0] EXCEPT !.at = "responding"]

JobFails ==
    /\ At("job") \/ At("leaving")
    /\ "job" \in Faults
    /\ Becomes(JobFailed)
    /\ UNCHANGED <<log, alarmed, swallowed>>

BeginAction ==
    /\ At("job")
    /\ MoveTo("trying")
    /\ UNCHANGED <<log, alarmed, swallowed>>

NameAction ==
    /\ At("trying")
    /\ Push("action", <<Top.req, Len(Top.answers) + 1>>)
    /\ MoveTo("action")
    /\ UNCHANGED <<alarmed, swallowed>>

\* MUTANT of Goes: an error never ends the job.
GoesDespiteErrors(errors, harakiri) ==
    ~harakiri /\ Len(Top.answers) + 1 < Top.job.actions

\* MUTANT of Goes: harakiri is an error like any other.
GoesDespiteHarakiri(errors, harakiri) ==
    /\ errors => Top.job.continueOnError
    /\ Len(Top.answers) + 1 < Top.job.actions

\* The loop over the actions goes on.
Goes(errors, harakiri) ==
    /\ ~harakiri /\ (errors => Top.job.continueOnError)
    /\ Len(Top.answers) + 1 < Top.job.actions

Answered(frame, errors, place) ==
    [[[frame EXCEPT !.answers = Append(@, errors)] EXCEPT !.waits = 0] EXCEPT !.at = place]

Answer(errors, harakiri) ==
    Answered(Top, errors, IF Goes(errors, harakiri) THEN "job" ELSE "leaving")

\* The service's code runs in the main thread.
Acting == At("action") /\ (Top.waits > 0 => coroutines[Top.waits].at = "ended")

\* The action returns a response with or without errors, or raises.
FinishAction ==
    /\ Acting
    /\ \E errors \in BOOLEAN : Becomes(Answer(errors, FALSE))
    /\ Pop("action")
    /\ UNCHANGED <<alarmed, swallowed>>

ActionRaisesJobError ==
    /\ Acting
    /\ "job" \in Faults
    /\ Pop("action")
    /\ Becomes(JobFailed)
    /\ UNCHANGED <<alarmed, swallowed>>

\* An action that is not in action_class_map is answered without a name.
AnswerUnknown ==
    /\ At("job")
    /\ Becomes(Answer(TRUE, FALSE))
    /\ UNCHANGED <<log, alarmed, swallowed>>

LeaveJob ==
    /\ At("leaving")
    /\ MoveTo("responding")
    /\ UNCHANGED <<log, alarmed, swallowed>>
-----------------------------------------------------------------------------
(***************************************************************************)
(* Responses.  An error response in place of one that is too large or not  *)
(* serializable is what JobFails makes of it.                              *)
(***************************************************************************)
Closing(answered) == [[Top EXCEPT !.at = "closing"] EXCEPT !.answered = answered]

Caller == stack[Depth - 1]

\* The response is in the deque of the caller's transport, or in a reply list.
Delivered ==
    IF IsLocal THEN <<[Caller EXCEPT !.inbox = Append(@, Top.req)], Closing(TRUE)>>
    ELSE <<Closing(TRUE)>>

\* MUTANT of Deliver: suppress_response is not looked at.
DeliverAlways == stack' = Delivered

Deliver ==
    stack' = IF Top.job.suppress THEN [stack EXCEPT ![Depth] = Closing(FALSE)] ELSE Delivered

SendResponse ==
    /\ At("responding")
    /\ Deliver
    /\ UNCHANGED <<log, coroutines, up, requests, alarmed, swallowed>>

SendFails ==
    /\ At("responding")
    /\ "send" \in Faults
    /\ ~IsLocal /\ ~Top.job.suppress
    /\ Becomes(Failing("closing", "error"))
    /\ UNCHANGED <<log, alarmed, swallowed>>

\* The client that made the local call drains the inbox of its transport.
Return(caller, request, suppress) ==
    LET others == \E i \in 1..Len(caller.inbox) : caller.inbox[i] # request IN
    IF suppress THEN caller
    ELSE [[caller EXCEPT !.inbox = <<>>] EXCEPT !.surprised = @ \/ others]

\* clear_logging_request_context, then what runs after a request, and the way
\* back into the loop of the server or into the client of the action.
Close ==
    /\ At("closing")
    /\ Top.raised = "nothing"
    /\ Pop("request")
    /\ stack' = IF IsLocal THEN <<Return(Caller, Top.req, Top.job.suppress)>> ELSE <<>>
    /\ UNCHANGED <<coroutines, up, requests, alarmed, swallowed>>

CloseRaising ==
    /\ At("closing")
    /\ Top.raised # "nothing" \/ "cleanup" \in Faults
    /\ Pop("request")
    /\ Becomes(Failing("raising", IF Top.raised = "nothing" THEN "error" ELSE Top.raised))
    /\ UNCHANGED <<alarmed, swallowed>>
-----------------------------------------------------------------------------
(***************************************************************************)
(* Harakiri: shutting_down is set, and HarakiriInterrupt is raised         *)
(* wherever the main thread is.                                            *)
(***************************************************************************)
Interrupted(place) == stack' = [stack EXCEPT ![Depth] = Failing(place, "interrupt")]

Harakiri ==
    /\ "harakiri" \in Faults
    /\ stack # <<>> /\ Top.at # "raising"
    /\ ~alarmed
    /\ alarmed' = TRUE
    /\ up' = FALSE
    /\ \/ /\ Top.at \in {"received", "entered"}
          /\ Interrupted("raising")
          /\ UNCHANGED <<log, swallowed>>
       \/ /\ Top.at \in {"preparing", "responding"}
          /\ Interrupted("closing")
          /\ UNCHANGED <<log, swallowed>>
       \* Within execute_job, but in no action, or in the finally of one, before
       \* its name is removed.
       \/ /\ Top.at \in {"job", "leaving"} \/ Acting
          /\ stack' = [stack EXCEPT ![Depth] = JobFailed]
          /\ swallowed' = IsLocal
          /\ UNCHANGED log
       \/ /\ Top.at \in {"trying", "action"}
          /\ stack' = [stack EXCEPT ![Depth] = Answer(TRUE, TRUE)]
          /\ Pop("action")
          /\ swallowed' = IsLocal
       \/ /\ Top.at = "action"
          /\ "swallow" \in Faults
          /\ \E waits \in {0, Top.waits} : stack' = [stack EXCEPT ![Depth].waits = waits]
          /\ swallowed' = TRUE
          /\ UNCHANGED log
       \/ /\ Top.at = "closing"
          /\ Interrupted("raising")
          /\ Pop("request") \/ UNCHANGED log
          /\ UNCHANGED swallowed
    /\ UNCHANGED <<coroutines, requests>>

\* An exception leaves handle_next_request: run ends (but not for transport
\* errors that may pass), or the client's call raises in the action.
Raise ==
    /\ At("raising")
    /\ LET caller == [Caller EXCEPT !.orphaned = @ \/ Top.answered] IN
       \/ /\ ~IsLocal
          /\ stack' = <<>>
          /\ up' \in {FALSE, up /\ Top.raised = "error"}
          /\ UNCHANGED <<log, coroutines, requests, swallowed>>
       \/ /\ IsLocal
          /\ Top.raised = "interrupt" => "swallow" \in Faults
          /\ stack' = <<caller>>
          /\ swallowed' = (swallowed \/ Top.raised = "interrupt")
          /\ UNCHANGED <<log, coroutines, up, requests>>
       \/ /\ IsLocal
          /\ Top.raised = "interrupt"
          /\ stack' = <<Answered(caller, TRUE, "leaving")>>
          /\ Pop("action")
          /\ UNCHANGED <<coroutines, up, requests, swallowed>>
    /\ UNCHANGED alarmed
-----------------------------------------------------------------------------
(***************************************************************************)
(* What an action may do                                                   *)
(***************************************************************************)
CallLocally(job) ==
    /\ Acting
    /\ ~IsLocal
    /\ Top.calls < MaxLocalCalls
    /\ LET call == Top.calls + 1 IN
         stack' = <<[Top EXCEPT !.calls = call], Handling(<<Top.req[1], call>>, job)>>
    /\ UNCHANGED <<log, coroutines, up, requests, alarmed, swallowed>>

\* MUTANT of RunCoroutine: run did not start the thread either.
RunNoCoroutine ==
    /\ Acting
    /\ ~IsLocal
    /\ Len(coroutines) < MaxCoroutines
    /\ coroutines' = Append(coroutines, [req |-> Top.req, ids |-> mine, at |-> "scheduled",
                                         hasLoop |-> FALSE])
    /\ stack' = [stack EXCEPT ![Depth].waits = Len(coroutines) + 1]
    /\ UNCHANGED <<log, up, requests, alarmed, swallowed>>

\* A server that is called locally was set up but never run, and its event
\* loop thread was not started.
RunCoroutine ==
    /\ Acting
    /\ IsLocal => LocalCoroutines
    /\ Len(coroutines) < MaxCoroutines
    /\ coroutines' = Append(coroutines, [req |-> Top.req, ids |-> mine, at |-> "scheduled",
                                         hasLoop |-> ~IsLocal])
    /\ \E waits \in {0, Len(coroutines) + 1} :
          stack' = [stack EXCEPT ![Depth].waits = waits]
    /\ UNCHANGED <<log, up, requests, alarmed, swallowed>>

(***************************************************************************)
(* The event loop thread: a coroutine runs, with a copy of the context     *)
(* that called run_coroutine.                                              *)
(***************************************************************************)
Progress(c, from, to) ==
    /\ coroutines[c].hasLoop
    /\ coroutines[c].at = from
    /\ coroutines' = [coroutines EXCEPT ![c].at = to]
    /\ UNCHANGED <<stack, log, up, requests, alarmed, swallowed>>

StartCoroutine(c) == Progress(c, "scheduled", "running")
EndCoroutine(c) == Progress(c, "running", "ended")
-----------------------------------------------------------------------------
MainStep ==
    \/ EnterContext \/ Prepare \/ PreparationFails \/ BeginJob \/ JobFails
    \/ BeginAction \/ NameAction \/ FinishAction \/ ActionRaisesJobError \/ AnswerUnknown
    \/ LeaveJob \/ SendResponse \/ SendFails \/ Close \/ CloseRaising \/ Raise

LoopStep == \E c \in DOMAIN coroutines : StartCoroutine(c) \/ EndCoroutine(c)

Next ==
    \/ \E job \in Jobs : TakeRequest(job) \/ CallLocally(job)
    \/ MainStep \/ LoopStep
    \/ RunCoroutine \/ Harakiri

Spec == Init /\ [][Next]_vars

\* Both threads run, and actions and coroutines end.
FairSpec == Spec /\ WF_vars(MainStep) /\ WF_vars(LoopStep)
-----------------------------------------------------------------------------
(***************************************************************************)
(* Properties                                                              *)
(***************************************************************************)
Requests == (1..MaxRequests) \X (0..MaxLocalCalls)
Places == {"received", "entered", "preparing", "job", "trying", "action", "leaving",
           "responding", "closing", "raising"}

Frames == [req : Requests, job : Jobs, at : Places, answers : Seq(BOOLEAN), failed : BOOLEAN,
           answered : BOOLEAN, raised : {"nothing", "error", "interrupt"},
           inbox : Seq(Requests), waits : Nat, calls : 0..MaxLocalCalls,
           orphaned : BOOLEAN, surprised : BOOLEAN]

Coroutines == [req : Requests, ids : [Kinds -> Nat], at : {"scheduled", "running", "ended"},
               hasLoop : BOOLEAN]

NamesOf(kind) == IF kind = "request" THEN Requests ELSE Requests \X Nat

\* Every variable holds a value of its type; only an action waits; the loop
\* over the actions of a job stays within it.
TypeOK ==
    /\ stack \in Seq(Frames) /\ Depth <= 2
    /\ \A d \in 1..Depth :
          /\ stack[d].waits > 0 => stack[d].at = "action" /\ stack[d].waits <= Len(coroutines)
          /\ stack[d].at \in {"job", "trying", "action"} =>
                Len(stack[d].answers) < stack[d].job.actions
          /\ d < Depth => stack[d].at = "action"
    /\ mine \in [Kinds -> Nat] /\ lists = [kind \in Kinds |-> lists[kind]]
    /\ \A kind \in Kinds : /\ lists[kind] \in Seq(Seq(NamesOf(kind)))
                           /\ mine[kind] <= Len(lists[kind])
    /\ coroutines \in Seq(Coroutines)
    /\ requests \in 0..MaxRequests
    /\ up \in BOOLEAN /\ alarmed \in BOOLEAN /\ swallowed \in BOOLEAN

Owner(kind, name) == IF kind = "request" THEN name[1] ELSE name[1][1]

\* The names under which the main thread logs are those of the present request
\* and of what it called locally, or missing.
NamesThePresent == \A kind \in Kinds :
    Named(mine, kind) = None \/ Owner(kind, Named(mine, kind)) = Top.req[1]

\* The main thread logs under the request it handles and the action it runs,
\* those of a local call included, and under none between requests.  SIGALRM
\* may take away a name or leave that of a local call behind, but none of
\* another request.
LogsNameTheJob ==
    /\ Depth > 0 /\ Top.at \in Places \ {"received", "raising"} =>
          Named(mine, "request") = Top.req \/ (alarmed /\ NamesThePresent)
    /\ At("action") =>
          \/ Named(mine, "action") = <<Top.req, Len(Top.answers) + 1>>
          \/ alarmed /\ NamesThePresent
    /\ stack = <<>> /\ ~alarmed => \A kind \in Kinds : Named(mine, kind) = None

\* A coroutine that outlives its action or its request logs under no other
\* request than its own (local calls of that are its own, too), although it
\* shares its lists with the main thread.
CoroutinesLogTheirOwn == \A c \in DOMAIN coroutines :
    LET ids == coroutines[c].ids
        own == coroutines[c].req[1] IN
    coroutines[c].at = "running" =>
        /\ Named(ids, "request") = None \/ Named(ids, "request")[1] = own
        /\ Named(ids, "action") = None \/ Named(ids, "action")[1][1] = own

\* The response that leaves the server has one answer per action, in their
\* order.  If it has fewer, an error or an interrupt ended the job at the last
\* of them, or the job failed and has none.
AnswersAreExplained == \A d \in 1..Depth :
    stack[d].answered =>
        LET f == stack[d]
            n == Len(f.answers) IN
        IF f.failed THEN n = 0
        ELSE /\ n = f.job.actions \/ (n > 0 /\ f.answers[n] /\ (alarmed \/ ~f.job.continueOnError))
             /\ \A i \in 1..(n - 1) : f.answers[i] => f.job.continueOnError

\* A local call meets a response that is not its own only if an earlier one of
\* the same client raised after it had been answered, in what the server does
\* after a request.
UnexpectedIsExplained == \A d \in 1..Depth : stack[d].surprised => stack[d].orphaned

\* No further action of a job is run once harakiri interrupted it, unless an
\* action caught the interrupt, or it ended only what the action called locally.
NoActionAfterHarakiri == [][alarmed /\ ~swallowed => ~NameAction]_vars

\* A request is over at some time, although its actions wait for coroutines.
RequestsEnd == stack # <<>> ~> stack = <<>>
-----------------------------------------------------------------------------
\* execute_job: "Quit running Actions if harakiri occurred".
HarakiriEndsJobs == [][alarmed => ~NameAction]_vars

\* LocalClientTransport.receive_response_message: "by the time the thread calls
\* this method, a response is already available in the deque, or something
\* happened and a response will never be available"; the response of another
\* call is not among these.
LocalCallsMeetTheirOwn == \A d \in 1..Depth : ~stack[d].surprised
=============================================================================
