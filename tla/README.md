# PySOA in TLA+

This directory models PySOA, a library for services that exchange requests and
responses through Redis lists, in TLA+. It is written from the Python source in
`src/pysoa`; where documentation and code disagree, the modules follow the code
and a run shows the difference.

    tlc -config RedisGateway_faulty.cfg MCRedisGateway      # model-check one run
    tlapm RedisGatewayProofs.tla                            # check its proofs

## 1. The system

| part | state it keeps | operations | hard behaviour |
|---|---|---|---|
| `ServiceHandler`, `RedisClientTransport` (client) | request counter, number of outstanding requests, transport-problem flag | send request, receive response | pushes that fail after they took effect, timeouts, failover |
| `FutureSOAResponse` and the `call_*` methods | response or exception of a call | `result`, `exception` | each future drains the responses of all; retries |
| `BaseRedisTransportCore` | none of its own; the lists in Redis | `send_message`, `receive_message` | capacity, expiry of whole lists, chunks of several servers in one list, protocol versions |
| Redis backends | ring of connections, turns of the request lists, cached master clients, all shared within a process | choose a connection, reset | failover, stale masters, other threads that reset the cache or take turns |
| `Server` | `shutting_down`, lock and times of signals, alarm, transport failures | `run`, `handle_next_request`, two signal handlers | signals at every point, frozen jobs, a second signal during the teardown |
| `AsyncEventLoopThread` | the loop, its done event | `run`, `join`, `run_coroutine` | a join that never returns, coroutines left behind |
| `_ProcessMonitor` and `_run_server` | one process and two deques of restart times per worker, `signaled`, a lock | fork, join, respawn, terminate | a handler that walks over objects which threads change |
| file watcher (`autoreload.py`) | `watching`, `shutting_down_for_reload`, names and times of files | watch, signal, restart | signals before handlers are installed, files removed between two looks |
| expansions | objects to expand, values requested so far | rounds of bulk requests | values requested in an earlier round, responses of other futures |
| log context | two stacks in context variables | push, pop | lists shared by copied contexts |
| syslog handler | MTU and limits, cached for the class | discover the MTU, split a record, send | numbers that take room, split characters, a loop that may not end |
| local transport, middleware, actions, settings, serializers, Django, test support | little or none | | |

A caller draws a request ID, and the client pushes the request on the request
list of the service, with the name of its own reply list. Some server pops it,
runs its job, and pushes the response, perhaps in chunks, on that reply list.
The caller pops responses until the counter of outstanding requests is zero
and picks its own. Beyond the two lists, client and server share nothing: what
each knows of the other is a guess, and most of the properties below say what
such a guess is worth. Within a server the interpreter may run a signal handler
between any two steps; a forking parent adds one thread per worker.

## 2. Modules

| module | what it is |
|---|---|
| `AtMostOnceRpc` | abstract: a request moves from waiting to executing to answered to delivered, or is lost; it never moves back, so nothing is executed, answered or delivered twice |
| `RedisGateway` | clients, servers, the request list and one reply list per client (`redis_gateway/client.py`, `server.py`, `core.py`, `backend/base.py`, and the futures of `client/client.py`); implements `AtMostOnceRpc` |
| `RedisGatewayProofs` | theorems about `RedisGateway` for every value of its constants, and about the `RedisBackends` behind it |
| `ChunkedReplies`, `ChunkedRepliesProofs` | what `RedisGateway` abstracts from a response: the protocol version it is answered in, its chunks, and how a client puts them together; theorems about it |
| `ClientCalls`, `ClientCallsProofs` | the calls of one client above its transports (`client/client.py`): futures that overlap, single and parallel calls to several services; theorems about them |
| `Expansions`, `ExpansionsProofs` | what a call does with expansions (`client/expander.py`, `Client._expand_objects`): rounds of merged requests; theorems about them |
| `RedisBackends` | on which Redis server a list is (`redis_gateway/backend`): a ring of servers or Sentinel services, its layers shared by threads and jobs |
| `ServerLoop` | one server process: `Server.run` and everything it calls, the signal handlers, harakiri, the event loop thread |
| `ServerLoopProofs` | theorems about `ServerLoop` |
| `ExecuteJob`, `ExecuteJobProofs` | what a server does with a request: its actions one by one, local calls below them, coroutines, and the names under which all of them log; theorems about them |
| `EventLoop` | the thread of the asynchronous event loop (`internal/event_loop.py`), and the server that hands it coroutines and joins it |
| `ProcessMonitor` | the parent of forked workers: threads, workers and signal handler |
| `ForkedWorkers` | abstract: a worker is gone, booting, serving or stopping; it serves only once it has booted, never again once it was told to stop, and a new one is forked only where the last is gone. `ServerLoop` implements it for one worker, `ProcessMonitor` for those of all monitors |
| `AutoReloader` | the file watcher: a parent, the clone of itself that it restarts, and the thread in the clone that watches files |
| `ProcessProofs` | theorems about what runs around the loop of a server: `AutoReloader`, and instances of `ProcessMonitor` and `EventLoop` |
| `SyslogHandler`, `SyslogHandlerProofs` | the syslog handler (`common/logging.py`): MTU discovery, packets of a record; theorems about it |
| `MC...` | what TLC needs beyond the constants: symmetry sets, plans of calls, a small database |

### RedisGateway

One action per way an operation can go. A client sends (`SendRequest`,
`SendWithoutResponse`, `SendRequestFails`, `SendRequestFailsLate` when the push
took effect but raised, `SendRequestTooLarge`), begins a `result()`
(`BeginResult`), pops (`ReceiveResponse`, `ReceiveTimesOut`,
`ReceiveExpiredResponse`, `ReceiveFails`, which is a Redis error or, with the fault
`invalid`, a message without a request ID or with broken chunk headers, popped all the
same) and ends it (`FinishResult`), which
checks the responses that were collected. A server pops (`ReceiveRequest`,
`LoseRequest`), responds (`SendResponse`, `SuppressResponse`,
`SendResponseFails`) or dies (`Crash`). `RequestQueueExpires` and
`ReplyQueueExpires` are the EXPIRE of a whole key. A message is its request ID.

A request that was never pushed has no effect on the lists, so that IDs are
drawn one after the other, from 1 instead of from a random number.

### ServerLoop

`pc` is the place in the source at which the process is; `raised` is the
exception that is on its way up. A signal handler runs between two steps, in
steps of its own (`handling`), because another signal can interrupt it.
Interruptions are `ShutdownSignalArrives` (a signal from outside) and
`AlarmFires`. An action may end, raise, swallow the interrupt, or never end.
Code of the service and of libraries may raise wherever it runs: in the hooks before
and after a request (`PreparationFails`, `CompletionFails`), which end the loop, and,
with the fault `end`, in the `finally` block of `run` itself: in `teardown`
(`TeardownFails`), in `join`, which raises if its loop was closed in the meantime
(`JoinFails`), or in `_close_django_caches` (`CleanupFails`). Each of these
skips the rest of the block. `failures` counts transport errors in a row as `run` does. After `run` the
interpreter ends: up to Python 3.7 it leaves the event loop to itself only when
the loop is joined, from 3.8 on (`InterpreterStopsLoop = FALSE`) it waits for
the non-daemon thread without stopping it. `WorkerState` is what a parent knows of
the process, the refinement mapping to `ForkedWorkers`: it boots until its signal
handlers are installed, and stops from the signal or the alarm on that sets
`shutting_down`.

### ExecuteJob

What `ServerLoop` passes over between the request and the response. `stack` holds
one frame per activation of `handle_next_request` in the main thread: the
request of the server and, below it, the one that its action made through the
local transport (`CallLocally`), whose response waits in the deque of the
caller's client (`inbox`). `EnterContext`, `NameAction` and the two pops are the
calls of `PySOALogContextFilter`; its lists are objects with an identity
(`lists`), because a coroutine holds copies of the references (`ids`).
`Harakiri` is an interrupt at any place, and what it does is the `except` clause
that is around that place. It may come before a name is removed from its list, also in
the `except` and `finally` clauses of `execute_job`: the job is then answered with a
timeout, and the name stays. With the fault `swallow` an action catches the interrupt,
its own or that of a local call. Action middleware is part of the action.

### ProcessMonitor

`_start_process` is two steps, since other threads see the object between its
construction and its fork; `terminate` is two steps, since it reads
`self.process` twice. A worker is `deaf` while SIGTERM has no effect on it: it
inherited SIG_IGN, or the parent's handler with `signaled` set. It is `booting`
while SIGTERM runs the inherited handler, which raises in the child and ends
it. `Life` maps both to the worker that boots in `ForkedWorkers`, and a process that
was not forked yet to one that is gone. What the monitors assume of a worker
(`Boot`, `Stop`, `Crash`) is in that way the same that `ServerLoop` keeps.

### AutoReloader

Three threads in two processes: `restart_with_reloader` in the parent
(`StartClone`, `InstallHandlers`, `WaitForClone`, `IgnoreSignals`, `End`), the
main thread of the clone (`Boot` to `Exit`), and `watch_files` (`StartWatching`
to `TerminateAgain`). The server in the clone is what the two modules above
show of it: it ignores SIGTERM while it boots, because the parent ignored it
when it started the clone; then `Terminate` makes it stop, and a second signal
is a duplicate, forces its end, or (if it forks) does nothing. SIGHUP is sent to
servers that fork, and is not ignored while they boot.

One file is watched. It has a `version`, may be removed and restored, and the
clone runs the version that was there when it started. A poll takes two steps,
as the code does: `LookForFile` (`get_watch_file_names`, which drops the name of
a file it does not find for good) and `CompareTimes`, `CompareNothing` or
`FindNoFile` (`os.stat` raises, and the thread ends). PyInotify (`AddWatch`,
`SeeEvent`) hears of removals, too.

### RedisBackends

A layer is shared: by the clients of a process, and by the server with the
calls of its actions. Its `ring` is filled by `Build`, in the order of the
settings or of the Sentinel that answered; `cycle` is the endless iterator of
indexes, kept for the server's layer only, because in that of the clients other
threads take turns at any time. A thread chooses a member (`Choose`: by hash for
a reply list, by turn for a request list), goes through `_get_master_client_for`
in the steps in which that looks at `_master_clients` (`Test`, `Resolve`,
`Fetch`, or `FindNothing`, a KeyError), and uses the connection. `Reset` is
`reset_clients`, of any thread, upon any error. Failovers move the address of a
master. What a list does to its messages is left to `RedisGateway`.

### EventLoop

`ready` holds the handles of the loop in their order, as `call_soon_threadsafe`
appends them: first steps of coroutines (`RunCoroutine`), steps of tasks, the
stop of `join`. The thread of the loop goes through `RunForever`, `StopRunning`,
`Gather` (of the tasks that are pending), `Drained` and `Close`; `join` is
`BeginJoin`, which looks whether the loop runs, `ScheduleStop`, `WaitForDone`
and `Join`. Coroutines suspend, start others, return, raise errors, or raise
SystemExit, which passes through the loop. `JoinLoop` of `ServerLoop` is the
whole of `join` in one step.

### SyslogHandler

`Construct` and the `Probe...` actions find the MTU, which is cached for the
class. A record is what its packets depend on: the widths of its characters and
how many bytes precede the message. `EmitWhole`, `EmitTruncated` and
`EmitFragmented` are the three branches of `emit`; `Slice` and `SliceLast` are
the rounds of its loop, with the digits of the number of the packet and
`_cleanly_slice_encoded_string`; `Send`, `SendFailsOnce` and `SendFails` are
`_send`. A loop that makes no headway is stopped at `MaxParts`.

### ChunkedReplies

A message keeps its request ID, its chunk headers and its version; its bytes
are abstracted to whether they are a whole response (`IsWhole`), because
`blob_to_dict` fails for anything else. Error responses for messages that are
too large use the meta from which `send_message` has already popped the
version.

### ClientCalls

The layer above `RedisGateway`, which has one service and single calls. Here a
transport is its counter and the set of responses that may still come, in any
order, and several futures may be open at several services. `Begin`,
`SendRequest`, `SendFails` and `ReturnFuture` are the loop over the jobs of a
call; `BeginResult`, `Receive`, `ReceiveForeign`, `ReceiveNothing`,
`ReceiveTimesOut` and `ReceiveFails` are the loop over the services, and
`Answer` puts the outcomes in the order of the jobs. A call is `tainted` when
another call is open at one of its services, when a service owed the client
something before, or after a timeout or a failed send.

### Expansions

One call, from its response to the end of its expansions. A node of an
expansion tree is the type at its root and the names that lead to it, so that
`dict_to_trees` is the set of prefixes of the strings (and
`RequestedAssumption`, that it finds each name, since it raises otherwise). An object in memory is
known by the request that it came with and its identifier. A round merges the
open pairs of object and node by service and action (`FormRequests`; any of
them may be first and determine the request field), leaves out the identifiers
asked for before (`SkipRequest`, `SendRequest`), and receives service by service
(`Receive`), which fills destinations and searches the new objects, below the
node they came by and in all trees.

## 3. What is checked

Runs named in `PROJECT.json`; `Faults` names which of a module's
`PossibleFaults` may happen.

| run | shows |
|---|---|
| `gateway_faulty` | with every fault, the counter is the number of unanswered requests of a client that has met no error, nothing in flight is uncounted, an unexpected response has a Redis error or a retried future behind it, and the gateway implements `AtMostOnceRpc` |
| `server_faulty` | one signal costs no job its response, at most one more request is taken, only a second signal, an alarm or an error in the `finally` block of `run` leaves the heartbeat file or the event loop behind, no job runs unwatched, no job is taken after harakiri; where no signal is left, harakiri frees a worker from a job that never ends and the grace period ends the process; a server that was asked to stop ends, if the code of the service does, unless a second signal made it leave the event loop running |
| `backends` | the server asks every member of the ring again and again, and callers go on being answered, whatever failovers and other threads do, if the requests that its jobs send go round the ring a whole number of times (`WholeRounds`; in the run none or two, on a ring of two); a KeyError from the cache has another thread's reset behind it |
| `eventloop` | every coroutine handed to the loop has ended when it is closed, unless a gathered one failed, one raised SystemExit or it was started late by another; `join` of a loop that runs, or has run, returns |
| `syslog` | packets fit the interface, carry the whole message in order and once, and the loop of `emit` ends, for records whose preamble leaves room |
| `jobs_faulty` | the main thread logs under the request and action it is in (after SIGALRM: under no name, or one of its own request), and a coroutine that outlives its request under no other; answers follow actions, and what is missing has an error or an interrupt behind it; a local call meets another's response only after one that raised late; after SIGALRM no further action is begun, unless an action or the server of a local call caught the interrupt; requests end |
| `chunks_faulty` | chunks of one response lie in order in the list, and what is assembled from chunk 1 on is complete |
| `calls_faulty` | a call answers each job with the response to its own request or, if errors are caught, with an error; only a tainted call reports unexpected or missing responses; `result()` returns |
| `expansions_faulty` | a field is filled with the object of its own route; a field left unfilled has no object, an error or an earlier request for its identifier behind it; a call returns only if no expansion that raises met an error, and leaves no response behind; expansions end although objects form cycles |
| `monitor_faulty` | both limits on respawns hold over the whole life of a worker; after a signal that its handler got through, all threads of the parent end |
| `reloader_faulty` | a clone is started again only after a change was noticed; stopping for a change alone never ends the parent, stopping for the operator does; a clone that runs an old version is replaced, although the first signal may be lost, unless the file changed before the first look or was removed in front of a watcher that polls |

More holds with the constants of these runs, and is kept apart from them because it
answers no further question: the type invariant `TypeOK` of each module, the
inductive invariants of the modules with proofs, the refinements
`RefinesForkedWorkers` of `ProcessMonitor` and `RefinesForkedWorker` of `ServerLoop`,
`AwaitedWorkersWereTold` of `ProcessMonitor` (when the handler is through without
an AttributeError, each worker that is waited for was told to stop, or was deaf to
that), `RepliesAreFound` of `RedisBackends` (a client that pops looks at the member
that its reply is on), `JoinIsHeard` of `EventLoop` (the stop that `join` waits for
is among the handles of the loop), and `AwaitedCoroutinesAnswer` of `EventLoop` (a job
that waits for its coroutine is answered, if none raises SystemExit). All but the
last are proved, too. To check one of these, put
its name in the place of the properties in the configuration of the run. Two
configurations of their own pass: `ServerLoop_stops.cfg` (Python before 3.8: a
server that was asked to stop ends) and `RedisGateway_reliable.cfg` (without faults,
and with room in the lists, every waiting call gets its response; that callers are
answered again after faults is what `backends` shows).

### Where code and words differ

This run checks one statement of the documentation and finds it violated.

| run | what happens |
|---|---|
| `gateway_retry` | `result()` drains response A, waits for B and times out; A is gone, and the retry that the docstring promises raises "unexpected response" |

The modules state more such disagreements, which TLC finds in a few steps. Some
have a configuration of their own; where the configuration is that of a run
(`..._faulty.cfg`), its INVARIANTS and PROPERTIES are to be replaced by the one
named here, and a constant by the value given with it:

| configuration, property | what happens |
|---|---|
| `RedisGateway_impossible.cfg`, `UnexpectedResponseIsImpossible` | a push raises although it took effect, or a timeout resets the counter after a failover; a response is left over and the next call raises the error that a comment calls impossible |
| `RedisGateway_suppress.cfg`, `OutstandingStillToBeReceived` | requests with `suppress_response` stay counted for ever |
| `ClientCalls_missing.cfg`, `NoResponseIsMissing` | two calls overlap; one drains the other's responses, and the other reaches the branch of which a comment says "It shouldn't be possible for this to happen unless the code has a bug" |
| `Expansions_shared.cfg`, `FilledByItsRoute` | two routes to one action by two fields, in one round: the identifiers of both are sent in the field of whichever came first, and fields are filled with other objects |
| `Expansions_faulty.cfg`, `EveryObjectIsExpanded` | an object found in a later round has an identifier that was asked for before: it stays unexpanded |
| `ChunkedReplies_faulty.cfg` with `ClientVersion = 1`, `AnsweredInTheSameProtocol` | a client of version 1 gets an error response in version 3, because `send_message` popped the version from a dict that is used again |
| `ServerLoop_dropped.cfg`, `HarakiriEndsJobs` | the alarm fires while the shutdown handler holds the lock: it is dropped for good, and the frozen job stays |
| `RedisBackends_shared.cfg`, `MembersTakeTurns` | docs/api.rst: "The server uses round-robin to pick a master"; a job that sends one request takes every second turn, and of two members one is never asked while the other has requests |
| `RedisBackends_discovered.cfg`, `CallersAreAnswered` | services are taken in the order in which a Sentinel lists them; a client and a server that learned two orders hash a reply list to two members |
| `RedisBackends_race.cfg`, `OnlyTransportErrors` | two clients in threads of one process: one resets the cache between two looks of the other, which raises KeyError |
| `EventLoop_faulty.cfg`, `EveryJoinReturns` | the server ends before its loop runs: `join` asks nobody to stop, and waits for ever |
| `EventLoop_abandoned.cfg`, `EveryCoroutineCompletes` | "Completing uncompleted async tasks": one of them raises an error, and the loop is closed on the others |
| `EventLoop_faulty.cfg`, `EveryCoroutineCompletes` | a coroutine that another one started while the loop was draining is left behind |
| `SyslogHandler_faulty.cfg`, `PacketsAlwaysFit` | a preamble that is longer than a packet: packets do not fit |
| `SyslogHandler_faulty.cfg`, `EmissionAlwaysEnds` | no room for a single character: `emit` makes empty slices without end |
| `AutoReloader_faulty.cfg`, `RewrittenFilesAreLoaded` | a poll falls between the removal and the return of a file: later changes are not seen |
| `ServerLoop_orphan.cfg`, `StopsOnceAsked` | a second signal in the `finally` of `run` skips the join of the event loop, and Python 3.8 waits for its thread for ever |
| `ChunkedReplies_faulty.cfg` with `Parallel = 1`, `SequentialCallsAreSafe` | a timeout, and a next, sequential call: two servers push the chunks of two responses on the list that the client reads |
| `ChunkedReplies_faulty.cfg`, `FirstChunkIsTheFirst` | the rest of a response is begun with chunk 2 |
| `ServerLoop_faulty.cfg`, `ForcedOnlyAfterGrace` | SIGTERM, then the first alarm: the process ends at once, without the grace period |
| `ExecuteJob_harakiri.cfg`, `HarakiriEndsJobs` | the interrupt is caught by the server of a local call; the action that called it returns, and the job goes on |
| `ExecuteJob_faulty.cfg`, `LocalCallsMeetTheirOwn` | what runs after a request raises when the response is in the deque: the next local call meets it |
| `ExecuteJob_faulty.cfg` with `LocalCoroutines = TRUE`, `RequestsEnd` | an action of a server that is called locally waits for its coroutine, whose event loop thread was never started |
| `ProcessMonitor_race.cfg`, `StopsOnceSignaled` | a worker dies while the handler looks at its monitor; `terminate` raises, and the workers behind run on |
| `ProcessMonitor_early.cfg`, `StopsOnceSignaled` | a signal while workers boot: one ignores its SIGTERM, and the parent ignores all later signals |
| `ProcessMonitor_faulty.cfg`, `CrashesAreLimited` | "crashes 3 times in 15 seconds": it takes four |
| `AutoReloader_faulty.cfg`, `ChangesRestart` | a change while a forking server boots: its SIGHUP ends the clone, and the parent with it |
| `AutoReloader_faulty.cfg`, `ReloadOnlyIfAsked` | the operator stops the server, a change is noticed before it has ended, and it is started again |

### Bounds

`gateway_faulty` has one client, two servers and four requests: clients share
nothing but the request list and the servers, so that to one of them the others
are a list that is full at times and servers that are busy, both of which happen
here anyway; four requests let a response be late by one call and leave two more
to be confused with, and the theorems cover every number of clients. Queue
capacities are below the number of messages, so that full lists happen; only
`RedisGateway_reliable.cfg` has room for all requests, because abandoned futures (the
caller never calls `result`) leave responses that nobody pops, and a full list
then loses responses by design. `chunks_faulty` uses up to three chunks, the least
number that has a middle one. `server_faulty` allows two transport failures instead of
five, two actions in a job and up to three signals: one that begins the
shutdown, one that is a duplicate or forces it, and one more. `monitor_faulty`
replaces "3 in 15 and 8 in 60" by 1 in 1 and 2 in 3, in which either limit can
be the one that bites. `jobs_faulty` has two requests, so that a coroutine of
the first sees the second, with two local calls each, so that one can meet what
the other left, and one level of local calls: a deeper one would be to its
caller what this one is to the first. `reloader_faulty` has two changes or
removals, one to be noticed by a clone and one by its successor, and two signals: one that may be
lost or stops the server, one that forces it. `calls_faulty` has two calls, out
of a single one and two parallel ones, of which one asks a service twice and one
asks two services: any two of them share a service, and a third call would meet
what the second does. `expansions_faulty` has two types that refer to each other
and to themselves, so that an identifier returns in later rounds, and an
identifier without an object.
`backends` has two members, the least number for
which turns and hashes matter, one client, other threads of its process as resets
of the cache, one failover, one request of others on each member, and jobs that
send none or two requests. Both are whole rounds of the ring, which is what
`EveryMemberIsPolled` and `CallsSucceedAgain` ask for (`WholeRounds`) and the code does not
ensure: it holds for a server whose actions call nobody through this layer, and
`RedisBackends_shared.cfg` shows what one request per job does. `eventloop` has three
coroutines: one that fails, one that is abandoned, one that is started by
another. `syslog` has characters of one to four bytes and MTUs so small that
messages need packets with numbers of two digits.

`CHECK_DEADLOCK FALSE` is in the configurations because all of these systems
stop: a client has made its requests, a process has ended.

### Fairness

Liveness is checked under weak fairness of the steps a running thread takes: a
caller that is inside `result()`, a server that is in its loop, handlers, the
interpreter at its end. Callers need not call, signals need not come, faults
need not happen. In `ClientCalls` and `Expansions` blocking receives end at the
latest with a timeout. `FairServiceSpec` of `ServerLoop` adds that the code of the
service ends, which is an assumption of `StopsUnlessOrphaned` only;
`HarakiriPrevails` does without it and relies on the alarm, which the operating
system delivers.
In `ProcessMonitor` threads and the handler run, a worker boots, and stops once
it heard its SIGTERM (which `server_faulty` shows of a worker: both modules implement
`ForkedWorkers`, whose worker it is). In
`RedisBackends` callers call again and failovers come to an end; in `EventLoop`
both threads run and what a coroutine awaits happens; in `SyslogHandler` `emit`
runs. In `ExecuteJob`
both threads run, and actions and coroutines end. In `AutoReloader` all three
threads run; the second SIGTERM of the watcher comes after six seconds, which is
taken to be longer than a server boots.

## 4. What is proved

With TLAPS, for all values of the constants (any number of clients, servers,
requests; any capacity, any bound), under the assumptions that the modules state
on their constants. Each component with proofs has an inductive invariant (`IInv`,
or a name that ends in `Inv`), a conjunction of named parts, lemmas that say that
each action keeps it, and the theorems that follow from it:

| proofs | theorems |
|---|---|
| `RedisGatewayProofs` | `TypeCorrect`, `Inductive`, `CounterIsExact`, `UnexpectedExplained`, `InFlightIsCounted`, `ImplementsAtMostOnceRpc`; of `RedisBackends`: `KeyErrorsAreRaces`, `ServersMeetNoKeyError`, `RepliesFindCallers`, `BackendTypesHold` |
| `ServerLoopProofs` | `ServerInductive`, `ServerTypeCorrect`, `GracefulShutdown`, `StopsTakingRequests`, `CleanEnd`, `JobsAreWatched`, `HarakiriIsFinal`, `ServerIsForkedWorker` |
| `ExecuteJobProofs` | `JobsInductive`, `JobsTypeCorrect`, `LogsNameJobs`, `CoroutinesLogOwn`, `AnswersExplained`, `UnexpectedExplained`, `HarakiriEndsActions` |
| `ClientCallsProofs` | `CallsInductive`, `CallsTypeCorrect`, `AnswersBelongToJobs`, `CleanCallsStayClear` |
| `ChunkedRepliesProofs` | `RepliesInductive`, `RepliesTypeCorrect`, `ChunksAreInOrder`, `AssembledAreComplete` |
| `ExpansionsProofs` | `ExpansionsInductive`, `ExpansionsTypeCorrect`, `ErrorsAreAllRaised`, `FieldsAreFilledByTheirRoutes`, `UnexpandedAreExplained` |
| `ProcessProofs` | `ReloaderInductive`, `ReloaderTypeCorrect`, `RestartsAreEarned`, `ChangesAreNoEnd`; of `ProcessMonitor`: `RespawnsStayLimited`, `AwaitedWorkersAreTold`, `MonitorTypesHold`, `MonitorsKeepOneWorkerEach`; of `EventLoop`: `CoroutinesAreCompleted`, `JoinsAreHeard`, `LoopTypesHold` |
| `SyslogHandlerProofs` | `SyslogInductive`, `SyslogTypeCorrect`, `SyslogPacketsFit`, `SyslogNothingIsLost` |

**RedisGateway.** The counter of a client is one number, whereas the requests it
stands for are in the request list, at a server, in the reply list, or lost. None
of the properties is inductive alone: `IInv` says where each request
is, that it is at one place only, and that the counter is the number of those
not yet answered. The proof has one lemma per kind of step (sending,
popping, serving, expiry) that gives what it does to the places, and one case
per action. The refinement maps the places of a request to the sets of
`AtMostOnceRpc`; it uses that a pop takes one request out of one place only,
which the absence of duplicates in the lists and among the servers says.

**RedisBackends.** Its theorems are about an instance, `Backend`, in
`RedisGatewayProofs`. `LooksAreFounded` says that between two looks of a thread
into the cache of masters there is something to find, or another thread was
there; it rests on that what a thread has chosen is a member at all
(`IndexesAreInRing`: the hash of a reply list stays below the size of the ring,
and the server knows whom it serves when it replies). The run has one client
thread and neighbours that only reset; the theorem covers any number of threads
that share a layer. `ServersMeetNoKeyError` goes further for the server, whose layer
nobody else resets while it looks, and `BackendTypesHold` is type correctness: that
tries stay below the retries of the settings, and that no job sends more requests
than it has to, needs the purposes of `CallersAreKnown`.

`RepliesFindCallers` has a hypothesis, `OneRingOrder`: every layer learns of the
members in one order, as it does from the settings. The server and the client
then hash a reply list to one member, each by its own layer (`ChoicesAreHome`,
`RepliesAreHome`), whatever is reset or fails over in between. The constants of
the run satisfy it; without it the property is false, as
`RedisBackends_discovered.cfg` shows with `RepliesAreFound` in the place of its
property: there a Sentinel lists the services, and promises no order.

**ServerLoop.** `IInv` ties `pc` to the alarm, to the flags and to the history
variables, handler by handler; each safety property follows from it or is
itself a step of the proof. `CleanEnd` rests on `HeartbeatIsRemoved`, which says for each
way through the `finally` block what may have cut it off: a second signal, an alarm, or
an error that the block itself raised. `ServerIsForkedWorker` maps each step to one of
`ForkedWorkers` or to a stutter: `shutting_down` is never taken back, handlers are
never taken down but at the end, and `shutting_down` is set by handlers alone, which
are not there before `Boot`.

**ExecuteJob.** The lists of names are objects that several contexts share, so
that what the main thread logs under is a matter of what is on the stack:
`RequestsAreNamed` and `ActionsAreNamed` say which names the lists hold for each
shape of the stack, until SIGALRM: an interrupt may come where the code then pops
twice or not at all, and leave a name missing or that of a local call behind.
`NamesAreOwn` says that no list holds names of two requests,
which is what a coroutine that outlives its request relies on. `AnswersCollect`
counts the answers of each frame; `HarakiriInv` says where a frame may be after
an interrupt that nobody swallowed, from which `NoActionAfterHarakiri` follows as
a property of steps.

**ClientCalls.** `AnswersFollowJobs` needs that keys are put down in the order of
the jobs (`JobsHaveKeys`) and are never drawn twice (`IdsWereDrawn`), and that a
response that was returned does not come again (`AnswersAreFinal`). That a clean
call meets neither an unexpected nor a missing response is not inductive either:
`CleanCallsAreAlone` says that no other open call has a share in its services, and
`CleanCallsAreOwed` that the counter of each is exactly the number of responses
that the call still waits for.

**ChunkedReplies.** Chunks of several servers mix in one list. `ServersSendRuns`
and `ServersGoOn` say that what a server has left to send continues the last
message of its response in the list; requests have one server, because it was
popped from the list (`RequestsAreCounted`). On the side of the client
`PartialCountsUp` is enough, whatever the list holds: the check of the chunk-id in
`receive_message` alone makes an assembled response complete.

**Expansions.** `ErrorsAreRaised` needs that a response that is outstanding has a
service that is still to be visited (`OutstandingAreVisited`) and that noted
errors are kept until the round ends. The two theorems about fields have a
hypothesis, `OneFieldPerAction`: routes to one action take their identifiers in
one field. The code does not ask for it, and without it both properties are false,
as `Expansions_shared.cfg` shows of `FilledByItsRoute` (and of
`UnexpandedIsExplained`, put in its place); the constants of the run satisfy it.
`ExplainInv` of the second theorem
follows every pair of object and node through a round: it is to be expanded, in a
request that is to be sent, or outstanding, or explained. Type correctness does
without that hypothesis: objects that are expanded or filled in came with a
response that was received, and no service is asked for an identifier that
`Database` says nothing of, which rests on `DatabaseAssumption` (a service has an
answer for every identifier in a source field, if only that there is no object).

**AutoReloader.** A watcher compares the file with what it saw of it since it was
started, so that `NoticesAreCounted` can charge each notice to a change: no clone
is started without one. `EndsAreExcused` says of a server on its way to its end
who stopped it, which is what the exit code does not tell the parent.

**ProcessMonitor.** Its theorems are about an instance, `Forked`, in
`ProcessProofs`. A deque of restart times forgets what falls out of it.
`RespawnsInv` says that it has exactly the last restarts there were
(`Remembers`), so that the oldest in a full one is the restart `limit` before the
next, and that all restarts so far are spaced (`Spaced`). The run has limits of 1 in
1 and 2 in 3 seconds; the theorem covers the 3 in 15 and 8 in 60 of the code.
`MonitorInv` says of the handler that each worker it has passed was told, is not
there any more, or was deaf, and of each monitor whether its worker is there
(`HasWorker`), which is what keeps it from forking a second one
(`MonitorsKeepOneWorkerEach`) and makes `AwaitedWorkersAreTold` inductive.

**EventLoop.** Its theorems are about an instance, `Loop`, in `ProcessProofs`.
`StopComesOnce` says that nothing but steps of tasks lies behind the stop in the
queue of the loop, so that no coroutine is only scheduled when the loop gathers
what is pending (`ScheduledAreReady`), and that nobody hands one over after
`join`; `TasksAreGathered` follows each task from there to the end. `JoinInv` adds that
a join which found a loop that ran keeps its stop among the handles until the
loop takes it, so that a `join` that waits for ever is one that came before its loop.

**SyslogHandler.** `IInv` says which size is in use and that the interface takes
it, that no packet is larger, and that each packet took at least a byte, so that
a number never has more digits than `Room` has subtracted; and of the packets so
far that they carry the message up to `position`. `CleanSlice` gives the
arithmetic: a clean slice ends at a character, not past the limit, and not before
the one that the limit splits.

The inductive invariants, or, for the types, the invariants that they imply, were
model-checked with the constants of the runs before they were proved.

The type invariant of every module above and every safety property of the passing
runs is stated by a theorem; those of `RedisBackends`,
`ProcessMonitor` and `EventLoop` (`KeyErrorNeedsARace`, `RespawnsAreLimited`,
`CoroutinesComplete`) through the instances named above. Only model-checked: all
liveness properties, which are out of the reach of the proof system, those kept
apart from the runs (`AwaitedCoroutinesAnswer`) included. What a fold
over a sequence computes (`TypeOf` of `Expansions`) would need induction over data,
which is out of reach, too; the proofs do without it.

## 5. What is not modelled

The bytes of messages, the schemas of settings, metrics, log formats, Django and
the test support. Threads that share one client: the documentation asks for one
client per thread. Falsy results, which a future does not cache. Response fields
of routes, and keys of expansions that are not configured. Redis itself is the
lists and their atomic script.

## 6. Plan

What is left, in this order:

1. A composition of `ServerLoop` and `EventLoop`, in which `JoinLoop` is the whole
   of `join`, and of `Expansions` with the open futures of `ClientCalls`.
2. Status checks and `SwitchedAction`: order and outcome of checks, the choice of
   an action.
3. Proofs of the safety properties of these modules.
