--------------------------- MODULE ChunkedReplies ---------------------------
(***************************************************************************)
(* How a response travels as messages of the Redis gateway protocol        *)
(* (redis_gateway/core.py, constants.py; docs/protocol.rst): the protocol  *)
(* version the server answers in, the chunks it cuts a big response into,  *)
(* and how a client puts the chunks that it pops together again.           *)
(*                                                                         *)
(* One client with its one reply list, and servers that push to that list  *)
(* chunk by chunk, each at its own pace.  Requests are never lost here and *)
(* the client's own Redis commands never fail: RedisGateway has that.      *)
(***************************************************************************)
EXTENDS Integers, Sequences

CONSTANTS
    Servers,         \* server processes of the service
    None,            \* a server that serves nothing
    QueueCapacity,   \* queue_capacity: the longest the reply list may get
    ClientVersion,   \* the ProtocolVersion that the client speaks
    Parallel,        \* requests a caller sends before it waits for them
    MaxRequests,     \* BOUND: requests the client makes
    MaxChunks,       \* BOUND: chunks of one response
    Faults           \* which of PossibleFaults may happen

(*   slow        the client's blocking pop times out                       *)
(*   connection  a server's push raises, before or after taking effect     *)
PossibleFaults == {"slow", "connection"}

ASSUME RepliesAssumption ==
    /\ QueueCapacity \in Nat \ {0}
    /\ ClientVersion \in 1..3
    /\ Parallel \in Nat \ {0}
    /\ MaxRequests \in Nat
    /\ MaxChunks \in Nat
    /\ Faults \subseteq PossibleFaults
    /\ None \notin Seq([id : Nat, chunk : Nat, count : Nat, version : Nat])

VARIABLES
    requests,      \* the request list, oldest first
    replies,       \* the client's reply list, oldest first
    sending,       \* per server, the messages of a response it has yet to push
    nextRequestId, \* ServiceHandler.request_counter
    outstanding,   \* RedisClientTransport._requests_outstanding
    batch,         \* requests sent since the caller last waited
    status,        \* what the caller does, or how its last wait ended
    partial,       \* the chunks that receive_message has popped so far
    received       \* the messages that blob_to_dict was last given

clientVars == <<nextRequestId, outstanding, batch, status, partial, received>>
vars == <<requests, replies, sending, nextRequestId, outstanding, batch, status,
          partial, received>>

Ids == 1..MaxRequests

\* A message without chunk headers has count 0.
Messages == [id : Ids, chunk : 0..MaxChunks, count : 0..MaxChunks, version : 1..3]

Init ==
    /\ requests = <<>>
    /\ replies = <<>>
    /\ sending = [s \in Servers |-> None]
    /\ nextRequestId = 1
    /\ outstanding = 0
    /\ batch = 0
    /\ status = "done"
    /\ partial = <<>>
    /\ received = <<>>
-----------------------------------------------------------------------------
(***************************************************************************)
(* The caller                                                              *)
(***************************************************************************)
SendRequest ==
    /\ status # "waiting"
    /\ nextRequestId <= MaxRequests
    /\ batch < Parallel
    /\ requests' = Append(requests, nextRequestId)
    /\ nextRequestId' = nextRequestId + 1
    /\ outstanding' = outstanding + 1
    /\ batch' = batch + 1
    /\ UNCHANGED <<replies, sending, status, partial, received>>

\* result(), again after a timeout.
BeginResult ==
    /\ status # "waiting"
    /\ batch > 0 \/ status = "timeout"
    /\ status' = "waiting"
    /\ UNCHANGED <<requests, replies, sending, nextRequestId, outstanding, batch,
                   partial, received>>

EndResult(outcome) ==
    /\ status' = outcome
    /\ batch' = 0
    /\ partial' = <<>>

FinishResult ==
    /\ status = "waiting"
    /\ outstanding = 0
    /\ EndResult("done")
    /\ UNCHANGED <<requests, replies, sending, nextRequestId, outstanding, received>>
-----------------------------------------------------------------------------
(***************************************************************************)
(* The client's receive_message                                            *)
(***************************************************************************)
Pop ==
    /\ status = "waiting"
    /\ outstanding > 0
    /\ replies # <<>>
    /\ replies' = Tail(replies)
    /\ UNCHANGED <<requests, sending, nextRequestId>>

\* All chunks of one response, or one message that has no chunk headers.
IsWhole(messages) ==
    /\ \A i \in 1..Len(messages) : messages[i].id = messages[1].id
    /\ \/ messages[1].count = 0
       \/ messages[1].chunk = 1

\* blob_to_dict is taken to fail for anything but a whole response, as it does where
\* the pieces of two responses do not happen to fit; the properties here are about
\* what it is given.  The error is no TransientPySOATransportError, and nothing is
\* counted as received.
Deserialize(messages) ==
    /\ received' = messages
    /\ IF IsWhole(messages)
         THEN /\ outstanding' = outstanding - 1
              /\ partial' = <<>>
              /\ UNCHANGED <<status, batch>>
         ELSE /\ EndResult("invalid")
              /\ UNCHANGED outstanding

\* The first message: its chunk-id is not compared with 1.
ReceiveFirst ==
    LET message == Head(replies) IN
    /\ Pop
    /\ partial = <<>>
    /\ IF message.chunk < message.count
         THEN /\ partial' = <<message>>
              /\ UNCHANGED <<outstanding, batch, status, received>>
         ELSE Deserialize(<<message>>)

\* MUTANT of Continues: the chunk-id is not looked at.
ContinuesAnyhow(message) == message.count = partial[1].count

Continues(message) ==
    /\ message.count = partial[1].count
    /\ message.chunk = partial[Len(partial)].chunk + 1

ReceiveNext ==
    LET message == Head(replies) IN
    /\ Pop
    /\ partial # <<>>
    /\ Continues(message)
    /\ IF message.chunk < message.count
         THEN /\ partial' = Append(partial, message)
              /\ UNCHANGED <<outstanding, batch, status, received>>
         ELSE Deserialize(Append(partial, message))

\* InvalidMessageError: the message that does not continue is gone, too.
ReceiveInvalid ==
    /\ Pop
    /\ partial # <<>>
    /\ ~Continues(Head(replies))
    /\ EndResult("invalid")
    /\ UNCHANGED <<outstanding, received>>

\* MessageReceiveTimeout, perhaps in the middle of a response.
ReceiveTimesOut ==
    /\ "slow" \in Faults
    /\ status = "waiting"
    /\ outstanding > 0
    /\ replies = <<>>
    /\ EndResult("timeout")
    /\ UNCHANGED <<requests, replies, sending, nextRequestId, outstanding, received>>
-----------------------------------------------------------------------------
(***************************************************************************)
(* The servers                                                             *)
(***************************************************************************)
Message(id, version) == [id |-> id, chunk |-> 0, count |-> 0, version |-> version]

Chunks(id, count) ==
    [k \in 1..count |-> [id |-> id, chunk |-> k, count |-> count, version |-> ClientVersion]]

\* The version of RedisTransportCore, for a meta that names none.
DefaultVersion == 3

\* CHUNKED_RESPONSES.supported_in(protocol_version)
CanChunk == ClientVersion >= 3

\* MessageTooLarge: handle_next_request sends an error response with the same
\* meta, from which send_message has popped the protocol version meanwhile.
TooLarge(id) == <<Message(id, DefaultVersion)>>

\* A response below the chunking threshold, above it, or above the maximum.
Responses(id) ==
    {<<Message(id, ClientVersion)>>, TooLarge(id)} \union
    (IF CanChunk THEN {Chunks(id, count) : count \in 2..MaxChunks} ELSE {})

TakeRequest(s) ==
    /\ sending[s] = None
    /\ requests # <<>>
    /\ requests' = Tail(requests)
    /\ \E messages \in Responses(Head(requests)) :
          sending' = [sending EXCEPT ![s] = messages]
    /\ UNCHANGED <<replies, clientVars>>

HasRoom == Len(replies) < QueueCapacity

PushMessage(s) ==
    /\ sending[s] # None
    /\ HasRoom
    /\ replies' = Append(replies, Head(sending[s]))
    /\ sending' = [sending EXCEPT ![s] =
                       IF Len(@) = 1 THEN None ELSE Tail(@)]
    /\ UNCHANGED <<requests, clientVars>>

\* MUTANT of PushFails: the server goes on with the next chunk.
PushFailsAndGoesOn(s) ==
    /\ sending[s] # None
    /\ "connection" \in Faults \/ ~HasRoom
    /\ sending' = [sending EXCEPT ![s] = IF Len(@) = 1 THEN None ELSE Tail(@)]
    /\ UNCHANGED <<requests, replies, clientVars>>

\* MessageSendError: the rest of the response is never sent.
PushFails(s) ==
    /\ sending[s] # None
    /\ \/ /\ "connection" \in Faults \/ ~HasRoom
          /\ UNCHANGED replies
       \/ /\ "connection" \in Faults
          /\ HasRoom
          /\ replies' = Append(replies, Head(sending[s]))
    /\ sending' = [sending EXCEPT ![s] = None]
    /\ UNCHANGED <<requests, clientVars>>
-----------------------------------------------------------------------------
ClientStep ==
    \/ ReceiveFirst
    \/ ReceiveNext
    \/ ReceiveInvalid
    \/ ReceiveTimesOut
    \/ FinishResult

ServerStep(s) == TakeRequest(s) \/ PushMessage(s) \/ PushFails(s)

Next ==
    \/ SendRequest
    \/ BeginResult
    \/ ClientStep
    \/ \E s \in Servers : ServerStep(s)

Spec == Init /\ [][Next]_vars
-----------------------------------------------------------------------------
(***************************************************************************)
(* Properties                                                              *)
(***************************************************************************)
\* Every variable holds a value of its type; the counter is never negative.
TypeOK ==
    /\ requests \in Seq(Ids)
    /\ replies \in Seq(Messages)
    /\ sending \in [Servers -> Seq(Messages) \union {None}]
    /\ nextRequestId \in 1..(MaxRequests + 1)
    /\ outstanding \in 0..MaxRequests
    /\ batch \in 0..Parallel
    /\ status \in {"done", "waiting", "timeout", "invalid"}
    /\ partial \in Seq(Messages)
    /\ received \in Seq(Messages)

\* The next message of the response whose message is i-th in the list.
IsNext(i, j) ==
    /\ i < j
    /\ replies[j].id = replies[i].id
    /\ \A k \in (i + 1)..(j - 1) : replies[k].id # replies[i].id

\* The messages of one response that wait in the list follow one another
\* without a gap, however the pushes of several servers interleave, fail or
\* take effect unnoticed.
ChunksStayInOrder ==
    \A i, j \in 1..Len(replies) :
        IsNext(i, j) => replies[j].chunk = replies[i].chunk + 1

\* Whatever reaches the deserializer and starts with a first chunk has every
\* chunk up to the last one, each once.
AssembledIsComplete ==
    received # <<>> /\ received[1].chunk = 1 =>
        /\ Len(received) = received[1].count
        /\ \A i \in 1..Len(received) : received[i].chunk = i

\* docs/api.rst warns of chunked responses only where requests are made in
\* parallel; a caller that makes one request at a time gets no invalid message.
SequentialCallsAreSafe == status # "invalid"

\* docs/protocol.rst: "the chunk-id header must start with 1 on the first
\* chunk"; a client takes nothing else for the beginning of a response.
FirstChunkIsTheFirst == partial # <<>> => partial[1].chunk = 1

\* The protocol_version setting: "The server can only detect what protocol the
\* client is speaking and respond with the same protocol".
AnsweredInTheSameProtocol ==
    \A i \in 1..Len(replies) : replies[i].version = ClientVersion
=============================================================================
