------------------------ MODULE ChunkedRepliesProofs ------------------------
(***************************************************************************)
(* Theorems about ChunkedReplies, for any number of servers, requests and  *)
(* chunks, any capacity and every fault: the chunks of a response follow   *)
(* one another in the reply list, and a response that starts with a first  *)
(* chunk is complete when it is deserialized.                              *)
(***************************************************************************)
EXTENDS ChunkedReplies, SequenceTheorems, TLAPS

\* A message stands alone, or is one of two chunks or more.
WellFormed(message) ==
    IF message.count = 0 THEN message.chunk = 0
    ELSE message.count >= 2 /\ message.chunk \in 1..message.count

Busy(s) == sending[s] # None

\* Requests are counted before they are outstanding, and have ids of their own.
RequestsAreCounted ==
    /\ outstanding < nextRequestId
    /\ \A i \in 1..Len(requests) : requests[i] < nextRequestId
    /\ \A i, j \in 1..Len(requests) : i # j => requests[i] # requests[j]

\* Messages of one response, without a gap.
IsRun(messages) ==
    /\ messages # <<>>
    /\ \A i \in 1..Len(messages) :
        /\ WellFormed(messages[i])
        /\ messages[i].id = messages[1].id
        /\ messages[i].chunk = messages[1].chunk + i - 1

\* What a server has left to send is a run, whose request nobody else has.
ServersSendRuns == \A s \in Servers : Busy(s) =>
    /\ IsRun(sending[s])
    /\ sending[s][1].id < nextRequestId
    /\ \A i \in 1..Len(requests) : requests[i] # sending[s][1].id
    /\ \A t \in Servers : Busy(t) /\ t # s => sending[t][1].id # sending[s][1].id

\* What is in the reply list was requested.
RepliesWereRequested == \A i \in 1..Len(replies) :
    /\ WellFormed(replies[i])
    /\ replies[i].id < nextRequestId
    /\ \A j \in 1..Len(requests) : requests[j] # replies[i].id

IsLast(i) == \A k \in (i + 1)..Len(replies) : replies[k].id # replies[i].id

\* A server goes on where the last message of its response in the list ends.
ServersGoOn == \A s \in Servers, i \in 1..Len(replies) :
    Busy(s) /\ replies[i].id = sending[s][1].id /\ IsLast(i) =>
        sending[s][1].chunk = replies[i].chunk + 1

\* What the client has popped counts up, and is no whole response.
PartialCountsUp == \A i \in 1..Len(partial) :
    /\ WellFormed(partial[i])
    /\ partial[i].count = partial[1].count
    /\ partial[i].chunk = partial[1].chunk + i - 1
    /\ partial[i].chunk < partial[i].count

IInv ==
    /\ TypeOK
    /\ RequestsAreCounted
    /\ ServersSendRuns
    /\ RepliesWereRequested
    /\ ServersGoOn
    /\ ChunksStayInOrder
    /\ PartialCountsUp
    /\ AssembledIsComplete
-----------------------------------------------------------------------------
\* There are no requests, jobs or chunks at first.
LEMMA InitHolds == Init => IInv
  <1> SUFFICES ASSUME Init PROVE IInv
    OBVIOUS
  <1>1. TypeOK
    BY RepliesAssumption DEF Init, TypeOK
  <1>2. RequestsAreCounted /\ ServersSendRuns
    BY DEF Init, RequestsAreCounted, ServersSendRuns, Busy
  <1>3. RepliesWereRequested /\ ServersGoOn /\ ChunksStayInOrder
    BY DEF Init, RepliesWereRequested, ServersGoOn, ChunksStayInOrder
  <1>4. PartialCountsUp /\ AssembledIsComplete
    BY DEF Init, PartialCountsUp, AssembledIsComplete
  <1> QED
    BY <1>1, <1>2, <1>3, <1>4 DEF IInv

\* The lists, and the server's share in them.
Lists == <<requests, replies, sending, nextRequestId>>

ListsInv ==
    /\ RequestsAreCounted
    /\ ServersSendRuns
    /\ RepliesWereRequested
    /\ ServersGoOn
    /\ ChunksStayInOrder

\* The parts about lists are kept when the lists are.
LEMMA ListsKeep ==
    ASSUME IInv, UNCHANGED Lists, outstanding' \in 0..outstanding
    PROVE  ListsInv'
  <1>1. outstanding \in Nat /\ nextRequestId \in Nat
    BY DEF IInv, TypeOK
  <1>2. RequestsAreCounted'
    BY <1>1 DEF IInv, RequestsAreCounted, Lists
  <1>3. ServersSendRuns' /\ RepliesWereRequested'
    BY DEF IInv, ServersSendRuns, RepliesWereRequested, Busy, Lists
  <1>4. ServersGoOn'
    BY DEF IInv, ServersGoOn, IsLast, Busy, Lists
  <1>5. ChunksStayInOrder'
    BY DEF IInv, ChunksStayInOrder, IsNext, Lists
  <1> QED
    BY <1>2, <1>3, <1>4, <1>5 DEF ListsInv

\* What is left of a list that is popped from.
LEMMA TailMoves ==
    ASSUME NEW S, NEW q \in Seq(S), q # <<>>
    PROVE  /\ Head(q) = q[1] /\ q[1] \in S
           /\ Tail(q) \in Seq(S)
           /\ Len(q) \in Nat \ {0} /\ Len(Tail(q)) = Len(q) - 1
           /\ \A i \in 1..(Len(q) - 1) : Tail(q)[i] = q[i + 1]
  OBVIOUS

\* What a list is that is pushed to.
LEMMA AppendMoves ==
    ASSUME NEW S, NEW q \in Seq(S), NEW e \in S
    PROVE  /\ Append(q, e) \in Seq(S)
           /\ Len(q) \in Nat /\ Len(Append(q, e)) = Len(q) + 1
           /\ \A i \in 1..Len(q) : Append(q, e)[i] = q[i]
           /\ Append(q, e)[Len(q) + 1] = e
  OBVIOUS

\* The caller sends a request under a new id.
LEMMA SendRequestKeeps == ASSUME IInv, SendRequest PROVE IInv'
  <1> USE DEF IInv
  <1>1. /\ nextRequestId <= MaxRequests /\ batch < Parallel
        /\ requests' = Append(requests, nextRequestId)
        /\ nextRequestId' = nextRequestId + 1
        /\ outstanding' = outstanding + 1
        /\ batch' = batch + 1
        /\ UNCHANGED <<replies, sending, status, partial, received>>
    BY DEF SendRequest
  <1>2. /\ MaxRequests \in Nat /\ Parallel \in Nat \ {0}
        /\ nextRequestId \in 1..(MaxRequests + 1) /\ outstanding \in 0..MaxRequests
        /\ batch \in 0..Parallel /\ requests \in Seq(Ids)
        /\ outstanding < nextRequestId
    BY RepliesAssumption DEF TypeOK, RequestsAreCounted
  <1>3. nextRequestId \in Ids
    BY <1>1, <1>2 DEF Ids
  <1>4. /\ requests' \in Seq(Ids)
        /\ Len(requests) \in Nat /\ Len(requests') = Len(requests) + 1
        /\ \A i \in 1..Len(requests) : requests'[i] = requests[i]
        /\ requests'[Len(requests) + 1] = nextRequestId
    BY <1>1, <1>2, <1>3, AppendMoves
  <1>5. TypeOK'
    <2>1. /\ nextRequestId' \in 1..(MaxRequests + 1) /\ outstanding' \in 0..MaxRequests
          /\ batch' \in 0..Parallel
      BY <1>1, <1>2
    <2> QED
      BY <1>1, <1>4, <2>1 DEF TypeOK
  <1>6. \A i \in 1..Len(requests') : i = Len(requests) + 1 \/ i \in 1..Len(requests)
    BY <1>4
  <1>7. \A i \in 1..Len(requests) : requests[i] \in Ids /\ requests[i] < nextRequestId
    BY <1>2 DEF RequestsAreCounted
  <1>8. RequestsAreCounted'
    <2>1. ASSUME NEW i \in 1..Len(requests') PROVE requests'[i] < nextRequestId'
      BY <1>1, <1>2, <1>4, <1>6, <1>7 DEF Ids
    <2>2. ASSUME NEW i \in 1..Len(requests'), NEW j \in 1..Len(requests'), i # j
          PROVE  requests'[i] # requests'[j]
      <3>1. CASE i \in 1..Len(requests) /\ j \in 1..Len(requests)
        BY <1>4, <2>2, <3>1 DEF RequestsAreCounted
      <3>2. \A k \in 1..Len(requests) : requests'[k] # nextRequestId
        BY <1>2, <1>4, <1>7 DEF Ids
      <3>3. CASE i = Len(requests) + 1
        <4>1. j \in 1..Len(requests)
          BY <1>6, <2>2, <3>3
        <4> QED
          BY <1>4, <3>2, <3>3, <4>1
      <3>4. CASE j = Len(requests) + 1
        <4>1. i \in 1..Len(requests)
          BY <1>6, <2>2, <3>4
        <4> QED
          BY <1>4, <3>2, <3>4, <4>1
      <3> QED
        BY <1>6, <3>1, <3>3, <3>4
    <2> QED
      BY <1>1, <1>2, <2>1, <2>2 DEF RequestsAreCounted
  <1>9. ServersSendRuns'
    <2>1. ASSUME NEW s \in Servers, Busy(s)
          PROVE  /\ sending[s][1].id < nextRequestId'
                 /\ \A i \in 1..Len(requests') : requests'[i] # sending[s][1].id
      <3>1. sending[s][1].id \in Ids /\ sending[s][1].id < nextRequestId
        <4>1. sending[s] \in Seq(Messages) /\ sending[s] # <<>>
          BY <2>1 DEF ServersSendRuns, IsRun, TypeOK, Busy
        <4>2. sending[s][1] \in Messages
          BY <4>1
        <4>3. sending[s][1].id < nextRequestId
          BY <2>1 DEF ServersSendRuns
        <4> QED
          BY <4>2, <4>3 DEF Messages
      <3> QED
        BY <1>1, <1>2, <1>4, <1>6, <2>1, <3>1 DEF ServersSendRuns, Ids
    <2> QED
      BY <1>1, <2>1 DEF ServersSendRuns, Busy
  <1>10. RepliesWereRequested'
    <2>1. ASSUME NEW i \in 1..Len(replies)
          PROVE  /\ replies[i].id < nextRequestId'
                 /\ \A j \in 1..Len(requests') : requests'[j] # replies[i].id
      <3>1. replies[i].id \in Ids /\ replies[i].id < nextRequestId
        <4>1. replies[i] \in Messages
          BY DEF TypeOK
        <4>2. replies[i].id < nextRequestId
          BY DEF RepliesWereRequested
        <4> QED
          BY <4>1, <4>2 DEF Messages
      <3> QED
        BY <1>1, <1>2, <1>4, <1>6, <3>1 DEF RepliesWereRequested, Ids
    <2> QED
      BY <1>1, <2>1 DEF RepliesWereRequested
  <1>11. ServersGoOn' /\ ChunksStayInOrder'
    BY <1>1 DEF ServersGoOn, IsLast, ChunksStayInOrder, IsNext, Busy
  <1>12. PartialCountsUp' /\ AssembledIsComplete'
    BY <1>1 DEF PartialCountsUp, AssembledIsComplete
  <1> QED
    BY <1>5, <1>8, <1>9, <1>10, <1>11, <1>12

\* The oldest message leaves the list.
LEMMA PopKeeps ==
    ASSUME IInv, replies # <<>>, replies' = Tail(replies),
           UNCHANGED <<requests, sending, nextRequestId>>, outstanding' \in 0..outstanding
    PROVE  ListsInv'
  <1> USE DEF IInv
  <1> DEFINE n == Len(replies)
  <1>1. /\ replies \in Seq(Messages) /\ n \in Nat \ {0} /\ Len(replies') = n - 1
        /\ \A i \in 1..(n - 1) : replies'[i] = replies[i + 1]
    BY TailMoves DEF TypeOK
  <1> HIDE DEF n
  <1>2. RequestsAreCounted' /\ ServersSendRuns'
    <2>1. outstanding \in Nat /\ nextRequestId \in Nat
      BY DEF TypeOK
    <2> QED
      BY <2>1 DEF RequestsAreCounted, ServersSendRuns, Busy
  <1>3. RepliesWereRequested'
    <2>1. \A i \in 1..(n - 1) : i + 1 \in 1..n /\ replies'[i] = replies[i + 1]
      BY <1>1
    <2> QED
      BY <1>1, <2>1 DEF RepliesWereRequested, n
  <1>4. ServersGoOn'
    <2> SUFFICES ASSUME NEW s \in Servers, NEW i \in 1..(n - 1), Busy(s),
                        replies'[i].id = sending[s][1].id, IsLast(i)'
                 PROVE  sending[s][1].chunk = replies'[i].chunk + 1
      BY <1>1 DEF ServersGoOn, Busy
    <2>3. \A k \in (i + 1)..(n - 1) : replies'[k].id # replies'[i].id
      BY <1>1 DEF IsLast
    <2>1. i + 1 \in 1..n /\ replies'[i] = replies[i + 1]
      BY <1>1
    <2>2. ASSUME NEW k \in (i + 2)..n PROVE replies[k].id # replies[i + 1].id
      <3>1. k - 1 \in (i + 1)..(n - 1) /\ replies'[k - 1] = replies[k]
        BY <1>1
      <3> QED
        BY <2>1, <2>3, <3>1
    <2>4. IsLast(i + 1)
      BY <1>1, <2>2 DEF IsLast, n
    <2> QED
      BY <1>1, <2>1, <2>4 DEF ServersGoOn, n
  <1>5. ChunksStayInOrder'
    <2> SUFFICES ASSUME NEW i \in 1..(n - 1), NEW j \in 1..(n - 1), i < j,
                        replies'[j].id = replies'[i].id,
                        \A k \in (i + 1)..(j - 1) : replies'[k].id # replies'[i].id
                 PROVE  replies'[j].chunk = replies'[i].chunk + 1
      BY <1>1 DEF ChunksStayInOrder, IsNext
    <2>1. /\ i + 1 \in 1..n /\ replies'[i] = replies[i + 1]
          /\ j + 1 \in 1..n /\ replies'[j] = replies[j + 1]
      BY <1>1
    <2>2. ASSUME NEW k \in ((i + 1) + 1)..((j + 1) - 1)
          PROVE  replies[k].id # replies[i + 1].id
      <3>1. k - 1 \in (i + 1)..(j - 1) /\ k - 1 \in 1..(n - 1) /\ replies'[k - 1] = replies[k]
        BY <1>1
      <3> QED
        BY <2>1, <3>1
    <2>3. IsNext(i + 1, j + 1)
      <3>1. i + 1 < j + 1
        BY <1>1
      <3>2. replies[j + 1].id = replies[i + 1].id
        BY <2>1
      <3> QED
        BY <2>2, <3>1, <3>2 DEF IsNext
    <2> QED
      BY <2>1, <2>3 DEF ChunksStayInOrder, n
  <1> QED
    BY <1>2, <1>3, <1>4, <1>5 DEF ListsInv

\* The end of a wait leaves the lists alone, but for what was popped.
LEMMA EndResultKeeps ==
    ASSUME IInv, ListsInv', NEW outcome \in {"done", "timeout", "invalid"}, EndResult(outcome),
           replies' \in Seq(Messages), outstanding' \in 0..outstanding,
           UNCHANGED <<requests, sending, nextRequestId>>, received' \in Seq(Messages),
           AssembledIsComplete'
    PROVE  IInv'
  <1>1. status' = outcome /\ batch' = 0 /\ partial' = <<>>
    BY DEF EndResult
  <1>2. TypeOK'
    <2>1. /\ outstanding \in 0..MaxRequests /\ Parallel \in Nat /\ MaxRequests \in Nat
          /\ requests' \in Seq(Ids) /\ sending' \in [Servers -> Seq(Messages) \union {None}]
          /\ nextRequestId' \in 1..(MaxRequests + 1)
      BY RepliesAssumption DEF IInv, TypeOK
    <2> QED
      BY <1>1, <2>1 DEF TypeOK
  <1>3. PartialCountsUp'
    BY <1>1 DEF PartialCountsUp
  <1> QED
    BY <1>2, <1>3 DEF IInv, ListsInv

\* A response is put together and handed to the deserializer.
LEMMA DeserializeKeeps ==
    ASSUME IInv, Pop, NEW messages \in Seq(Messages), Deserialize(messages),
           messages # <<>> /\ messages[1].chunk = 1 =>
               /\ Len(messages) = messages[1].count
               /\ \A i \in 1..Len(messages) : messages[i].chunk = i
    PROVE  IInv'
  <1>1. /\ replies # <<>> /\ replies' = Tail(replies) /\ outstanding > 0
        /\ UNCHANGED <<requests, sending, nextRequestId>>
        /\ received' = messages
    BY DEF Pop, Deserialize
  <1>2. replies' \in Seq(Messages) /\ outstanding \in 0..MaxRequests /\ MaxRequests \in Nat
    BY <1>1, TailMoves, RepliesAssumption DEF IInv, TypeOK
  <1>3. outstanding' \in 0..outstanding
    BY <1>1, <1>2 DEF Deserialize
  <1>4. ListsInv'
    BY <1>1, <1>3, PopKeeps
  <1>5. AssembledIsComplete'
    BY <1>1 DEF AssembledIsComplete
  <1>6. CASE IsWhole(messages)
    <2>1. partial' = <<>> /\ UNCHANGED <<status, batch>>
      BY <1>6 DEF Deserialize
    <2>2. TypeOK'
      <3>1. outstanding' \in 0..MaxRequests
        BY <1>2, <1>3
      <3> QED
        BY <1>1, <1>2, <2>1, <3>1 DEF IInv, TypeOK
    <2>3. PartialCountsUp'
      BY <2>1 DEF PartialCountsUp
    <2> QED
      BY <1>4, <1>5, <2>2, <2>3 DEF IInv, ListsInv
  <1>7. CASE ~IsWhole(messages)
    BY <1>1, <1>2, <1>3, <1>4, <1>5, <1>7, EndResultKeeps DEF Deserialize
  <1> QED
    BY <1>6, <1>7

\* A chunk that is not the last is kept until the next one comes.
LEMMA KeepChunk ==
    ASSUME IInv, Pop, UNCHANGED <<outstanding, batch, status, received>>,
           partial' \in Seq(Messages), PartialCountsUp'
    PROVE  IInv'
  <1>1. /\ replies # <<>> /\ replies' = Tail(replies)
        /\ UNCHANGED <<requests, sending, nextRequestId>>
    BY DEF Pop
  <1>2. replies' \in Seq(Messages) /\ outstanding' \in 0..outstanding
    BY <1>1, TailMoves DEF IInv, TypeOK
  <1>3. ListsInv'
    BY <1>1, <1>2, PopKeeps
  <1>4. TypeOK'
    BY <1>1, <1>2 DEF IInv, TypeOK
  <1>5. AssembledIsComplete'
    BY DEF IInv, AssembledIsComplete
  <1> QED
    BY <1>3, <1>4, <1>5 DEF IInv, ListsInv

\* The message at the head of the list.
LEMMA Popped ==
    ASSUME IInv, Pop
    PROVE  /\ Head(replies) \in Messages /\ WellFormed(Head(replies))
           /\ Head(replies).chunk \in Nat /\ Head(replies).count \in Nat
  <1>1. replies \in Seq(Messages) /\ replies # <<>>
    BY DEF Pop, IInv, TypeOK
  <1>2. Head(replies) = replies[1] /\ 1 \in 1..Len(replies) /\ Head(replies) \in Messages
    BY <1>1
  <1> QED
    BY <1>2, RepliesAssumption DEF IInv, RepliesWereRequested, Messages

\* The first chunk of an answer starts a partial response, or is all of it.
LEMMA ReceiveFirstKeeps == ASSUME IInv, ReceiveFirst PROVE IInv'
  <1> DEFINE message == Head(replies)
  <1>1. /\ Pop /\ message \in Messages /\ WellFormed(message)
        /\ message.chunk \in Nat /\ message.count \in Nat
    BY Popped DEF ReceiveFirst
  <1>2. <<message>> \in Seq(Messages) /\ <<message>>[1] = message /\ Len(<<message>>) = 1
    BY <1>1
  <1>3. CASE message.chunk < message.count
    <2>1. partial' = <<message>> /\ UNCHANGED <<outstanding, batch, status, received>>
      BY <1>3 DEF ReceiveFirst
    <2> HIDE DEF message
    <2>2. PartialCountsUp'
      BY <1>1, <1>2, <1>3, <2>1 DEF PartialCountsUp
    <2> QED
      BY <1>1, <1>2, <2>1, <2>2, KeepChunk
  <1>4. CASE ~(message.chunk < message.count)
    <2>1. Deserialize(<<message>>)
      BY <1>4 DEF ReceiveFirst
    <2> HIDE DEF message
    <2>2. message.chunk # 1
      BY <1>1, <1>4 DEF WellFormed
    <2> QED
      BY <1>1, <1>2, <2>1, <2>2, DeserializeKeeps
  <1> QED
    BY <1>3, <1>4

\* A chunk that continues the partial response is kept with it, or completes it.
LEMMA ReceiveNextKeeps == ASSUME IInv, ReceiveNext PROVE IInv'
  <1> DEFINE message == Head(replies)
             n == Len(partial)
             more == Append(partial, message)
  <1>1. /\ Pop /\ message \in Messages /\ WellFormed(message)
        /\ message.chunk \in Nat /\ message.count \in Nat
        /\ partial # <<>> /\ message.count = partial[1].count
        /\ message.chunk = partial[n].chunk + 1
    BY Popped DEF ReceiveNext, Continues
  <1>2. partial \in Seq(Messages) /\ n \in Nat \ {0}
    BY <1>1 DEF IInv, TypeOK
  <1>3. /\ more \in Seq(Messages) /\ Len(more) = n + 1
        /\ \A i \in 1..n : more[i] = partial[i]
        /\ more[n + 1] = message
    BY <1>1, <1>2, AppendMoves
  <1>4. \A i \in 1..n :
            /\ WellFormed(partial[i])
            /\ partial[i].count = partial[1].count
            /\ partial[i].chunk = partial[1].chunk + i - 1
            /\ partial[i].chunk < partial[i].count
    BY DEF IInv, PartialCountsUp
  <1>5. partial[1].chunk \in Nat /\ partial[1].count \in Nat
    <2>1. partial[1] \in Messages
      BY <1>2
    <2> QED
      BY <2>1, RepliesAssumption DEF Messages
  <1> HIDE DEF message, n, more
  <1>6. message.chunk = partial[1].chunk + n
    <2>1. n \in 1..n
      BY <1>2
    <2>2. partial[n].chunk = partial[1].chunk + n - 1
      BY <1>4, <2>1
    <2>3. message.chunk = (partial[1].chunk + n - 1) + 1
      BY <1>1, <2>2
    <2> QED
      BY <1>2, <1>5, <2>3
  <1>7. \A i \in 1..(n + 1) : i \in 1..n \/ i = n + 1
    BY <1>2
  <1>8. 1 \in 1..n /\ more[1] = partial[1]
    BY <1>2, <1>3
  <1>9. \A i \in 1..(n + 1) :
            /\ WellFormed(more[i])
            /\ more[i].count = more[1].count
            /\ more[i].chunk = more[1].chunk + i - 1
    <2>1. \A i \in 1..n : /\ WellFormed(more[i])
                          /\ more[i].count = more[1].count
                          /\ more[i].chunk = more[1].chunk + i - 1
      BY <1>3, <1>4, <1>8
    <2>2. more[n + 1].chunk = more[1].chunk + (n + 1) - 1
      BY <1>2, <1>3, <1>5, <1>6, <1>8
    <2> QED
      BY <1>1, <1>3, <1>7, <1>8, <2>1, <2>2
  <1>10. CASE message.chunk < message.count
    <2>1. partial' = more /\ UNCHANGED <<outstanding, batch, status, received>>
      BY <1>10 DEF ReceiveNext, message, more
    <2>2. \A i \in 1..(n + 1) : more[i].chunk < more[i].count
      BY <1>3, <1>4, <1>7, <1>10
    <2>3. PartialCountsUp'
      BY <1>3, <1>9, <2>1, <2>2 DEF PartialCountsUp
    <2> QED
      BY <1>1, <1>3, <2>1, <2>3, KeepChunk
  <1>11. CASE ~(message.chunk < message.count)
    <2>1. Deserialize(more)
      BY <1>11 DEF ReceiveNext, message, more
    <2>2. ASSUME more[1].chunk = 1
          PROVE  /\ Len(more) = more[1].count
                 /\ \A i \in 1..Len(more) : more[i].chunk = i
      <3>1. message.chunk = n + 1
        BY <1>2, <1>6, <1>8, <2>2
      <3>2. message.count <= n + 1
        BY <1>1, <1>2, <1>11, <3>1
      <3>3. message.count >= n + 1
        BY <1>1, <1>2, <1>11, <3>1 DEF WellFormed
      <3>4. message.count = n + 1
        BY <1>1, <1>2, <3>2, <3>3
      <3>5. \A i \in 1..(n + 1) : more[i].chunk = i
        BY <1>2, <1>9, <2>2
      <3> QED
        BY <1>1, <1>3, <1>8, <3>4, <3>5
    <2> QED
      BY <1>1, <1>3, <2>1, <2>2, DeserializeKeeps
  <1> QED
    BY <1>10, <1>11

\* A chunk out of order is an error, and nothing is assembled from it.
LEMMA ReceiveInvalidKeeps == ASSUME IInv, ReceiveInvalid PROVE IInv'
  <1>1. /\ replies # <<>> /\ replies' = Tail(replies)
        /\ UNCHANGED <<requests, sending, nextRequestId, outstanding, received>>
        /\ EndResult("invalid")
    BY DEF ReceiveInvalid, Pop
  <1>2. /\ replies' \in Seq(Messages) /\ outstanding' \in 0..outstanding
        /\ received' \in Seq(Messages)
    BY <1>1, TailMoves DEF IInv, TypeOK
  <1>3. AssembledIsComplete'
    BY <1>1 DEF IInv, AssembledIsComplete
  <1> QED
    BY <1>1, <1>2, <1>3, PopKeeps, EndResultKeeps

\* What the caller does without the list.
LEMMA WaitKeeps ==
    ASSUME IInv, BeginResult \/ FinishResult \/ ReceiveTimesOut PROVE IInv'
  <1>1. /\ UNCHANGED <<requests, replies, sending, nextRequestId, outstanding, received>>
    BY DEF BeginResult, FinishResult, ReceiveTimesOut
  <1>2. outstanding' \in 0..outstanding
    BY <1>1 DEF IInv, TypeOK
  <1>3. ListsInv'
    BY <1>1, <1>2, ListsKeep DEF Lists
  <1>4. AssembledIsComplete'
    BY <1>1 DEF IInv, AssembledIsComplete
  <1>5. CASE BeginResult
    <2>1. status' = "waiting" /\ UNCHANGED <<batch, partial>>
      BY <1>5 DEF BeginResult
    <2>2. TypeOK' /\ PartialCountsUp'
      BY <1>1, <2>1 DEF IInv, TypeOK, PartialCountsUp
    <2> QED
      BY <1>3, <1>4, <2>2 DEF IInv, ListsInv
  <1>6. CASE FinishResult \/ ReceiveTimesOut
    <2>1. PICK outcome \in {"done", "timeout", "invalid"} : EndResult(outcome)
      BY <1>6 DEF FinishResult, ReceiveTimesOut
    <2>2. replies' \in Seq(Messages) /\ received' \in Seq(Messages)
      BY <1>1 DEF IInv, TypeOK
    <2> QED
      BY <1>1, <1>2, <1>3, <1>4, <2>1, <2>2, EndResultKeeps
  <1> QED
    BY <1>5, <1>6

\* A server has a request to answer, and its messages to send.
LEMMA TakeRequestKeeps == ASSUME IInv, NEW s \in Servers, TakeRequest(s) PROVE IInv'
  <1> USE DEF IInv
  <1> DEFINE n == Len(requests)
             id == Head(requests)
  <1>1. /\ sending[s] = None /\ requests # <<>> /\ requests' = Tail(requests)
        /\ UNCHANGED <<replies, nextRequestId, outstanding, batch, status, partial, received>>
    BY DEF TakeRequest, clientVars
  <1>2. PICK messages \in Responses(id) : sending' = [sending EXCEPT ![s] = messages]
    BY DEF TakeRequest
  <1>3. /\ requests \in Seq(Ids) /\ n \in Nat \ {0} /\ Len(requests') = n - 1
        /\ requests' \in Seq(Ids)
        /\ \A i \in 1..(n - 1) : requests'[i] = requests[i + 1]
        /\ id = requests[1] /\ id \in Ids
    BY <1>1, TailMoves DEF TypeOK
  <1>4. /\ id < nextRequestId
        /\ \A i \in 1..(n - 1) : requests'[i] # id
    BY <1>3 DEF RequestsAreCounted
  <1> HIDE DEF n, id
  <1>5. messages \in Seq(Messages) /\ IsRun(messages) /\ messages[1].id = id
    <2>1. ASSUME NEW version \in 1..3, messages = <<Message(id, version)>>
          PROVE  messages \in Seq(Messages) /\ IsRun(messages) /\ messages[1].id = id
      <3>1. Message(id, version) \in Messages
        BY <1>3, RepliesAssumption DEF Message, Messages
      <3> QED
        BY <2>1, <3>1 DEF Message, IsRun, WellFormed
    <2>2. ASSUME NEW count \in 2..MaxChunks, messages = Chunks(id, count)
          PROVE  messages \in Seq(Messages) /\ IsRun(messages) /\ messages[1].id = id
      <3>1. \A k \in 1..count : messages[k] \in Messages
        BY <1>3, <2>2, RepliesAssumption DEF Chunks, Messages
      <3>2. messages \in Seq(Messages) /\ Len(messages) = count
        BY <2>2, <3>1 DEF Chunks
      <3>3. 1 \in 1..count /\ \A k \in 1..count : messages[k].id = id /\ messages[k].chunk = k
                                                 /\ messages[k].count = count
        BY <2>2 DEF Chunks
      <3> QED
        BY <3>2, <3>3 DEF IsRun, WellFormed
    <2> QED
      BY <2>1, <2>2, RepliesAssumption DEF Responses, TooLarge, DefaultVersion
  <1>6. /\ sending' \in [Servers -> Seq(Messages) \union {None}]
        /\ sending'[s] = messages
        /\ \A t \in Servers : t # s => sending'[t] = sending[t]
        /\ ~Busy(s)
        /\ Len(replies) \in Nat /\ Len(replies') = Len(replies)
    <2>1. sending \in [Servers -> Seq(Messages) \union {None}]
      BY DEF TypeOK
    <2> QED
      BY <1>1, <1>2, <1>5, <2>1 DEF Busy, TypeOK
  <1>7. TypeOK'
    BY <1>1, <1>3, <1>6 DEF TypeOK
  <1>8. RequestsAreCounted'
    <2>1. \A i \in 1..(n - 1) : i + 1 \in 1..n /\ requests'[i] = requests[i + 1]
      BY <1>3
    <2>2. \A i \in 1..(n - 1) : requests'[i] < nextRequestId
      BY <2>1 DEF RequestsAreCounted, n
    <2>3. ASSUME NEW i \in 1..(n - 1), NEW j \in 1..(n - 1), i # j
          PROVE  requests'[i] # requests'[j]
      <3>1. i + 1 # j + 1
        BY <1>3, <2>3
      <3> QED
        BY <2>1, <3>1 DEF RequestsAreCounted, n
    <2> QED
      BY <1>1, <1>3, <2>2, <2>3 DEF RequestsAreCounted
  <1>9. \A i \in 1..(n - 1) : \E j \in 1..n : requests'[i] = requests[j]
    <2>1. \A i \in 1..(n - 1) : i + 1 \in 1..n /\ requests'[i] = requests[i + 1]
      BY <1>3
    <2> QED
      BY <2>1
  <1>10. 1 \in 1..n /\ requests[1] = id
    BY <1>3
  <1>11. ServersSendRuns'
    <2>1. ASSUME NEW t \in Servers, t # s, Busy(t)
          PROVE  /\ IsRun(sending[t])
                 /\ sending[t][1].id < nextRequestId
                 /\ \A i \in 1..(n - 1) : requests'[i] # sending[t][1].id
                 /\ sending[t][1].id # id
                 /\ \A u \in Servers : Busy(u) /\ u # t => sending[u][1].id # sending[t][1].id
      BY <1>9, <1>10, <2>1 DEF ServersSendRuns, n
    <2> SUFFICES ASSUME NEW t \in Servers, Busy(t)'
                 PROVE  /\ IsRun(sending'[t])
                        /\ sending'[t][1].id < nextRequestId
                        /\ \A i \in 1..(n - 1) : requests'[i] # sending'[t][1].id
                        /\ \A u \in Servers : Busy(u)' /\ u # t =>
                              sending'[u][1].id # sending'[t][1].id
      BY <1>1, <1>3 DEF ServersSendRuns
    <2>2. \A u \in Servers : u # s /\ Busy(u)' => Busy(u) /\ sending'[u] = sending[u]
      BY <1>6 DEF Busy
    <2>3. CASE t = s
      BY <1>4, <1>5, <1>6, <2>1, <2>2, <2>3
    <2>4. CASE t # s
      BY <1>5, <1>6, <2>1, <2>2, <2>4
    <2> QED
      BY <2>3, <2>4
  <1>12. \A i \in 1..Len(replies) : replies[i].id # id
    BY <1>10 DEF RepliesWereRequested, n
  <1>13. RepliesWereRequested'
    BY <1>1, <1>3, <1>9 DEF RepliesWereRequested, n
  <1>14. ServersGoOn'
    <2>1. \A t \in Servers : Busy(t)' => (t = s \/ (t # s /\ Busy(t) /\ sending'[t] = sending[t]))
      BY <1>6 DEF Busy
    <2> QED
      BY <1>1, <1>5, <1>6, <1>12, <2>1 DEF ServersGoOn, IsLast
  <1>15. ChunksStayInOrder'
    BY <1>1 DEF ChunksStayInOrder, IsNext
  <1>16. PartialCountsUp' /\ AssembledIsComplete'
    BY <1>1 DEF PartialCountsUp, AssembledIsComplete
  <1> QED
    BY <1>7, <1>8, <1>11, <1>13, <1>14, <1>15, <1>16

\* A server is done with its response, with or without having sent all of it.
LEMMA StopKeeps ==
    ASSUME IInv, NEW s \in Servers, sending' = [sending EXCEPT ![s] = None],
           UNCHANGED <<requests, replies, clientVars>>
    PROVE  IInv'
  <1> USE DEF IInv
  <1>1. /\ sending' \in [Servers -> Seq(Messages) \union {None}]
        /\ \A t \in Servers : Busy(t)' => Busy(t) /\ sending'[t] = sending[t]
    <2>1. sending \in [Servers -> Seq(Messages) \union {None}]
      BY DEF TypeOK
    <2> QED
      BY <2>1 DEF Busy
  <1>2. TypeOK'
    BY <1>1 DEF TypeOK, clientVars
  <1>3. RequestsAreCounted' /\ RepliesWereRequested'
    BY DEF RequestsAreCounted, RepliesWereRequested, clientVars
  <1>4. ServersSendRuns'
    BY <1>1 DEF ServersSendRuns, clientVars
  <1>5. ServersGoOn'
    BY <1>1 DEF ServersGoOn, IsLast
  <1>6. ChunksStayInOrder' /\ PartialCountsUp' /\ AssembledIsComplete'
    BY DEF ChunksStayInOrder, IsNext, PartialCountsUp, AssembledIsComplete, clientVars
  <1> QED
    BY <1>2, <1>3, <1>4, <1>5, <1>6

\* A message reaches the list; the server may go on with the next one.
LEMMA PushKeeps ==
    ASSUME IInv, NEW s \in Servers, Busy(s), replies' = Append(replies, Head(sending[s])),
           \/ sending' = [sending EXCEPT ![s] = None]
           \/ /\ Len(sending[s]) # 1
              /\ sending' = [sending EXCEPT ![s] = Tail(@)],
           UNCHANGED <<requests, clientVars>>
    PROVE  IInv'
  <1> USE DEF IInv
  <1> DEFINE n == Len(replies)
             run == sending[s]
             message == Head(run)
  <1>1. /\ run \in Seq(Messages) /\ IsRun(run)
        /\ sending \in [Servers -> Seq(Messages) \union {None}]
    BY DEF ServersSendRuns, Busy, TypeOK
  <1>2. /\ message = run[1] /\ message \in Messages /\ Len(run) \in Nat \ {0}
        /\ Tail(run) \in Seq(Messages) /\ Len(Tail(run)) = Len(run) - 1
        /\ \A i \in 1..(Len(run) - 1) : Tail(run)[i] = run[i + 1]
    BY <1>1, TailMoves DEF IsRun
  <1>3. WellFormed(message) /\ message.chunk \in Nat
    <2>1. 1 \in 1..Len(run)
      BY <1>2
    <2> QED
      BY <1>1, <1>2, <2>1, RepliesAssumption DEF IsRun, Messages
  <1>4. /\ replies' \in Seq(Messages) /\ n \in Nat /\ Len(replies') = n + 1
        /\ \A i \in 1..n : replies'[i] = replies[i]
        /\ replies'[n + 1] = message
    BY <1>2, AppendMoves DEF TypeOK
  <1>5. \A t \in Servers : t # s => sending'[t] = sending[t]
    BY <1>1
  <1>6. \/ sending'[s] = None
        \/ sending'[s] = Tail(run) /\ Len(run) >= 2
    BY <1>1, <1>2
  <1>7. ASSUME Len(run) >= 2
        PROVE  /\ IsRun(Tail(run)) /\ Tail(run)[1].id = message.id
               /\ Tail(run)[1].chunk = message.chunk + 1
    <2>1. \A i \in 1..(Len(run) - 1) :
             /\ i + 1 \in 1..Len(run) /\ Tail(run)[i] = run[i + 1]
             /\ WellFormed(Tail(run)[i]) /\ Tail(run)[i].id = message.id
             /\ Tail(run)[i].chunk = message.chunk + i
      <3> SUFFICES ASSUME NEW i \in 1..(Len(run) - 1)
                   PROVE  /\ i + 1 \in 1..Len(run) /\ Tail(run)[i] = run[i + 1]
                          /\ WellFormed(Tail(run)[i]) /\ Tail(run)[i].id = message.id
                          /\ Tail(run)[i].chunk = message.chunk + i
        OBVIOUS
      <3>1. i + 1 \in 1..Len(run) /\ Tail(run)[i] = run[i + 1]
        BY <1>2
      <3>2. /\ WellFormed(run[i + 1]) /\ run[i + 1].id = message.id
            /\ run[i + 1].chunk = message.chunk + (i + 1) - 1
        BY <1>1, <1>2, <3>1 DEF IsRun
      <3> QED
        BY <1>3, <3>1, <3>2
    <2>2. 1 \in 1..(Len(run) - 1)
      BY <1>2, <1>7
    <2>3. Tail(run) # <<>>
      BY <1>2, <1>7
    <2>4. \A i \in 1..(Len(run) - 1) : Tail(run)[i].chunk = Tail(run)[1].chunk + i - 1
      <3> HIDE DEF run, message, IInv
      <3> SUFFICES ASSUME NEW i \in 1..(Len(run) - 1)
                   PROVE  Tail(run)[i].chunk = Tail(run)[1].chunk + i - 1
        OBVIOUS
      <3>1. Tail(run)[i].chunk = message.chunk + i
        BY <2>1
      <3>2. Tail(run)[1].chunk = message.chunk + 1
        BY <2>1, <2>2
      <3> QED
        BY <1>2, <1>3, <3>1, <3>2
    <2> QED
      BY <1>2, <2>1, <2>2, <2>3, <2>4 DEF IsRun
  <1> HIDE DEF n, run, message
  <1>8. /\ Busy(s)' => /\ IsRun(sending'[s]) /\ sending'[s][1].id = message.id
                       /\ sending'[s][1].chunk = message.chunk + 1
        /\ \A t \in Servers : Busy(t)' => Busy(t)
    BY <1>5, <1>6, <1>7 DEF Busy
  <1>9. /\ message.id < nextRequestId
        /\ \A i \in 1..Len(requests) : requests[i] # message.id
        /\ \A t \in Servers : Busy(t) /\ t # s => sending[t][1].id # message.id
    BY <1>2 DEF ServersSendRuns, run
  <1>10. UNCHANGED <<requests, nextRequestId, outstanding, batch, status, partial, received>>
    BY DEF clientVars
  <1>11. TypeOK'
    <2>1. sending' \in [Servers -> Seq(Messages) \union {None}]
      BY <1>1, <1>2 DEF run
    <2> QED
      BY <1>4, <1>10, <2>1 DEF TypeOK
  <1>12. RequestsAreCounted'
    BY <1>10 DEF RequestsAreCounted
  <1>13. ServersSendRuns'
    <2> SUFFICES ASSUME NEW t \in Servers, Busy(t)'
                 PROVE  /\ IsRun(sending'[t])
                        /\ sending'[t][1].id < nextRequestId
                        /\ \A i \in 1..Len(requests) : requests[i] # sending'[t][1].id
                        /\ \A u \in Servers : Busy(u)' /\ u # t =>
                              sending'[u][1].id # sending'[t][1].id
      BY <1>10 DEF ServersSendRuns
    <2>1. CASE t = s
      BY <1>5, <1>8, <1>9, <2>1
    <2>2. CASE t # s
      <3>1. /\ IsRun(sending[t])
            /\ sending[t][1].id < nextRequestId
            /\ \A i \in 1..Len(requests) : requests[i] # sending[t][1].id
            /\ \A u \in Servers : Busy(u) /\ u # t => sending[u][1].id # sending[t][1].id
        BY <1>8 DEF ServersSendRuns
      <3>2. sending[t][1].id # message.id
        BY <1>8, <1>9, <2>2
      <3> QED
        BY <1>5, <1>8, <2>2, <3>1, <3>2
    <2> QED
      BY <2>1, <2>2
  <1>14. RepliesWereRequested'
    <2>1. \A i \in 1..(n + 1) : i \in 1..n \/ i = n + 1
      BY <1>4
    <2>2. \A i \in 1..n : /\ WellFormed(replies[i])
                          /\ replies[i].id < nextRequestId
                          /\ \A j \in 1..Len(requests) : requests[j] # replies[i].id
      BY DEF RepliesWereRequested, n
    <2> QED
      BY <1>3, <1>4, <1>9, <1>10, <2>1, <2>2 DEF RepliesWereRequested
  <1>15. ServersGoOn'
    <2> SUFFICES ASSUME NEW t \in Servers, NEW i \in 1..(n + 1), Busy(t)',
                        replies'[i].id = sending'[t][1].id, IsLast(i)'
                 PROVE  sending'[t][1].chunk = replies'[i].chunk + 1
      BY <1>4 DEF ServersGoOn
    <2>3. \A k \in (i + 1)..(n + 1) : replies'[k].id # replies'[i].id
      BY <1>4 DEF IsLast
    <2>1. CASE i = n + 1
      <3>1. t = s
        BY <1>4, <1>5, <1>8, <1>9, <2>1
      <3> QED
        BY <1>4, <1>8, <2>1, <3>1
    <2>2. CASE i \in 1..n
      <3>1. /\ replies'[i] = replies[i]
            /\ replies[i].id # message.id
            /\ \A k \in (i + 1)..n : replies[k].id # replies[i].id
        <4>1. n + 1 \in (i + 1)..(n + 1)
          BY <1>4, <2>2
        <4>2. \A k \in (i + 1)..n : k \in (i + 1)..(n + 1) /\ k \in 1..n
          BY <1>4, <2>2
        <4> QED
          BY <1>4, <2>2, <2>3, <4>1, <4>2
      <3>2. t # s
        BY <1>8, <3>1
      <3>3. Busy(t) /\ sending'[t] = sending[t]
        BY <1>5, <1>8, <3>2
      <3> QED
        BY <2>2, <3>1, <3>3 DEF ServersGoOn, IsLast, n
    <2> QED
      BY <1>4, <2>1, <2>2
  <1>16. ChunksStayInOrder'
    <2> SUFFICES ASSUME NEW i \in 1..(n + 1), NEW j \in 1..(n + 1), i < j,
                        replies'[j].id = replies'[i].id,
                        \A k \in (i + 1)..(j - 1) : replies'[k].id # replies'[i].id
                 PROVE  replies'[j].chunk = replies'[i].chunk + 1
      BY <1>4 DEF ChunksStayInOrder, IsNext
    <2>1. i \in 1..n /\ replies'[i] = replies[i]
      BY <1>4
    <2>2. \A k \in (i + 1)..(j - 1) : replies[k].id # replies[i].id
      <3>1. \A k \in (i + 1)..(j - 1) : k \in 1..n
        BY <1>4
      <3> QED
        BY <1>4, <2>1, <3>1
    <2>3. CASE j = n + 1
      <3>1. j - 1 = n
        BY <1>4, <2>3
      <3>2. replies[i].id = run[1].id
        BY <1>2, <1>4, <2>1, <2>3
      <3> QED
        BY <1>2, <1>4, <2>1, <2>2, <2>3, <3>1, <3>2 DEF ServersGoOn, IsLast, n, run
    <2>4. CASE j \in 1..n
      <3>1. IsNext(i, j)
        BY <1>4, <2>1, <2>2, <2>4 DEF IsNext
      <3> QED
        BY <1>4, <2>1, <2>4, <3>1 DEF ChunksStayInOrder, n
    <2> QED
      BY <1>4, <2>3, <2>4
  <1>17. PartialCountsUp' /\ AssembledIsComplete'
    BY <1>10 DEF PartialCountsUp, AssembledIsComplete
  <1> QED
    BY <1>11, <1>12, <1>13, <1>14, <1>15, <1>16, <1>17

\* Every step of a server keeps the invariant.
LEMMA ServerStepKeeps == ASSUME IInv, NEW s \in Servers, ServerStep(s) PROVE IInv'
  <1>1. CASE TakeRequest(s)
    BY <1>1, TakeRequestKeeps
  <1>2. CASE PushMessage(s)
    <2>1. /\ Busy(s) /\ replies' = Append(replies, Head(sending[s]))
          /\ sending' = [sending EXCEPT ![s] = IF Len(@) = 1 THEN None ELSE Tail(@)]
          /\ UNCHANGED <<requests, clientVars>>
      BY <1>2 DEF PushMessage, Busy
    <2>2. CASE Len(sending[s]) = 1
      <3>1. sending' = [sending EXCEPT ![s] = None]
        BY <2>1, <2>2
      <3> QED
        BY <2>1, <3>1, PushKeeps
    <2>3. CASE Len(sending[s]) # 1
      <3>1. sending' = [sending EXCEPT ![s] = Tail(@)]
        BY <2>1, <2>3
      <3> QED
        BY <2>1, <2>3, <3>1, PushKeeps
    <2> QED
      BY <2>2, <2>3
  <1>3. CASE PushFails(s)
    BY <1>3, StopKeeps, PushKeeps DEF PushFails, Busy
  <1> QED
    BY <1>1, <1>2, <1>3 DEF ServerStep
-----------------------------------------------------------------------------
\* Whatever the caller and the servers do, the lists and what the client has
\* popped keep to IInv.
THEOREM RepliesInductive == Spec => []IInv
  <1>1. ASSUME IInv, [Next]_vars PROVE IInv'
    <2>1. CASE SendRequest
      BY <1>1, <2>1, SendRequestKeeps
    <2>2. CASE BeginResult
      BY <1>1, <2>2, WaitKeeps
    <2>3. CASE ClientStep
      BY <1>1, <2>3, ReceiveFirstKeeps, ReceiveNextKeeps, ReceiveInvalidKeeps, WaitKeeps
         DEF ClientStep
    <2>4. CASE \E s \in Servers : ServerStep(s)
      BY <1>1, <2>4, ServerStepKeeps
    <2>5. CASE UNCHANGED vars
      <3>1. ListsInv'
        <4>1. outstanding' \in 0..outstanding /\ UNCHANGED Lists
          BY <1>1, <2>5 DEF IInv, TypeOK, vars, Lists
        <4> QED
          BY <1>1, <4>1, ListsKeep
      <3>2. TypeOK' /\ PartialCountsUp' /\ AssembledIsComplete'
        BY <1>1, <2>5 DEF IInv, TypeOK, PartialCountsUp, AssembledIsComplete, vars
      <3> QED
        BY <3>1, <3>2 DEF IInv, ListsInv
    <2> QED
      BY <1>1, <2>1, <2>2, <2>3, <2>4, <2>5 DEF Next
  <1> QED
    BY <1>1, InitHolds, PTL DEF Spec

\* The lists hold messages of the protocol, and the count of outstanding
\* requests is never negative.
THEOREM RepliesTypeCorrect == Spec => []TypeOK
  <1>1. IInv => TypeOK
    BY DEF IInv
  <1> QED
    BY <1>1, RepliesInductive, PTL

\* send_message pushes the chunks of a response one by one: they follow one
\* another in the reply list, however many servers push to it.
THEOREM ChunksAreInOrder == Spec => []ChunksStayInOrder
  <1>1. IInv => ChunksStayInOrder
    BY DEF IInv
  <1> QED
    BY <1>1, RepliesInductive, PTL

\* receive_message hands a response that begins with its first chunk to the
\* serializer with all its chunks, each once.
THEOREM AssembledAreComplete == Spec => []AssembledIsComplete
  <1>1. IInv => AssembledIsComplete
    BY DEF IInv
  <1> QED
    BY <1>1, RepliesInductive, PTL
=============================================================================
