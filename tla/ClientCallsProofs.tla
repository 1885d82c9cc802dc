------------------------- MODULE ClientCallsProofs -------------------------
(***************************************************************************)
(* Theorems about ClientCalls, for every set of services, every set of     *)
(* plans and any number of calls: a call answers each of its jobs with the *)
(* outcome of that job, and a call that had its services to itself is not  *)
(* confused by the responses of another.                                   *)
(***************************************************************************)
EXTENDS ClientCalls, FiniteSetTheorems, SequenceTheorems, TLAPS

\* Ids count up: what may still come, what was received and what a call asked
\* for has an id that was drawn before.
IdsWereDrawn ==
    /\ \A r \in coming : WasSent(r) /\ r[2] < nextRequestId[r[1]]
    /\ \A r \in got : r \notin coming /\ r[2] < nextRequestId[r[1]]
    /\ \A i \in 1..Len(calls) : \A r \in Keys(calls[i]) : r[2] < nextRequestId[r[1]]

\* The services whose responses result() has not left behind.
ToLeave == toVisit \union ({visiting} \ {None})

\* The thread is in the one call that is sending or receiving, and result() of
\* that call only visits services that it sent something to.
OneCallAtATime ==
    /\ \A i \in 1..Len(calls) : calls[i].status \in {"sending", "receiving"} <=> i = current
    /\ \/ current # 0 /\ Call.status = "receiving"
       \/ ToLeave = {} /\ visiting = None /\ got = {} /\ failed = {}
    /\ visiting = None => toVisit = {}
    /\ visiting \notin toVisit
    /\ \A s \in ToLeave : SentTo(Call, s) # {}
    /\ failed # {} => Plan.catch

\* Jobs and keys correspond, one by one.
HasKeys(call) ==
    /\ Len(call.keys) <= Len(call.plan.jobs)
    /\ call.status \notin {"sending", "failed"} => Len(call.keys) = Len(call.plan.jobs)
    /\ \A j \in 1..Len(call.keys) :
        /\ call.keys[j][1] = call.plan.jobs[j]
        /\ ~WasSent(call.keys[j]) => call.plan.catch

JobsHaveKeys == \A i \in 1..Len(calls) : HasKeys(calls[i])

\* What a call returned is not received again.
AnswersAreFinal == \A i \in 1..Len(calls) : calls[i].status = "returned" =>
    \A j \in 1..Len(calls[i].answer) : calls[i].answer[j] \notin coming

Clean(i) == i \notin tainted /\ IsOpen(calls[i])

\* What call i has not yet received of what it sent to a service.
Remaining(i, s) == SentTo(calls[i], s) \ (IF i = current THEN got ELSE {})

\* No other call that is open shares a service with a clean one.
CleanCallsAreAlone == \A i, j \in 1..Len(calls) :
    Clean(i) /\ IsOpen(calls[j]) /\ i # j =>
        \A s \in Services : SentTo(calls[i], s) = {} \/ SentTo(calls[j], s) = {}

\* Nothing but what a clean call still waits for is outstanding at a service of
\* its own or may come from there, and it knows what it waits for.
IsOwed(i) ==
    /\ calls[i].status # "timeout"
    /\ \A s \in Services :
        /\ Remaining(i, s) \subseteq calls[i].expecting
        /\ SentTo(calls[i], s) # {} /\ (calls[i].status = "receiving" => s \in ToLeave) =>
              /\ outstanding[s] = Cardinality(Remaining(i, s))
              /\ \A r \in coming : r[1] = s => r \in Remaining(i, s)
        /\ calls[i].status = "receiving" /\ s \notin ToLeave => Remaining(i, s) \subseteq failed

CleanCallsAreOwed == \A i \in 1..Len(calls) : Clean(i) => IsOwed(i)

IInv ==
    /\ TypeOK
    /\ IdsWereDrawn
    /\ OneCallAtATime
    /\ JobsHaveKeys
    /\ AnswersAreFinal
    /\ AnswersFollowJobs
    /\ CleanCallsAreAlone
    /\ CleanCallsAreOwed
    /\ CleanCallsAreNotConfused

CallType == [plan : Plans, keys : Seq(Requests), expecting : SUBSET Requests,
             status : Statuses, answer : Seq(Requests)]
-----------------------------------------------------------------------------
\* What the type of a call says of its keys.
LEMMA CallsAreTyped ==
    ASSUME TypeOK, NEW i \in 1..Len(calls)
    PROVE  /\ calls \in Seq(CallType)
           /\ calls[i] \in CallType
           /\ calls[i].keys \in Seq(Requests)
           /\ Len(calls[i].keys) \in Nat
           /\ Keys(calls[i]) \subseteq Requests
  <1>1. calls \in Seq(CallType)
    BY DEF TypeOK, CallType
  <1>2. calls[i] \in CallType
    BY <1>1, ElementOfSeq
  <1>3. calls[i].keys \in Seq(Requests)
    BY <1>2 DEF CallType
  <1> QED
    BY <1>1, <1>2, <1>3 DEF Keys

\* A call has finitely many keys.
LEMMA KeysAreFinite ==
    ASSUME TypeOK, NEW i \in 1..Len(calls), NEW s
    PROVE  IsFiniteSet(SentTo(calls[i], s)) /\ IsFiniteSet(Remaining(i, s))
  <1> DEFINE keys == calls[i].keys
  <1>1. keys \in Surjection(1..Len(keys), Keys(calls[i]))
    <2>1. keys \in [1..Len(keys) -> Keys(calls[i])]
      BY CallsAreTyped DEF Keys
    <2> QED
      BY <2>1 DEF Surjection, Keys
  <1>2. IsFiniteSet(1..Len(keys))
    BY CallsAreTyped, 1 \in Int, Len(keys) \in Int, FS_Interval
  <1>3. IsFiniteSet(Keys(calls[i]))
    BY <1>1, <1>2, FS_Surjection
  <1>4. SentTo(calls[i], s) \subseteq Keys(calls[i])
    BY DEF SentTo
  <1>5. IsFiniteSet(SentTo(calls[i], s))
    BY <1>3, <1>4, FS_Subset
  <1>6. Remaining(i, s) \subseteq SentTo(calls[i], s)
    BY DEF Remaining
  <1> QED
    BY <1>5, <1>6, FS_Subset

\* One call is replaced by another of its type.
LEMMA ReplaceCall ==
    ASSUME TypeOK, NEW i \in 1..Len(calls), NEW c \in CallType,
           calls' = [calls EXCEPT ![i] = c]
    PROVE  /\ calls' \in Seq(CallType)
           /\ Len(calls') = Len(calls)
           /\ calls'[i] = c
           /\ \A j \in 1..Len(calls) : j # i => calls'[j] = calls[j]
  BY CallsAreTyped, ExceptSeq

\* Calls with the same keys sent the same requests to each service.
LEMMA SameKeys ==
    ASSUME NEW c, NEW d, d.keys = c.keys
    PROVE  Keys(d) = Keys(c) /\ \A s : SentTo(d, s) = SentTo(c, s)
  BY DEF Keys, SentTo

\* A call that keeps its keys has them, as far as it got.
LEMMA SameKeysHave ==
    ASSUME NEW c, NEW d, HasKeys(c), d.keys = c.keys, d.plan = c.plan,
           d.status \notin {"sending", "failed"} => Len(c.keys) = Len(c.plan.jobs)
    PROVE  HasKeys(d)
  BY DEF HasKeys

\* There are no calls at first.
LEMMA InitHolds == Init => IInv
  BY CallsAssumption DEF Init, IInv, TypeOK, IdsWereDrawn, OneCallAtATime, ToLeave,
     JobsHaveKeys, HasKeys, AnswersAreFinal, AnswersFollowJobs, CleanCallsAreAlone,
     CleanCallsAreOwed, CleanCallsAreNotConfused

\* The invariant is about the variables of the specification.
LEMMA StutterKeeps == ASSUME IInv, UNCHANGED vars PROVE IInv'
  <1> USE DEF vars
  <1>1. TypeOK' /\ IdsWereDrawn'
    BY DEF IInv, TypeOK, IdsWereDrawn
  <1>5. JobsHaveKeys' /\ AnswersAreFinal' /\ AnswersFollowJobs'
    BY DEF IInv, JobsHaveKeys, AnswersAreFinal, AnswersFollowJobs
  <1>2. OneCallAtATime'
    BY DEF IInv, OneCallAtATime, ToLeave, Call, Plan
  <1>3. CleanCallsAreAlone' /\ CleanCallsAreNotConfused'
    BY DEF IInv, CleanCallsAreAlone, CleanCallsAreNotConfused, Clean
  <1>4. CleanCallsAreOwed'
    <2>1. ToLeave' = ToLeave /\ \A i, s : Remaining(i, s)' = Remaining(i, s)
      BY DEF ToLeave, Remaining
    <2>2. \A i : IsOwed(i)' <=> IsOwed(i)
      BY <2>1 DEF IsOwed
    <2> QED
      BY <2>2 DEF IInv, CleanCallsAreOwed, Clean
  <1> QED
    BY <1>1, <1>2, <1>3, <1>4, <1>5 DEF IInv

\* A call that begins has no keys, and is as clean as the caller left it.
LEMMA BeginKeeps == ASSUME IInv, NEW plan \in Plans, Begin(plan) PROVE IInv'
  <1> USE DEF IInv
  <1> DEFINE n == Len(calls)
             new == [plan |-> plan, keys |-> <<>>, expecting |-> {},
                     status |-> "sending", answer |-> <<>>]
  <1>1. /\ calls' = Append(calls, new)
        /\ current' = n + 1
        /\ current = 0
        /\ UNCHANGED <<transport, result, erred, tainted>>
    BY DEF Begin
  <1>2. calls \in Seq(CallType) /\ n \in Nat
    BY DEF TypeOK, CallType
  <1>3. new \in CallType
    BY DEF CallType, Statuses
  <1>4. /\ calls' \in Seq(CallType)
        /\ Len(calls') = n + 1
        /\ calls'[n + 1] = new
        /\ \A i \in 1..n : calls'[i] = calls[i]
    BY <1>1, <1>2, <1>3
  <1> HIDE DEF n
  <1>5. Keys(calls'[n + 1]) = {} /\ \A s : SentTo(calls'[n + 1], s) = {}
    BY <1>4 DEF Keys, SentTo
  <1>6. /\ visiting = None /\ toVisit = {} /\ got = {} /\ failed = {}
        /\ \A i \in 1..n : calls[i].status \notin {"sending", "receiving"}
    BY <1>1, <1>2 DEF OneCallAtATime, n
  <1>7. TypeOK'
    BY <1>1, <1>2, <1>4 DEF TypeOK, CallType, transport, result, n
  <1>8. IdsWereDrawn'
    <2>1. ASSUME NEW i \in 1..(n + 1), NEW r \in Keys(calls'[i])
          PROVE  r[2] < nextRequestId'[r[1]]
      <3>1. i \in 1..n /\ calls'[i] = calls[i]
        <4>1. i # n + 1
          BY <2>1, <1>5, Zenon
        <4> QED
          BY <2>1, <4>1, <1>2, <1>4
      <3> QED
        BY <1>1, <2>1, <3>1 DEF IdsWereDrawn, transport, n
    <2> QED
      BY <1>1, <1>4, <2>1 DEF IdsWereDrawn, transport, result
  <1>9. OneCallAtATime'
    BY <1>1, <1>2, <1>4, <1>6 DEF OneCallAtATime, ToLeave, result
  <1>10. JobsHaveKeys'
    <2>1. plan.jobs \in Seq(Services)
      BY CallsAssumption DEF PossiblePlans
    <2>2. HasKeys(new)
      BY <2>1 DEF HasKeys
    <2> HIDE DEF new
    <2>3. \A i \in 1..(n + 1) : HasKeys(calls'[i])
      BY <1>2, <1>4, <2>2 DEF JobsHaveKeys, n
    <2> QED
      BY <1>4, <2>3 DEF JobsHaveKeys
  <1>11. AnswersAreFinal' /\ AnswersFollowJobs'
    <2>1. \A i \in 1..(n + 1) : calls'[i].status = "returned" => i \in 1..n /\ calls'[i] = calls[i]
      BY <1>2, <1>4
    <2>2. AnswersAreFinal'
      BY <1>1, <1>4, <2>1 DEF AnswersAreFinal, transport, n
    <2>3. AnswersFollowJobs'
      BY <1>1, <1>4, <2>1 DEF AnswersFollowJobs, n
    <2> QED
      BY <2>2, <2>3
  <1>12. CleanCallsAreNotConfused'
    BY <1>1, <1>2, <1>4 DEF CleanCallsAreNotConfused, n
  <1>13. CleanCallsAreAlone'
    <2> SUFFICES ASSUME NEW i \in 1..(n + 1), NEW j \in 1..(n + 1), NEW s \in Services,
                        Clean(i)', IsOpen(calls'[j]), i # j
                 PROVE  SentTo(calls'[i], s) = {} \/ SentTo(calls'[j], s) = {}
      BY <1>4 DEF CleanCallsAreAlone
    <2>1. CASE i = n + 1 \/ j = n + 1
      BY <1>5, <2>1
    <2>2. CASE i \in 1..n /\ j \in 1..n
      BY <1>1, <1>4, <2>2 DEF CleanCallsAreAlone, Clean, n
    <2> QED
      BY <1>2, <2>1, <2>2
  <1>14. CleanCallsAreOwed'
    <2> SUFFICES ASSUME NEW i \in 1..(n + 1), Clean(i)'
                 PROVE  /\ calls'[i].status # "timeout"
                        /\ calls'[i].status # "receiving"
                        /\ \A s \in Services :
                              /\ Remaining(i, s)' \subseteq calls'[i].expecting
                              /\ SentTo(calls'[i], s) # {} =>
                                    /\ outstanding'[s] = Cardinality(Remaining(i, s)')
                                    /\ \A r \in coming' : r[1] = s => r \in Remaining(i, s)'
      BY <1>4 DEF CleanCallsAreOwed, IsOwed
    <2>1. CASE i = n + 1
      <3>1. calls'[i].status = "sending"
        BY <1>4, <2>1
      <3>2. \A s : SentTo(calls'[i], s) = {} /\ Remaining(i, s)' = {}
        BY <1>5, <2>1 DEF Remaining
      <3> QED
        BY <3>1, <3>2
    <2>2. CASE i \in 1..n
      <3>1. Clean(i) /\ calls'[i] = calls[i] /\ i # current /\ i # current'
        BY <1>1, <1>2, <1>4, <2>2 DEF Clean
      <3>2. \A s : Remaining(i, s)' = Remaining(i, s)
        BY <3>1 DEF Remaining
      <3>3. calls[i].status \notin {"sending", "receiving"} /\ IsOwed(i)
        BY <1>1, <1>6, <2>2, <3>1 DEF CleanCallsAreOwed, n
      <3>4. outstanding' = outstanding /\ coming' = coming
        BY <1>1 DEF transport
      <3> HIDE DEF IInv
      <3> QED
        BY <3>1, <3>2, <3>3, <3>4 DEF IsOwed
    <2> QED
      BY <1>2, <2>1, <2>2
  <1> QED
    BY <1>7, <1>8, <1>9, <1>10, <1>11, <1>12, <1>13, <1>14

\* A key more.
LEMMA OneMoreKey ==
    ASSUME NEW c \in CallType, NEW d \in CallType, NEW r \in Requests,
           d.keys = Append(c.keys, r)
    PROVE  /\ d.keys \in Seq(Requests)
           /\ Len(d.keys) = Len(c.keys) + 1
           /\ \A j \in 1..Len(c.keys) : d.keys[j] = c.keys[j]
           /\ d.keys[Len(c.keys) + 1] = r
           /\ Keys(d) = Keys(c) \union {r}
           /\ \A t : SentTo(d, t) = IF WasSent(r) /\ r[1] = t THEN SentTo(c, t) \union {r}
                                   ELSE SentTo(c, t)
  <1> DEFINE n == Len(c.keys)
  <1>1. /\ d.keys \in Seq(Requests)
        /\ Len(d.keys) = n + 1
        /\ \A j \in 1..n : d.keys[j] = c.keys[j]
        /\ d.keys[n + 1] = r
        /\ n \in Nat
    <2>1. c.keys \in Seq(Requests)
      BY DEF CallType
    <2> QED
      BY <2>1, AppendProperties, LenProperties
  <1>2. Keys(d) = Keys(c) \union {r}
    <2>1. 1..(n + 1) = (1..n) \union {n + 1}
      BY <1>1
    <2> HIDE DEF n
    <2> QED
      BY <1>1, <2>1 DEF Keys, n
  <1>3. \A t : SentTo(d, t) = IF WasSent(r) /\ r[1] = t THEN SentTo(c, t) \union {r}
                             ELSE SentTo(c, t)
    BY <1>2 DEF SentTo
  <1> QED
    BY <1>1, <1>2, <1>3

\* What it means for a call not to be tainted by a request.
LEMMA TaintSeparates ==
    ASSUME IInv, IsSending, NEW s \in Services
    PROVE  /\ tainted \subseteq Taint(s)
           /\ Taint(s) \subseteq 1..Len(calls)
           /\ \A i \in 1..Len(calls) : i # current /\ IsOpen(calls[i]) /\ i \notin Taint(s) =>
                 SentTo(calls[i], s) = {}
           /\ current \notin Taint(s) =>
                 /\ outstanding[s] = Cardinality(SentTo(Call, s))
                 /\ \A r \in coming : r[1] = s => r \in SentTo(Call, s)
                 /\ \A i \in 1..Len(calls) : i # current /\ IsOpen(calls[i]) =>
                       SentTo(calls[i], s) = {}
  <1> DEFINE others == {i \in 1..Len(calls) : i # current /\ IsOpen(calls[i])
                                             /\ SentTo(calls[i], s) # {}}
             owed == \/ outstanding[s] # Cardinality(SentTo(Call, s))
                     \/ \E r \in coming : r[1] = s /\ r \notin Keys(Call)
  <1>1. Taint(s) = tainted \union others
                      \union (IF others # {} \/ owed THEN {current} ELSE {})
    BY Zenon DEF Taint
  <1>2. current \in 1..Len(calls) /\ tainted \subseteq 1..Len(calls)
    BY DEF IInv, TypeOK, IsSending
  <1>3. current \notin Taint(s) => others = {} /\ ~owed
    BY <1>1
  <1>4. ASSUME ~owed, NEW r \in coming, r[1] = s
        PROVE  r \in SentTo(Call, s)
    BY <1>4 DEF SentTo, IInv, IdsWereDrawn
  <1> HIDE DEF owed
  <1>5. /\ tainted \subseteq Taint(s)
        /\ Taint(s) \subseteq 1..Len(calls)
    BY <1>1, <1>2
  <1>6. \A i \in 1..Len(calls) : i # current /\ IsOpen(calls[i]) /\ i \notin Taint(s) =>
            SentTo(calls[i], s) = {}
    BY <1>1
  <1>7. ASSUME current \notin Taint(s)
        PROVE  /\ outstanding[s] = Cardinality(SentTo(Call, s))
               /\ \A r \in coming : r[1] = s => r \in SentTo(Call, s)
               /\ \A i \in 1..Len(calls) : i # current /\ IsOpen(calls[i]) =>
                     SentTo(calls[i], s) = {}
    <2>1. others = {} /\ ~owed
      BY <1>3, <1>7
    <2>2. outstanding[s] = Cardinality(SentTo(Call, s))
      BY <2>1 DEF owed
    <2> QED
      BY <1>4, <2>1, <2>2
  <1> QED
    BY <1>5, <1>6, <1>7

\* What is known where a call sends its next request.
LEMMA Sending ==
    ASSUME IInv, IsSending
    PROVE  /\ current \in 1..Len(calls)
           /\ Call \in CallType
           /\ Call.status = "sending"
           /\ NextService \in Services
           /\ nextRequestId[NextService] \in Nat \ {0}
           /\ Len(Call.keys) + 1 <= Len(Plan.jobs)
           /\ NextService = Plan.jobs[Len(Call.keys) + 1]
           /\ visiting = None /\ toVisit = {} /\ ToLeave = {} /\ got = {} /\ failed = {}
  <1>1. current \in 1..Len(calls) /\ Call.status = "sending"
    BY DEF IsSending, IInv, TypeOK
  <1>2. Call \in CallType /\ Len(Call.keys) \in Nat
    BY <1>1, CallsAreTyped DEF IInv, Call
  <1>3. Plan \in Plans
    BY <1>2 DEF CallType, Plan
  <1>4. Plan.jobs \in Seq(Services)
    BY <1>3, CallsAssumption DEF PossiblePlans
  <1>5. Len(Call.keys) + 1 \in 1..Len(Plan.jobs)
    BY <1>2, <1>4, LenProperties DEF IsSending
  <1>6. NextService \in Services
    BY <1>4, <1>5, ElementOfSeq DEF NextService
  <1>7. visiting = None /\ toVisit = {} /\ ToLeave = {} /\ got = {} /\ failed = {}
    BY <1>1 DEF IInv, OneCallAtATime, ToLeave
  <1> QED
    BY <1>1, <1>2, <1>5, <1>6, <1>7 DEF NextService, IInv, TypeOK

\* The next job of the call gets its key: that of a request which was sent, or
\* that of an error.
LEMMA NextKeyKeeps ==
    ASSUME IInv, IsSending, NEW s, s = NextService,
           NEW r, r = <<s, nextRequestId[s]>>, NEW k \in {r, ErrorOf(r)},
           NEW new \in CallType, new.keys = Append(Call.keys, k),
           new.expecting = (IF k = r THEN Call.expecting \union {r} ELSE Call.expecting),
           new.plan = Plan, new.status = Call.status,
           DrawRequestId(s), transportProblem' \in [Services -> BOOLEAN],
           calls' = [calls EXCEPT ![current] = new],
           outstanding' = IF k = r THEN [outstanding EXCEPT ![s] = @ + 1] ELSE outstanding,
           coming' \in {coming, coming \union {r}},
           k # r => Plan.catch /\ (r \in coming' => current \in tainted'),
           Taint(s) \subseteq tainted', tainted' \subseteq 1..Len(calls),
           UNCHANGED <<current, result, erred>>
    PROVE  IInv'
  <1> USE DEF IInv
  <1> DEFINE n == Len(calls)
  <1>1. /\ current \in 1..n /\ current' = current
        /\ Call \in CallType /\ Call = calls[current]
        /\ Call.status = "sending"
        /\ s \in Services
        /\ nextRequestId[s] \in Nat \ {0}
        /\ r \in Requests /\ WasSent(r) /\ r[1] = s /\ r[2] = nextRequestId[s]
        /\ k \in Requests /\ k[1] = s /\ (WasSent(k) <=> k = r) /\ k[2] <= r[2]
    BY Sending DEF Requests, WasSent, ErrorOf, Call
  <1>2. new.status = "sending" /\ new.plan = Call.plan
    BY <1>1 DEF Plan
  <1>3. /\ calls' \in Seq(CallType)
        /\ Len(calls') = n
        /\ calls'[current] = new
        /\ \A i \in 1..n : i # current => calls'[i] = calls[i]
    BY <1>1, ReplaceCall
  <1> HIDE DEF n
  <1>4. /\ Len(new.keys) = Len(Call.keys) + 1
        /\ \A j \in 1..Len(Call.keys) : new.keys[j] = Call.keys[j]
        /\ new.keys[Len(Call.keys) + 1] = k
        /\ Keys(new) = Keys(Call) \union {k}
        /\ \A t : SentTo(new, t) = IF k = r /\ s = t THEN SentTo(Call, t) \union {r}
                                   ELSE SentTo(Call, t)
    <2>1. Call \in CallType /\ new \in CallType /\ k \in Requests
      BY <1>1
    <2>2. /\ Len(new.keys) = Len(Call.keys) + 1
          /\ \A j \in 1..Len(Call.keys) : new.keys[j] = Call.keys[j]
          /\ new.keys[Len(Call.keys) + 1] = k
          /\ Keys(new) = Keys(Call) \union {k}
          /\ \A t : SentTo(new, t) = IF WasSent(k) /\ k[1] = t THEN SentTo(Call, t) \union {k}
                                     ELSE SentTo(Call, t)
      BY <2>1, OneMoreKey
    <2>3. ASSUME NEW t
          PROVE  SentTo(new, t) = IF k = r /\ s = t THEN SentTo(Call, t) \union {r}
                                  ELSE SentTo(Call, t)
      <3>1. CASE k = r
        BY <1>1, <2>2, <3>1
      <3>2. CASE k # r
        BY <1>1, <2>2, <3>2
      <3> QED
        BY <3>1, <3>2
    <2> QED
      BY <2>2, <2>3
  <1>5. /\ nextRequestId'[s] = nextRequestId[s] + 1
        /\ \A t \in Services : t # s => nextRequestId'[t] = nextRequestId[t]
        /\ nextRequestId' \in [Services -> Nat \ {0}]
        /\ \A t \in Services : nextRequestId'[t] >= nextRequestId[t]
    <2>1. nextRequestId \in [Services -> Nat \ {0}]
      BY DEF TypeOK
    <2>2. nextRequestId' = [nextRequestId EXCEPT ![s] = @ + 1]
      BY DEF DrawRequestId
    <2>3. nextRequestId' \in [Services -> Nat \ {0}]
      BY <1>1, <2>1, <2>2
    <2>4. \A t \in Services :
             nextRequestId'[t] = IF t = s THEN nextRequestId[t] + 1 ELSE nextRequestId[t]
      BY <2>1, <2>2
    <2>5. \A t \in Services : nextRequestId[t] \in Int /\ nextRequestId'[t] >= nextRequestId[t]
      BY <2>1, <2>4
    <2> QED
      BY <1>1, <2>3, <2>4, <2>5
  <1>6. /\ visiting = None /\ toVisit = {} /\ got = {} /\ failed = {}
        /\ visiting' = None /\ toVisit' = {} /\ got' = {} /\ failed' = {}
        /\ ToLeave = {} /\ ToLeave' = {}
    BY Sending DEF result, ToLeave
  <1>7. \A i \in 1..n : /\ Keys(calls[i]) \subseteq Requests
                        /\ \A q \in Keys(calls[i]) : q[2] < nextRequestId[q[1]]
    BY CallsAreTyped DEF IdsWereDrawn, n
  <1>8. TypeOK'
    <2>1. outstanding' \in [Services -> Nat] /\ coming' \subseteq Requests
      <3>1. outstanding \in [Services -> Nat] /\ coming \subseteq Requests
        BY DEF TypeOK
      <3>2. [outstanding EXCEPT ![s] = @ + 1] \in [Services -> Nat]
        BY <1>1, <3>1
      <3> QED
        BY <1>1, <3>1, <3>2
    <2>2. calls' \in Seq([plan : Plans, keys : Seq(Requests), expecting : SUBSET Requests,
                          status : Statuses, answer : Seq(Requests)])
      BY <1>3 DEF CallType
    <2> QED
      BY <1>1, <1>3, <1>5, <1>6, <2>1, <2>2 DEF TypeOK, n
  <1>9. IdsWereDrawn'
    <2>1. ASSUME NEW q \in coming' PROVE WasSent(q) /\ q[2] < nextRequestId'[q[1]]
      <3>1. CASE q = r
        BY <1>1, <1>5, <3>1
      <3>2. CASE q \in coming
        <4>1. q \in Requests /\ WasSent(q) /\ q[2] < nextRequestId[q[1]]
          BY <3>2 DEF IdsWereDrawn, TypeOK
        <4> QED
          BY <1>5, <4>1 DEF Requests, TypeOK
      <3> QED
        BY <3>1, <3>2
    <2>2. ASSUME NEW i \in 1..n, NEW q \in Keys(calls'[i]) PROVE q[2] < nextRequestId'[q[1]]
      <3>1. CASE q = k
        BY <1>1, <1>5, <3>1 DEF Requests
      <3>2. CASE q \in Keys(calls[i])
        <4>1. q \in Requests /\ q[2] < nextRequestId[q[1]]
          BY <1>7, <3>2
        <4> QED
          BY <1>5, <4>1 DEF Requests, TypeOK
      <3>3. q = k \/ q \in Keys(calls[i])
        BY <1>1, <1>3, <1>4, <2>2
      <3> QED
        BY <3>1, <3>2, <3>3
    <2> QED
      BY <1>3, <1>6, <2>1, <2>2 DEF IdsWereDrawn
  <1>10. OneCallAtATime'
    BY <1>1, <1>2, <1>3, <1>6 DEF OneCallAtATime, n
  <1>11. JobsHaveKeys'
    <2> SUFFICES ASSUME NEW i \in 1..n
                 PROVE  /\ Len(calls'[i].keys) <= Len(calls'[i].plan.jobs)
                        /\ calls'[i].status \notin {"sending", "failed"} =>
                              Len(calls'[i].keys) = Len(calls'[i].plan.jobs)
                        /\ \A j \in 1..Len(calls'[i].keys) :
                              /\ calls'[i].keys[j][1] = calls'[i].plan.jobs[j]
                              /\ ~WasSent(calls'[i].keys[j]) => calls'[i].plan.catch
      BY <1>3 DEF JobsHaveKeys, HasKeys
    <2>1. CASE i # current
      BY <1>3, <2>1 DEF JobsHaveKeys, HasKeys, n
    <2>2. CASE i = current
      <3>1. /\ Len(Call.keys) \in Nat
            /\ Len(Call.keys) + 1 <= Len(Plan.jobs)
            /\ s = Plan.jobs[Len(Call.keys) + 1]
        BY <1>1, Sending, LenProperties DEF CallType
      <3>2. \A j \in 1..Len(Call.keys) :
               /\ Call.keys[j][1] = Call.plan.jobs[j]
               /\ ~WasSent(Call.keys[j]) => Call.plan.catch
        BY <1>1 DEF JobsHaveKeys, HasKeys, n, Call
      <3>3. ~WasSent(k) => Call.plan.catch
        BY <1>1 DEF Plan
      <3> QED
        <4>1. /\ calls'[i] = new
              /\ new.plan.jobs = Plan.jobs
              /\ new.plan.catch = Call.plan.catch
              /\ Plan.jobs = Call.plan.jobs
              /\ new.status = "sending"
          BY <1>2, <1>3, <2>2 DEF Plan
        <4>2. ASSUME NEW j \in 1..(Len(Call.keys) + 1)
              PROVE  /\ new.keys[j][1] = new.plan.jobs[j]
                     /\ ~WasSent(new.keys[j]) => new.plan.catch
          <5>1. CASE j = Len(Call.keys) + 1
            BY <1>1, <1>4, <3>1, <3>3, <4>1, <5>1
          <5>2. CASE j \in 1..Len(Call.keys)
            BY <1>4, <3>2, <4>1, <5>2
          <5> QED
            BY <3>1, <5>1, <5>2
        <4>3. Len(new.keys) = Len(Call.keys) + 1 /\ Len(new.keys) <= Len(new.plan.jobs)
          BY <1>4, <3>1, <4>1
        <4> QED
          BY <4>1, <4>2, <4>3
    <2> QED
      BY <2>1, <2>2
  <1>12. \A i \in 1..n : calls'[i].status = calls[i].status /\ calls'[i].plan = calls[i].plan /\ IsOpen(calls'[i]) = IsOpen(calls[i])
    BY <1>1, <1>2, <1>3 DEF IsOpen
  <1>13. AnswersFollowJobs' /\ AnswersAreFinal'
    <2>1. ASSUME NEW i \in 1..n, calls'[i].status = "returned"
          PROVE  i # current /\ calls'[i] = calls[i] /\ calls[i].status = "returned"
      BY <1>1, <1>2, <1>3, <2>1
    <2>2. ASSUME NEW i \in 1..n, calls'[i].status = "returned",
                 NEW j \in 1..Len(calls[i].answer)
          PROVE  calls[i].answer[j] \notin coming'
      <3> calls[i].status = "returned"
        BY <2>1, <2>2
      <3>1. calls[i].answer[j] \notin coming
        BY DEF AnswersAreFinal, n
      <3>2. /\ calls[i].answer[j] \in {calls[i].keys[j], ErrorOf(calls[i].keys[j])}
            /\ j \in 1..Len(calls[i].keys)
        BY DEF AnswersFollowJobs, JobsHaveKeys, HasKeys, n
      <3>3. calls[i].keys[j] \in Keys(calls[i])
        BY <3>2 DEF Keys
      <3>4. calls[i].keys[j] # r /\ ErrorOf(calls[i].keys[j]) # r
        BY <1>1, <1>7, <3>3 DEF ErrorOf, Requests, WasSent
      <3> QED
        BY <3>1, <3>2, <3>4
    <2>3. AnswersAreFinal'
      BY <1>3, <2>1, <2>2 DEF AnswersAreFinal
    <2>4. AnswersFollowJobs'
      BY <1>3, <2>1 DEF AnswersFollowJobs, n
    <2> QED
      BY <2>3, <2>4
  <1>14. CleanCallsAreNotConfused'
    BY <1>3, <1>12, TaintSeparates, <1>1 DEF CleanCallsAreNotConfused, n
  <1>15. \A i \in 1..n : Clean(i)' => Clean(i) /\ i \notin Taint(s)
    BY <1>1, <1>12, TaintSeparates DEF Clean
  <1>16. CleanCallsAreAlone'
    <2> SUFFICES ASSUME NEW i \in 1..n, NEW j \in 1..n, Clean(i)', IsOpen(calls'[j]), i # j,
                        NEW t \in Services
                 PROVE  SentTo(calls'[i], t) = {} \/ SentTo(calls'[j], t) = {}
      BY <1>3 DEF CleanCallsAreAlone
    <2>1. /\ Clean(i) /\ i \notin Taint(s) /\ IsOpen(calls[j]) /\ IsOpen(calls[i])
          /\ SentTo(calls[i], t) = {} \/ SentTo(calls[j], t) = {}
      BY <1>12, <1>15 DEF CleanCallsAreAlone, Clean, n
    <2>2. CASE i = current
      <3>1. SentTo(calls[j], s) = {}
        BY <1>1, <2>1, <2>2, TaintSeparates DEF n
      <3> QED
        BY <1>1, <1>3, <1>4, <2>1, <2>2, <3>1
    <2>3. CASE j = current
      <3>1. SentTo(calls[i], s) = {}
        BY <1>1, <2>1, <2>3, TaintSeparates DEF n
      <3> QED
        BY <1>1, <1>3, <1>4, <2>1, <2>3, <3>1
    <2>4. CASE i # current /\ j # current
      BY <1>3, <2>1, <2>4
    <2> QED
      BY <2>2, <2>3, <2>4
  <1>17. CleanCallsAreOwed'
    <2> SUFFICES ASSUME NEW i \in 1..n, Clean(i)'
                 PROVE  /\ calls'[i].status \notin {"timeout", "receiving"}
                        /\ \A t \in Services :
                            /\ Remaining(i, t)' \subseteq calls'[i].expecting
                            /\ SentTo(calls'[i], t) # {} =>
                                /\ outstanding'[t] = Cardinality(Remaining(i, t)')
                                /\ \A q \in coming' : q[1] = t => q \in Remaining(i, t)'
      BY <1>3 DEF CleanCallsAreOwed, IsOwed
    <2>1. Clean(i) /\ i \notin Taint(s) /\ IsOpen(calls[i])
      BY <1>15 DEF Clean
    <2>2. calls'[i].status \notin {"timeout", "receiving"}
      <3>1. calls[i].status # "timeout"
        BY <2>1 DEF CleanCallsAreOwed, IsOwed, n
      <3>2. calls[i].status # "receiving"
        BY <1>1 DEF OneCallAtATime, n
      <3> QED
        BY <1>12, <3>1, <3>2
    <2>3. \A t : Remaining(i, t)' = SentTo(calls'[i], t) /\ Remaining(i, t) = SentTo(calls[i], t)
      BY <1>6 DEF Remaining
    <2>4. ASSUME NEW t \in Services
          PROVE  /\ SentTo(calls[i], t) \subseteq calls[i].expecting
                 /\ SentTo(calls[i], t) # {} =>
                       /\ outstanding[t] = Cardinality(SentTo(calls[i], t))
                       /\ \A q \in coming : q[1] = t => q \in SentTo(calls[i], t)
      <3>1. calls[i].status # "receiving"
        BY <1>12, <2>2
      <3>2. /\ Remaining(i, t) \subseteq calls[i].expecting
            /\ SentTo(calls[i], t) # {} =>
                  /\ outstanding[t] = Cardinality(Remaining(i, t))
                  /\ \A q \in coming : q[1] = t => q \in Remaining(i, t)
        BY <2>1, <3>1 DEF CleanCallsAreOwed, IsOwed, n
      <3> QED
        BY <2>3, <3>2
    <2>5. \A t \in Services : t # s =>
              outstanding'[t] = outstanding[t] /\ \A q \in coming' : q[1] = t => q \in coming
      BY <1>1 DEF TypeOK
    <2>6. CASE i # current
      <3>1. SentTo(calls[i], s) = {} /\ calls'[i] = calls[i]
        BY <1>1, <1>3, <2>1, <2>6, TaintSeparates DEF n
      <3> QED
        BY <2>2, <2>3, <2>4, <2>5, <3>1
    <2>7. CASE i = current
      <3>1. /\ outstanding[s] = Cardinality(SentTo(Call, s))
            /\ \A q \in coming : q[1] = s => q \in SentTo(Call, s)
        BY <1>1, <2>1, <2>7, TaintSeparates
      <3>2. ASSUME NEW t \in Services, t # s
            PROVE  /\ Remaining(i, t)' \subseteq calls'[i].expecting
                   /\ SentTo(calls'[i], t) # {} =>
                        /\ outstanding'[t] = Cardinality(Remaining(i, t)')
                        /\ \A q \in coming' : q[1] = t => q \in Remaining(i, t)'
        <4>1. SentTo(calls'[i], t) = SentTo(calls[i], t)
          BY <1>1, <1>3, <1>4, <2>7, <3>2
        <4>2. calls[i].expecting \subseteq calls'[i].expecting
          BY <1>1, <1>2, <1>3, <2>7
        <4> QED
          BY <2>3, <2>4, <2>5, <3>2, <4>1, <4>2
      <3>3. CASE k = r
        <4>1. SentTo(calls'[i], s) = SentTo(Call, s) \union {r}
          BY <1>1, <1>3, <1>4, <2>7, <3>3
        <4>2. r \notin SentTo(Call, s)
          BY <1>1, <1>7 DEF SentTo
        <4>3. /\ IsFiniteSet(SentTo(Call, s))
              /\ Cardinality(SentTo(Call, s) \union {r}) = Cardinality(SentTo(Call, s)) + 1
          <5>1. IsFiniteSet(SentTo(Call, s))
            BY <1>1, KeysAreFinite DEF n
          <5> QED
            BY <4>2, <5>1, FS_AddElement
        <4>4. outstanding'[s] = outstanding[s] + 1
          BY <1>1, <3>3 DEF TypeOK
        <4>5. SentTo(calls'[i], s) \subseteq calls'[i].expecting
          BY <1>1, <1>2, <1>3, <2>4, <2>7, <3>3, <4>1
        <4>6. \A q \in coming' : q[1] = s => q \in SentTo(calls'[i], s)
          BY <3>1, <4>1
        <4>7. outstanding'[s] = Cardinality(Remaining(i, s)')
          BY <2>3, <3>1, <4>1, <4>3, <4>4
        <4>8. /\ Remaining(i, s)' \subseteq calls'[i].expecting
              /\ \A q \in coming' : q[1] = s => q \in Remaining(i, s)'
          BY <2>3, <4>5, <4>6
        <4> HIDE DEF IInv
        <4> QED
          BY <2>2, <3>2, <4>7, <4>8
      <3>4. CASE k # r
        <4>1. SentTo(calls'[i], s) = SentTo(Call, s)
          BY <1>1, <1>3, <1>4, <2>7, <3>4
        <4>2. r \notin coming'
          BY <1>1, <2>7, <3>4 DEF Clean
        <4>3. calls'[i].expecting = calls[i].expecting
          BY <1>1, <1>2, <1>3, <2>7, <3>4
        <4> QED
          BY <1>1, <2>2, <2>3, <2>4, <2>7, <3>1, <3>2, <3>4, <4>1, <4>2, <4>3
      <3> QED
        BY <3>3, <3>4
    <2> QED
      BY <2>6, <2>7
  <1> QED
    BY <1>8, <1>9, <1>10, <1>11, <1>13, <1>14, <1>16, <1>17

\* Sending a request gives the call its next key.
LEMMA SendRequestKeeps == ASSUME IInv, SendRequest PROVE IInv'
  <1> DEFINE s == NextService
             r == <<s, nextRequestId[s]>>
             new == WithKey(r, Expect(Call.expecting, r))
  <1>1. /\ IsSending /\ Call \in CallType /\ s \in Services
        /\ nextRequestId[s] \in Nat \ {0} /\ Call.status = "sending"
    BY Sending DEF SendRequest
  <1>2. r \in Requests
    BY <1>1 DEF Requests
  <1>3. new \in CallType
    BY <1>1, <1>2, AppendProperties DEF CallType, WithKey, Expect, Plan
  <1>4. /\ new.keys = Append(Call.keys, r)
        /\ new.expecting = Call.expecting \union {r}
        /\ new.plan = Plan /\ new.status = Call.status
    BY <1>1 DEF WithKey, Expect
  <1>5. /\ calls' = [calls EXCEPT ![current] = new]
        /\ DrawRequestId(s)
        /\ outstanding' = [outstanding EXCEPT ![s] = @ + 1]
        /\ coming' = coming \union {r}
        /\ tainted' = Taint(s)
        /\ UNCHANGED <<transportProblem, current, result, erred>>
    BY DEF SendRequest
  <1>6. tainted' \subseteq 1..Len(calls)
    BY <1>1, <1>5, TaintSeparates
  <1>7. transportProblem' \in [Services -> BOOLEAN]
    BY <1>5 DEF IInv, TypeOK
  <1> HIDE DEF s, new
  <1> QED
    BY <1>1, <1>3, <1>4, <1>5, <1>6, <1>7, NextKeyKeeps DEF s

\* What is left to show of a step that changes one call but not its keys.
LEMMA UpdateKeeps ==
    ASSUME IInv, TypeOK', NEW i \in 1..Len(calls), NEW c \in CallType,
           calls' = [calls EXCEPT ![i] = c], c.keys = calls[i].keys, c.plan = calls[i].plan,
           IsOpen(calls[i]), i = current \/ current = 0, current' \in {0, i},
           c.status # "failed" => Len(c.keys) = Len(c.plan.jobs),
           \A t \in Services : t \notin ToLeave => outstanding'[t] = outstanding[t],
           coming' \subseteq coming, got' \subseteq got \union (coming \ coming'),
           erred' \subseteq erred \union coming,
           nextRequestId' = nextRequestId, tainted \subseteq tainted',
           c.status \in {"missing", "unexpected"} => i \in tainted',
           c.status = "returned" =>
              /\ Len(c.answer) = Len(c.plan.jobs)
              /\ \A j \in 1..Len(c.answer) :
                    /\ c.answer[j] = c.keys[j] \/ (c.answer[j] = ErrorOf(c.keys[j]) /\ c.plan.catch)
                    /\ c.plan.raises => c.answer[j] \notin erred'
                    /\ c.answer[j] \notin coming',
           OneCallAtATime', Clean(i)' => IsOwed(i)'
    PROVE  IInv'
  <1> USE DEF IInv
  <1> DEFINE n == Len(calls)
  <1>1. /\ calls' \in Seq(CallType)
        /\ Len(calls') = n
        /\ calls'[i] = c
        /\ \A j \in 1..n : j # i => calls'[j] = calls[j]
    BY ReplaceCall
  <1> HIDE DEF n
  <1>2. /\ Keys(c) = Keys(calls[i])
        /\ \A t : SentTo(c, t) = SentTo(calls[i], t)
    BY DEF Keys, SentTo
  <1>3. \A j \in 1..n : /\ Keys(calls'[j]) = Keys(calls[j])
                        /\ calls'[j].keys = calls[j].keys /\ calls'[j].plan = calls[j].plan
                        /\ \A t : SentTo(calls'[j], t) = SentTo(calls[j], t)
                        /\ IsOpen(calls'[j]) => IsOpen(calls[j])
                        /\ Clean(j)' => Clean(j)
    BY <1>1, <1>2 DEF Clean
  <1>4. IdsWereDrawn'
    <2>1. \A r \in got' : r \notin coming' /\ r[2] < nextRequestId'[r[1]]
      BY DEF IdsWereDrawn
    <2>2. \A j \in 1..n : \A r \in Keys(calls'[j]) : r[2] < nextRequestId'[r[1]]
      BY <1>3 DEF IdsWereDrawn, n
    <2> QED
      BY <1>1, <2>1, <2>2 DEF IdsWereDrawn
  <1>5. JobsHaveKeys'
    <2> SUFFICES ASSUME NEW j \in 1..n PROVE HasKeys(calls'[j])
      BY <1>1 DEF JobsHaveKeys
    <2>1. HasKeys(calls[j])
      BY DEF JobsHaveKeys, n
    <2>2. calls'[j].status \notin {"sending", "failed"} =>
              Len(calls[j].keys) = Len(calls[j].plan.jobs)
      <3>1. CASE j = i
        BY <1>1, <3>1
      <3>2. CASE j # i
        BY <1>1, <2>1, <3>2 DEF HasKeys
      <3> QED
        BY <3>1, <3>2
    <2> QED
      BY <1>3, <2>1, <2>2, SameKeysHave
  <1>6. ASSUME NEW j \in 1..n, calls'[j].status = "returned", NEW k \in 1..Len(calls'[j].answer)
        PROVE  calls'[j].answer[k] \notin coming'
    BY <1>1, <1>6 DEF AnswersAreFinal, n
  <1>7. AnswersAreFinal'
    BY <1>1, <1>6 DEF AnswersAreFinal
  <1>8. AnswersFollowJobs'
    <2>1. ASSUME NEW j \in 1..n, j # i, calls[j].status = "returned"
          PROVE  \A k \in 1..Len(calls[j].answer) :
                    calls[j].plan.raises => calls[j].answer[k] \notin erred'
      BY <2>1 DEF AnswersFollowJobs, AnswersAreFinal, n
    <2>2. c.status = "returned" => \A k \in 1..Len(c.answer) : c.keys[k][1] = c.plan.jobs[k]
      BY <1>1, <1>5 DEF JobsHaveKeys, HasKeys, n
    <2> SUFFICES ASSUME NEW j \in 1..n, calls'[j].status = "returned"
                 PROVE  /\ Len(calls'[j].answer) = Len(calls'[j].plan.jobs)
                        /\ \A k \in 1..Len(calls'[j].answer) :
                            /\ calls'[j].keys[k][1] = calls'[j].plan.jobs[k]
                            /\ \/ calls'[j].answer[k] = calls'[j].keys[k]
                               \/ /\ calls'[j].answer[k] = ErrorOf(calls'[j].keys[k])
                                  /\ calls'[j].plan.catch
                            /\ calls'[j].plan.raises => calls'[j].answer[k] \notin erred'
      BY <1>1 DEF AnswersFollowJobs
    <2>3. CASE j = i
      <3> HIDE DEF IInv
      <3>1. calls'[j] = c
        BY <1>1, <2>3
      <3>2. c.status = "returned" /\ Len(c.answer) = Len(c.plan.jobs)
        BY <3>1
      <3>3. ASSUME NEW k \in 1..Len(c.answer)
            PROVE  /\ c.keys[k][1] = c.plan.jobs[k]
                   /\ \/ c.answer[k] = c.keys[k]
                      \/ /\ c.answer[k] = ErrorOf(c.keys[k])
                         /\ c.plan.catch
                   /\ c.plan.raises => c.answer[k] \notin erred'
        BY <2>2, <3>2
      <3> QED
        BY <3>1, <3>2, <3>3
    <2>4. CASE j # i
      BY <1>1, <2>1, <2>4 DEF AnswersFollowJobs, n
    <2> QED
      BY <2>3, <2>4
  <1>9. CleanCallsAreNotConfused'
    BY <1>1 DEF CleanCallsAreNotConfused, n
  <1>10. CleanCallsAreAlone'
    <2> SUFFICES ASSUME NEW j \in 1..n, NEW k \in 1..n, Clean(j)', IsOpen(calls'[k]), j # k,
                        NEW t \in Services
                 PROVE  SentTo(calls'[j], t) = {} \/ SentTo(calls'[k], t) = {}
      BY <1>1 DEF CleanCallsAreAlone
    <2>1. Clean(j) /\ IsOpen(calls[k])
      BY <1>3
    <2> QED
      BY <1>3, <2>1 DEF CleanCallsAreAlone, n
  <1>11. CleanCallsAreOwed'
    <2> SUFFICES ASSUME NEW j \in 1..n, Clean(j)', j # i
                 PROVE  IsOwed(j)'
      BY <1>1 DEF CleanCallsAreOwed
    <2>1. /\ Clean(j) /\ IsOpen(calls[j]) /\ calls'[j] = calls[j]
          /\ j # current /\ j # current'
      BY <1>1, <1>3 DEF Clean
    <2>2. calls[j].status \notin {"sending", "receiving"}
      BY <2>1 DEF OneCallAtATime, n
    <2>3. \A t : Remaining(j, t) = SentTo(calls[j], t) /\ Remaining(j, t)' = SentTo(calls[j], t)
      BY <2>1 DEF Remaining
    <2>4. ASSUME NEW t \in Services, SentTo(calls[j], t) # {}
          PROVE  outstanding'[t] = outstanding[t]
      <3> SUFFICES ASSUME t \in ToLeave PROVE FALSE
        OBVIOUS
      <3>1. current # 0 /\ i = current /\ SentTo(calls[i], t) # {}
        BY DEF OneCallAtATime, Call
      <3> QED
        BY <2>1, <2>4, <3>1 DEF CleanCallsAreAlone, n
    <2>5. IsOwed(j)
      BY <2>1 DEF CleanCallsAreOwed, n
    <2>6. ASSUME NEW t \in Services
          PROVE  /\ Remaining(j, t)' \subseteq calls'[j].expecting
                 /\ SentTo(calls'[j], t) # {} =>
                      /\ outstanding'[t] = Cardinality(Remaining(j, t)')
                      /\ \A r \in coming' : r[1] = t => r \in Remaining(j, t)'
      <3>1. /\ SentTo(calls[j], t) \subseteq calls[j].expecting
            /\ SentTo(calls[j], t) # {} =>
                 /\ outstanding[t] = Cardinality(SentTo(calls[j], t))
                 /\ \A r \in coming : r[1] = t => r \in SentTo(calls[j], t)
        <4>1. /\ Remaining(j, t) \subseteq calls[j].expecting
              /\ SentTo(calls[j], t) # {} =>
                   /\ outstanding[t] = Cardinality(Remaining(j, t))
                   /\ \A r \in coming : r[1] = t => r \in Remaining(j, t)
          BY <2>2, <2>5 DEF IsOwed
        <4> QED
          BY <2>3, <4>1
      <3> QED
        BY <2>1, <2>3, <2>4, <3>1
    <2>7. calls'[j].status \notin {"timeout", "receiving"}
      BY <2>1, <2>2, <2>5 DEF IsOwed
    <2> QED
      BY <2>6, <2>7 DEF IsOwed
  <1> QED
    BY <1>4, <1>5, <1>7, <1>8, <1>9, <1>10, <1>11

\* A request that is not sent leaves its error to the caller, or to result().
LEMMA SendFailsKeeps == ASSUME IInv, SendFails PROVE IInv'
  <1> USE DEF IInv
  <1> DEFINE s == NextService
             r == <<s, nextRequestId[s]>>
  <1>1. /\ IsSending /\ Call \in CallType /\ s \in Services
        /\ nextRequestId[s] \in Nat \ {0}
        /\ Call.status = "sending" /\ Call = calls[current] /\ current \in 1..Len(calls)
    BY Sending DEF SendFails, Call
  <1>2. /\ r \in Requests /\ ErrorOf(r) \in Requests /\ ErrorOf(r) # r
        /\ r[1] = s /\ r[2] = nextRequestId[s]
    BY <1>1 DEF Requests, ErrorOf
  <1>3. /\ DrawRequestId(s)
        /\ coming' \in {coming, coming \union {r}}
        /\ transportProblem' \in [Services -> BOOLEAN]
        /\ tainted' = Taint(s) \union (IF r \in coming' THEN {current} ELSE {})
        /\ UNCHANGED <<outstanding, result, erred>>
    BY <1>1 DEF SendFails, TypeOK
  <1>4. Taint(s) \subseteq tainted' /\ tainted' \subseteq 1..Len(calls)
    BY <1>1, <1>3, TaintSeparates
  <1>5. CASE Plan.catch
    <2> DEFINE new == WithKey(ErrorOf(r), Call.expecting)
    <2>1. new \in CallType
      BY <1>1, <1>2, AppendProperties DEF CallType, WithKey, Plan
    <2>2. /\ new.keys = Append(Call.keys, ErrorOf(r))
          /\ new.expecting = Call.expecting
          /\ new.plan = Plan /\ new.status = Call.status
      BY <1>1 DEF WithKey
    <2>3. calls' = [calls EXCEPT ![current] = new] /\ current' = current
      BY <1>5 DEF SendFails
    <2> HIDE DEF s, r, new
    <2>4. r \in coming' => current \in tainted'
      BY <1>3
    <2> QED
      BY <1>1, <1>2, <1>3, <1>4, <1>5, <2>1, <2>2, <2>3, <2>4, NextKeyKeeps DEF s, r
  <1>6. CASE ~Plan.catch
    <2> DEFINE n == Len(calls)
               new == [Call EXCEPT !.status = "failed"]
    <2>1. calls' = [calls EXCEPT ![current] = new] /\ current' = 0
      BY <1>1, <1>6, Zenon DEF SendFails, Call
    <2>2. /\ new \in CallType
          /\ new.keys = Call.keys /\ new.plan = Call.plan /\ new.status = "failed"
      BY <1>1 DEF CallType, Statuses
    <2> HIDE DEF new
    <2>3. /\ calls' \in Seq(CallType)
          /\ Len(calls') = n
          /\ calls'[current] = new
          /\ \A i \in 1..n : i # current => calls'[i] = calls[i]
      BY <1>1, <2>1, <2>2, ReplaceCall
    <2> HIDE DEF n
    <2>4. \A t \in Services : nextRequestId'[t] \in Nat /\ nextRequestId[t] \in Nat
                              /\ nextRequestId'[t] >= nextRequestId[t]
                              /\ (t = s => nextRequestId'[t] = nextRequestId[t] + 1)
      <3>1. nextRequestId \in [Services -> Nat \ {0}]
        BY DEF TypeOK
      <3>2. nextRequestId' = [nextRequestId EXCEPT ![s] = @ + 1]
        BY <1>3 DEF DrawRequestId
      <3> HIDE DEF IInv, s
      <3> QED
        BY <1>1, <3>1, <3>2
    <2>5. \A i \in 1..n : /\ calls'[i].keys = calls[i].keys /\ calls'[i].plan = calls[i].plan
                          /\ Keys(calls'[i]) = Keys(calls[i])
                          /\ \A t : SentTo(calls'[i], t) = SentTo(calls[i], t)
                          /\ Keys(calls[i]) \subseteq Requests
      BY <1>1, <2>2, <2>3, SameKeys, CallsAreTyped DEF n
    <2>6. /\ visiting = None /\ toVisit = {} /\ got = {} /\ failed = {}
          /\ visiting' = None /\ toVisit' = {} /\ got' = {} /\ failed' = {}
          /\ ToLeave = {} /\ ToLeave' = {}
      BY <1>1, <1>3, Sending DEF result, ToLeave
    <2>7. TypeOK'
      <3>1. nextRequestId' \in [Services -> Nat \ {0}]
        <4>1. nextRequestId \in [Services -> Nat \ {0}]
          BY DEF TypeOK
        <4>2. nextRequestId' = [nextRequestId EXCEPT ![s] = @ + 1]
          BY <1>3 DEF DrawRequestId
        <4> HIDE DEF IInv, s
        <4> QED
          BY <1>1, <4>1, <4>2
      <3>2. calls' \in Seq([plan : Plans, keys : Seq(Requests), expecting : SUBSET Requests,
                            status : Statuses, answer : Seq(Requests)])
        BY <2>3 DEF CallType
      <3>3. coming' \subseteq Requests
        BY <1>2, <1>3 DEF TypeOK
      <3>4. /\ outstanding' \in [Services -> Nat] /\ erred' \subseteq Requests
            /\ tainted' \subseteq 1..Len(calls') /\ current' \in 0..Len(calls')
        BY <1>1, <1>3, <1>4, <2>1, <2>3 DEF TypeOK, n
      <3> HIDE DEF IInv
      <3> QED
        BY <1>3, <2>6, <3>1, <3>2, <3>3, <3>4 DEF TypeOK
    <2>8. IdsWereDrawn'
      <3>1. ASSUME NEW q \in coming' PROVE WasSent(q) /\ q[2] < nextRequestId'[q[1]]
        <4>1. CASE q = r
          BY <1>1, <1>2, <2>4, <4>1 DEF WasSent
        <4>2. CASE q \in coming
          <5>1. q \in Requests /\ WasSent(q) /\ q[2] < nextRequestId[q[1]]
            BY <4>2 DEF IdsWereDrawn, TypeOK
          <5> QED
            BY <2>4, <5>1 DEF Requests
        <4> QED
          BY <1>3, <4>1, <4>2
      <3>2. ASSUME NEW i \in 1..n, NEW q \in Keys(calls'[i]) PROVE q[2] < nextRequestId'[q[1]]
        <4>1. q \in Requests /\ q[2] < nextRequestId[q[1]]
          BY <2>5, <3>2 DEF IdsWereDrawn, n
        <4> QED
          BY <2>4, <4>1 DEF Requests
      <3> QED
        BY <2>3, <2>6, <3>1, <3>2 DEF IdsWereDrawn
    <2>9. OneCallAtATime'
      BY <1>1, <2>1, <2>2, <2>3, <2>6 DEF OneCallAtATime, n
    <2>10. JobsHaveKeys'
      <3> SUFFICES ASSUME NEW i \in 1..n PROVE HasKeys(calls'[i])
        BY <2>3 DEF JobsHaveKeys
      <3>1. HasKeys(calls[i])
        BY DEF JobsHaveKeys, n
      <3>2. calls'[i].status \notin {"sending", "failed"} =>
                calls[i].status \notin {"sending", "failed"}
        BY <1>1, <2>2, <2>3
      <3>3. calls'[i].status \notin {"sending", "failed"} =>
                Len(calls[i].keys) = Len(calls[i].plan.jobs)
        BY <3>1, <3>2 DEF HasKeys
      <3> QED
        BY <2>5, <3>1, <3>3, SameKeysHave
    <2>11. ASSUME NEW i \in 1..n, calls'[i].status = "returned"
           PROVE  calls'[i] = calls[i] /\ calls[i].status = "returned"
      BY <1>1, <2>2, <2>3, <2>11
    <2>12. AnswersFollowJobs'
      BY <1>3, <2>3, <2>11 DEF AnswersFollowJobs, n
    <2>13. AnswersAreFinal'
      <3> SUFFICES ASSUME NEW i \in 1..n, calls'[i].status = "returned",
                          NEW j \in 1..Len(calls[i].answer)
                   PROVE  calls[i].answer[j] \notin coming'
        BY <2>3, <2>11 DEF AnswersAreFinal
      <3> calls[i].status = "returned"
        BY <2>11
      <3>1. calls[i].answer[j] \notin coming
        BY DEF AnswersAreFinal, n
      <3>2. /\ calls[i].answer[j] \in {calls[i].keys[j], ErrorOf(calls[i].keys[j])}
            /\ j \in 1..Len(calls[i].keys)
        BY DEF AnswersFollowJobs, JobsHaveKeys, HasKeys, n
      <3>3. calls[i].keys[j] \in Keys(calls[i])
        BY <3>2 DEF Keys
      <3>4. /\ calls[i].keys[j] \in Requests
            /\ calls[i].keys[j][2] < nextRequestId[calls[i].keys[j][1]]
        BY <2>5, <3>3 DEF IdsWereDrawn, n
      <3>5. calls[i].keys[j] # r /\ ErrorOf(calls[i].keys[j]) # r
        BY <1>1, <1>2, <3>4 DEF ErrorOf, Requests
      <3> QED
        BY <1>3, <3>1, <3>2, <3>5
    <2>14. CleanCallsAreNotConfused'
      BY <1>1, <1>4, <2>2, <2>3, TaintSeparates DEF CleanCallsAreNotConfused, n
    <2>15. \A i \in 1..n : /\ IsOpen(calls'[i]) => IsOpen(calls[i]) /\ i # current
                           /\ Clean(i)' => Clean(i) /\ i \notin Taint(s)
      BY <1>1, <1>4, <2>2, <2>3, TaintSeparates DEF IsOpen, Clean
    <2>16. CleanCallsAreAlone'
      <3> SUFFICES ASSUME NEW i \in 1..n, NEW j \in 1..n, Clean(i)', IsOpen(calls'[j]), i # j,
                          NEW t \in Services
                   PROVE  SentTo(calls'[i], t) = {} \/ SentTo(calls'[j], t) = {}
        BY <2>3 DEF CleanCallsAreAlone
      <3>1. Clean(i) /\ IsOpen(calls[j])
        BY <2>15
      <3> QED
        BY <2>5, <3>1 DEF CleanCallsAreAlone, n
    <2>17. CleanCallsAreOwed'
      <3> SUFFICES ASSUME NEW i \in 1..n, Clean(i)' PROVE IsOwed(i)'
        BY <2>3 DEF CleanCallsAreOwed
      <3>1. /\ Clean(i) /\ i \notin Taint(s) /\ IsOpen(calls[i]) /\ i # current
            /\ calls'[i] = calls[i] /\ IsOwed(i)
        BY <2>3, <2>15 DEF Clean, CleanCallsAreOwed, n
      <3>2. SentTo(calls[i], s) = {}
        BY <1>1, <3>1, TaintSeparates DEF n
      <3>3. calls[i].status # "receiving"
        BY <3>1 DEF OneCallAtATime, n
      <3>4. \A t : Remaining(i, t) = SentTo(calls[i], t) /\ Remaining(i, t)' = SentTo(calls[i], t)
        BY <2>6, <3>1 DEF Remaining
      <3>5. ASSUME NEW t \in Services
            PROVE  /\ Remaining(i, t)' \subseteq calls'[i].expecting
                   /\ SentTo(calls'[i], t) # {} =>
                        /\ outstanding'[t] = Cardinality(Remaining(i, t)')
                        /\ \A q \in coming' : q[1] = t => q \in Remaining(i, t)'
        <4>1. /\ Remaining(i, t) \subseteq calls[i].expecting
              /\ SentTo(calls[i], t) # {} =>
                   /\ outstanding[t] = Cardinality(Remaining(i, t))
                   /\ \A q \in coming : q[1] = t => q \in Remaining(i, t)
          BY <3>1, <3>3 DEF IsOwed
        <4>2. Remaining(i, t)' = Remaining(i, t) /\ calls'[i] = calls[i]
          BY <3>1, <3>4
        <4>3. t # s => \A q \in coming' : q[1] = t => q \in coming
          BY <1>2, <1>3
        <4> QED
          BY <1>3, <3>2, <4>1, <4>2, <4>3
      <3> QED
        BY <3>1, <3>3, <3>5 DEF IsOwed
    <2> QED
      BY <2>7, <2>8, <2>9, <2>10, <2>12, <2>13, <2>14, <2>16, <2>17
  <1> QED
    BY <1>5, <1>6

\* The services to visit are those of which one is visited next.
LEMMA VisitsAll ==
    ASSUME NEW services \in SUBSET Services, VisitNext(services)
    PROVE  /\ ToLeave' = services
           /\ visiting' \in Services \union {None} /\ toVisit' \subseteq Services
           /\ visiting' = None => toVisit' = {}
           /\ visiting' \notin toVisit'
  <1>1. None \notin Services
    BY CallsAssumption
  <1> QED
    BY <1>1 DEF VisitNext, ToLeave

\* What is known where a call waits for responses.
LEMMA Receiving ==
    ASSUME IInv, current # 0, Call.status = "receiving"
    PROVE  /\ current \in 1..Len(calls)
           /\ Call = calls[current]
           /\ Call \in CallType
           /\ IsOpen(Call)
           /\ Len(Call.keys) = Len(Plan.jobs)
           /\ visiting # None => visiting \in Services /\ visiting \in ToLeave
           /\ current \notin tainted => Clean(current) /\ IsOwed(current)
  <1>1. current \in 1..Len(calls) /\ Call = calls[current]
    BY DEF IInv, TypeOK, Call
  <1>2. Call \in CallType
    BY <1>1, CallsAreTyped DEF IInv
  <1>3. IsOpen(Call)
    BY DEF IsOpen
  <1>4. Len(Call.keys) = Len(Plan.jobs)
    BY <1>1 DEF IInv, JobsHaveKeys, HasKeys, Plan
  <1>5. visiting # None => visiting \in Services /\ visiting \in ToLeave
    BY DEF IInv, TypeOK, ToLeave
  <1> QED
    BY <1>1, <1>2, <1>3, <1>4, <1>5 DEF Clean, IInv, CleanCallsAreOwed

\* A call that receives visits a service.
LEMMA IsReceivingMeans ==
    ASSUME IInv, IsReceiving PROVE current # 0 /\ Call.status = "receiving" /\ visiting # None
  BY DEF IsReceiving, IInv, OneCallAtATime

\* The calls stay typed.
LEMMA UpdateIsTyped ==
    ASSUME TypeOK, NEW i \in 1..Len(calls), NEW c \in CallType, calls' = [calls EXCEPT ![i] = c],
           current' \in {0, i}, nextRequestId' = nextRequestId,
           outstanding' \in [Services -> Nat], transportProblem' \in [Services -> BOOLEAN],
           coming' \subseteq coming, visiting' \in Services \union {None},
           toVisit' \subseteq Services, got' \subseteq Requests, failed' \subseteq Requests,
           erred' \subseteq Requests, tainted' \subseteq 1..Len(calls)
    PROVE  TypeOK'
  <1>1. Len(calls') = Len(calls) /\ calls' \in Seq(CallType)
    BY ReplaceCall
  <1>2. calls' \in Seq([plan : Plans, keys : Seq(Requests), expecting : SUBSET Requests,
                        status : Statuses, answer : Seq(Requests)])
    BY <1>1 DEF CallType
  <1>3. coming' \subseteq Requests /\ current' \in 0..Len(calls')
    BY <1>1 DEF TypeOK
  <1> QED
    BY <1>1, <1>2, <1>3 DEF TypeOK

\* result() ends, one way or the other.
LEMMA EndKeeps ==
    ASSUME IInv, current # 0, Call.status = "receiving",
           NEW c \in CallType, c.keys = Call.keys, c.plan = Call.plan,
           c.status \notin {"sending", "future", "receiving"},
           calls' = [calls EXCEPT ![current] = c], current' = 0, Forget,
           \A t \in Services : t \notin ToLeave => outstanding'[t] = outstanding[t],
           outstanding' \in [Services -> Nat], transportProblem' \in [Services -> BOOLEAN],
           coming' \subseteq coming, erred' = erred, nextRequestId' = nextRequestId,
           tainted \subseteq tainted', tainted' \subseteq 1..Len(calls),
           c.status \in {"timeout", "missing", "unexpected"} => current \in tainted',
           c.status = "returned" =>
              /\ Len(c.answer) = Len(c.plan.jobs)
              /\ \A j \in 1..Len(c.answer) :
                    /\ c.answer[j] = c.keys[j] \/ (c.answer[j] = ErrorOf(c.keys[j]) /\ c.plan.catch)
                    /\ c.plan.raises => c.answer[j] \notin erred
                    /\ c.answer[j] \notin coming'
    PROVE  IInv'
  <1>1. /\ current \in 1..Len(calls) /\ Call = calls[current] /\ IsOpen(Call)
        /\ Len(Call.keys) = Len(Plan.jobs) /\ Plan = Call.plan
    BY Receiving DEF Plan
  <1>2. visiting' = None /\ toVisit' = {} /\ got' = {} /\ failed' = {} /\ ToLeave' = {}
    BY DEF Forget, ToLeave
  <1>3. TypeOK'
    <2>1. TypeOK /\ erred \subseteq Requests
      BY DEF IInv, TypeOK
    <2> QED
      BY <1>1, <1>2, <2>1, UpdateIsTyped
  <1>4. /\ Len(calls') = Len(calls) /\ calls'[current] = c
        /\ \A j \in 1..Len(calls) : j # current => calls'[j] = calls[j]
    BY <1>1, ReplaceCall DEF IInv
  <1>5. OneCallAtATime'
    BY <1>1, <1>2, <1>4 DEF OneCallAtATime, IInv
  <1>6. PICK i \in 1..Len(calls) : i = current
    BY <1>1
  <1>7. ~Clean(i)'
    BY <1>4, <1>6 DEF Clean, IsOpen
  <1>8. got' \subseteq got \union (coming \ coming') /\ erred' \subseteq erred \union coming
    BY <1>2
  <1>9. c.status # "failed" => Len(c.keys) = Len(c.plan.jobs)
    BY <1>1
  <1>10. /\ c.keys = calls[i].keys /\ c.plan = calls[i].plan
         /\ IsOpen(calls[i]) /\ current' \in {0, i} /\ calls' = [calls EXCEPT ![i] = c]
    BY <1>1, <1>6
  <1> QED
    BY <1>3, <1>5, <1>6, <1>7, <1>8, <1>9, <1>10, UpdateKeeps

\* A service is left behind.
LEMMA LeaveKeeps ==
    ASSUME IInv, IsReceiving, VisitNext(toVisit),
           UNCHANGED <<nextRequestId, coming, calls, current, got, erred, tainted>>,
           outstanding' \in [Services -> Nat], transportProblem' \in [Services -> BOOLEAN],
           \A t \in Services : t # visiting => outstanding'[t] = outstanding[t],
           failed \subseteq failed', failed' \subseteq Requests,
           failed' # {} => Plan.catch,
           current \notin tainted => Remaining(current, visiting) \subseteq failed'
    PROVE  IInv'
  <1> USE DEF IInv
  <1>1. current # 0 /\ Call.status = "receiving" /\ visiting # None
    BY IsReceivingMeans
  <1>2. /\ current \in 1..Len(calls) /\ Call = calls[current] /\ IsOpen(Call)
        /\ Call \in CallType /\ Len(Call.keys) = Len(Plan.jobs) /\ Plan = Call.plan
        /\ current \notin tainted => IsOwed(current)
        /\ visiting \in Services /\ visiting \in ToLeave
    BY <1>1, Receiving DEF Plan
  <1>3. /\ ToLeave' = toVisit /\ visiting' \in Services \union {None} /\ toVisit' \subseteq Services
        /\ visiting' = None => toVisit' = {}
        /\ visiting' \notin toVisit'
        /\ ToLeave' \subseteq ToLeave
        /\ \A s \in ToLeave : s \in ToLeave' \/ s = visiting
        /\ visiting \notin ToLeave'
    <2>1. toVisit \in SUBSET Services
      BY DEF TypeOK
    <2>2. visiting \notin toVisit /\ toVisit \subseteq ToLeave
      BY DEF OneCallAtATime, ToLeave
    <2>3. \A s \in ToLeave : s \in toVisit \/ s = visiting
      BY DEF ToLeave
    <2> QED
      BY <2>1, <2>2, <2>3, VisitsAll
  <1>4. TypeOK'
    BY <1>2, <1>3 DEF TypeOK
  <1>5. OneCallAtATime'
    <2>1. Call' = Call /\ Plan' = Plan
      BY DEF Call, Plan
    <2> QED
      BY <1>1, <1>3, <2>1 DEF OneCallAtATime
  <1>6. Clean(current)' => IsOwed(current)'
    <2> SUFFICES ASSUME current \notin tainted PROVE IsOwed(current)'
      BY DEF Clean
    <2>1. \A t : Remaining(current, t)' = Remaining(current, t)
      BY DEF Remaining
    <2>2. IsOwed(current)
      BY <1>2
    <2>3. ASSUME NEW s \in Services
          PROVE  /\ Remaining(current, s)' \subseteq calls'[current].expecting
                 /\ s \in ToLeave' =>
                      /\ outstanding'[s] = outstanding[s]
                      /\ s \in ToLeave
                 /\ s \notin ToLeave' => Remaining(current, s)' \subseteq failed'
      <3>1. CASE s = visiting
        BY <1>2, <1>3, <2>1, <2>2, <3>1 DEF IsOwed
      <3>2. CASE s # visiting
        BY <1>1, <1>2, <1>3, <2>1, <2>2, <3>2 DEF IsOwed
      <3> QED
        BY <3>1, <3>2
    <2> QED
      BY <1>1, <1>2, <2>1, <2>2, <2>3 DEF IsOwed
  <1>7. PICK i \in 1..Len(calls), c \in CallType : i = current /\ c = Call
    BY <1>2
  <1>8. /\ calls' = [calls EXCEPT ![i] = c]
        /\ c.keys = calls[i].keys /\ c.plan = calls[i].plan /\ IsOpen(calls[i])
        /\ current' \in {0, i} /\ Len(c.keys) = Len(c.plan.jobs)
        /\ c.status = "receiving"
    BY <1>1, <1>2, <1>7, CallsAreTyped
  <1>9. \A t \in Services : t \notin ToLeave => outstanding'[t] = outstanding[t]
    BY <1>2
  <1>10. Clean(i)' => IsOwed(i)'
    BY <1>6, <1>7
  <1> QED
    BY <1>4, <1>5, <1>7, <1>8, <1>9, <1>10, UpdateKeeps

\* The call is a future; what it is owed stays as it is.
LEMMA ReturnFutureKeeps == ASSUME IInv, ReturnFuture PROVE IInv'
  <1> USE DEF IInv
  <1>1. /\ current \in 1..Len(calls) /\ Call = calls[current] /\ Call \in CallType
        /\ Call.status = "sending" /\ IsOpen(Call)
        /\ current' = 0 /\ UNCHANGED <<transport, result, erred, tainted>>
        /\ Len(Call.keys) = Len(Call.plan.jobs)
    BY CallsAreTyped DEF ReturnFuture, TypeOK, Call, IsOpen, Plan
  <1>2. PICK i \in 1..Len(calls), c \in CallType :
            i = current /\ c = [calls[i] EXCEPT !.status = "future"]
    BY <1>1 DEF CallType, Statuses
  <1>3. /\ calls' = [calls EXCEPT ![i] = c]
        /\ c.keys = calls[i].keys /\ c.plan = calls[i].plan
        /\ c.expecting = calls[i].expecting /\ c.status = "future"
    <2>1. calls[i] \in CallType
      BY <1>1, <1>2
    <2>2. calls' = [calls EXCEPT ![i].status = "future"]
      BY <1>2 DEF ReturnFuture
    <2> QED
      BY <1>2, <2>1, <2>2 DEF CallType
  <1>4. /\ visiting = None /\ toVisit = {} /\ got = {} /\ failed = {}
        /\ visiting' = None /\ toVisit' = {} /\ got' = {} /\ failed' = {}
        /\ ToLeave = {} /\ ToLeave' = {}
    BY <1>1 DEF OneCallAtATime, ToLeave, result
  <1>5. /\ Len(calls') = Len(calls) /\ calls'[i] = c
        /\ \A j \in 1..Len(calls) : j # i => calls'[j] = calls[j]
    BY <1>3, ReplaceCall
  <1>6. TypeOK'
    <2>1. /\ outstanding \in [Services -> Nat] /\ transportProblem \in [Services -> BOOLEAN]
          /\ erred \subseteq Requests /\ tainted \subseteq 1..Len(calls)
      BY DEF TypeOK
    <2> QED
      BY <1>1, <1>2, <1>3, <1>4, <2>1, UpdateIsTyped DEF transport
  <1>7. OneCallAtATime'
    BY <1>1, <1>2, <1>3, <1>4, <1>5 DEF OneCallAtATime
  <1>8. Clean(i)' => IsOwed(i)'
    <2> SUFFICES ASSUME i \notin tainted PROVE IsOwed(i)'
      BY <1>1 DEF Clean
    <2>1. IsOwed(i)
      BY <1>1, <1>2 DEF CleanCallsAreOwed, Clean
    <2>2. \A t : SentTo(c, t) = SentTo(calls[i], t)
      BY <1>3, SameKeys
    <2>3. \A t : Remaining(i, t) = SentTo(calls[i], t) /\ Remaining(i, t)' = SentTo(calls[i], t)
      BY <1>4, <1>5, <2>2 DEF Remaining
    <2>4. ASSUME NEW t \in Services
          PROVE  /\ Remaining(i, t)' \subseteq calls'[i].expecting
                 /\ SentTo(calls'[i], t) # {} =>
                      /\ outstanding'[t] = Cardinality(Remaining(i, t)')
                      /\ \A r \in coming' : r[1] = t => r \in Remaining(i, t)'
      <3>1. Remaining(i, t)' = Remaining(i, t) /\ SentTo(calls'[i], t) = SentTo(calls[i], t)
        BY <1>5, <2>2, <2>3
      <3>2. calls[i].status = "sending"
        BY <1>1, <1>2
      <3> QED
        BY <1>1, <1>3, <1>5, <2>1, <3>1, <3>2 DEF IsOwed, transport
    <2>5. calls'[i].status = "future"
      BY <1>3, <1>5
    <2> QED
      BY <2>4, <2>5 DEF IsOwed
  <1>9. /\ IsOpen(calls[i]) /\ current' \in {0, i} /\ Len(c.keys) = Len(c.plan.jobs)
        /\ \A t \in Services : outstanding'[t] = outstanding[t]
        /\ coming' \subseteq coming /\ got' = {} /\ erred' = erred
        /\ nextRequestId' = nextRequestId /\ tainted' = tainted
    BY <1>1, <1>2, <1>3, <1>4 DEF transport
  <1> QED
    BY <1>2, <1>3, <1>6, <1>7, <1>8, <1>9, UpdateKeeps

\* result() has every service of the call to visit.
LEMMA BeginResultKeeps == ASSUME IInv, NEW i \in 1..Len(calls), BeginResult(i) PROVE IInv'
  <1> USE DEF IInv
  <1> DEFINE services == {r[1] : r \in {q \in Keys(calls[i]) : WasSent(q)}}
  <1>1. /\ calls[i] \in CallType /\ Keys(calls[i]) \subseteq Requests
        /\ calls[i].status \in {"future", "timeout"} /\ IsOpen(calls[i])
        /\ current = 0 /\ current' = i /\ VisitNext(services)
        /\ UNCHANGED <<transport, got, failed, erred, tainted>>
        /\ Len(calls[i].keys) = Len(calls[i].plan.jobs)
    BY CallsAreTyped DEF BeginResult, IsOpen, JobsHaveKeys, HasKeys
  <1>2. services \in SUBSET Services
    BY <1>1 DEF Requests
  <1>3. \A t : t \in services <=> SentTo(calls[i], t) # {}
    BY DEF SentTo
  <1> HIDE DEF services
  <1>4. /\ ToLeave' = services
        /\ visiting' \in Services \union {None} /\ toVisit' \subseteq Services
        /\ visiting' = None => toVisit' = {}
        /\ visiting' \notin toVisit'
    BY <1>1, <1>2, VisitsAll
  <1>5. PICK c \in CallType : c = [calls[i] EXCEPT !.status = "receiving"]
    BY <1>1 DEF CallType, Statuses
  <1>6. /\ calls' = [calls EXCEPT ![i] = c]
        /\ c.keys = calls[i].keys /\ c.plan = calls[i].plan
        /\ c.expecting = calls[i].expecting /\ c.status = "receiving"
    <2>1. calls' = [calls EXCEPT ![i].status = "receiving"]
      BY DEF BeginResult
    <2> QED
      BY <1>1, <1>5, <2>1 DEF CallType
  <1>7. /\ Len(calls') = Len(calls) /\ calls'[i] = c
        /\ \A j \in 1..Len(calls) : j # i => calls'[j] = calls[j]
    BY <1>6, ReplaceCall
  <1>8. got = {} /\ failed = {} /\ got' = {} /\ failed' = {} /\ ToLeave = {}
    BY <1>1 DEF OneCallAtATime
  <1>9. TypeOK'
    <2>1. /\ outstanding \in [Services -> Nat] /\ transportProblem \in [Services -> BOOLEAN]
          /\ erred \subseteq Requests /\ tainted \subseteq 1..Len(calls)
      BY DEF TypeOK
    <2> QED
      BY <1>1, <1>4, <1>6, <1>8, <2>1, UpdateIsTyped DEF transport
  <1>10. \A t : SentTo(c, t) = SentTo(calls[i], t)
    BY <1>6, SameKeys
  <1>11. OneCallAtATime'
    <2>1. Call' = c /\ current' = i /\ i # 0
      BY <1>1, <1>7 DEF Call
    <2>2. \A s \in ToLeave' : SentTo(Call', s) # {}
      BY <1>3, <1>4, <1>10, <2>1
    <2>3. \A j \in 1..Len(calls') : calls'[j].status \in {"sending", "receiving"} <=> j = current'
      BY <1>1, <1>6, <1>7 DEF OneCallAtATime
    <2> QED
      BY <1>4, <1>6, <1>8, <2>1, <2>2, <2>3 DEF OneCallAtATime
  <1>12. Clean(i)' => IsOwed(i)'
    <2> SUFFICES ASSUME i \notin tainted PROVE IsOwed(i)'
      BY <1>1 DEF Clean
    <2>1. IsOwed(i) /\ calls[i].status = "future"
      BY <1>1 DEF CleanCallsAreOwed, Clean, IsOwed
    <2>2. \A t : Remaining(i, t) = SentTo(calls[i], t) /\ Remaining(i, t)' = SentTo(calls[i], t)
      BY <1>7, <1>8, <1>10 DEF Remaining
    <2>3. ASSUME NEW t \in Services
          PROVE  /\ Remaining(i, t)' \subseteq calls'[i].expecting
                 /\ SentTo(calls'[i], t) # {} =>
                      /\ t \in ToLeave'
                      /\ outstanding'[t] = Cardinality(Remaining(i, t)')
                      /\ \A r \in coming' : r[1] = t => r \in Remaining(i, t)'
                 /\ t \notin ToLeave' => Remaining(i, t)' \subseteq failed'
      <3>1. Remaining(i, t)' = Remaining(i, t) /\ SentTo(calls'[i], t) = SentTo(calls[i], t)
            /\ calls'[i].expecting = calls[i].expecting
        BY <1>6, <1>7, <1>10, <2>2
      <3>2. t \notin ToLeave' => Remaining(i, t)' = {}
        BY <1>3, <1>4, <2>2
      <3>3. SentTo(calls[i], t) # {} => t \in ToLeave'
        BY <1>3, <1>4
      <3> QED
        BY <1>1, <2>1, <3>1, <3>2, <3>3 DEF IsOwed, transport
    <2>4. calls'[i].status = "receiving"
      BY <1>6, <1>7
    <2> QED
      BY <2>3, <2>4 DEF IsOwed
  <1>13. /\ Len(c.keys) = Len(c.plan.jobs)
         /\ \A t \in Services : outstanding'[t] = outstanding[t]
         /\ coming' = coming /\ got' = {} /\ erred' = erred
         /\ nextRequestId' = nextRequestId /\ tainted' = tainted
    BY <1>1, <1>6, <1>8 DEF transport
  <1> QED
    BY <1>1, <1>6, <1>9, <1>11, <1>12, <1>13, UpdateKeeps

\* A response that the call may have asked for is received.
LEMMA ReceiveKeeps == ASSUME IInv, NEW r \in coming, Receive(r) PROVE IInv'
  <1> USE DEF IInv
  <1>1. /\ IsReceiving /\ IsBlocked /\ r[1] = visiting /\ r \in Requests
        /\ outstanding' = [outstanding EXCEPT ![visiting] = @ - 1]
        /\ coming' = coming \ {r} /\ got' = got \union {r}
        /\ erred' \in {erred, erred \union {r}}
        /\ UNCHANGED <<nextRequestId, transportProblem, current, visiting, toVisit, failed, tainted>>
    BY DEF Receive, Pop, IsBlocked, TypeOK
  <1>2. current # 0 /\ Call.status = "receiving" /\ visiting # None
    BY <1>1, IsReceivingMeans
  <1>3. /\ current \in 1..Len(calls) /\ Call = calls[current] /\ IsOpen(Call)
        /\ Call \in CallType /\ Len(Call.keys) = Len(Plan.jobs) /\ Plan = Call.plan
        /\ current \notin tainted => IsOwed(current)
        /\ visiting \in Services /\ visiting \in ToLeave
    BY <1>2, Receiving DEF Plan
  <1>4. PICK i \in 1..Len(calls), c \in CallType :
            /\ i = current
            /\ c = [Call EXCEPT !.expecting = IF Plan.catch THEN @ \ {r} ELSE @]
    BY <1>3 DEF CallType
  <1>5. /\ calls' = [calls EXCEPT ![i] = c]
        /\ c.keys = calls[i].keys /\ c.plan = calls[i].plan /\ c.status = "receiving"
        /\ calls[i].expecting \ {r} \subseteq c.expecting
    <2>1. calls' = [calls EXCEPT ![i] = c]
      <3>1. calls' = [calls EXCEPT ![current] =
                        [calls[current] EXCEPT !.expecting = IF Plan.catch THEN @ \ {r} ELSE @]]
        BY Zenon DEF Receive
      <3> QED
        BY <1>3, <1>4, <3>1, Zenon
    <2>2. /\ c.keys = Call.keys /\ c.plan = Call.plan /\ c.status = Call.status
          /\ c.expecting = IF Plan.catch THEN Call.expecting \ {r} ELSE Call.expecting
      BY <1>3, <1>4 DEF CallType
    <2> QED
      BY <1>2, <1>3, <1>4, <2>1, <2>2
  <1>6. /\ Len(calls') = Len(calls) /\ calls'[i] = c
        /\ \A j \in 1..Len(calls) : j # i => calls'[j] = calls[j]
    BY <1>5, ReplaceCall
  <1>7. outstanding' \in [Services -> Nat] /\ outstanding[visiting] \in Nat \ {0}
        /\ outstanding'[visiting] = outstanding[visiting] - 1
    <2>1. outstanding \in [Services -> Nat] /\ outstanding[visiting] > 0
      BY <1>1 DEF TypeOK, IsBlocked
    <2> QED
      BY <1>1, <1>3, <2>1
  <1>8. TypeOK'
    <2>1. /\ transportProblem \in [Services -> BOOLEAN]
          /\ visiting \in Services \union {None} /\ toVisit \subseteq Services
          /\ got \subseteq Requests /\ failed \subseteq Requests
          /\ erred \subseteq Requests /\ tainted \subseteq 1..Len(calls)
      BY DEF TypeOK
    <2>2. /\ current' \in {0, i} /\ got' \subseteq Requests /\ erred' \subseteq Requests
          /\ coming' \subseteq coming
      BY <1>1, <1>4, <2>1
    <2> QED
      BY <1>1, <1>5, <1>7, <2>1, <2>2, UpdateIsTyped
  <1>9. \A t : SentTo(c, t) = SentTo(calls[i], t)
    BY <1>5, SameKeys
  <1>10. ToLeave' = ToLeave
    BY <1>1 DEF ToLeave
  <1>11. OneCallAtATime'
    <2>1. Call' = c /\ Plan' = Plan
      BY <1>1, <1>3, <1>4, <1>5, <1>6 DEF Call, Plan
    <2>2. \A j \in 1..Len(calls') : calls'[j].status \in {"sending", "receiving"} <=> j = current'
      BY <1>1, <1>2, <1>3, <1>4, <1>5, <1>6 DEF OneCallAtATime
    <2>3. \A s \in ToLeave' : SentTo(Call', s) # {}
      BY <1>3, <1>4, <1>9, <1>10, <2>1 DEF OneCallAtATime
    <2> QED
      BY <1>1, <1>2, <1>4, <1>5, <2>1, <2>2, <2>3 DEF OneCallAtATime
  <1>12. Clean(i)' => IsOwed(i)'
    <2> SUFFICES ASSUME i \notin tainted PROVE IsOwed(i)'
      BY <1>1 DEF Clean
    <2>1. IsOwed(i)
      BY <1>3, <1>4
    <2>2. \A t : Remaining(i, t)' = Remaining(i, t) \ {r}
      BY <1>1, <1>4, <1>6, <1>9 DEF Remaining
    <2>3. SentTo(calls[i], visiting) # {}
      BY <1>3, <1>4 DEF OneCallAtATime
    <2>4. r \in Remaining(i, visiting)
      BY <1>1, <1>2, <1>3, <1>4, <2>1, <2>3 DEF IsOwed
    <2>5. ASSUME NEW t \in Services
          PROVE  /\ Remaining(i, t)' \subseteq calls'[i].expecting
                 /\ SentTo(calls'[i], t) # {} /\ t \in ToLeave' =>
                      /\ outstanding'[t] = Cardinality(Remaining(i, t)')
                      /\ \A q \in coming' : q[1] = t => q \in Remaining(i, t)'
                 /\ t \notin ToLeave' => Remaining(i, t)' \subseteq failed'
      <3>1. /\ Remaining(i, t)' \subseteq calls'[i].expecting
            /\ t \notin ToLeave' => Remaining(i, t)' \subseteq failed'
        BY <1>1, <1>2, <1>3, <1>4, <1>5, <1>6, <1>10, <2>1, <2>2 DEF IsOwed
      <3>2. ASSUME SentTo(calls'[i], t) # {}, t \in ToLeave'
            PROVE  /\ outstanding[t] = Cardinality(Remaining(i, t))
                   /\ \A q \in coming' : q[1] = t => q \in Remaining(i, t)'
        <4>1. SentTo(calls[i], t) # {} /\ t \in ToLeave
          BY <1>6, <1>9, <1>10, <3>2
        <4> QED
          BY <1>1, <2>1, <2>2, <4>1 DEF IsOwed
      <3>3. ASSUME t = visiting, outstanding[t] = Cardinality(Remaining(i, t))
            PROVE  outstanding'[t] = Cardinality(Remaining(i, t)')
        <4>1. IsFiniteSet(Remaining(i, t))
          BY KeysAreFinite
        <4>2. Cardinality(Remaining(i, t) \ {r}) = Cardinality(Remaining(i, t)) - 1
          BY <2>4, <3>3, <4>1, FS_RemoveElement
        <4> QED
          BY <1>7, <2>2, <3>3, <4>2
      <3>4. ASSUME t # visiting
            PROVE  Remaining(i, t)' = Remaining(i, t) /\ outstanding'[t] = outstanding[t]
        <4>1. r \notin Remaining(i, t)
          BY <1>1, <3>4 DEF Remaining, SentTo
        <4>2. Remaining(i, t)' = Remaining(i, t)
          BY <2>2, <4>1
        <4>3. outstanding \in [Services -> Nat]
          BY DEF TypeOK
        <4> QED
          BY <1>1, <3>4, <4>2, <4>3
      <3> QED
        BY <3>1, <3>2, <3>3, <3>4
    <2>6. calls'[i].status = "receiving"
      BY <1>5, <1>6
    <2> QED
      BY <2>5, <2>6 DEF IsOwed
  <1>13. /\ IsOpen(calls[i]) /\ current' \in {0, i} /\ Len(c.keys) = Len(c.plan.jobs)
         /\ \A t \in Services : t \notin ToLeave => outstanding'[t] = outstanding[t]
         /\ coming' \subseteq coming /\ got' \subseteq got \union (coming \ coming')
         /\ erred' \subseteq erred \union coming
    BY <1>1, <1>3, <1>4, <1>5 DEF TypeOK
  <1> QED
    BY <1>1, <1>4, <1>5, <1>8, <1>11, <1>12, <1>13, UpdateKeeps

\* A response that the call did not ask for: a clean call has no such.
LEMMA ReceiveForeignKeeps == ASSUME IInv, NEW r \in coming, ReceiveForeign(r) PROVE IInv'
  <1> USE DEF IInv
  <1>1. /\ IsReceiving /\ IsBlocked /\ r[1] = visiting
        /\ outstanding' = [outstanding EXCEPT ![visiting] = @ - 1]
        /\ coming' = coming \ {r} /\ r \notin Call.expecting
        /\ calls' = [calls EXCEPT ![current].status = "unexpected"]
        /\ current' = 0 /\ Forget
        /\ UNCHANGED <<nextRequestId, transportProblem, erred, tainted>>
    BY DEF ReceiveForeign, Pop, IsBlocked, IsForeign, EndResult
  <1>2. current # 0 /\ Call.status = "receiving" /\ visiting # None
    BY <1>1, IsReceivingMeans
  <1>3. /\ current \in 1..Len(calls) /\ Call = calls[current] /\ IsOpen(Call)
        /\ Call \in CallType
        /\ current \notin tainted => IsOwed(current)
        /\ visiting \in Services /\ visiting \in ToLeave
    BY <1>2, Receiving
  <1>4. outstanding' \in [Services -> Nat]
        /\ \A t \in Services : t # visiting => outstanding'[t] = outstanding[t]
    BY <1>1, <1>3 DEF TypeOK, IsBlocked
  <1>5. current \in tainted
    <2> SUFFICES ASSUME current \notin tainted PROVE FALSE
      OBVIOUS
    <2>1. IsOwed(current) /\ SentTo(calls[current], visiting) # {}
      BY <1>3 DEF OneCallAtATime
    <2>2. r \in Remaining(current, visiting)
      BY <1>1, <1>2, <1>3, <2>1 DEF IsOwed
    <2> QED
      BY <1>1, <1>3, <2>1, <2>2 DEF IsOwed
  <1>6. PICK c \in CallType : c = [Call EXCEPT !.status = "unexpected"]
    BY <1>3 DEF CallType, Statuses
  <1>7. /\ calls' = [calls EXCEPT ![current] = c]
        /\ c.keys = Call.keys /\ c.plan = Call.plan /\ c.status = "unexpected"
    BY <1>1, <1>3, <1>6 DEF CallType
  <1>8. transportProblem' \in [Services -> BOOLEAN] /\ tainted \subseteq 1..Len(calls)
    BY <1>1 DEF TypeOK
  <1> QED
    BY <1>1, <1>2, <1>3, <1>4, <1>5, <1>7, <1>8, EndKeeps

\* Nothing is outstanding at the service: a clean call has all it asked for.
LEMMA ReceiveNothingKeeps == ASSUME IInv, ReceiveNothing PROVE IInv'
  <1> USE DEF IInv
  <1>1. /\ IsReceiving /\ outstanding[visiting] = 0 /\ VisitNext(toVisit)
        /\ transportProblem' = [transportProblem EXCEPT ![visiting] = FALSE]
        /\ UNCHANGED <<nextRequestId, outstanding, coming, calls, current, got, failed,
                       erred, tainted>>
    BY DEF ReceiveNothing
  <1>2. current # 0 /\ Call.status = "receiving" /\ visiting # None
    BY <1>1, IsReceivingMeans
  <1>3. /\ current \in 1..Len(calls) /\ Call = calls[current]
        /\ current \notin tainted => IsOwed(current)
        /\ visiting \in Services /\ visiting \in ToLeave
    BY <1>2, Receiving
  <1>4. ASSUME current \notin tainted
        PROVE  Remaining(current, visiting) = {}
    <2>1. SentTo(calls[current], visiting) # {}
      BY <1>3 DEF OneCallAtATime
    <2>2. Cardinality(Remaining(current, visiting)) = 0
      BY <1>1, <1>3, <1>4, <2>1 DEF IsOwed
    <2>3. IsFiniteSet(Remaining(current, visiting))
      BY <1>3, KeysAreFinite
    <2> QED
      BY <2>2, <2>3, FS_EmptySet
  <1>5. /\ outstanding \in [Services -> Nat] /\ transportProblem' \in [Services -> BOOLEAN]
        /\ failed \subseteq Requests /\ (failed # {} => Plan.catch)
    BY <1>1 DEF TypeOK, OneCallAtATime
  <1> QED
    BY <1>1, <1>4, <1>5, LeaveKeeps

\* A timeout or an error while receiving.
LEMMA RaiseOrCatchKeeps ==
    ASSUME IInv, IsReceiving, NEW status \in {"timeout", "transport"}, RaiseOrCatch(status),
           outstanding' \in [Services -> Nat], transportProblem' \in [Services -> BOOLEAN],
           \A t \in Services : t # visiting => outstanding'[t] = outstanding[t],
           UNCHANGED <<nextRequestId, coming, erred>>
    PROVE  IInv'
  <1> USE DEF IInv
  <1>1. current # 0 /\ Call.status = "receiving" /\ visiting # None
    BY IsReceivingMeans
  <1>2. /\ current \in 1..Len(calls) /\ Call = calls[current]
        /\ Call \in CallType
        /\ current \notin tainted => IsOwed(current)
        /\ visiting \in Services /\ visiting \in ToLeave
    BY <1>1, Receiving
  <1>3. CASE Plan.catch
    <2>1. /\ failed' = failed \union {r \in Call.expecting : r[1] = visiting}
          /\ VisitNext(toVisit) /\ UNCHANGED <<calls, current, got, tainted>>
      BY <1>3 DEF RaiseOrCatch
    <2>2. failed' \subseteq Requests
      BY <1>2, <2>1 DEF TypeOK, CallType
    <2>3. current \notin tainted => Remaining(current, visiting) \subseteq failed'
      <3>1. \A r \in Remaining(current, visiting) : r[1] = visiting
        BY DEF Remaining, SentTo
      <3> QED
        BY <1>2, <2>1, <3>1 DEF IsOwed
    <2> QED
      BY <1>3, <2>1, <2>2, <2>3, LeaveKeeps
  <1>4. CASE ~Plan.catch
    <2>1. /\ calls' = [calls EXCEPT ![current].status = status]
          /\ current' = 0 /\ Forget /\ tainted' = tainted \union {current}
      BY <1>4 DEF RaiseOrCatch, EndResult
    <2>2. PICK c \in CallType : c = [Call EXCEPT !.status = status]
      BY <1>2 DEF CallType, Statuses
    <2>3. /\ calls' = [calls EXCEPT ![current] = c]
          /\ c.keys = Call.keys /\ c.plan = Call.plan /\ c.status = status
      BY <1>2, <2>1, <2>2 DEF CallType
    <2>4. tainted' \subseteq 1..Len(calls) /\ current \in tainted' /\ tainted \subseteq tainted'
      BY <1>2, <2>1 DEF TypeOK
    <2>5. \A t \in Services : t \notin ToLeave => outstanding'[t] = outstanding[t]
      BY <1>2
    <2>6. status \notin {"sending", "future", "receiving", "returned"}
      OBVIOUS
    <2> QED
      BY <1>1, <2>1, <2>3, <2>4, <2>5, <2>6, EndKeeps
  <1> QED
    BY <1>3, <1>4

\* A timeout is raised to the call that waits, or kept for its future.
LEMMA ReceiveTimesOutKeeps == ASSUME IInv, ReceiveTimesOut PROVE IInv'
  <1>1. IsReceiving /\ visiting \in Services
    BY IsReceivingMeans DEF ReceiveTimesOut, IsBlocked, IInv, TypeOK
  <1>2. outstanding \in [Services -> Nat] /\ transportProblem \in [Services -> BOOLEAN]
    BY DEF IInv, TypeOK
  <1>3. /\ outstanding' \in [Services -> Nat] /\ transportProblem' \in [Services -> BOOLEAN]
        /\ \A t \in Services : t # visiting => outstanding'[t] = outstanding[t]
    BY <1>1, <1>2 DEF ReceiveTimesOut
  <1> QED
    BY <1>1, <1>3, RaiseOrCatchKeeps DEF ReceiveTimesOut

\* So is an error of the transport.
LEMMA ReceiveFailsKeeps == ASSUME IInv, ReceiveFails PROVE IInv'
  <1>1. IsReceiving
    BY DEF ReceiveFails, IsBlocked
  <1>2. outstanding \in [Services -> Nat] /\ transportProblem' \in [Services -> BOOLEAN]
    BY DEF IInv, TypeOK, ReceiveFails
  <1> QED
    BY <1>1, <1>2, RaiseOrCatchKeeps DEF ReceiveFails

\* A response is lost.
LEMMA LoseResponseKeeps == ASSUME IInv, NEW r \in coming, LoseResponse(r) PROVE IInv'
  <1> USE DEF IInv
  <1>1. /\ coming' = coming \ {r}
        /\ UNCHANGED <<nextRequestId, outstanding, transportProblem, calls, current, visiting,
                       toVisit, got, failed, erred, tainted>>
    BY DEF LoseResponse, result
  <1>2. TypeOK' /\ IdsWereDrawn' /\ JobsHaveKeys' /\ AnswersAreFinal' /\ AnswersFollowJobs'
    <2>1. coming' \subseteq coming
      BY <1>1
    <2>2. TypeOK'
      BY <1>1, <2>1 DEF TypeOK
    <2>3. IdsWereDrawn'
      BY <1>1, <2>1 DEF IdsWereDrawn
    <2>4. JobsHaveKeys' /\ AnswersFollowJobs'
      BY <1>1 DEF JobsHaveKeys, HasKeys, AnswersFollowJobs
    <2>5. AnswersAreFinal'
      BY <1>1, <2>1 DEF AnswersAreFinal
    <2> QED
      BY <2>2, <2>3, <2>4, <2>5
  <1>3. OneCallAtATime'
    <2>1. ToLeave' = ToLeave /\ Call' = Call /\ Plan' = Plan
      BY <1>1 DEF ToLeave, Call, Plan
    <2> QED
      BY <1>1, <2>1 DEF OneCallAtATime
  <1>4. CleanCallsAreAlone' /\ CleanCallsAreNotConfused'
    BY <1>1 DEF CleanCallsAreAlone, CleanCallsAreNotConfused, Clean
  <1>5. CleanCallsAreOwed'
    <2> SUFFICES ASSUME NEW i \in 1..Len(calls), Clean(i) PROVE IsOwed(i)'
      BY <1>1 DEF CleanCallsAreOwed, Clean
    <2>1. IsOwed(i)
      BY DEF CleanCallsAreOwed
    <2>2. ToLeave' = ToLeave /\ coming' \subseteq coming
          /\ \A t : Remaining(i, t)' = Remaining(i, t)
      BY <1>1 DEF ToLeave, Remaining
    <2> QED
      BY <1>1, <2>1, <2>2 DEF IsOwed
  <1> QED
    BY <1>2, <1>3, <1>4, <1>5

\* The outcome of a job is its response or a caught error; only a call that is
\* not clean has none.
LEMMA OutcomeOfJob ==
    ASSUME IInv, current # 0, Call.status = "receiving", visiting = None,
           NEW j \in 1..Len(Call.keys), NEW key, key = Call.keys[j]
    PROVE  /\ key \in Requests
           /\ Outcome(key) # None =>
                 /\ Outcome(key) \in Requests \ coming
                 /\ Outcome(key) = key \/ (Outcome(key) = ErrorOf(key) /\ Call.plan.catch)
           /\ Outcome(key) = None => current \in tainted
  <1> USE DEF IInv
  <1>1. /\ current \in 1..Len(calls) /\ Call = calls[current]
        /\ Call \in CallType
        /\ current \notin tainted => IsOwed(current)
    BY Receiving
  <1>2. key \in Keys(Call) /\ Keys(Call) \subseteq Requests
    BY <1>1, CallsAreTyped DEF Keys
  <1>3. key \in Requests /\ key[1] \in Services /\ key[2] \in Nat
        /\ ErrorOf(key) \in Requests /\ ~WasSent(ErrorOf(key))
        /\ (~WasSent(key) => ErrorOf(key) = key)
    BY <1>2 DEF Requests, ErrorOf, WasSent
  <1>4. None \notin Requests
    BY CallsAssumption DEF Requests
  <1>5. ErrorOf(key) \notin coming
    BY <1>3 DEF IdsWereDrawn
  <1>6. key \in failed => Call.plan.catch
    BY DEF OneCallAtATime, Plan
  <1>7. CASE WasSent(key) /\ key \in got
    <2>1. StoredUnder(key) = {key}
      BY <1>7 DEF StoredUnder
    <2>2. Outcome(key) = key
      <3>1. (CHOOSE r \in {key} : TRUE) = key
        OBVIOUS
      <3>2. {key} # {}
        OBVIOUS
      <3> QED
        BY <1>7, <2>1, <3>1, <3>2 DEF Outcome
    <2>3. key \notin coming
      BY <1>7 DEF IdsWereDrawn
    <2> HIDE DEF IInv
    <2>4. key # None
      BY <1>3, <1>4
    <2> QED
      BY <1>3, <2>2, <2>3, <2>4, Zenon
  <1>8. CASE ~WasSent(key)
    <2>1. Outcome(key) = ErrorOf(key)
      BY <1>8 DEF Outcome
    <2> HIDE DEF IInv
    <2>2. key # None /\ ErrorOf(key) = key
      BY <1>3, <1>4, <1>8
    <2> QED
      BY <1>3, <1>5, <2>1, <2>2, Zenon
  <1>9. CASE WasSent(key) /\ key \notin got
    <2>1. StoredUnder(key) = {}
      BY <1>9 DEF StoredUnder
    <2>2. Outcome(key) = IF key \in failed THEN ErrorOf(key) ELSE None
      BY <1>9, <2>1 DEF Outcome
    <2>3. ASSUME current \notin tainted
          PROVE  key \in failed
      <3>1. key \in Remaining(current, key[1])
        BY <1>1, <1>2, <1>9 DEF Remaining, SentTo
      <3>2. key[1] \notin ToLeave
        BY DEF ToLeave, OneCallAtATime
      <3> QED
        BY <1>1, <1>3, <2>3, <3>1, <3>2 DEF IsOwed
    <2> QED
      BY <1>3, <1>4, <1>5, <1>6, <2>2, <2>3
  <1> QED
    BY <1>3, <1>7, <1>8, <1>9

\* result() returns or raises when every service was visited.
LEMMA AnswerKeeps == ASSUME IInv, Answer PROVE IInv'
  <1> USE DEF IInv
  <1> DEFINE outcome == [i \in 1..Len(Call.keys) |-> Outcome(Call.keys[i])]
             raising == {i \in 1..Len(Call.keys) :
                             outcome[i] = None \/ (Plan.raises /\ outcome[i] \in erred)}
  <1>1. /\ current # 0 /\ Call.status = "receiving" /\ visiting = None
        /\ \/ /\ raising = {}
              /\ calls' = [calls EXCEPT ![current] = Returned(outcome)]
           \/ \E first \in raising :
                calls' = [calls EXCEPT
                    ![current].status = IF outcome[first] # None THEN "errors"
                                        ELSE IF Plan.kind = "jobs" THEN "missing"
                                             ELSE "unexpected"]
        /\ current' = 0 /\ Forget
        /\ UNCHANGED <<transport, erred, tainted>>
    BY DEF Answer
  <1>2. /\ current \in 1..Len(calls) /\ Call = calls[current]
        /\ Call \in CallType /\ Plan = Call.plan
        /\ Len(Call.keys) = Len(Plan.jobs) /\ Len(Call.keys) \in Nat
    BY <1>1, Receiving, CallsAreTyped DEF Plan
  <1>3. \A j \in 1..Len(Call.keys) :
            /\ outcome[j] # None =>
                  /\ outcome[j] \in Requests \ coming
                  /\ outcome[j] = Call.keys[j]
                     \/ (outcome[j] = ErrorOf(Call.keys[j]) /\ Call.plan.catch)
            /\ outcome[j] = None => current \in tainted
    BY <1>1, OutcomeOfJob
  <1>4. /\ outstanding' = outstanding /\ coming' = coming /\ erred' = erred
        /\ nextRequestId' = nextRequestId /\ tainted' = tainted
        /\ outstanding \in [Services -> Nat] /\ transportProblem' \in [Services -> BOOLEAN]
        /\ tainted \subseteq 1..Len(calls)
    BY <1>1 DEF transport, TypeOK
  <1>5. ASSUME raising = {}, calls' = [calls EXCEPT ![current] = Returned(outcome)]
        PROVE  IInv'
    <2> DEFINE new == Returned(outcome)
    <2>1. \A j \in 1..Len(Call.keys) :
             outcome[j] # None /\ (Plan.raises => outcome[j] \notin erred)
      BY <1>5
    <2>2. outcome \in Seq(Requests) /\ Len(outcome) = Len(Call.keys)
      <3>1. outcome \in [1..Len(Call.keys) -> Requests]
        BY <1>3, <2>1
      <3> HIDE DEF outcome
      <3> QED
        BY <1>2, <3>1
    <2>3. /\ new \in CallType /\ new.keys = Call.keys /\ new.plan = Call.plan
          /\ new.status = "returned" /\ new.answer = outcome
      <3> HIDE DEF outcome
      <3> QED
        BY <1>2, <2>2 DEF Returned, CallType, Statuses
    <2> HIDE DEF outcome, raising, new
    <2>4. /\ Len(new.answer) = Len(new.plan.jobs)
          /\ \A j \in 1..Len(new.answer) :
                /\ new.answer[j] = new.keys[j]
                   \/ (new.answer[j] = ErrorOf(new.keys[j]) /\ new.plan.catch)
                /\ new.plan.raises => new.answer[j] \notin erred
                /\ new.answer[j] \notin coming'
      BY <1>2, <1>3, <1>4, <2>1, <2>2, <2>3
    <2>5. calls' = [calls EXCEPT ![current] = new]
      BY <1>5 DEF new
    <2> QED
      BY <1>1, <1>4, <2>3, <2>4, <2>5, EndKeeps
  <1>6. ASSUME NEW first \in raising,
               calls' = [calls EXCEPT
                   ![current].status = IF outcome[first] # None THEN "errors"
                                       ELSE IF Plan.kind = "jobs" THEN "missing"
                                            ELSE "unexpected"]
        PROVE  IInv'
    <2>1. PICK status \in {"errors", "missing", "unexpected"} :
             /\ calls' = [calls EXCEPT ![current].status = status]
             /\ status = IF outcome[first] # None THEN "errors"
                         ELSE IF Plan.kind = "jobs" THEN "missing" ELSE "unexpected"
      <3> HIDE DEF outcome, raising
      <3> QED
        BY <1>6
    <2>2. first \in 1..Len(Call.keys)
      OBVIOUS
    <2> HIDE DEF outcome, raising
    <2>3. status \in {"missing", "unexpected"} => current \in tainted
      BY <1>3, <2>1, <2>2
    <2>4. PICK c \in CallType : c = [Call EXCEPT !.status = status]
      BY <1>2 DEF CallType, Statuses
    <2>5. /\ calls' = [calls EXCEPT ![current] = c]
          /\ c.keys = Call.keys /\ c.plan = Call.plan /\ c.status = status
      BY <1>2, <2>1, <2>4 DEF CallType
    <2> QED
      BY <1>1, <1>4, <2>3, <2>5, EndKeeps
  <1> QED
    BY <1>1, <1>5, <1>6
-----------------------------------------------------------------------------
\* Whatever the client does, the caller's calls and the responses keep to IInv.
THEOREM CallsInductive == Spec => []IInv
  <1>1. ASSUME IInv, [Next]_vars PROVE IInv'
    <2>1. CASE \E plan \in Plans : Begin(plan)
      BY <1>1, <2>1, BeginKeeps
    <2>2. CASE \E f \in 1..Len(calls) : BeginResult(f)
      BY <1>1, <2>2, BeginResultKeeps
    <2>3. CASE ClientStep
      BY <1>1, <2>3, SendRequestKeeps, SendFailsKeeps, ReturnFutureKeeps, ReceiveKeeps,
         ReceiveForeignKeeps, ReceiveNothingKeeps, ReceiveTimesOutKeeps, ReceiveFailsKeeps,
         AnswerKeeps DEF ClientStep
    <2>4. CASE \E r \in coming : LoseResponse(r)
      BY <1>1, <2>4, LoseResponseKeeps
    <2>5. CASE UNCHANGED vars
      BY <1>1, <2>5, StutterKeeps
    <2> QED
      BY <1>1, <2>1, <2>2, <2>3, <2>4, <2>5 DEF Next
  <1> QED
    BY <1>1, InitHolds, PTL DEF Spec

\* The client's counters, its futures and what result() has gathered hold
\* values of their types.
THEOREM CallsTypeCorrect == Spec => []TypeOK
  <1>1. IInv => TypeOK
    BY DEF IInv
  <1> QED
    BY <1>1, CallsInductive, PTL

\* _get_response puts the response of each job at the place of that job,
\* whichever service answered first and whatever failed in between.
THEOREM AnswersBelongToJobs == Spec => []AnswersFollowJobs
  <1>1. IInv => AnswersFollowJobs
    BY DEF IInv
  <1> QED
    BY <1>1, CallsInductive, PTL

\* "Got response ID ..." and "There was no response for service ..." are not
\* raised in a call that had its services to itself.
THEOREM CleanCallsStayClear == Spec => []CleanCallsAreNotConfused
  <1>1. IInv => CleanCallsAreNotConfused
    BY DEF IInv
  <1> QED
    BY <1>1, CallsInductive, PTL
=============================================================================
