--------------------------- MODULE ExecuteJobProofs ---------------------------
(***************************************************************************)
(* Theorems about ExecuteJob, for every set of jobs and any number of      *)
(* requests, local calls and coroutines: what the server logs under, what  *)
(* its responses hold, and what harakiri ends.                             *)
(***************************************************************************)
EXTENDS ExecuteJob, SequenceTheorems, TLAPS

\* The places behind the loop over the actions.
Over == {"leaving", "responding", "closing", "raising"}

\* All requests on the stack are the present one and its local call, which
\* calls nobody.
OneRequestAtATime ==
    /\ Depth > 0 => stack[1].req = <<requests, 0>>
    /\ Depth = 2 => /\ Top.req[1] = requests
                    /\ Top.inbox = <<>> /\ ~Top.orphaned /\ ~Top.surprised

Explained(f) == LET n == Len(f.answers) IN
    \/ f.failed
    \/ /\ n = f.job.actions \/ (n > 0 /\ f.answers[n] /\ (alarmed \/ ~f.job.continueOnError))
       /\ \A i \in 1..(n - 1) : f.answers[i] => f.job.continueOnError

\* The answers of a job, from the first to the response.
AnswersCollect(f) ==
    /\ f.failed => f.answers = <<>> /\ f.at \in Over
    /\ f.at \in {"received", "entered", "preparing"} => f.answers = <<>>
    /\ f.at \in {"job", "trying", "action"} =>
          \A i \in 1..Len(f.answers) : f.answers[i] => f.job.continueOnError
    /\ f.answered => f.at \in {"closing", "raising"} /\ ~f.job.suppress
    /\ f.at \in {"leaving", "responding"} \/ f.answered => Explained(f)

\* Only SIGALRM interrupts, and then no further request is taken.
InterruptsAreAlarms(f) ==
    /\ f.raised # "nothing" => f.at \in {"closing", "raising"}
    /\ f.raised = "interrupt" => alarmed

FramesInv == \A d \in 1..Depth : AnswersCollect(stack[d]) /\ InterruptsAreAlarms(stack[d])

HarakiriInv ==
    /\ alarmed => ~up
    /\ alarmed /\ ~swallowed =>
          /\ Depth > 0 => Top.at \in Over
          /\ Depth = 2 => Top.raised = "interrupt"

\* What waits for the client of an action is an answer to its present call, if
\* it never lost one.
InboxIsEmpty == Depth > 0 /\ ~stack[1].orphaned =>
    /\ ~stack[1].surprised
    /\ \A i \in 1..Len(stack[1].inbox) : IsLocal /\ Top.answered /\ stack[1].inbox[i] = Top.req

\* The names in the list of the main thread.
Content(kind) == IF mine[kind] = 0 THEN <<>> ELSE lists[kind][mine[kind]]

IsNamed(f) == f.at \notin {"received", "raising"}
NameOf(f) == <<f.req, Len(f.answers) + 1>>

RequestNames ==
    IF IsLocal THEN IF IsNamed(Top) THEN <<stack[1].req, Top.req>> ELSE <<stack[1].req>>
    ELSE IF Depth > 0 /\ IsNamed(Top) THEN <<Top.req>> ELSE <<>>

\* An interrupt may take away a name or leave one behind.
RequestsAreNamed == ~alarmed => Content("request") = RequestNames

OwnAction == IF At("action") THEN <<NameOf(Top)>> ELSE <<>>

ActionNames ==
    IF IsLocal THEN IF At("action") THEN <<NameOf(stack[1]), NameOf(Top)>>
                    ELSE <<NameOf(stack[1])>>
    ELSE OwnAction

ActionsAreNamed == ~alarmed => Content("action") = ActionNames

NamesBelong(ids, n) == \A kind \in Kinds : ids[kind] # 0 =>
    /\ ids[kind] <= Len(lists[kind])
    /\ \A i \in 1..Len(lists[kind][ids[kind]]) : Owner(kind, lists[kind][ids[kind]][i]) = n

\* No list has names of two requests.
NamesAreOwn ==
    /\ NamesBelong(mine, requests)
    /\ \A c \in 1..Len(coroutines) : NamesBelong(coroutines[c].ids, coroutines[c].req[1])

IInv ==
    /\ TypeOK
    /\ OneRequestAtATime
    /\ FramesInv
    /\ HarakiriInv
    /\ InboxIsEmpty
    /\ RequestsAreNamed
    /\ ActionsAreNamed
    /\ NamesAreOwn
-----------------------------------------------------------------------------
(***************************************************************************)
(* The lists of names                                                      *)
(***************************************************************************)
\* Appending to and removing from the ends of short sequences.
LEMMA ShortSequences ==
    ASSUME NEW a, NEW b
    PROVE  /\ Append(<<>>, a) = <<a>> /\ Append(<<a>>, b) = <<a, b>>
           /\ Front(<<a>>) = <<>> /\ Front(<<a, b>>) = <<a>>
           /\ Last(<<a>>) = a /\ Last(<<a, b>>) = b
<1>0. <<>> \in Seq({a, b}) /\ <<a>> \in Seq({a, b}) /\ <<a, b>> \in Seq({a, b})
  OBVIOUS
<1>1. Append(<<>>, a) = <<a>>
  BY <1>0
<1>6. Append(<<a>>, b) = <<a, b>>
  <2>1. /\ Append(<<a>>, b) \in Seq({a, b}) /\ Len(Append(<<a>>, b)) = 2
        /\ Append(<<a>>, b)[1] = a /\ Append(<<a>>, b)[2] = b
    BY <1>0
  <2>2. Len(<<a, b>>) = 2 /\ <<a, b>>[1] = a /\ <<a, b>>[2] = b
    OBVIOUS
  <2>3. \A i \in 1..2 : i = 1 \/ i = 2
    OBVIOUS
  <2>4. \A i \in 1..Len(<<a, b>>) : <<a, b>>[i] = Append(<<a>>, b)[i]
    BY <2>1, <2>2, <2>3
  <2> QED  BY <1>0, <2>1, <2>2, <2>4, SeqEqual, Zenon
<1>2. Len(<<a>>) = 1 /\ Len(<<a, b>>) = 2
  OBVIOUS
<1>3. Front(<<a>>) = <<>>
  BY <1>2 DEF Front
<1>4. Front(<<a, b>>) = <<a>>
  <2>1. Front(<<a, b>>) = SubSeq(<<a, b>>, 1, 1)
    BY <1>2 DEF Front
  <2>2. SubSeq(<<a, b>>, 1, 1) = <<a>>
    <3>1. /\ SubSeq(<<a, b>>, 1, 1) \in Seq({a, b}) /\ Len(SubSeq(<<a, b>>, 1, 1)) = 1
          /\ SubSeq(<<a, b>>, 1, 1)[1] = a
      BY <1>0
    <3>2. Len(<<a>>) = 1 /\ <<a>>[1] = a
      OBVIOUS
    <3>3. \A i \in 1..Len(<<a>>) : <<a>>[i] = SubSeq(<<a, b>>, 1, 1)[i]
      BY <3>1, <3>2
    <3> QED  BY <1>0, <3>1, <3>2, <3>3, SeqEqual, Zenon
  <2> QED  BY <2>1, <2>2
<1>5. Last(<<a>>) = a /\ Last(<<a, b>>) = b
  BY <1>2 DEF Last
<1> QED
  BY <1>1, <1>3, <1>4, <1>5, <1>6

LogTyped ==
    /\ mine \in [Kinds -> Nat] /\ lists = [kind \in Kinds |-> lists[kind]]
    /\ \A kind \in Kinds : /\ lists[kind] \in Seq(Seq(NamesOf(kind)))
                           /\ mine[kind] <= Len(lists[kind])

\* What adding a name does to the jth list of the kind k.
GrowsBy(kind, name, k, j) ==
    \/ lists'[k][j] = lists[k][j]
    \/ /\ k = kind /\ j = mine[k] /\ lists[k][j] # <<>>
       /\ lists'[k][j] = Append(lists[k][j], name)

\* Push adds the name behind those that the main thread logs under, and only
\* there; it creates a list for it or changes one that is not empty.
LEMMA PushContent ==
    ASSUME LogTyped, NEW kind \in Kinds, NEW name \in NamesOf(kind), Push(kind, name)
    PROVE  /\ LogTyped'
           /\ Content(kind)' = Append(Content(kind), name)
           /\ \A k \in Kinds \ {kind} : Content(k)' = Content(k)
           /\ \A k \in Kinds : /\ Len(lists[k]) <= Len(lists'[k])
                               /\ mine'[k] = mine[k] \/ mine'[k] = Len(lists[k]) + 1
           /\ \A k \in Kinds : \A j \in 1..Len(lists[k]) : GrowsBy(kind, name, k, j)
<1> DEFINE old == lists[kind]
           id == mine[kind]
<1>1. /\ \A k \in Kinds : mine[k] \in Nat
      /\ \A k \in Kinds : lists[k] \in Seq(Seq(NamesOf(k)))
      /\ \A k \in Kinds : mine[k] <= Len(lists[k])
      /\ DOMAIN mine = Kinds /\ DOMAIN lists = Kinds
  BY DEF LogTyped
<1>2. CASE NeedsList(mine, kind)
  <2> DEFINE new == Append(old, <<name>>)
  <2>1. /\ lists' = [lists EXCEPT ![kind] = new]
        /\ mine' = [mine EXCEPT ![kind] = Len(old) + 1]
    BY <1>2 DEF Push, Pushed, AfterPush
  <2>2. /\ old \in Seq(Seq(NamesOf(kind))) /\ <<name>> \in Seq(NamesOf(kind))
    BY <1>1
  <2>3. /\ new \in Seq(Seq(NamesOf(kind))) /\ Len(new) = Len(old) + 1
        /\ \A j \in 1..Len(old) : new[j] = old[j]
        /\ new[Len(old) + 1] = <<name>>
    BY <2>2
  <2>4. Content(kind) = <<>>
    BY <1>2 DEF NeedsList, Content
  <2>5. /\ lists'[kind] = new /\ mine'[kind] = Len(old) + 1
        /\ \A k \in Kinds \ {kind} : lists'[k] = lists[k] /\ mine'[k] = mine[k]
    BY <1>1, <2>1
  <2>6. mine' \in [Kinds -> Nat] /\ lists' = [k \in Kinds |-> lists'[k]]
    <3>1. Len(old) + 1 \in Nat  BY <2>2
    <3> HIDE DEF new, old
    <3>2. mine' \in [Kinds -> Nat]  BY <3>1, <1>1, <2>1 DEF LogTyped
    <3>3. lists' = [k \in Kinds |-> lists'[k]]  BY <1>1, <2>1
    <3> QED  BY <3>2, <3>3
  <2>7. \A k \in Kinds : /\ lists'[k] \in Seq(Seq(NamesOf(k)))
                         /\ mine'[k] <= Len(lists'[k])
    <3> SUFFICES ASSUME NEW k \in Kinds
                 PROVE  lists'[k] \in Seq(Seq(NamesOf(k))) /\ mine'[k] <= Len(lists'[k])
      OBVIOUS
    <3> HIDE DEF new, old
    <3>1. CASE k = kind  BY <3>1, <2>3, <2>5, <2>2
    <3>2. CASE k # kind  BY <3>2, <1>1, <2>5
    <3> QED  BY <3>1, <3>2
  <2>8. LogTyped'
    BY <2>6, <2>7 DEF LogTyped, NamesOf, Requests
  <2>9. Content(kind)' = <<name>>
    BY <2>2, <2>3, <2>5 DEF Content
  <2> HIDE DEF new
  <2>10. \A k \in Kinds \ {kind} : Content(k)' = Content(k)
    BY <2>5 DEF Content
  <2>11. /\ \A k \in Kinds : /\ Len(lists[k]) <= Len(lists'[k])
                             /\ mine'[k] = mine[k] \/ mine'[k] = Len(lists[k]) + 1
         /\ \A k \in Kinds : \A j \in 1..Len(lists[k]) : GrowsBy(kind, name, k, j)
    <3> SUFFICES ASSUME NEW k \in Kinds
                 PROVE  /\ Len(lists[k]) <= Len(lists'[k])
                        /\ mine'[k] = mine[k] \/ mine'[k] = Len(lists[k]) + 1
                        /\ \A j \in 1..Len(lists[k]) : lists'[k][j] = lists[k][j]
      BY DEF GrowsBy
    <3> Len(lists[k]) \in Nat  BY <1>1
    <3>1. CASE k = kind  BY <3>1, <2>3, <2>5
    <3>2. CASE k # kind  BY <3>2, <2>5
    <3> QED  BY <3>1, <3>2
  <2> QED
    BY <2>4, <2>8, <2>9, <2>10, <2>11
<1>3. CASE ~NeedsList(mine, kind)
  <2> DEFINE content == old[id]
             grown == Append(content, name)
             new == [old EXCEPT ![id] = grown]
  <2>1. /\ lists' = [lists EXCEPT ![kind] = new]
        /\ mine' = mine
    BY <1>1, <1>3 DEF Push, Pushed, AfterPush
  <2>2. /\ old \in Seq(Seq(NamesOf(kind))) /\ id \in 1..Len(old)
    BY <1>1, <1>3 DEF NeedsList
  <2>3. content \in Seq(NamesOf(kind)) /\ content # <<>> /\ id # 0
    BY <2>2, <1>3 DEF NeedsList
  <2>4. grown \in Seq(NamesOf(kind))
    BY <2>3
  <2>5. /\ new \in Seq(Seq(NamesOf(kind))) /\ Len(new) = Len(old)
        /\ new[id] = grown
        /\ \A j \in 1..Len(old) : j # id => new[j] = old[j]
    <3> HIDE DEF grown
    <3> QED  BY <2>2, <2>4
  <2>6. /\ lists'[kind] = new
        /\ \A k \in Kinds \ {kind} : lists'[k] = lists[k]
    BY <1>1, <2>1
  <2>7. mine' \in [Kinds -> Nat] /\ lists' = [k \in Kinds |-> lists'[k]]
    BY <1>1, <2>1, <2>2 DEF LogTyped
  <2> HIDE DEF new, grown
  <2>8. \A k \in Kinds : /\ lists'[k] \in Seq(Seq(NamesOf(k)))
                         /\ mine'[k] <= Len(lists'[k])
    <3> SUFFICES ASSUME NEW k \in Kinds
                 PROVE  lists'[k] \in Seq(Seq(NamesOf(k))) /\ mine'[k] <= Len(lists'[k])
      OBVIOUS
    <3>1. CASE k = kind  BY <3>1, <2>1, <2>5, <2>6, <2>2, <1>1
    <3>2. CASE k # kind  BY <3>2, <1>1, <2>1, <2>6
    <3> QED  BY <3>1, <3>2
  <2>9. LogTyped'
    BY <2>7, <2>8 DEF LogTyped, NamesOf, Requests
  <2>10. Content(kind)' = Append(Content(kind), name)
    BY <2>1, <2>3, <2>5, <2>6 DEF Content, grown
  <2>11. \A k \in Kinds \ {kind} : Content(k)' = Content(k)
    BY <2>1, <2>6 DEF Content
  <2>12. /\ \A k \in Kinds : /\ Len(lists[k]) <= Len(lists'[k])
                             /\ mine'[k] = mine[k]
         /\ \A k \in Kinds : \A j \in 1..Len(lists[k]) : GrowsBy(kind, name, k, j)
    <3> SUFFICES ASSUME NEW k \in Kinds
                 PROVE  /\ Len(lists[k]) <= Len(lists'[k]) /\ mine'[k] = mine[k]
                        /\ \A j \in 1..Len(lists[k]) : GrowsBy(kind, name, k, j)
      OBVIOUS
    <3>1. CASE k = kind
      <4>1. lists'[k] = new /\ lists[k] = old /\ mine'[k] = mine[k] /\ mine[k] = id
        BY <3>1, <2>1, <2>6
      <4>2. Len(lists[k]) <= Len(lists'[k])
        BY <4>1, <2>2, <2>5
      <4>3. ASSUME NEW j \in 1..Len(lists[k])
            PROVE  GrowsBy(kind, name, k, j)
        <5>1. CASE j = id
          <6>1. lists[k][j] = content /\ lists'[k][j] = grown
            BY <4>1, <2>5, <5>1
          <6> QED  BY <3>1, <4>1, <2>3, <5>1, <6>1 DEF grown, GrowsBy
        <5>2. CASE j # id  BY <4>1, <4>3, <2>5, <5>2 DEF GrowsBy
        <5> QED  BY <5>1, <5>2
      <4> QED  BY <4>1, <4>2, <4>3
    <3>2. CASE k # kind  BY <3>2, <1>1, <2>1, <2>6 DEF GrowsBy
    <3> QED  BY <3>1, <3>2
  <2> QED
    BY <2>9, <2>10, <2>11, <2>12
<1> QED
  BY <1>2, <1>3

\* Front keeps a sequence up to its last element.
LEMMA FrontOfSeq ==
    ASSUME NEW S, NEW s \in Seq(S)
    PROVE  /\ Front(s) \in Seq(S)
           /\ Len(Front(s)) <= Len(s)
           /\ \A i \in 1..Len(Front(s)) : Front(s)[i] = s[i]
           /\ s = <<>> => Front(s) = <<>>
<1>1. CASE s = <<>>
  <2>1. Len(s) = 0
    BY <1>1
  <2>2. Front(s) = <<>>
    BY <2>1, SubSeqEmpty DEF Front
  <2>3. <<>> \in Seq(S) /\ Len(<<>>) = 0
    BY EmptySeq
  <2>4. Front(s) \in Seq(S) /\ Len(Front(s)) = 0
    BY <2>2, <2>3, Zenon
  <2> QED
    BY <2>1, <2>2, <2>4
<1>2. CASE s # <<>>
  <2>1. Len(s) \in Nat \ {0}
    BY <1>2, EmptySeq
  <2>2. Front(s) = SubSeq(s, 1, Len(s) - 1)
    BY DEF Front
  <2>3. /\ Front(s) \in Seq(S) /\ Len(Front(s)) = Len(s) - 1
        /\ \A i \in 1..(Len(s) - 1) : Front(s)[i] = s[i]
    <3>1. \A i \in 1..(Len(s) - 1) : s[i] \in S
      BY <2>1
    <3>2. 1 \in Int /\ Len(s) - 1 \in Int
      BY <2>1
    <3>3. /\ SubSeq(s, 1, Len(s) - 1) \in Seq(S)
          /\ Len(SubSeq(s, 1, Len(s) - 1)) = IF 1 <= Len(s) - 1 THEN Len(s) - 1 - 1 + 1 ELSE 0
          /\ \A i \in 1..(Len(s) - 1 - 1 + 1) : SubSeq(s, 1, Len(s) - 1)[i] = s[1 + i - 1]
      BY <3>1, <3>2, SubSeqProperties
    <3>4. Len(s) - 1 - 1 + 1 = Len(s) - 1 /\ \A i \in 1..(Len(s) - 1) : 1 + i - 1 = i
      BY <2>1
    <3>5. (IF 1 <= Len(s) - 1 THEN Len(s) - 1 - 1 + 1 ELSE 0) = Len(s) - 1
      <4>1. \A n \in Nat \ {0} : (IF 1 <= n - 1 THEN n - 1 - 1 + 1 ELSE 0) = n - 1
        OBVIOUS
      <4> QED  BY <2>1, <4>1
    <3> QED
      BY <2>2, <3>3, <3>4, <3>5, Zenon
  <2> QED
    BY <1>2, <2>1, <2>3
<1> QED
  BY <1>1, <1>2

\* Pop removes the last of the names that the main thread logs under.
LEMMA PopContent ==
    ASSUME LogTyped, NEW kind \in Kinds, Pop(kind)
    PROVE  /\ LogTyped' /\ mine' = mine
           /\ Content(kind)' = Front(Content(kind))
           /\ \A k \in Kinds \ {kind} : Content(k)' = Content(k)
           /\ \A k \in Kinds : Len(lists'[k]) = Len(lists[k])
           /\ \A k \in Kinds : \A j \in 1..Len(lists[k]) :
                lists'[k][j] = lists[k][j] \/ lists'[k][j] = Front(lists[k][j])
<1> DEFINE old == lists[kind]
           id == mine[kind]
           new == [old EXCEPT ![id] = Front(old[id])]
<1>1. /\ \A k \in Kinds : mine[k] \in Nat
      /\ \A k \in Kinds : lists[k] \in Seq(Seq(NamesOf(k)))
      /\ \A k \in Kinds : mine[k] <= Len(lists[k])
      /\ DOMAIN mine = Kinds /\ DOMAIN lists = Kinds
  BY DEF LogTyped
<1>2. mine' = mine
  BY DEF Pop
<1>3. CASE id = 0
  <2>1. lists' = lists
    BY <1>3 DEF Pop, Popped
  <2>2. Content(kind) = <<>> /\ \A k \in Kinds : Content(k)' = Content(k)
    BY <1>2, <1>3, <2>1 DEF Content
  <2>3. Front(Content(kind)) = <<>>
    <3>1. <<>> \in Seq({})
      OBVIOUS
    <3> QED  BY <2>2, <3>1, FrontOfSeq
  <2>4. LogTyped'
    BY <1>2, <2>1 DEF LogTyped, NamesOf, Requests
  <2> QED
    BY <1>2, <2>1, <2>2, <2>3, <2>4
<1>4. CASE id # 0
  <2>1. lists' = [lists EXCEPT ![kind] = new]
    BY <1>1, <1>4 DEF Pop, Popped
  <2>2. old \in Seq(Seq(NamesOf(kind))) /\ id \in 1..Len(old)
    BY <1>1, <1>4
  <2>3. old[id] \in Seq(NamesOf(kind))
    BY <2>2
  <2>4. Front(old[id]) \in Seq(NamesOf(kind))
    BY <2>3, FrontOfSeq
  <2>5. /\ new \in Seq(Seq(NamesOf(kind))) /\ Len(new) = Len(old)
        /\ new[id] = Front(old[id])
        /\ \A j \in 1..Len(old) : j # id => new[j] = old[j]
    BY <2>2, <2>4
  <2>6. /\ lists'[kind] = new
        /\ \A k \in Kinds \ {kind} : lists'[k] = lists[k]
    BY <1>1, <2>1
  <2>7. mine' \in [Kinds -> Nat] /\ lists' = [k \in Kinds |-> lists'[k]]
    BY <1>1, <1>2, <2>1 DEF LogTyped
  <2> HIDE DEF new
  <2>8. \A k \in Kinds : /\ lists'[k] \in Seq(Seq(NamesOf(k)))
                         /\ mine'[k] <= Len(lists'[k])
    <3> SUFFICES ASSUME NEW k \in Kinds
                 PROVE  lists'[k] \in Seq(Seq(NamesOf(k))) /\ mine'[k] <= Len(lists'[k])
      OBVIOUS
    <3>1. CASE k = kind  BY <3>1, <1>2, <2>5, <2>6, <2>2, <1>1
    <3>2. CASE k # kind  BY <3>2, <1>1, <1>2, <2>6
    <3> QED  BY <3>1, <3>2
  <2>9. LogTyped'
    BY <2>7, <2>8 DEF LogTyped, NamesOf, Requests
  <2>10. Content(kind)' = Front(Content(kind))
    BY <1>2, <1>4, <2>5, <2>6 DEF Content
  <2>11. \A k \in Kinds \ {kind} : Content(k)' = Content(k)
    BY <1>2, <2>6 DEF Content
  <2>12. \A k \in Kinds :
           /\ Len(lists'[k]) = Len(lists[k])
           /\ \A j \in 1..Len(lists[k]) :
                lists'[k][j] = lists[k][j] \/ lists'[k][j] = Front(lists[k][j])
    <3> SUFFICES ASSUME NEW k \in Kinds
                 PROVE  /\ Len(lists'[k]) = Len(lists[k])
                        /\ \A j \in 1..Len(lists[k]) :
                             lists'[k][j] = lists[k][j] \/ lists'[k][j] = Front(lists[k][j])
      OBVIOUS
    <3>1. CASE k = kind  BY <3>1, <2>5, <2>6, <2>2
    <3>2. CASE k # kind  BY <3>2, <2>6
    <3> QED  BY <3>1, <3>2
  <2> QED
    BY <1>2, <2>9, <2>10, <2>11, <2>12
<1> QED
  BY <1>3, <1>4

\* The main thread logs under the last of its names.
LEMMA NamedIsLast ==
    ASSUME NEW kind \in Kinds
    PROVE  Named(mine, kind) = IF Content(kind) = <<>> THEN None ELSE Last(Content(kind))
  BY DEF Named, Content

\* Names that main thread and coroutines share stay those of one request when
\* a name of the present request is added, and when one is removed.
LEMMA PushKeepsNamesOwn ==
    ASSUME LogTyped, requests \in Nat, coroutines \in Seq(Coroutines), NamesAreOwn,
           NEW kind \in Kinds, NEW name \in NamesOf(kind), Owner(kind, name) = requests,
           Push(kind, name), UNCHANGED <<coroutines, requests>>
    PROVE  NamesAreOwn'
<1>1. /\ LogTyped'
      /\ Content(kind)' = Append(Content(kind), name)
      /\ \A k \in Kinds \ {kind} : Content(k)' = Content(k)
      /\ \A k \in Kinds : Len(lists[k]) <= Len(lists'[k])
      /\ \A k \in Kinds : \A j \in 1..Len(lists[k]) : GrowsBy(kind, name, k, j)
  BY PushContent
<1>2. /\ \A k \in Kinds : mine[k] \in Nat /\ mine[k] <= Len(lists[k])
      /\ \A k \in Kinds : mine'[k] \in Nat /\ mine'[k] <= Len(lists'[k])
      /\ \A k \in Kinds : lists[k] \in Seq(Seq(NamesOf(k)))
  BY <1>1 DEF LogTyped
<1>3. \A k \in Kinds : \A j \in 1..Len(lists[k]) : lists[k][j] \in Seq(NamesOf(k))
  BY <1>2
<1>4. NamesBelong(mine, requests)'
  <2> SUFFICES ASSUME NEW k \in Kinds, mine'[k] # 0
               PROVE  /\ mine'[k] <= Len(lists'[k])
                      /\ \A i \in 1..Len(lists'[k][mine'[k]]) :
                           Owner(k, lists'[k][mine'[k]][i]) = requests
    BY DEF NamesBelong
  <2>1. Content(k)' = lists'[k][mine'[k]]
    BY DEF Content
  <2>2. /\ Content(k) \in Seq(NamesOf(k))
        /\ \A i \in 1..Len(Content(k)) : Owner(k, Content(k)[i]) = requests
    <3>1. CASE mine[k] = 0
      BY <3>1 DEF Content
    <3>2. CASE mine[k] # 0
      BY <3>2, <1>2, <1>3 DEF Content, NamesAreOwn, NamesBelong
    <3> QED  BY <3>1, <3>2
  <2>3. \A i \in 1..Len(Content(k)') : Owner(k, Content(k)'[i]) = requests
    <3>1. CASE k = kind
      <4> DEFINE c == Content(kind)
      <4>1. c \in Seq(NamesOf(kind)) /\ \A i \in 1..Len(c) : Owner(kind, c[i]) = requests
        BY <2>2, <3>1
      <4> HIDE DEF c
      <4>2. \A i \in 1..Len(Append(c, name)) : Owner(kind, Append(c, name)[i]) = requests
        <5> SUFFICES ASSUME NEW i \in 1..Len(Append(c, name))
                     PROVE  Owner(kind, Append(c, name)[i]) = requests
          OBVIOUS
        <5>1. CASE i = Len(c) + 1
          <6>1. Append(c, name)[i] = name  BY <4>1, <5>1
          <6> QED  BY <6>1
        <5>2. CASE i # Len(c) + 1
          <6>1. i \in 1..Len(c) /\ Append(c, name)[i] = c[i]  BY <4>1, <5>2
          <6> QED  BY <4>1, <6>1
        <5> QED  BY <5>1, <5>2
      <4> QED  BY <1>1, <3>1, <4>2 DEF c
    <3>2. CASE k # kind
      BY <3>2, <1>1, <2>2
    <3> QED  BY <3>1, <3>2
  <2> QED
    BY <1>2, <2>1, <2>3
<1>5. ASSUME NEW c \in 1..Len(coroutines)
      PROVE  NamesBelong(coroutines[c].ids, coroutines[c].req[1])'
  <2> DEFINE ids == coroutines[c].ids
             n == coroutines[c].req[1]
  <2>1. ids \in [Kinds -> Nat] /\ coroutines'[c] = coroutines[c]
    <3>1. coroutines[c] \in Coroutines  BY <1>5
    <3>2. coroutines' = coroutines  OBVIOUS
    <3> QED  BY <3>1, <3>2 DEF Coroutines
  <2>2. NamesBelong(ids, n)
    BY <1>5 DEF NamesAreOwn
  <2> HIDE DEF ids, n
  <2>3. ASSUME NEW k \in Kinds, ids[k] # 0
        PROVE  /\ ids[k] <= Len(lists'[k])
               /\ \A i \in 1..Len(lists'[k][ids[k]]) : Owner(k, lists'[k][ids[k]][i]) = n
    <3> DEFINE j == ids[k]
               l == lists[k][j]
    <3>1. /\ j \in 1..Len(lists[k])
          /\ \A i \in 1..Len(l) : Owner(k, l[i]) = n
      BY <1>2, <2>1, <2>2, <2>3 DEF NamesBelong
    <3>2. j <= Len(lists'[k]) /\ GrowsBy(kind, name, k, j) /\ l \in Seq(NamesOf(k))
      BY <1>1, <1>2, <1>3, <3>1
    <3>3. CASE lists'[k][j] = l
      BY <3>1, <3>2, <3>3
    <3>4. CASE k = kind /\ j = mine[k] /\ l # <<>> /\ lists'[k][j] = Append(l, name)
      <4>1. mine[k] # 0 /\ lists[k][mine[k]] = l
        BY <2>3, <3>4
      <4>2. \A i \in 1..Len(l) : Owner(k, l[i]) = requests
        BY <4>1 DEF NamesAreOwn, NamesBelong
      <4>3. Len(l) \in Nat \ {0}
        BY <3>2, <3>4, EmptySeq
      <4> HIDE DEF l, j
      <4>4. Owner(k, l[1]) = n /\ Owner(k, l[1]) = requests
        BY <3>1, <4>2, <4>3
      <4>5. \A i \in 1..Len(Append(l, name)) : Owner(k, Append(l, name)[i]) = n
        <5> SUFFICES ASSUME NEW i \in 1..Len(Append(l, name))
                     PROVE  Owner(k, Append(l, name)[i]) = n
          OBVIOUS
        <5>1. CASE i = Len(l) + 1
          <6>1. Append(l, name)[i] = name  BY <3>2, <3>4, <5>1
          <6> QED  BY <6>1, <4>4, <3>4
        <5>2. CASE i # Len(l) + 1
          <6>1. i \in 1..Len(l) /\ Append(l, name)[i] = l[i]  BY <3>2, <3>4, <5>2
          <6> QED  BY <3>1, <6>1
        <5> QED  BY <5>1, <5>2
      <4> QED  BY <3>2, <3>4, <4>5 DEF l, j
    <3> HIDE DEF j, l
    <3>5. lists'[k][j] = l \/ (k = kind /\ j = mine[k] /\ l # <<>> /\ lists'[k][j] = Append(l, name))
      BY <3>2 DEF GrowsBy, l
    <3> QED
      BY <3>3, <3>4, <3>5 DEF j
  <2>4. NamesBelong(ids, n)' 
    BY <2>1, <2>3 DEF NamesBelong, ids, n
  <2> QED
    BY <2>4 DEF ids, n
<1> QED
  BY <1>4, <1>5 DEF NamesAreOwn

\* Popping from the log changes no name that a coroutine carries.
LEMMA PopKeepsNamesOwn ==
    ASSUME LogTyped, coroutines \in Seq(Coroutines), NamesAreOwn,
           NEW kind \in Kinds, Pop(kind), UNCHANGED <<coroutines, requests>>
    PROVE  NamesAreOwn'
<1>1. /\ mine' = mine
      /\ \A k \in Kinds : Len(lists'[k]) = Len(lists[k])
      /\ \A k \in Kinds : \A j \in 1..Len(lists[k]) :
           lists'[k][j] = lists[k][j] \/ lists'[k][j] = Front(lists[k][j])
  BY PopContent
<1>2. \A k \in Kinds : lists[k] \in Seq(Seq(NamesOf(k)))
  BY DEF LogTyped
<1>3. ASSUME NEW ids \in [Kinds -> Nat], NEW n, NamesBelong(ids, n)
      PROVE  \A k \in Kinds : ids[k] # 0 =>
               /\ ids[k] <= Len(lists'[k])
               /\ \A i \in 1..Len(lists'[k][ids[k]]) : Owner(k, lists'[k][ids[k]][i]) = n
  <2> SUFFICES ASSUME NEW k \in Kinds, ids[k] # 0
               PROVE  /\ ids[k] <= Len(lists'[k])
                      /\ \A i \in 1..Len(lists'[k][ids[k]]) : Owner(k, lists'[k][ids[k]][i]) = n
    OBVIOUS
  <2> DEFINE j == ids[k]
             l == lists[k][j]
             m == lists'[k][j]
  <2>1. /\ j \in 1..Len(lists[k]) /\ j <= Len(lists'[k])
        /\ \A i \in 1..Len(l) : Owner(k, l[i]) = n
    BY <1>1, <1>2, <1>3 DEF NamesBelong
  <2>2. l \in Seq(NamesOf(k))
    BY <1>2, <2>1
  <2>3. m = l \/ m = Front(l)
    BY <1>1, <2>1
  <2> HIDE DEF l, m, j
  <2>4. \A i \in 1..Len(m) : i \in 1..Len(l) /\ m[i] = l[i]
    <3>1. /\ Front(l) \in Seq(NamesOf(k)) /\ Len(Front(l)) <= Len(l)
          /\ \A i \in 1..Len(Front(l)) : Front(l)[i] = l[i]
      BY <2>2, FrontOfSeq
    <3>2. Len(l) \in Nat /\ Len(Front(l)) \in Nat
      BY <2>2, <3>1, LenProperties
    <3>3. CASE m = l  BY <3>3
    <3>4. CASE m = Front(l)
      <4>1. \A i \in 1..Len(Front(l)) : i \in 1..Len(l)  BY <3>1, <3>2
      <4> QED  BY <3>1, <3>4, <4>1, Zenon
    <3> QED  BY <2>3, <3>3, <3>4
  <2> QED
    BY <2>1, <2>4 DEF l, m, j
<1>4. NamesBelong(mine, requests)'
  <2>1. mine \in [Kinds -> Nat] /\ NamesBelong(mine, requests)
    BY DEF LogTyped, NamesAreOwn
  <2> QED
    BY <1>1, <1>3, <2>1 DEF NamesBelong
<1>5. ASSUME NEW c \in 1..Len(coroutines)
      PROVE  NamesBelong(coroutines[c].ids, coroutines[c].req[1])'
  <2>1. coroutines[c] \in Coroutines
    BY <1>5
  <2> DEFINE ids == coroutines[c].ids
             n == coroutines[c].req[1]
  <2>2. ids \in [Kinds -> Nat] /\ NamesBelong(ids, n)
    BY <1>5, <2>1 DEF NamesAreOwn, Coroutines
  <2>3. ids' = ids /\ n' = n
    OBVIOUS
  <2> HIDE DEF ids, n
  <2>4. NamesBelong(ids, n)'
    BY <1>3, <2>2, <2>3 DEF NamesBelong
  <2> QED
    BY <2>4 DEF ids, n
<1> QED
  BY <1>4, <1>5 DEF NamesAreOwn

\* Nor does a step that leaves the log and the coroutines alone.
LEMMA StandingKeepsNamesOwn ==
    ASSUME NamesAreOwn, UNCHANGED <<log, coroutines, requests>>
    PROVE  NamesAreOwn'
  BY DEF NamesAreOwn, NamesBelong, log

\* The log names what it named when it is left alone.
LEMMA StandingContent ==
    ASSUME LogTyped, UNCHANGED log
    PROVE  LogTyped' /\ \A kind \in Kinds : Content(kind)' = Content(kind)
  BY DEF LogTyped, Content, log, NamesOf, Requests
-----------------------------------------------------------------------------
(***************************************************************************)
(* Frames                                                                  *)
(***************************************************************************)
\* The conjuncts of TypeOK.
FrameTyped(f) ==
    /\ f.waits > 0 => f.at = "action" /\ f.waits <= Len(coroutines)
    /\ f.at \in {"job", "trying", "action"} => Len(f.answers) < f.job.actions

StackTyped ==
    /\ stack \in Seq(Frames) /\ Depth <= 2
    /\ \A d \in 1..Depth : FrameTyped(stack[d])
    /\ Depth = 2 => stack[1].at = "action"

OthersTyped ==
    /\ coroutines \in Seq(Coroutines)
    /\ requests \in 0..MaxRequests
    /\ up \in BOOLEAN /\ alarmed \in BOOLEAN /\ swallowed \in BOOLEAN

\* The type invariant by its parts.
LEMMA TypeParts == TypeOK <=> StackTyped /\ LogTyped /\ OthersTyped
<1>1. ASSUME stack \in Seq(Frames) /\ Depth <= 2
      PROVE  (\A d \in 1..Depth : d < Depth => stack[d].at = "action")
               <=> (Depth = 2 => stack[1].at = "action")
  <2>1. Depth \in {0, 1, 2}
    <3>1. Depth \in Nat  BY <1>1 DEF Depth
    <3>2. Depth <= 2  BY <1>1
    <3> QED  BY <3>1, <3>2
  <2> QED
    BY <2>1
<1> QED
  BY <1>1 DEF TypeOK, StackTyped, LogTyped, OthersTyped, FrameTyped

\* What the type of the stack says of its frames.
LEMMA DepthType ==
    ASSUME StackTyped
    PROVE  /\ Depth \in {0, 1, 2}
           /\ stack = <<>> <=> Depth = 0
           /\ \A d \in 1..Depth : stack[d] \in Frames
           /\ Depth > 0 => Top \in Frames /\ FrameTyped(Top)
           /\ Depth = 2 => stack[1] \in Frames /\ FrameTyped(stack[1]) /\ Caller = stack[1]
           /\ Depth = 1 => Top = stack[1]
<1>1. stack \in Seq(Frames) /\ Depth \in Nat /\ Depth <= 2
  BY DEF StackTyped, Depth
<1>2. stack = <<>> <=> Depth = 0
  BY <1>1, EmptySeq DEF Depth
<1>3. \A d \in 1..Depth : stack[d] \in Frames
  BY <1>1 DEF Depth
<1> QED
  BY <1>1, <1>2, <1>3 DEF StackTyped, Top, Caller

\* Both are the same call of the same job, with the same local calls of its own.
SameCall(f, g) ==
    /\ f.req = g.req /\ f.job = g.job /\ f.inbox = g.inbox
    /\ f.orphaned = g.orphaned /\ f.surprised = g.surprised

\* A frame that moves on is the same call, elsewhere.
LEMMA SetAt ==
    ASSUME NEW f \in Frames, NEW place \in Places
    PROVE  LET g == [f EXCEPT !.at = place] IN
           /\ g \in Frames /\ SameCall(g, f) /\ g.at = place
           /\ g.answers = f.answers /\ g.failed = f.failed /\ g.answered = f.answered
           /\ g.raised = f.raised /\ g.waits = f.waits
  BY DEF Frames, SameCall

\* A frame that notes an error is the same call.
LEMMA SetRaised ==
    ASSUME NEW f \in Frames, NEW error \in {"nothing", "error", "interrupt"}
    PROVE  LET g == [f EXCEPT !.raised = error] IN
           /\ g \in Frames /\ SameCall(g, f) /\ g.at = f.at
           /\ g.answers = f.answers /\ g.failed = f.failed /\ g.answered = f.answered
           /\ g.raised = error /\ g.waits = f.waits
  BY DEF Frames, SameCall

\* A frame that fails is the same call, with its error.
LEMMA FailingFrame ==
    ASSUME Top \in Frames, NEW place \in Places, NEW error \in {"error", "interrupt"}
    PROVE  LET g == Failing(place, error) IN
           /\ g \in Frames /\ SameCall(g, Top) /\ g.at = place
           /\ g.answers = Top.answers /\ g.failed = Top.failed /\ g.answered = Top.answered
           /\ g.raised = error /\ g.waits = Top.waits
<1> DEFINE f == [Top EXCEPT !.at = place]
           g == [f EXCEPT !.raised = error]
<1>1. /\ f \in Frames /\ SameCall(f, Top) /\ f.at = place
      /\ f.answers = Top.answers /\ f.failed = Top.failed /\ f.answered = Top.answered
      /\ f.waits = Top.waits
  BY SetAt
<1> HIDE DEF f
<1>2. /\ g \in Frames /\ SameCall(g, f) /\ g.at = f.at
      /\ g.answers = f.answers /\ g.failed = f.failed /\ g.answered = f.answered
      /\ g.raised = error /\ g.waits = f.waits
  <2>1. error \in {"nothing", "error", "interrupt"}
    OBVIOUS
  <2> QED
    BY <1>1, <2>1, SetRaised
<1>3. Failing(place, error) = g
  BY DEF Failing, f
<1> HIDE DEF g
<1> QED
  BY <1>1, <1>2, <1>3 DEF SameCall

\* A job that failed answers with an error of its own and none of its actions.
LEMMA FailedFrame ==
    ASSUME Top \in Frames
    PROVE  /\ JobFailed \in Frames /\ SameCall(JobFailed, Top) /\ JobFailed.at = "responding"
           /\ JobFailed.answers = <<>> /\ JobFailed.failed
           /\ JobFailed.answered = Top.answered
           /\ JobFailed.raised = Top.raised /\ JobFailed.waits = 0
<1> DEFINE f == [Top EXCEPT !.answers = <<>>]
           g == [f EXCEPT !.failed = TRUE]
           h == [g EXCEPT !.waits = 0]
<1>1. /\ f \in Frames /\ SameCall(f, Top)
      /\ f.answers = <<>> /\ f.answered = Top.answered /\ f.raised = Top.raised
  <2>1. <<>> \in Seq(BOOLEAN)
    OBVIOUS
  <2>2. PICK t \in Frames : t = Top
    OBVIOUS
  <2>3. /\ [t EXCEPT !.answers = <<>>] \in Frames
        /\ SameCall([t EXCEPT !.answers = <<>>], t)
        /\ [t EXCEPT !.answers = <<>>].answers = <<>>
        /\ [t EXCEPT !.answers = <<>>].answered = t.answered
        /\ [t EXCEPT !.answers = <<>>].raised = t.raised
    BY <2>1 DEF Frames, SameCall
  <2> QED
    BY <2>2, <2>3
<1> HIDE DEF f
<1>2. /\ g \in Frames /\ SameCall(g, f) /\ g.failed
      /\ g.answers = f.answers /\ g.answered = f.answered /\ g.raised = f.raised
  BY <1>1 DEF Frames, SameCall
<1> HIDE DEF g
<1>3. /\ h \in Frames /\ SameCall(h, g) /\ h.failed = g.failed /\ h.waits = 0
      /\ h.answers = g.answers /\ h.answered = g.answered /\ h.raised = g.raised
  BY <1>2 DEF Frames, SameCall
<1>4. JobFailed = [h EXCEPT !.at = "responding"]
  BY DEF JobFailed, f, g
<1> HIDE DEF h
<1>5. /\ JobFailed \in Frames /\ SameCall(JobFailed, h) /\ JobFailed.at = "responding"
      /\ JobFailed.answers = h.answers /\ JobFailed.failed = h.failed
      /\ JobFailed.answered = h.answered
      /\ JobFailed.raised = h.raised /\ JobFailed.waits = h.waits
  BY <1>3, <1>4, SetAt DEF Places
<1> QED
  BY <1>1, <1>2, <1>3, <1>5 DEF SameCall

\* A frame whose action is answered has one more answer.
LEMMA AnsweredFrame ==
    ASSUME NEW f \in Frames, NEW errors \in BOOLEAN, NEW place \in Places
    PROVE  LET g == Answered(f, errors, place) IN
           /\ g \in Frames /\ SameCall(g, f) /\ g.at = place
           /\ g.answers = Append(f.answers, errors)
           /\ g.failed = f.failed /\ g.answered = f.answered
           /\ g.raised = f.raised /\ g.waits = 0
<1> DEFINE h == [f EXCEPT !.answers = Append(@, errors)]
           g == [h EXCEPT !.waits = 0]
<1>1. f.answers \in Seq(BOOLEAN) /\ Append(f.answers, errors) \in Seq(BOOLEAN)
  BY DEF Frames
<1>2. /\ h \in Frames /\ SameCall(h, f)
      /\ h.answers = Append(f.answers, errors)
      /\ h.failed = f.failed /\ h.answered = f.answered /\ h.raised = f.raised
  BY <1>1 DEF Frames, SameCall
<1> HIDE DEF h
<1>3. /\ g \in Frames /\ SameCall(g, h) /\ g.answers = h.answers /\ g.failed = h.failed
      /\ g.answered = h.answered /\ g.raised = h.raised /\ g.waits = 0
  BY <1>2 DEF Frames, SameCall
<1>4. Answered(f, errors, place) = [g EXCEPT !.at = place]
  BY DEF Answered, h
<1> HIDE DEF g
<1> QED
  BY <1>2, <1>3, <1>4, SetAt DEF SameCall
-----------------------------------------------------------------------------
(***************************************************************************)
(* Steps of the request that is handled now                                *)
(***************************************************************************)
LEMMA FrameStays ==
    ASSUME NEW f \in Frames, FrameTyped(f), AnswersCollect(f), InterruptsAreAlarms(f),
           alarmed => alarmed', Len(coroutines) \in Nat, Len(coroutines') \in Nat,
           Len(coroutines) <= Len(coroutines')
    PROVE  FrameTyped(f)' /\ AnswersCollect(f)' /\ InterruptsAreAlarms(f)'
<1>1. FrameTyped(f)'
  BY DEF FrameTyped, Frames
<1>2. Explained(f) => Explained(f)'
  BY DEF Explained
<1>3. AnswersCollect(f)'
  BY <1>2 DEF AnswersCollect
<1> QED
  BY <1>1, <1>3 DEF InterruptsAreAlarms

\* Only the top of the stack is replaced.
LEMMA BecomesFacts ==
    ASSUME StackTyped, Depth > 0, NEW f \in Frames, stack' = [stack EXCEPT ![Depth] = f]
    PROVE  /\ stack' \in Seq(Frames) /\ Depth' = Depth /\ Top' = f
           /\ IsLocal' = IsLocal
           /\ \A d \in 1..Depth : stack'[d] = IF d = Depth THEN f ELSE stack[d]
           /\ Depth = 2 => stack'[1] = stack[1] /\ Top' = stack'[2]
           /\ Depth = 1 => stack'[1] = f
           /\ \A place : At(place)' <=> f.at = place
<1>1. /\ stack \in Seq(Frames) /\ Depth \in 1..Len(stack) /\ Depth = Len(stack)
      /\ Depth \in {1, 2}
  BY DepthType DEF StackTyped, Depth
<1> DEFINE n == Depth
<1>2. /\ stack' \in Seq(Frames) /\ Len(stack') = n
      /\ \A d \in 1..n : stack'[d] = IF d = n THEN f ELSE stack[d]
  BY <1>1
<1>3. Depth' = n
  BY <1>2 DEF Depth
<1>4. Top' = stack'[n]
  BY <1>3 DEF Top
<1>5. n \in 1..n /\ (n = 2 => 1 \in 1..n /\ 1 # n)
  BY <1>1
<1>6. Top' = f
  BY <1>2, <1>4, <1>5
<1>7. n = 2 => stack'[1] = stack[1] /\ Top' = stack'[2]
  BY <1>2, <1>4, <1>5
<1>8. n = 1 => stack'[1] = f
  BY <1>2, <1>5
<1>9. IsLocal' = IsLocal
  BY <1>3 DEF IsLocal
<1>10. \A place : At(place)' <=> f.at = place
  BY <1>3, <1>6 DEF At
<1> QED
  BY <1>2, <1>3, <1>6, <1>7, <1>8, <1>9, <1>10

CallsInv == OneRequestAtATime /\ FramesInv /\ InboxIsEmpty

\* The present request moves on: nothing changes for its caller.
LEMMA BecomesStep ==
    ASSUME StackTyped, OthersTyped, CallsInv,
           Depth > 0, NEW f \in Frames, stack' = [stack EXCEPT ![Depth] = f],
           SameCall(f, Top), Top.answered => f.answered,
           requests' = requests, alarmed => alarmed',
           Len(coroutines') \in Nat, Len(coroutines) <= Len(coroutines'),
           FrameTyped(f)', AnswersCollect(f)', InterruptsAreAlarms(f)'
    PROVE  StackTyped' /\ CallsInv'
<1>1. /\ stack' \in Seq(Frames) /\ Depth' = Depth /\ Top' = f
      /\ IsLocal' = IsLocal
      /\ \A d \in 1..Depth : stack'[d] = IF d = Depth THEN f ELSE stack[d]
      /\ Depth = 2 => stack'[1] = stack[1] /\ Top' = stack'[2]
      /\ Depth = 1 => stack'[1] = f
  BY BecomesFacts
<1>2. /\ Depth \in {1, 2} /\ Len(coroutines) \in Nat
      /\ \A d \in 1..Depth : stack[d] \in Frames
      /\ Depth = 1 => Top = stack[1]
  BY DepthType DEF OthersTyped
<1>3. ASSUME NEW d \in 1..Depth
      PROVE  (FrameTyped(stack[d]) /\ AnswersCollect(stack[d]) /\ InterruptsAreAlarms(stack[d]))'
  <2>1. PICK g \in Frames : stack'[d] = g /\ (IF d = Depth THEN g = f ELSE g = stack[d])
    BY <1>1, <1>2
  <2>2. FrameTyped(g)' /\ AnswersCollect(g)' /\ InterruptsAreAlarms(g)'
    <3>1. CASE d = Depth
      <4>1. g = f  BY <2>1, <3>1
      <4> QED  BY <4>1
    <3>2. CASE d # Depth
      <4>1. g = stack[d]
        BY <2>1, <3>2
      <4>2. FrameTyped(g) /\ AnswersCollect(g) /\ InterruptsAreAlarms(g)
        BY <4>1 DEF StackTyped, CallsInv, FramesInv
      <4> QED
        BY <1>2, <4>2, FrameStays
    <3> QED  BY <3>1, <3>2
  <2>3. FrameTyped(stack[d])' <=> FrameTyped(g)'
    BY <2>1 DEF FrameTyped
  <2>4. AnswersCollect(stack[d])' <=> AnswersCollect(g)'
    BY <2>1 DEF AnswersCollect, Explained
  <2>5. InterruptsAreAlarms(stack[d])' <=> InterruptsAreAlarms(g)'
    BY <2>1 DEF InterruptsAreAlarms
  <2> QED
    BY <2>2, <2>3, <2>4, <2>5
<1>4. StackTyped'
  BY <1>1, <1>2, <1>3 DEF StackTyped
<1>5. OneRequestAtATime'
  BY <1>1, <1>2 DEF CallsInv, OneRequestAtATime, SameCall
<1>6. FramesInv'
  BY <1>1, <1>3 DEF FramesInv
<1>7. InboxIsEmpty'
  <2>1. CASE Depth = 1
    <3>1. f.inbox = stack[1].inbox /\ f.orphaned = stack[1].orphaned
          /\ f.surprised = stack[1].surprised /\ ~IsLocal
      BY <1>2, <2>1 DEF SameCall, IsLocal
    <3> QED
      BY <1>1, <2>1, <3>1 DEF CallsInv, InboxIsEmpty
  <2>2. CASE Depth = 2
    <3>1. stack'[1] = stack[1] /\ f.req = Top.req /\ IsLocal
      BY <1>1, <2>2 DEF SameCall, IsLocal
    <3> QED
      BY <1>1, <2>2, <3>1 DEF CallsInv, InboxIsEmpty
  <2> QED  BY <1>2, <2>1, <2>2
<1> QED
  BY <1>4, <1>5, <1>6, <1>7 DEF CallsInv

\* The inductive invariant by its parts.
LEMMA InvParts == IInv <=> /\ StackTyped /\ LogTyped /\ OthersTyped /\ CallsInv
                           /\ HarakiriInv /\ RequestsAreNamed /\ ActionsAreNamed /\ NamesAreOwn
  BY TypeParts DEF IInv, CallsInv

\* What the log is to name when the top frame is replaced by one of its call.
LEMMA NamesAfter ==
    ASSUME StackTyped, Depth > 0, NEW f \in Frames, stack' = [stack EXCEPT ![Depth] = f],
           SameCall(f, Top)
    PROVE  /\ RequestNames' = IF IsLocal THEN IF IsNamed(f) THEN <<stack[1].req, Top.req>>
                                              ELSE <<stack[1].req>>
                              ELSE IF IsNamed(f) THEN <<Top.req>> ELSE <<>>
           /\ OwnAction' = IF f.at = "action" THEN <<NameOf(f)>> ELSE <<>>
           /\ ActionNames' = IF IsLocal THEN IF f.at = "action"
                                             THEN <<NameOf(stack[1]), NameOf(f)>>
                                             ELSE <<NameOf(stack[1])>>
                             ELSE OwnAction'
<1>1. /\ Depth' = Depth /\ Top' = f /\ IsLocal' = IsLocal
      /\ Depth = 2 => stack'[1] = stack[1]
      /\ At("action")' <=> f.at = "action"
      /\ Depth \in {1, 2}
  <2>1. Depth \in {1, 2}  BY DepthType
  <2> QED  BY <2>1, BecomesFacts
<1>2. IsLocal <=> Depth = 2
  BY <1>1 DEF IsLocal
<1>3. f.req = Top.req
  BY DEF SameCall
<1>4. RequestNames' = IF IsLocal THEN IF IsNamed(f) THEN <<stack[1].req, Top.req>>
                                      ELSE <<stack[1].req>>
                      ELSE IF IsNamed(f) THEN <<Top.req>> ELSE <<>>
  BY <1>1, <1>2, <1>3 DEF RequestNames, IsNamed
<1>5. OwnAction' = IF f.at = "action" THEN <<NameOf(f)>> ELSE <<>>
  BY <1>1 DEF OwnAction, NameOf
<1>6. ActionNames' = IF IsLocal THEN IF f.at = "action"
                                     THEN <<NameOf(stack[1]), NameOf(f)>>
                                     ELSE <<NameOf(stack[1])>>
                     ELSE OwnAction'
  BY <1>1, <1>2 DEF ActionNames, NameOf
<1> QED
  BY <1>4, <1>5, <1>6

\* SIGALRM does not come.
LEMMA HarakiriStays ==
    ASSUME StackTyped, HarakiriInv,
           Depth > 0, NEW f \in Frames, stack' = [stack EXCEPT ![Depth] = f],
           UNCHANGED <<up, alarmed, swallowed>>,
           Top.at \in Over => f.at \in Over, Top.raised = "nothing" \/ f.raised = Top.raised
    PROVE  HarakiriInv'
<1>1. Depth' = Depth /\ Top' = f
  BY BecomesFacts
<1> QED
  BY <1>1 DEF HarakiriInv

\* A step that leaves the log alone; in an action, it is an interrupt.
LEMMA MoveStep ==
    ASSUME IInv, Depth > 0, NEW f \in Frames, stack' = [stack EXCEPT ![Depth] = f],
           SameCall(f, Top), Top.answered => f.answered,
           UNCHANGED <<log, coroutines, requests>>, alarmed => alarmed',
           up' \in BOOLEAN, alarmed' \in BOOLEAN, swallowed' \in BOOLEAN,
           FrameTyped(f)', AnswersCollect(f)', InterruptsAreAlarms(f)', HarakiriInv',
           Top.at # "raising", (Top.at # "action" /\ f.at # "action") \/ alarmed',
           \/ IsNamed(f) <=> IsNamed(Top)
           \/ f.at = "raising" /\ f.raised = "interrupt" /\ alarmed',
           Top.at \in Over => f.at \in Over
    PROVE  IInv'
<1>1. /\ StackTyped /\ LogTyped /\ OthersTyped /\ CallsInv
      /\ HarakiriInv /\ RequestsAreNamed /\ ActionsAreNamed /\ NamesAreOwn
  BY InvParts
<1>2. Len(coroutines') \in Nat /\ Len(coroutines) <= Len(coroutines')
  BY <1>1 DEF OthersTyped
<1>3. StackTyped' /\ CallsInv'
  BY <1>1, <1>2, BecomesStep
<1>4. LogTyped' /\ \A kind \in Kinds : Content(kind)' = Content(kind)
  BY <1>1, StandingContent
<1>5. OthersTyped'
  BY <1>1 DEF OthersTyped, Coroutines, Requests
<1>6. NamesAreOwn'
  BY <1>1, StandingKeepsNamesOwn
<1>7. /\ Depth' = Depth /\ Top' = f /\ IsLocal' = IsLocal /\ Depth \in {1, 2}
      /\ Depth = 1 => Top = stack[1]
  <2>1. Depth \in {1, 2} /\ (Depth = 1 => Top = stack[1])  BY <1>1, DepthType
  <2> QED  BY <1>1, <2>1, BecomesFacts
<1>8. Content("request")' = Content("request") /\ Content("action")' = Content("action")
  BY <1>4 DEF Kinds
<1>9. RequestsAreNamed'
  <2>1. CASE IsNamed(f) <=> IsNamed(Top)
    <3>1. RequestNames' = RequestNames
      BY <1>1, <1>7, <2>1, NamesAfter DEF RequestNames
    <3> QED
      BY <1>1, <1>7, <1>8, <3>1 DEF RequestsAreNamed
  <2>2. CASE f.at = "raising" /\ f.raised = "interrupt" /\ alarmed'
    BY <2>2 DEF RequestsAreNamed
  <2> QED  BY <2>1, <2>2
<1>10. ActionsAreNamed'
  <2>1. CASE Top.at # "action" /\ f.at # "action"
    <3>1. ~At("action")
      BY <2>1 DEF At
    <3>2. ActionNames' = ActionNames
      BY <1>1, <1>7, <2>1, <3>1, NamesAfter DEF ActionNames, OwnAction
    <3> QED
      BY <1>1, <1>8, <3>2 DEF ActionsAreNamed
  <2>2. CASE alarmed'
    BY <2>2 DEF ActionsAreNamed
  <2> QED  BY <2>1, <2>2
<1> QED
  BY <1>1, <1>3, <1>4, <1>5, <1>6, <1>9, <1>10, InvParts, PTL

\* What the invariant says of the frame at the top.
LEMMA TopFacts ==
    ASSUME IInv, Depth > 0
    PROVE  /\ Top \in Frames /\ FrameTyped(Top) /\ AnswersCollect(Top) /\ InterruptsAreAlarms(Top)
           /\ Top.job.actions \in Nat \ {0}
           /\ up \in BOOLEAN /\ alarmed \in BOOLEAN /\ swallowed \in BOOLEAN
           /\ StackTyped /\ HarakiriInv /\ OthersTyped /\ Len(coroutines) \in Nat
<1>1. StackTyped /\ OthersTyped /\ CallsInv /\ HarakiriInv
  BY InvParts
<1>2. Top \in Frames /\ FrameTyped(Top) /\ Depth \in 1..Depth /\ Top = stack[Depth]
  BY <1>1, DepthType DEF Top
<1>3. AnswersCollect(Top) /\ InterruptsAreAlarms(Top)
  BY <1>1, <1>2 DEF CallsInv, FramesInv
<1>4. Top.job.actions \in Nat \ {0}
  BY <1>2, JobAssumption DEF Frames
<1> QED
  BY <1>1, <1>2, <1>3, <1>4 DEF OthersTyped

\* A frame that moves on, logging nothing and answering nothing.
LEMMA MoveToStep ==
    ASSUME IInv, NEW from, NEW to,
           <<from, to>> \in {<<"entered", "preparing">>, <<"preparing", "job">>,
                             <<"job", "trying">>, <<"leaving", "responding">>},
           At(from), MoveTo(to), UNCHANGED <<log, alarmed, swallowed>>
    PROVE  IInv'
<1>1. Depth > 0 /\ Top.at = from
  BY DEF At
<1>2. /\ Top \in Frames /\ FrameTyped(Top) /\ AnswersCollect(Top) /\ InterruptsAreAlarms(Top)
      /\ Top.job.actions \in Nat \ {0}
      /\ up \in BOOLEAN /\ alarmed \in BOOLEAN /\ swallowed \in BOOLEAN
      /\ StackTyped /\ HarakiriInv
  BY <1>1, TopFacts
<1>3. to \in Places
  BY DEF Places
<1>4. PICK t \in Frames : t = Top
  BY <1>2
<1>5. PICK f \in Frames :
        /\ f = [t EXCEPT !.at = to] /\ SameCall(f, t) /\ f.at = to
        /\ f.answers = t.answers /\ f.failed = t.failed /\ f.answered = t.answered
        /\ f.raised = t.raised /\ f.waits = t.waits
  BY <1>3, SetAt
<1>6. /\ stack' = [stack EXCEPT ![Depth] = f] /\ SameCall(f, Top)
      /\ UNCHANGED <<coroutines, up, requests>>
  BY <1>4, <1>5 DEF MoveTo, Becomes
<1>7. f.job = t.job /\ t.answers \in Seq(BOOLEAN) /\ t.waits \in Nat
  BY <1>5 DEF SameCall, Frames
<1>8. t.waits = 0
  BY <1>1, <1>2, <1>4, <1>7 DEF FrameTyped
<1>9. FrameTyped(f)'
  BY <1>1, <1>2, <1>4, <1>5, <1>7, <1>8 DEF FrameTyped, AnswersCollect
<1>10. Explained(t) => Explained(f)'
  BY <1>5, <1>7 DEF Explained
<1>11. AnswersCollect(f)'
  BY <1>1, <1>2, <1>4, <1>5, <1>7, <1>10 DEF AnswersCollect, Over
<1>12. InterruptsAreAlarms(f)'
  BY <1>1, <1>2, <1>4, <1>5 DEF InterruptsAreAlarms
<1>13. HarakiriInv'
  BY <1>1, <1>2, <1>4, <1>5, <1>6, HarakiriStays DEF Over
<1> QED
  BY <1>1, <1>2, <1>4, <1>5, <1>6, <1>9, <1>11, <1>12, <1>13, MoveStep DEF IsNamed, Over

\* FrameTyped, AnswersCollect and InterruptsAreAlarms of a frame that ended in an
\* error outside of the actions.
LEMMA FailingStep ==
    ASSUME IInv, Depth > 0, NEW place \in {"closing", "raising"}, NEW error \in {"error", "interrupt"},
           stack' = [stack EXCEPT ![Depth] = Failing(place, error)],
           Top.at \notin {"job", "trying", "action", "leaving", "raising"},
           place = "raising" => error = "interrupt",
           Top.at = "closing" => place = "raising",
           \/ UNCHANGED <<up, alarmed, swallowed>> /\ error = "error"
           \/ UNCHANGED swallowed /\ alarmed' = TRUE /\ up' = FALSE /\ error = "interrupt",
           UNCHANGED <<log, coroutines, requests>>,
           Top.at \in {"received", "entered"} => place = "raising"
    PROVE  IInv'
<1>1. /\ Top \in Frames /\ FrameTyped(Top) /\ AnswersCollect(Top) /\ InterruptsAreAlarms(Top)
      /\ Top.job.actions \in Nat \ {0}
      /\ up \in BOOLEAN /\ alarmed \in BOOLEAN /\ swallowed \in BOOLEAN
      /\ StackTyped /\ HarakiriInv
  BY TopFacts
<1>2. place \in Places
  BY DEF Places
<1>3. PICK t \in Frames : t = Top
  BY <1>1
<1>4. PICK f \in Frames :
        /\ f = Failing(place, error) /\ SameCall(f, t) /\ f.at = place
        /\ f.answers = t.answers /\ f.failed = t.failed /\ f.answered = t.answered
        /\ f.raised = error /\ f.waits = t.waits
  BY <1>1, <1>2, <1>3, FailingFrame
<1>5. stack' = [stack EXCEPT ![Depth] = f] /\ SameCall(f, Top)
  BY <1>3, <1>4
<1>6. f.job = t.job /\ t.answers \in Seq(BOOLEAN) /\ t.waits \in Nat /\ t.at \in Places
  BY <1>4 DEF SameCall, Frames
<1>7. t.waits = 0
  BY <1>1, <1>3, <1>6 DEF FrameTyped
<1>8. FrameTyped(f)'
  BY <1>4, <1>6, <1>7 DEF FrameTyped
<1>9. Explained(t) => Explained(f)'
  BY <1>4, <1>6 DEF Explained
<1>10. AnswersCollect(f)'
  BY <1>1, <1>3, <1>4, <1>6, <1>9 DEF AnswersCollect, Over
<1>11. InterruptsAreAlarms(f)'
  BY <1>4 DEF InterruptsAreAlarms
<1>12. HarakiriInv'
  <2>1. CASE UNCHANGED <<up, alarmed, swallowed>> /\ error = "error"
    <3>1. Top.raised = "nothing"
      BY <1>1, <1>3, <1>6, <2>1 DEF InterruptsAreAlarms
    <3> QED
      BY <1>1, <1>4, <1>5, <2>1, <3>1, HarakiriStays DEF Over
  <2>2. CASE alarmed' = TRUE /\ up' = FALSE /\ error = "interrupt"
    <3>1. Top' = f
      BY <1>1, <1>5, BecomesFacts
    <3> QED
      BY <1>4, <2>2, <3>1 DEF HarakiriInv, Over
  <2> QED  BY <2>1, <2>2
<1> QED
  BY <1>1, <1>3, <1>4, <1>5, <1>6, <1>8, <1>10, <1>11, <1>12, MoveStep DEF IsNamed, Over, Places

\* The frame of a job that failed, and of an action that was answered.
LEMMA FailedIsExplained ==
    ASSUME IInv, Depth > 0, Top.at \in {"job", "action", "leaving"}, alarmed => alarmed'
    PROVE  \E f \in Frames :
             /\ f = JobFailed /\ SameCall(f, Top) /\ f.at = "responding"
             /\ f.answered = Top.answered /\ f.raised = Top.raised
             /\ FrameTyped(f)' /\ AnswersCollect(f)' /\ InterruptsAreAlarms(f)'
<1>1. Top \in Frames /\ AnswersCollect(Top) /\ InterruptsAreAlarms(Top)
  BY TopFacts
<1>2. /\ JobFailed \in Frames /\ SameCall(JobFailed, Top) /\ JobFailed.at = "responding"
      /\ JobFailed.answers = <<>> /\ JobFailed.failed
      /\ JobFailed.answered = Top.answered
      /\ JobFailed.raised = Top.raised /\ JobFailed.waits = 0
  BY <1>1, FailedFrame
<1>3. PICK f \in Frames : f = JobFailed
  BY <1>2
<1>4. ~f.answered /\ f.raised = "nothing"
  BY <1>1, <1>2, <1>3 DEF AnswersCollect, InterruptsAreAlarms, Frames
<1>5. FrameTyped(f)'
  BY <1>2, <1>3 DEF FrameTyped
<1>6. AnswersCollect(f)'
  BY <1>2, <1>3, <1>4 DEF AnswersCollect, Explained, Over
<1>7. InterruptsAreAlarms(f)'
  BY <1>4 DEF InterruptsAreAlarms
<1> QED
  BY <1>2, <1>3, <1>5, <1>6, <1>7

\* An answer is a further one of the call, with an error if harakiri wrote it.
LEMMA AnswerIsExplained ==
    ASSUME IInv, Depth > 0, Top.at \in {"job", "trying", "action"}, alarmed => alarmed',
           NEW errors \in BOOLEAN, NEW harakiri \in BOOLEAN,
           harakiri => alarmed' /\ errors
    PROVE  \E f \in Frames :
             /\ f = Answer(errors, harakiri) /\ SameCall(f, Top)
             /\ f.at \in {"job", "leaving"} /\ (harakiri => f.at = "leaving")
             /\ f.answered = Top.answered /\ f.raised = Top.raised
             /\ FrameTyped(f)' /\ AnswersCollect(f)' /\ InterruptsAreAlarms(f)'
<1> DEFINE place == IF Goes(errors, harakiri) THEN "job" ELSE "leaving"
<1>1. /\ Top \in Frames /\ FrameTyped(Top) /\ AnswersCollect(Top) /\ InterruptsAreAlarms(Top)
      /\ Top.job.actions \in Nat \ {0}
  BY TopFacts
<1>2. PICK t \in Frames : t = Top
  BY <1>1
<1>3. PICK p \in Places : p = place
  BY DEF Places
<1>4. PICK f \in Frames :
        /\ f = Answered(t, errors, p) /\ SameCall(f, t) /\ f.at = p
        /\ f.answers = Append(t.answers, errors)
        /\ f.failed = t.failed /\ f.answered = t.answered
        /\ f.raised = t.raised /\ f.waits = 0
  BY AnsweredFrame
<1>5. f = Answer(errors, harakiri)
  BY <1>2, <1>3, <1>4 DEF Answer
<1>6. /\ f.job = t.job /\ t.answers \in Seq(BOOLEAN) /\ Len(t.answers) \in Nat
      /\ Len(t.answers) < t.job.actions /\ t.job.actions \in Nat
      /\ \A i \in 1..Len(t.answers) : t.answers[i] => t.job.continueOnError
      /\ ~t.failed /\ ~t.answered /\ t.raised = "nothing"
  <2>1. f.job = t.job /\ t.answers \in Seq(BOOLEAN) /\ t.failed \in BOOLEAN
    BY <1>4 DEF SameCall, Frames
  <2>2. t.at \notin Over /\ t.at \notin {"closing", "raising"}
    BY <1>2 DEF Over
  <2>3. ~t.failed /\ ~t.answered /\ t.raised = "nothing"
    BY <1>1, <1>2, <2>2 DEF AnswersCollect, InterruptsAreAlarms, Frames
  <2> QED
    BY <1>1, <1>2, <2>1, <2>3 DEF FrameTyped, AnswersCollect
<1> DEFINE n == Len(t.answers) + 1
<1>7. /\ Len(f.answers) = n /\ n \in Nat /\ f.answers[n] = errors
      /\ \A i \in 1..(n - 1) : f.answers[i] = t.answers[i]
      /\ n - 1 = Len(t.answers)
  BY <1>4, <1>6
<1>8. /\ p \in {"job", "leaving"} /\ (harakiri => p = "leaving")
      /\ p = "job" => n < t.job.actions /\ (errors => t.job.continueOnError)
      /\ p = "leaving" => harakiri \/ (errors /\ ~t.job.continueOnError) \/ n >= t.job.actions
  BY <1>2, <1>3, <1>6 DEF Goes
<1> HIDE DEF n, place
<1>9. FrameTyped(f)'
  BY <1>4, <1>6, <1>7, <1>8 DEF FrameTyped
<1>10. \A i \in 1..(n - 1) : f.answers[i] => f.job.continueOnError
  BY <1>6, <1>7
<1>11. p = "job" => \A i \in 1..n : f.answers[i] => f.job.continueOnError
  BY <1>6, <1>7, <1>8, <1>10
<1>12. p = "leaving" => Explained(f)'
  <2> SUFFICES ASSUME p = "leaving"
               PROVE  n = f.job.actions
                      \/ (n > 0 /\ f.answers[n] /\ (alarmed' \/ ~f.job.continueOnError))
    BY <1>7, <1>10 DEF Explained
  <2>1. n > 0 /\ n <= f.job.actions
    BY <1>6, <1>7 DEF n
  <2>2. n >= f.job.actions => n = f.job.actions
    BY <1>6, <1>7, <2>1
  <2> QED
    BY <1>6, <1>7, <1>8, <2>1, <2>2
<1>13. AnswersCollect(f)'
  BY <1>4, <1>6, <1>7, <1>8, <1>11, <1>12 DEF AnswersCollect
<1>14. InterruptsAreAlarms(f)'
  BY <1>4, <1>6 DEF InterruptsAreAlarms
<1> QED
  BY <1>2, <1>4, <1>5, <1>8, <1>9, <1>13, <1>14

\* A job fails by an error or an alarm outside of its actions, or by an alarm
\* in front of the removal of the name of one.
LEMMA FailedStep ==
    ASSUME IInv, Depth > 0, Top.at \in {"job", "action", "leaving"},
           Top.at = "action" => alarmed',
           stack' = [stack EXCEPT ![Depth] = JobFailed], UNCHANGED <<log, coroutines, requests>>,
           \/ UNCHANGED <<up, alarmed, swallowed>>
           \/ alarmed' = TRUE /\ up' = FALSE /\ swallowed' = IsLocal
    PROVE  IInv'
<1>1. /\ Top \in Frames /\ InterruptsAreAlarms(Top)
      /\ up \in BOOLEAN /\ alarmed \in BOOLEAN /\ swallowed \in BOOLEAN
      /\ StackTyped /\ HarakiriInv
  BY TopFacts
<1>2. /\ alarmed => alarmed'
      /\ up' \in BOOLEAN /\ alarmed' \in BOOLEAN /\ swallowed' \in BOOLEAN
  <2>1. IsLocal \in BOOLEAN
    BY DEF IsLocal
  <2>2. CASE UNCHANGED <<up, alarmed, swallowed>>
    BY <1>1, <2>2
  <2>3. CASE alarmed' = TRUE /\ up' = FALSE /\ swallowed' = IsLocal
    <3>1. swallowed' \in BOOLEAN  BY <2>1, <2>3, Zenon
    <3> QED  BY <2>3, <3>1
  <2> QED  BY <2>2, <2>3
<1>3. PICK f \in Frames :
        /\ f = JobFailed /\ SameCall(f, Top) /\ f.at = "responding"
        /\ f.answered = Top.answered /\ f.raised = Top.raised
        /\ FrameTyped(f)' /\ AnswersCollect(f)' /\ InterruptsAreAlarms(f)'
  BY <1>2, FailedIsExplained
<1>4. stack' = [stack EXCEPT ![Depth] = f]
  BY <1>3
<1>5. HarakiriInv'
  <2>1. CASE UNCHANGED <<up, alarmed, swallowed>>
    BY <1>1, <1>3, <1>4, <2>1, HarakiriStays DEF Over
  <2>2. CASE alarmed' = TRUE /\ up' = FALSE /\ swallowed' = IsLocal
    <3>1. Top' = f /\ Depth' = Depth
      BY <1>1, <1>4, BecomesFacts
    <3>2. Depth = 2 => IsLocal
      BY DEF IsLocal
    <3>3. swallowed' <=> IsLocal
      BY <2>2, Zenon
    <3> QED
      BY <1>3, <3>1, <2>2, <3>2, <3>3 DEF HarakiriInv, Over
  <2> QED  BY <2>1, <2>2
<1> QED
  BY <1>2, <1>3, <1>4, <1>5, MoveStep DEF IsNamed, Over

\* Actions that are not known are answered with an error.
LEMMA AnswerUnknownStep ==
    ASSUME IInv, AnswerUnknown
    PROVE  IInv'
<1>1. /\ Depth > 0 /\ Top.at = "job"
      /\ stack' = [stack EXCEPT ![Depth] = Answer(TRUE, FALSE)]
      /\ UNCHANGED <<log, coroutines, requests, up, alarmed, swallowed>>
  BY DEF AnswerUnknown, At, Becomes
<1>2. /\ up \in BOOLEAN /\ alarmed \in BOOLEAN /\ swallowed \in BOOLEAN
      /\ StackTyped /\ HarakiriInv
  BY <1>1, TopFacts
<1>3. PICK f \in Frames :
        /\ f = Answer(TRUE, FALSE) /\ SameCall(f, Top) /\ f.at \in {"job", "leaving"}
        /\ f.answered = Top.answered /\ f.raised = Top.raised
        /\ FrameTyped(f)' /\ AnswersCollect(f)' /\ InterruptsAreAlarms(f)'
  BY <1>1, AnswerIsExplained
<1>4. stack' = [stack EXCEPT ![Depth] = f]
  BY <1>1, <1>3
<1>5. HarakiriInv'
  BY <1>1, <1>2, <1>3, <1>4, HarakiriStays DEF Over
<1> QED
  BY <1>1, <1>2, <1>3, <1>4, <1>5, MoveStep DEF IsNamed, Over
-----------------------------------------------------------------------------
(***************************************************************************)
(* Steps that change the log                                               *)
(***************************************************************************)
LEMMA LogParts ==
    ASSUME IInv, Depth > 0, NEW f \in Frames, stack' = [stack EXCEPT ![Depth] = f],
           SameCall(f, Top), Top.answered => f.answered,
           UNCHANGED <<coroutines, requests>>, alarmed => alarmed',
           up' \in BOOLEAN, alarmed' \in BOOLEAN, swallowed' \in BOOLEAN,
           FrameTyped(f)', AnswersCollect(f)', InterruptsAreAlarms(f)'
    PROVE  /\ StackTyped /\ LogTyped /\ OthersTyped /\ RequestsAreNamed /\ ActionsAreNamed
           /\ NamesAreOwn
           /\ StackTyped' /\ CallsInv' /\ OthersTyped'
           /\ Depth' = Depth /\ Top' = f /\ IsLocal' = IsLocal /\ (IsLocal <=> Depth = 2)
           /\ Depth \in {1, 2} /\ (Depth = 1 => Top = stack[1])
           /\ Top.req \in Requests /\ Top.req[1] = requests
           /\ RequestNames' = IF IsLocal THEN IF IsNamed(f) THEN <<stack[1].req, Top.req>>
                                              ELSE <<stack[1].req>>
                              ELSE IF IsNamed(f) THEN <<Top.req>> ELSE <<>>
           /\ OwnAction' = IF f.at = "action" THEN <<NameOf(f)>> ELSE <<>>
           /\ ActionNames' = IF IsLocal THEN IF f.at = "action"
                                             THEN <<NameOf(stack[1]), NameOf(f)>>
                                             ELSE <<NameOf(stack[1])>>
                             ELSE OwnAction'
<1>1. /\ StackTyped /\ LogTyped /\ OthersTyped /\ CallsInv
      /\ RequestsAreNamed /\ ActionsAreNamed /\ NamesAreOwn
  BY InvParts
<1>2. Len(coroutines') \in Nat /\ Len(coroutines) <= Len(coroutines')
  BY <1>1 DEF OthersTyped
<1>3. StackTyped' /\ CallsInv'
  BY <1>1, <1>2, BecomesStep
<1>4. OthersTyped'
  BY <1>1 DEF OthersTyped, Coroutines, Requests
<1>5. Depth \in {1, 2} /\ (Depth = 1 => Top = stack[1]) /\ Top \in Frames
  BY <1>1, DepthType
<1>6. Depth' = Depth /\ Top' = f /\ IsLocal' = IsLocal
  BY <1>1, BecomesFacts
<1>7. IsLocal <=> Depth = 2
  BY <1>5 DEF IsLocal
<1>8. Top.req \in Requests
  BY <1>5 DEF Frames
<1>9. Top.req[1] = requests
  BY <1>1, <1>5 DEF CallsInv, OneRequestAtATime
<1> QED
  BY <1>1, <1>3, <1>4, <1>5, <1>6, <1>7, <1>8, <1>9, NamesAfter

\* The present request takes a place and a name is added to the log.
LEMMA MoveToFrame ==
    ASSUME IInv, Depth > 0, NEW place \in {"entered", "action"}, MoveTo(place),
           place = "entered" => Top.at = "received", place = "action" => Top.at = "trying",
           UNCHANGED <<alarmed, swallowed>>
    PROVE  \E f \in Frames :
             /\ f.at = place /\ SameCall(f, Top) /\ stack' = [stack EXCEPT ![Depth] = f]
             /\ f.answers = Top.answers /\ Len(f.answers) \in Nat
             /\ f.answered = Top.answered /\ UNCHANGED <<coroutines, requests>>
             /\ up' \in BOOLEAN /\ alarmed' \in BOOLEAN /\ swallowed' \in BOOLEAN
             /\ FrameTyped(f)' /\ AnswersCollect(f)' /\ InterruptsAreAlarms(f)' /\ HarakiriInv'
<1>1. /\ Top \in Frames /\ FrameTyped(Top) /\ AnswersCollect(Top) /\ InterruptsAreAlarms(Top)
      /\ Top.job.actions \in Nat \ {0}
      /\ up \in BOOLEAN /\ alarmed \in BOOLEAN /\ swallowed \in BOOLEAN
      /\ StackTyped /\ HarakiriInv
  BY TopFacts
<1>2. place \in Places
  BY DEF Places
<1>3. PICK t \in Frames : t = Top
  BY <1>1
<1>4. PICK f \in Frames :
        /\ f = [t EXCEPT !.at = place] /\ SameCall(f, t) /\ f.at = place
        /\ f.answers = t.answers /\ f.failed = t.failed /\ f.answered = t.answered
        /\ f.raised = t.raised /\ f.waits = t.waits
  BY <1>2, SetAt
<1>5. /\ stack' = [stack EXCEPT ![Depth] = f] /\ SameCall(f, Top)
      /\ UNCHANGED <<coroutines, up, requests>>
  BY <1>3, <1>4 DEF MoveTo, Becomes
<1>6. f.job = t.job /\ t.answers \in Seq(BOOLEAN) /\ t.waits \in Nat /\ Len(f.answers) \in Nat
  BY <1>4 DEF SameCall, Frames
<1>7. t.waits = 0
  BY <1>1, <1>3, <1>6 DEF FrameTyped
<1>8. FrameTyped(f)'
  BY <1>1, <1>3, <1>4, <1>6, <1>7 DEF FrameTyped
<1>9. AnswersCollect(f)'
  BY <1>1, <1>3, <1>4, <1>6 DEF AnswersCollect, Over
<1>10. InterruptsAreAlarms(f)'
  BY <1>1, <1>3, <1>4 DEF InterruptsAreAlarms
<1>11. HarakiriInv'
  BY <1>1, <1>3, <1>4, <1>5, HarakiriStays DEF Over
<1> QED
  BY <1>1, <1>3, <1>4, <1>5, <1>6, <1>8, <1>9, <1>10, <1>11

\* The log names the request from here on.
LEMMA EnterContextStep ==
    ASSUME IInv, EnterContext
    PROVE  IInv'
<1>1. /\ Depth > 0 /\ Top.at = "received" /\ Push("request", Top.req) /\ MoveTo("entered")
      /\ UNCHANGED <<alarmed, swallowed>>
  BY DEF EnterContext, At
<1>2. PICK f \in Frames :
        /\ f.at = "entered" /\ SameCall(f, Top) /\ stack' = [stack EXCEPT ![Depth] = f]
        /\ f.answered = Top.answered /\ UNCHANGED <<coroutines, requests>>
        /\ up' \in BOOLEAN /\ alarmed' \in BOOLEAN /\ swallowed' \in BOOLEAN
        /\ FrameTyped(f)' /\ AnswersCollect(f)' /\ InterruptsAreAlarms(f)' /\ HarakiriInv'
  BY <1>1, MoveToFrame
<1>3. /\ StackTyped /\ LogTyped /\ OthersTyped /\ RequestsAreNamed /\ ActionsAreNamed
      /\ NamesAreOwn
      /\ StackTyped' /\ CallsInv' /\ OthersTyped'
      /\ Depth' = Depth /\ Top' = f /\ IsLocal' = IsLocal /\ (IsLocal <=> Depth = 2)
      /\ Depth \in {1, 2}
      /\ Top.req \in Requests /\ Top.req[1] = requests
      /\ RequestNames' = IF IsLocal THEN IF IsNamed(f) THEN <<stack[1].req, Top.req>>
                                         ELSE <<stack[1].req>>
                         ELSE IF IsNamed(f) THEN <<Top.req>> ELSE <<>>
      /\ OwnAction' = IF f.at = "action" THEN <<NameOf(f)>> ELSE <<>>
      /\ ActionNames' = IF IsLocal THEN IF f.at = "action"
                                        THEN <<NameOf(stack[1]), NameOf(f)>>
                                        ELSE <<NameOf(stack[1])>>
                        ELSE OwnAction'
  BY <1>1, <1>2, LogParts
<1>4. PICK name \in NamesOf("request") : name = Top.req /\ Owner("request", name) = requests
  BY <1>3 DEF NamesOf, Owner
<1>5. "request" \in Kinds /\ "action" \in Kinds \ {"request"} /\ requests \in Nat
      /\ coroutines \in Seq(Coroutines)
  BY <1>3 DEF Kinds, OthersTyped
<1>6. /\ LogTyped' /\ Content("action")' = Content("action")
      /\ Content("request")' = Append(Content("request"), name)
  BY <1>1, <1>3, <1>4, <1>5, PushContent
<1>7. NamesAreOwn'
  BY <1>1, <1>2, <1>3, <1>4, <1>5, PushKeepsNamesOwn
<1>8. ~alarmed => Content("request") = IF IsLocal THEN <<stack[1].req>> ELSE <<>>
  BY <1>1, <1>3 DEF RequestsAreNamed, RequestNames, IsNamed
<1>9. RequestsAreNamed'
  <2>1. ASSUME ~alarmed
        PROVE  Content("request")' = RequestNames'
    BY <2>1, <1>2, <1>3, <1>4, <1>6, <1>8, ShortSequences DEF IsNamed
  <2> QED
    BY <1>1, <2>1 DEF RequestsAreNamed
<1>10. ActionsAreNamed'
  <2>1. ~At("action") /\ f.at # "action"
    BY <1>1, <1>2 DEF At
  <2>2. ActionNames' = ActionNames
    BY <1>3, <2>1 DEF ActionNames, OwnAction
  <2> QED
    BY <1>1, <1>3, <1>6, <2>2 DEF ActionsAreNamed
<1> QED
  BY <1>2, <1>3, <1>6, <1>7, <1>9, <1>10, InvParts, PTL

\* The log names the action from here on.
LEMMA NameActionStep ==
    ASSUME IInv, NameAction
    PROVE  IInv'
<1>1. /\ Depth > 0 /\ Top.at = "trying" /\ MoveTo("action")
      /\ Push("action", <<Top.req, Len(Top.answers) + 1>>)
      /\ UNCHANGED <<alarmed, swallowed>>
  BY DEF NameAction, At
<1>2. PICK f \in Frames :
        /\ f.at = "action" /\ SameCall(f, Top) /\ stack' = [stack EXCEPT ![Depth] = f]
        /\ f.answers = Top.answers /\ Len(f.answers) \in Nat
        /\ f.answered = Top.answered /\ UNCHANGED <<coroutines, requests>>
        /\ up' \in BOOLEAN /\ alarmed' \in BOOLEAN /\ swallowed' \in BOOLEAN
        /\ FrameTyped(f)' /\ AnswersCollect(f)' /\ InterruptsAreAlarms(f)' /\ HarakiriInv'
  BY <1>1, MoveToFrame
<1>3. /\ StackTyped /\ LogTyped /\ OthersTyped /\ RequestsAreNamed /\ ActionsAreNamed
      /\ NamesAreOwn
      /\ StackTyped' /\ CallsInv' /\ OthersTyped'
      /\ Depth' = Depth /\ Top' = f /\ IsLocal' = IsLocal /\ (IsLocal <=> Depth = 2)
      /\ Depth \in {1, 2}
      /\ Top.req \in Requests /\ Top.req[1] = requests
      /\ RequestNames' = IF IsLocal THEN IF IsNamed(f) THEN <<stack[1].req, Top.req>>
                                         ELSE <<stack[1].req>>
                         ELSE IF IsNamed(f) THEN <<Top.req>> ELSE <<>>
      /\ OwnAction' = IF f.at = "action" THEN <<NameOf(f)>> ELSE <<>>
      /\ ActionNames' = IF IsLocal THEN IF f.at = "action"
                                        THEN <<NameOf(stack[1]), NameOf(f)>>
                                        ELSE <<NameOf(stack[1])>>
                        ELSE OwnAction'
  BY <1>1, <1>2, LogParts
<1>4. PICK name \in NamesOf("action") :
        /\ name = <<Top.req, Len(Top.answers) + 1>> /\ Owner("action", name) = requests
        /\ name = NameOf(f)
  <2>1. NamesOf("action") = Requests \X Nat
    BY DEF NamesOf
  <2>2. Len(Top.answers) + 1 \in Nat
    BY <1>2
  <2>3. f.req = Top.req
    BY <1>2 DEF SameCall
  <2> QED
    BY <1>2, <1>3, <2>1, <2>2, <2>3 DEF Owner, NameOf
<1>5. "action" \in Kinds /\ "request" \in Kinds \ {"action"} /\ requests \in Nat
      /\ coroutines \in Seq(Coroutines)
  BY <1>3 DEF Kinds, OthersTyped
<1>6. /\ LogTyped' /\ Content("request")' = Content("request")
      /\ Content("action")' = Append(Content("action"), name)
  BY <1>1, <1>3, <1>4, <1>5, PushContent
<1>7. NamesAreOwn'
  BY <1>1, <1>2, <1>3, <1>4, <1>5, PushKeepsNamesOwn
<1>8. RequestsAreNamed'
  <2>1. RequestNames' = RequestNames
    BY <1>1, <1>2, <1>3 DEF RequestNames, IsNamed
  <2> QED
    BY <1>1, <1>3, <1>6, <2>1 DEF RequestsAreNamed
<1>9. ~alarmed => Content("action") = IF IsLocal THEN <<NameOf(stack[1])>> ELSE <<>>
  BY <1>1, <1>3 DEF ActionsAreNamed, ActionNames, OwnAction, At
<1>10. ActionsAreNamed'
  <2>1. ASSUME ~alarmed
        PROVE  Content("action")' = ActionNames'
    BY <2>1, <1>2, <1>3, <1>4, <1>6, <1>9, ShortSequences
  <2> QED
    BY <1>1, <2>1 DEF ActionsAreNamed
<1> QED
  BY <1>2, <1>3, <1>6, <1>7, <1>8, <1>10, InvParts, PTL

\* The name of the action is popped as the action ends, however it ends.
LEMMA PopActionStep ==
    ASSUME IInv, Depth > 0, NEW f \in Frames, stack' = [stack EXCEPT ![Depth] = f],
           SameCall(f, Top), f.answered = Top.answered,
           UNCHANGED <<coroutines, requests>>, alarmed => alarmed',
           up' \in BOOLEAN, alarmed' \in BOOLEAN, swallowed' \in BOOLEAN,
           FrameTyped(f)', AnswersCollect(f)', InterruptsAreAlarms(f)', HarakiriInv',
           Top.at \in {"trying", "action"}, f.at \notin {"received", "raising", "action"},
           Pop("action"), Top.at = "trying" => alarmed'
    PROVE  IInv'
<1>1. /\ StackTyped /\ LogTyped /\ OthersTyped /\ RequestsAreNamed /\ ActionsAreNamed
      /\ NamesAreOwn
      /\ StackTyped' /\ CallsInv' /\ OthersTyped'
      /\ Depth' = Depth /\ Top' = f /\ IsLocal' = IsLocal /\ (IsLocal <=> Depth = 2)
      /\ Depth \in {1, 2}
      /\ RequestNames' = IF IsLocal THEN IF IsNamed(f) THEN <<stack[1].req, Top.req>>
                                         ELSE <<stack[1].req>>
                         ELSE IF IsNamed(f) THEN <<Top.req>> ELSE <<>>
      /\ OwnAction' = IF f.at = "action" THEN <<NameOf(f)>> ELSE <<>>
      /\ ActionNames' = IF IsLocal THEN IF f.at = "action"
                                        THEN <<NameOf(stack[1]), NameOf(f)>>
                                        ELSE <<NameOf(stack[1])>>
                        ELSE OwnAction'
  BY LogParts
<1>2. "action" \in Kinds /\ "request" \in Kinds \ {"action"} /\ coroutines \in Seq(Coroutines)
  BY <1>1 DEF Kinds, OthersTyped
<1>3. /\ LogTyped' /\ Content("request")' = Content("request")
      /\ Content("action")' = Front(Content("action"))
  BY <1>1, <1>2, PopContent
<1>4. NamesAreOwn'
  BY <1>1, <1>2, PopKeepsNamesOwn
<1>5. RequestsAreNamed'
  <2>1. RequestNames' = RequestNames
    BY <1>1 DEF RequestNames, IsNamed
  <2> QED
    BY <1>1, <1>3, <2>1 DEF RequestsAreNamed
<1>7. ActionsAreNamed'
  <2>1. CASE alarmed'
    BY <2>1 DEF ActionsAreNamed
  <2>2. CASE ~alarmed'
    <3>1. Top.at = "action" /\ At("action") /\ ~alarmed
      BY <2>2 DEF At
    <3>2. Content("action") = IF IsLocal THEN <<NameOf(stack[1]), NameOf(Top)>>
                              ELSE <<NameOf(Top)>>
      BY <1>1, <3>1 DEF ActionsAreNamed, ActionNames, OwnAction
    <3>3. Content("action")' = IF IsLocal THEN <<NameOf(stack[1])>> ELSE <<>>
      BY <1>3, <3>2, ShortSequences
    <3>4. ActionNames' = IF IsLocal THEN <<NameOf(stack[1])>> ELSE <<>>
      BY <1>1
    <3> QED  BY <3>3, <3>4 DEF ActionsAreNamed
  <2> QED  BY <2>1, <2>2
<1> QED
  BY <1>1, <1>3, <1>4, <1>5, <1>7, InvParts, PTL

\* The action returns, with errors or without.
LEMMA FinishActionStep ==
    ASSUME IInv, FinishAction
    PROVE  IInv'
<1>1. PICK errors \in BOOLEAN :
        /\ Depth > 0 /\ Top.at = "action" /\ Pop("action")
        /\ stack' = [stack EXCEPT ![Depth] = Answer(errors, FALSE)]
        /\ UNCHANGED <<coroutines, up, requests, alarmed, swallowed>>
  BY DEF FinishAction, Acting, At, Becomes
<1>2. /\ up \in BOOLEAN /\ alarmed \in BOOLEAN /\ swallowed \in BOOLEAN
      /\ StackTyped /\ HarakiriInv
  BY <1>1, TopFacts
<1>3. PICK f \in Frames :
        /\ f = Answer(errors, FALSE) /\ SameCall(f, Top) /\ f.at \in {"job", "leaving"}
        /\ f.answered = Top.answered /\ f.raised = Top.raised
        /\ FrameTyped(f)' /\ AnswersCollect(f)' /\ InterruptsAreAlarms(f)'
  BY <1>1, AnswerIsExplained
<1>4. stack' = [stack EXCEPT ![Depth] = f]
  BY <1>1, <1>3
<1>5. HarakiriInv'
  BY <1>1, <1>2, <1>3, <1>4, HarakiriStays DEF Over
<1> QED
  BY <1>1, <1>2, <1>3, <1>4, <1>5, PopActionStep

\* The action raises an error or is interrupted by harakiri.
LEMMA ActionRaisesStep ==
    ASSUME IInv, ActionRaisesJobError
    PROVE  IInv'
<1>1. /\ Depth > 0 /\ Top.at = "action" /\ Pop("action")
      /\ stack' = [stack EXCEPT ![Depth] = JobFailed]
      /\ UNCHANGED <<coroutines, up, requests, alarmed, swallowed>>
  BY DEF ActionRaisesJobError, Acting, At, Becomes
<1>2. /\ up \in BOOLEAN /\ alarmed \in BOOLEAN /\ swallowed \in BOOLEAN
      /\ StackTyped /\ HarakiriInv
  BY <1>1, TopFacts
<1>3. PICK f \in Frames :
        /\ f = JobFailed /\ SameCall(f, Top) /\ f.at = "responding"
        /\ f.answered = Top.answered /\ f.raised = Top.raised
        /\ FrameTyped(f)' /\ AnswersCollect(f)' /\ InterruptsAreAlarms(f)'
  BY <1>1, FailedIsExplained
<1>4. stack' = [stack EXCEPT ![Depth] = f]
  BY <1>1, <1>3
<1>5. HarakiriInv'
  BY <1>1, <1>2, <1>3, <1>4, HarakiriStays DEF Over
<1> QED
  BY <1>1, <1>2, <1>3, <1>4, <1>5, PopActionStep

\* The request is over and its exception goes on, its name is removed.
LEMMA PopRequestStep ==
    ASSUME IInv, Depth > 0, Top.at = "closing", NEW error \in {"error", "interrupt"},
           stack' = [stack EXCEPT ![Depth] = Failing("raising", error)],
           UNCHANGED <<coroutines, requests>>, Pop("request"),
           \/ UNCHANGED <<up, alarmed, swallowed>> /\ (Top.raised = "nothing" \/ error = Top.raised)
                /\ (error = "interrupt" => Top.raised = "interrupt")
           \/ alarmed' = TRUE /\ up' = FALSE /\ error = "interrupt" /\ UNCHANGED swallowed
    PROVE  IInv'
<1>1. /\ Top \in Frames /\ FrameTyped(Top) /\ AnswersCollect(Top) /\ InterruptsAreAlarms(Top)
      /\ up \in BOOLEAN /\ alarmed \in BOOLEAN /\ swallowed \in BOOLEAN
      /\ StackTyped /\ HarakiriInv
  BY TopFacts
<1>2. /\ alarmed => alarmed'
      /\ up' \in BOOLEAN /\ alarmed' \in BOOLEAN /\ swallowed' \in BOOLEAN
  BY <1>1
<1>3. PICK t \in Frames : t = Top
  BY <1>1
<1>4. PICK f \in Frames :
        /\ f = Failing("raising", error) /\ SameCall(f, t) /\ f.at = "raising"
        /\ f.answers = t.answers /\ f.failed = t.failed /\ f.answered = t.answered
        /\ f.raised = error /\ f.waits = t.waits
  BY <1>1, <1>3, FailingFrame DEF Places
<1>5. stack' = [stack EXCEPT ![Depth] = f] /\ SameCall(f, Top) /\ f.answered = Top.answered
  BY <1>3, <1>4
<1>6. f.job = t.job /\ t.answers \in Seq(BOOLEAN) /\ t.waits \in Nat
  BY <1>4 DEF SameCall, Frames
<1>7. t.waits = 0
  BY <1>1, <1>3, <1>6 DEF FrameTyped
<1>8. FrameTyped(f)'
  BY <1>4, <1>6, <1>7 DEF FrameTyped
<1>9. Explained(t) => Explained(f)'
  BY <1>2, <1>4, <1>6 DEF Explained
<1>10. AnswersCollect(f)'
  BY <1>1, <1>3, <1>4, <1>6, <1>9 DEF AnswersCollect, Over
<1>11. InterruptsAreAlarms(f)'
  BY <1>1, <1>4 DEF InterruptsAreAlarms
<1>12. HarakiriInv'
  <2>1. CASE UNCHANGED <<up, alarmed, swallowed>> /\ (Top.raised = "nothing" \/ error = Top.raised)
    BY <1>1, <1>4, <1>5, <2>1, HarakiriStays DEF Over
  <2>2. CASE alarmed' = TRUE /\ up' = FALSE /\ error = "interrupt"
    <3>1. Top' = f
      BY <1>1, <1>5, BecomesFacts
    <3> QED
      BY <1>4, <2>2, <3>1 DEF HarakiriInv, Over
  <2> QED  BY <2>1, <2>2
<1>13. /\ StackTyped /\ LogTyped /\ OthersTyped /\ RequestsAreNamed /\ ActionsAreNamed
       /\ NamesAreOwn
       /\ StackTyped' /\ CallsInv' /\ OthersTyped'
       /\ Depth' = Depth /\ Top' = f /\ IsLocal' = IsLocal /\ (IsLocal <=> Depth = 2)
       /\ Depth \in {1, 2}
       /\ RequestNames' = IF IsLocal THEN IF IsNamed(f) THEN <<stack[1].req, Top.req>>
                                          ELSE <<stack[1].req>>
                          ELSE IF IsNamed(f) THEN <<Top.req>> ELSE <<>>
       /\ OwnAction' = IF f.at = "action" THEN <<NameOf(f)>> ELSE <<>>
       /\ ActionNames' = IF IsLocal THEN IF f.at = "action"
                                         THEN <<NameOf(stack[1]), NameOf(f)>>
                                         ELSE <<NameOf(stack[1])>>
                         ELSE OwnAction'
  BY <1>2, <1>5, <1>8, <1>10, <1>11, LogParts
<1>14. "request" \in Kinds /\ "action" \in Kinds \ {"request"} /\ coroutines \in Seq(Coroutines)
  BY <1>13 DEF Kinds, OthersTyped
<1>15. /\ LogTyped' /\ Content("action")' = Content("action")
       /\ Content("request")' = Front(Content("request"))
  BY <1>13, <1>14, PopContent
<1>16. NamesAreOwn'
  BY <1>13, <1>14, PopKeepsNamesOwn
<1>17. RequestsAreNamed'
  <2>1. CASE alarmed'
    BY <2>1 DEF RequestsAreNamed
  <2>2. CASE ~alarmed'
    <3>1. Content("request") = IF IsLocal THEN <<stack[1].req, Top.req>> ELSE <<Top.req>>
      BY <1>2, <1>13, <2>2 DEF RequestsAreNamed, RequestNames, IsNamed
    <3>2. Content("request")' = IF IsLocal THEN <<stack[1].req>> ELSE <<>>
      BY <1>15, <3>1, ShortSequences
    <3> QED
      BY <1>4, <1>13, <3>2 DEF RequestsAreNamed, IsNamed
  <2> QED
    BY <2>1, <2>2
<1>18. ActionsAreNamed'
  <2>1. ~At("action") /\ f.at # "action"
    BY <1>4 DEF At
  <2>2. ActionNames' = ActionNames
    BY <1>13, <2>1 DEF ActionNames, OwnAction
  <2> QED
    BY <1>2, <1>13, <1>15, <2>2 DEF ActionsAreNamed
<1> QED
  BY <1>12, <1>13, <1>15, <1>16, <1>17, <1>18, InvParts, PTL
-----------------------------------------------------------------------------
(***************************************************************************)
(* Steps that begin and end requests                                       *)
(***************************************************************************)
LEMMA SameFrame ==
    ASSUME NEW g \in Frames, NEW d \in Nat, stack'[d] = g
    PROVE  /\ FrameTyped(stack[d])' <=> FrameTyped(g)'
           /\ AnswersCollect(stack[d])' <=> AnswersCollect(g)'
           /\ InterruptsAreAlarms(stack[d])' <=> InterruptsAreAlarms(g)'
  BY DEF FrameTyped, AnswersCollect, Explained, InterruptsAreAlarms

\* What the invariant asks of a server that handles no job.
LEMMA NoFrame ==
    ASSUME stack' = <<>>
    PROVE  /\ StackTyped' /\ CallsInv' /\ Depth' = 0 /\ ~IsLocal'
           /\ RequestNames' = <<>> /\ OwnAction' = <<>> /\ ActionNames' = <<>>
<1>1. stack' \in Seq(Frames) /\ Depth' = 0
  BY DEF Depth
<1>2. ~IsLocal' /\ ~At("action")'
  BY <1>1 DEF IsLocal, At
<1>3. \A d \in 1..0 : FALSE
  OBVIOUS
<1>4. RequestNames' = <<>> /\ OwnAction' = <<>> /\ ActionNames' = <<>>
  BY <1>1, <1>2 DEF RequestNames, OwnAction, ActionNames
<1>5. StackTyped'
  BY <1>1, <1>3 DEF StackTyped
<1>6. OneRequestAtATime' /\ InboxIsEmpty'
  BY <1>1 DEF OneRequestAtATime, InboxIsEmpty
<1>7. FramesInv'
  BY <1>1, <1>3 DEF FramesInv
<1> QED
  BY <1>1, <1>2, <1>4, <1>5, <1>6, <1>7 DEF CallsInv

\* What it asks of a server that handles a request.
LEMMA OneFrame ==
    ASSUME NEW g \in Frames, stack' = <<g>>,
           FrameTyped(g)', AnswersCollect(g)', InterruptsAreAlarms(g)',
           g.req = <<requests', 0>>, g.orphaned \/ (~g.surprised /\ g.inbox = <<>>)
    PROVE  /\ StackTyped' /\ CallsInv' /\ Depth' = 1 /\ Top' = g /\ ~IsLocal'
           /\ RequestNames' = IF IsNamed(g) THEN <<g.req>> ELSE <<>>
           /\ OwnAction' = IF g.at = "action" THEN <<NameOf(g)>> ELSE <<>>
           /\ ActionNames' = OwnAction'
<1>1. stack' \in Seq(Frames) /\ Depth' = 1 /\ stack'[1] = g
  BY DEF Depth
<1>2. Top' = g
  BY <1>1 DEF Top
<1>3. ~IsLocal' /\ (At("action")' <=> g.at = "action")
  BY <1>1, <1>2 DEF IsLocal, At
<1>4. /\ RequestNames' = IF IsNamed(g) THEN <<g.req>> ELSE <<>>
      /\ OwnAction' = IF g.at = "action" THEN <<NameOf(g)>> ELSE <<>>
      /\ ActionNames' = OwnAction'
  BY <1>1, <1>2, <1>3 DEF RequestNames, OwnAction, ActionNames, IsNamed, NameOf
<1>5. ASSUME NEW d \in 1..1
      PROVE  (FrameTyped(stack[d]) /\ AnswersCollect(stack[d]) /\ InterruptsAreAlarms(stack[d]))'
  <2>1. d \in Nat /\ stack'[d] = g
    BY <1>1
  <2> QED  BY <2>1, SameFrame
<1>6. StackTyped'
  BY <1>1, <1>5 DEF StackTyped
<1>7. OneRequestAtATime'
  BY <1>1, <1>2 DEF OneRequestAtATime
<1>8. FramesInv'
  BY <1>1, <1>5 DEF FramesInv
<1>9. InboxIsEmpty'
  <2>1. g.inbox = <<>> => \A i \in 1..Len(g.inbox) : FALSE
    <3>1. Len(<<>>) = 0 /\ \A i \in 1..0 : FALSE
      OBVIOUS
    <3> QED  BY <3>1
  <2> QED
    BY <1>1, <2>1 DEF InboxIsEmpty
<1> QED
  BY <1>1, <1>2, <1>3, <1>4, <1>6, <1>7, <1>8, <1>9 DEF CallsInv

\* What it asks of a server that calls itself locally.
LEMMA TwoFrames ==
    ASSUME NEW c \in Frames, NEW f \in Frames, stack' = <<c, f>>,
           FrameTyped(c)', AnswersCollect(c)', InterruptsAreAlarms(c)',
           FrameTyped(f)', AnswersCollect(f)', InterruptsAreAlarms(f)',
           c.at = "action", c.req = <<requests', 0>>, f.req[1] = requests',
           f.inbox = <<>>, ~f.orphaned, ~f.surprised,
           c.orphaned \/ /\ ~c.surprised
                         /\ \A i \in 1..Len(c.inbox) : f.answered /\ c.inbox[i] = f.req
    PROVE  /\ StackTyped' /\ CallsInv' /\ Depth' = 2 /\ Top' = f /\ IsLocal'
           /\ RequestNames' = IF IsNamed(f) THEN <<c.req, f.req>> ELSE <<c.req>>
           /\ OwnAction' = IF f.at = "action" THEN <<NameOf(f)>> ELSE <<>>
           /\ ActionNames' = IF f.at = "action" THEN <<NameOf(c), NameOf(f)>> ELSE <<NameOf(c)>>
<1>1. stack' \in Seq(Frames) /\ Depth' = 2 /\ stack'[1] = c /\ stack'[2] = f
  BY DEF Depth
<1>2. Top' = f
  BY <1>1 DEF Top
<1>3. IsLocal' /\ (At("action")' <=> f.at = "action")
  BY <1>1, <1>2 DEF IsLocal, At
<1>4. /\ RequestNames' = IF IsNamed(f) THEN <<c.req, f.req>> ELSE <<c.req>>
      /\ OwnAction' = IF f.at = "action" THEN <<NameOf(f)>> ELSE <<>>
      /\ ActionNames' = IF f.at = "action" THEN <<NameOf(c), NameOf(f)>> ELSE <<NameOf(c)>>
  BY <1>1, <1>2, <1>3 DEF RequestNames, OwnAction, ActionNames, IsNamed, NameOf
<1>5. ASSUME NEW d \in 1..2
      PROVE  (FrameTyped(stack[d]) /\ AnswersCollect(stack[d]) /\ InterruptsAreAlarms(stack[d]))'
  <2>1. d = 1 \/ d = 2
    OBVIOUS
  <2>2. CASE d = 1
    <3>1. d \in Nat /\ stack'[d] = c  BY <1>1, <2>2
    <3> QED  BY <3>1, SameFrame
  <2>3. CASE d = 2
    <3>1. d \in Nat /\ stack'[d] = f  BY <1>1, <2>3
    <3> QED  BY <3>1, SameFrame
  <2> QED  BY <2>1, <2>2, <2>3
<1>6. StackTyped'
  BY <1>1, <1>5 DEF StackTyped
<1>7. OneRequestAtATime'
  BY <1>1, <1>2 DEF OneRequestAtATime
<1>8. FramesInv'
  BY <1>1, <1>5 DEF FramesInv
<1>9. InboxIsEmpty'
  BY <1>1, <1>2, <1>3 DEF InboxIsEmpty
<1> QED
  BY <1>1, <1>2, <1>3, <1>4, <1>6, <1>7, <1>8, <1>9 DEF CallsInv

\* What the invariant says of the frame that called locally.
LEMMA CallerFacts ==
    ASSUME IInv, Depth = 2
    PROVE  /\ Caller \in Frames /\ Caller = stack[1]
           /\ FrameTyped(Caller) /\ AnswersCollect(Caller) /\ InterruptsAreAlarms(Caller)
           /\ Caller.at = "action" /\ Caller.req = <<requests, 0>>
           /\ Top.req[1] = requests /\ Top.inbox = <<>> /\ ~Top.orphaned /\ ~Top.surprised
           /\ ~Caller.orphaned =>
                 /\ ~Caller.surprised
                 /\ \A i \in 1..Len(Caller.inbox) : Top.answered /\ Caller.inbox[i] = Top.req
           /\ IsLocal
<1>1. StackTyped /\ CallsInv
  BY InvParts
<1>2. Caller \in Frames /\ Caller = stack[1] /\ FrameTyped(Caller) /\ Caller.at = "action"
  BY <1>1, DepthType DEF StackTyped
<1>3. AnswersCollect(stack[1]) /\ InterruptsAreAlarms(stack[1])
  BY <1>1 DEF CallsInv, FramesInv
<1>4. /\ stack[1].req = <<requests, 0>>
      /\ Top.req[1] = requests /\ Top.inbox = <<>> /\ ~Top.orphaned /\ ~Top.surprised
  BY <1>1 DEF CallsInv, OneRequestAtATime
<1>5. ~stack[1].orphaned =>
         /\ ~stack[1].surprised
         /\ \A i \in 1..Len(stack[1].inbox) : Top.answered /\ stack[1].inbox[i] = Top.req
  BY <1>1 DEF CallsInv, InboxIsEmpty
<1>6. IsLocal
  BY DEF IsLocal
<1> QED
  BY <1>2, <1>3, <1>4, <1>5, <1>6

\* A job that was just received has no answers.
LEMMA NewFrame ==
    ASSUME NEW job \in Jobs, NEW req \in Requests
    PROVE  LET f == Handling(req, job) IN
           /\ f \in Frames /\ f.at = "received" /\ f.req = req /\ f.inbox = <<>>
           /\ ~f.orphaned /\ ~f.surprised /\ ~f.answered /\ f.raised = "nothing"
           /\ FrameTyped(f)' /\ AnswersCollect(f)' /\ InterruptsAreAlarms(f)'
<1> DEFINE f == Handling(req, job)
<1>1. <<>> \in Seq(BOOLEAN) /\ <<>> \in Seq(Requests)
  OBVIOUS
<1>2. 0 \in 0..MaxLocalCalls
  BY JobAssumption
<1>3. f \in Frames
  BY <1>1, <1>2 DEF Handling, Frames, Places
<1>4. /\ f.at = "received" /\ f.req = req /\ f.inbox = <<>> /\ f.answers = <<>>
      /\ ~f.orphaned /\ ~f.surprised /\ ~f.answered /\ ~f.failed
      /\ f.raised = "nothing" /\ f.waits = 0
  BY DEF Handling
<1>5. PICK g \in Frames : g = f
  BY <1>3
<1>6. f' = g
  BY <1>5 DEF Handling
<1> HIDE DEF f
<1>7. FrameTyped(g)' /\ AnswersCollect(g)' /\ InterruptsAreAlarms(g)'
  BY <1>4, <1>5 DEF FrameTyped, AnswersCollect, InterruptsAreAlarms
<1>8. FrameTyped(f)' /\ AnswersCollect(f)' /\ InterruptsAreAlarms(f)'
  BY <1>6, <1>7 DEF FrameTyped, AnswersCollect, Explained, InterruptsAreAlarms
<1> QED
  BY <1>3, <1>4, <1>8 DEF f

\* A request is received from the transport.
LEMMA TakeRequestStep ==
    ASSUME IInv, NEW job \in Jobs, TakeRequest(job)
    PROVE  IInv'
<1>1. /\ StackTyped /\ LogTyped /\ OthersTyped /\ CallsInv
      /\ HarakiriInv /\ RequestsAreNamed /\ ActionsAreNamed /\ NamesAreOwn
  BY InvParts
<1>2. Depth = 0 /\ ~IsLocal /\ ~At("action")
  BY <1>1, DepthType DEF TakeRequest, IsLocal, At
<1>3. requests' \in 0..MaxRequests /\ requests' \in 1..MaxRequests
  BY <1>1, JobAssumption DEF OthersTyped, TakeRequest
<1>4. PICK req \in Requests : req = <<requests', 0>>
  <2>1. 0 \in 0..MaxLocalCalls
    BY JobAssumption
  <2>2. \A r \in 1..MaxRequests : <<r, 0>> \in Requests
    BY <2>1 DEF Requests
  <2> QED  BY <1>3, <2>2
<1>5. PICK f \in Frames :
        /\ f = Handling(req, job)
        /\ f.at = "received" /\ f.req = req /\ f.inbox = <<>>
        /\ ~f.orphaned /\ ~f.surprised /\ ~f.answered /\ f.raised = "nothing"
        /\ FrameTyped(f)' /\ AnswersCollect(f)' /\ InterruptsAreAlarms(f)'
  <2> DEFINE h == Handling(req, job)
  <2>1. /\ h \in Frames /\ h.at = "received" /\ h.req = req /\ h.inbox = <<>>
        /\ ~h.orphaned /\ ~h.surprised /\ ~h.answered /\ h.raised = "nothing"
        /\ FrameTyped(h)' /\ AnswersCollect(h)' /\ InterruptsAreAlarms(h)'
    BY NewFrame
  <2>2. PICK f \in Frames : f = h
    BY <2>1
  <2>3. h' = f
    BY <2>2 DEF Handling
  <2>4. FrameTyped(f)' /\ AnswersCollect(f)' /\ InterruptsAreAlarms(f)'
    <3> HIDE DEF h
    <3> QED
      BY <2>1, <2>3 DEF FrameTyped, AnswersCollect, Explained, InterruptsAreAlarms
  <2> QED  BY <2>1, <2>2, <2>4
<1>6. stack' = <<f>> /\ UNCHANGED <<log, coroutines, up, alarmed, swallowed>> /\ up
  BY <1>4, <1>5 DEF TakeRequest
<1>7. /\ StackTyped' /\ CallsInv' /\ Depth' = 1 /\ Top' = f /\ ~IsLocal'
      /\ RequestNames' = <<>> /\ OwnAction' = <<>> /\ ActionNames' = <<>>
  BY <1>4, <1>5, <1>6, OneFrame DEF IsNamed
<1>8. ~alarmed
  BY <1>1, <1>6 DEF HarakiriInv
<1>9. /\ LogTyped' /\ Content("request")' = Content("request")
      /\ Content("action")' = Content("action")
  BY <1>1, <1>6, StandingContent DEF Kinds
<1>10. Content("request") = <<>> /\ Content("action") = <<>>
  BY <1>1, <1>2, <1>8 DEF RequestsAreNamed, RequestNames, ActionsAreNamed, ActionNames, OwnAction
<1>11. RequestsAreNamed' /\ ActionsAreNamed'
  BY <1>7, <1>9, <1>10 DEF RequestsAreNamed, ActionsAreNamed
<1>12. OthersTyped'
  BY <1>1, <1>3, <1>6 DEF OthersTyped, Coroutines, Requests
<1>13. HarakiriInv'
  BY <1>6, <1>8 DEF HarakiriInv
<1>14. NamesAreOwn'
  <2>1. \A kind \in Kinds : mine[kind] # 0 => lists[kind][mine[kind]] = <<>>
    BY <1>10 DEF Content, Kinds
  <2>2. \A i \in 1..Len(<<>>) : FALSE
    <3>1. Len(<<>>) = 0 /\ \A i \in 1..0 : FALSE
      OBVIOUS
    <3> QED  BY <3>1
  <2>3. \A kind \in Kinds : mine[kind] <= Len(lists[kind])
    BY <1>1 DEF LogTyped
  <2>4. lists' = lists /\ mine' = mine /\ coroutines' = coroutines
    BY <1>6 DEF log
  <2>5. NamesBelong(mine, requests)'
    BY <2>1, <2>2, <2>3, <2>4 DEF NamesBelong
  <2> QED
    BY <1>1, <2>4, <2>5 DEF NamesAreOwn, NamesBelong
<1> QED
  BY <1>7, <1>9, <1>11, <1>12, <1>13, <1>14, InvParts, PTL

\* An action calls its own server.
LEMMA CallLocallyStep ==
    ASSUME IInv, NEW job \in Jobs, CallLocally(job)
    PROVE  IInv'
<1>1. /\ StackTyped /\ LogTyped /\ OthersTyped /\ CallsInv
      /\ HarakiriInv /\ RequestsAreNamed /\ ActionsAreNamed /\ NamesAreOwn
  BY InvParts
<1>2. Depth = 1 /\ ~IsLocal /\ At("action") /\ Top.at = "action" /\ Top = stack[1]
  BY <1>1, DepthType DEF CallLocally, Acting, At, IsLocal
<1>3. Depth > 0
  BY <1>2
<1>4. /\ Top \in Frames /\ FrameTyped(Top) /\ AnswersCollect(Top) /\ InterruptsAreAlarms(Top)
      /\ Len(coroutines) \in Nat
  BY <1>3, TopFacts
<1>5. PICK t \in Frames : t = Top
  BY <1>4
<1>6. /\ t.req = <<requests, 0>> /\ requests \in 1..MaxRequests
      /\ t.calls \in 0..MaxLocalCalls /\ t.calls < MaxLocalCalls
  <2>1. t.req = <<requests, 0>>
    BY <1>1, <1>2, <1>5 DEF CallsInv, OneRequestAtATime
  <2>2. t.req[1] \in 1..MaxRequests
    BY DEF Frames, Requests
  <2>3. t.req[1] = requests
    BY <2>1
  <2> QED
    BY <1>5, <2>1, <2>2, <2>3 DEF CallLocally, Frames
<1>7. PICK call \in 0..MaxLocalCalls : call = t.calls + 1
  BY <1>6, JobAssumption
<1>8. PICK req \in Requests : req = <<t.req[1], call>> /\ req[1] = requests
  <2>1. t.req[1] = requests
    BY <1>6
  <2>2. <<requests, call>> \in Requests
    BY <1>6 DEF Requests
  <2>3. <<requests, call>>[1] = requests
    OBVIOUS
  <2> QED  BY <2>1, <2>2, <2>3
<1>9. PICK f \in Frames :
        /\ f = Handling(req, job)
        /\ f.at = "received" /\ f.req = req /\ f.inbox = <<>>
        /\ ~f.orphaned /\ ~f.surprised /\ ~f.answered /\ f.raised = "nothing"
        /\ FrameTyped(f)' /\ AnswersCollect(f)' /\ InterruptsAreAlarms(f)'
  <2> DEFINE h == Handling(req, job)
  <2>1. /\ h \in Frames /\ h.at = "received" /\ h.req = req /\ h.inbox = <<>>
        /\ ~h.orphaned /\ ~h.surprised /\ ~h.answered /\ h.raised = "nothing"
        /\ FrameTyped(h)' /\ AnswersCollect(h)' /\ InterruptsAreAlarms(h)'
    BY NewFrame
  <2>2. PICK f \in Frames : f = h
    BY <2>1
  <2>3. h' = f
    BY <2>2 DEF Handling
  <2>4. FrameTyped(f)' /\ AnswersCollect(f)' /\ InterruptsAreAlarms(f)'
    <3> HIDE DEF h
    <3> QED
      BY <2>1, <2>3 DEF FrameTyped, AnswersCollect, Explained, InterruptsAreAlarms
  <2> QED  BY <2>1, <2>2, <2>4
<1>10. PICK c \in Frames :
        /\ c = [t EXCEPT !.calls = call] /\ SameCall(c, t) /\ c.at = t.at
        /\ c.answers = t.answers /\ c.failed = t.failed /\ c.answered = t.answered
        /\ c.raised = t.raised /\ c.waits = t.waits
  <2> DEFINE c == [t EXCEPT !.calls = call]
  <2>1. c \in Frames
    BY DEF Frames
  <2>2. /\ SameCall(c, t) /\ c.at = t.at
        /\ c.answers = t.answers /\ c.failed = t.failed /\ c.answered = t.answered
        /\ c.raised = t.raised /\ c.waits = t.waits
    BY DEF Frames, SameCall
  <2> QED  BY <2>1, <2>2
<1>11. /\ stack' = <<c, f>> /\ UNCHANGED <<log, coroutines, up, requests, alarmed, swallowed>>
  BY <1>5, <1>7, <1>8, <1>9, <1>10 DEF CallLocally
<1>12. FrameTyped(c) /\ AnswersCollect(c) /\ InterruptsAreAlarms(c) /\ c.req = t.req
  BY <1>4, <1>5, <1>10 DEF FrameTyped, AnswersCollect, Explained, InterruptsAreAlarms, SameCall
<1>13. FrameTyped(c)' /\ AnswersCollect(c)' /\ InterruptsAreAlarms(c)'
  <2>1. (alarmed => alarmed') /\ Len(coroutines') \in Nat /\ Len(coroutines) <= Len(coroutines')
    BY <1>4, <1>11
  <2> QED
    BY <1>4, <1>12, <2>1, FrameStays
<1>14. c.orphaned \/ (~c.surprised /\ \A i \in 1..Len(c.inbox) : FALSE)
  BY <1>1, <1>2, <1>5, <1>10 DEF CallsInv, InboxIsEmpty, SameCall
<1>15. /\ StackTyped' /\ CallsInv' /\ Depth' = 2 /\ Top' = f /\ IsLocal'
       /\ RequestNames' = <<c.req>>
       /\ OwnAction' = <<>> /\ ActionNames' = <<NameOf(c)>>
  <2>1. c.at = "action" /\ c.req = <<requests', 0>> /\ f.req[1] = requests'
    BY <1>2, <1>5, <1>6, <1>8, <1>9, <1>10, <1>11, <1>12
  <2> QED
    BY <1>9, <1>11, <1>13, <1>14, <2>1, TwoFrames DEF IsNamed
<1>16. /\ LogTyped' /\ Content("request")' = Content("request")
       /\ Content("action")' = Content("action")
  BY <1>1, <1>11, StandingContent DEF Kinds
<1>17. RequestsAreNamed'
  <2>1. ~alarmed => Content("request") = <<t.req>>
    BY <1>1, <1>2, <1>5 DEF RequestsAreNamed, RequestNames, IsNamed
  <2> QED
    BY <1>11, <1>12, <1>15, <1>16, <2>1 DEF RequestsAreNamed
<1>18. ActionsAreNamed'
  <2>1. NameOf(c) = NameOf(t)
    BY <1>10, <1>12 DEF NameOf
  <2>2. ~alarmed => Content("action") = <<NameOf(t)>>
    BY <1>1, <1>2, <1>5 DEF ActionsAreNamed, ActionNames, OwnAction
  <2> QED
    BY <1>11, <1>15, <1>16, <2>1, <2>2 DEF ActionsAreNamed
<1>19. OthersTyped'
  BY <1>1, <1>11 DEF OthersTyped, Coroutines, Requests
<1>20. HarakiriInv'
  <2>1. ~(alarmed /\ ~swallowed)
    BY <1>1, <1>2 DEF HarakiriInv, Over
  <2> QED
    BY <1>1, <1>11, <2>1 DEF HarakiriInv
<1>21. NamesAreOwn'
  BY <1>1, <1>11, StandingKeepsNamesOwn
<1> QED
  BY <1>15, <1>16, <1>17, <1>18, <1>19, <1>20, <1>21, InvParts, PTL

\* A job that was sent, or suppressed, is closed next.
LEMMA ClosingFrame ==
    ASSUME IInv, Depth > 0, Top.at = "responding", NEW b \in BOOLEAN, b => ~Top.job.suppress,
           alarmed' = alarmed
    PROVE  \E f \in Frames :
             /\ f = Closing(b) /\ SameCall(f, Top) /\ f.at = "closing" /\ f.answered = b
             /\ f.raised = Top.raised /\ ~Top.answered
             /\ FrameTyped(f)' /\ AnswersCollect(f)' /\ InterruptsAreAlarms(f)'
<1>1. /\ Top \in Frames /\ FrameTyped(Top) /\ AnswersCollect(Top) /\ InterruptsAreAlarms(Top)
  BY TopFacts
<1>2. PICK t \in Frames : t = Top
  BY <1>1
<1>3. PICK g \in Frames :
        /\ g = [t EXCEPT !.at = "closing"] /\ SameCall(g, t) /\ g.at = "closing"
        /\ g.answers = t.answers /\ g.failed = t.failed
        /\ g.raised = t.raised /\ g.waits = t.waits
  <2>1. "closing" \in Places
    BY DEF Places
  <2> QED  BY <2>1, SetAt
<1>4. PICK f \in Frames :
        /\ f = [g EXCEPT !.answered = b] /\ SameCall(f, g) /\ f.at = g.at /\ f.answered = b
        /\ f.answers = g.answers /\ f.failed = g.failed
        /\ f.raised = g.raised /\ f.waits = g.waits
  <2> DEFINE h == [g EXCEPT !.answered = b]
  <2>1. h \in Frames
    BY DEF Frames
  <2>2. /\ SameCall(h, g) /\ h.at = g.at /\ h.answered = b
        /\ h.answers = g.answers /\ h.failed = g.failed
        /\ h.raised = g.raised /\ h.waits = g.waits
    BY DEF Frames, SameCall
  <2> QED  BY <2>1, <2>2
<1>5. f = Closing(b)
  BY <1>2, <1>3, <1>4 DEF Closing
<1>6. SameCall(f, t) /\ f.job = t.job /\ t.waits \in Nat
  BY <1>3, <1>4 DEF SameCall, Frames
<1>7. t.waits = 0 /\ ~t.answered
  BY <1>1, <1>2, <1>6 DEF FrameTyped, AnswersCollect
<1>8. FrameTyped(f)'
  BY <1>3, <1>4, <1>7 DEF FrameTyped
<1>9. Explained(t) => Explained(f)'
  BY <1>3, <1>4, <1>6 DEF Explained
<1>10. AnswersCollect(f)'
  BY <1>1, <1>2, <1>3, <1>4, <1>6, <1>9 DEF AnswersCollect, Over
<1>11. InterruptsAreAlarms(f)'
  BY <1>1, <1>2, <1>3, <1>4 DEF InterruptsAreAlarms
<1> QED
  BY <1>2, <1>3, <1>4, <1>5, <1>6, <1>7, <1>8, <1>10, <1>11

\* The response is sent, unless it is suppressed.
LEMMA SendResponseStep ==
    ASSUME IInv, SendResponse
    PROVE  IInv'
<1>1. /\ Depth > 0 /\ Top.at = "responding" /\ Deliver
      /\ UNCHANGED <<log, coroutines, up, requests, alarmed, swallowed>>
  BY DEF SendResponse, At
<1>2. /\ StackTyped /\ LogTyped /\ OthersTyped /\ CallsInv
      /\ HarakiriInv /\ RequestsAreNamed /\ ActionsAreNamed /\ NamesAreOwn
  BY InvParts
<1>3. /\ Top \in Frames
      /\ up \in BOOLEAN /\ alarmed \in BOOLEAN /\ swallowed \in BOOLEAN
      /\ Len(coroutines) \in Nat
  BY <1>1, TopFacts
<1>4. Depth \in {1, 2} /\ (IsLocal <=> Depth = 2)
  BY <1>1, <1>2, DepthType DEF IsLocal
<1>5. CASE Top.job.suppress \/ ~IsLocal
  <2>1. PICK b \in BOOLEAN :
          stack' = [stack EXCEPT ![Depth] = Closing(b)] /\ (b => ~Top.job.suppress)
    <3>1. CASE Top.job.suppress
      <4>1. stack' = [stack EXCEPT ![Depth] = Closing(FALSE)]
        BY <1>1, <3>1 DEF Deliver
      <4> QED  BY <4>1
    <3>2. CASE ~Top.job.suppress
      <4>1. stack' = <<Closing(TRUE)>> /\ Depth = 1
        BY <1>1, <1>4, <1>5, <3>2 DEF Deliver, Delivered
      <4>2. PICK f \in Frames : f = Closing(TRUE)
        BY <1>1, <3>2, ClosingFrame
      <4>3. stack \in Seq(Frames) /\ Len(stack) = 1
        BY <1>2, <4>1 DEF StackTyped, Depth
      <4>4. /\ [stack EXCEPT ![1] = f] \in Seq(Frames) /\ Len([stack EXCEPT ![1] = f]) = 1
            /\ [stack EXCEPT ![1] = f][1] = f
        BY <4>3
      <4>5. <<f>> \in Seq(Frames) /\ Len(<<f>>) = 1 /\ <<f>>[1] = f
        OBVIOUS
      <4>6. \A i \in 1..Len(<<f>>) : <<f>>[i] = [stack EXCEPT ![1] = f][i]
        BY <4>4, <4>5
      <4>7. <<f>> = [stack EXCEPT ![1] = f]
        BY <4>4, <4>5, <4>6, SeqEqual, Zenon
      <4> QED  BY <3>2, <4>1, <4>2, <4>7
    <3> QED  BY <3>1, <3>2
  <2>2. PICK f \in Frames :
          /\ f = Closing(b) /\ SameCall(f, Top) /\ f.at = "closing" /\ f.answered = b
          /\ f.raised = Top.raised /\ ~Top.answered
          /\ FrameTyped(f)' /\ AnswersCollect(f)' /\ InterruptsAreAlarms(f)'
    BY <1>1, <2>1, ClosingFrame
  <2>3. stack' = [stack EXCEPT ![Depth] = f]
    BY <2>1, <2>2
  <2>4. HarakiriInv'
    BY <1>1, <1>2, <2>2, <2>3, HarakiriStays DEF Over
  <2> QED
    BY <1>1, <1>3, <2>2, <2>3, <2>4, MoveStep DEF IsNamed, Over
<1>6. CASE ~Top.job.suppress /\ IsLocal
  <2>1. Depth = 2
    BY <1>4, <1>6
  <2>2. /\ Caller \in Frames /\ Caller = stack[1]
        /\ FrameTyped(Caller) /\ AnswersCollect(Caller) /\ InterruptsAreAlarms(Caller)
        /\ Caller.at = "action" /\ Caller.req = <<requests, 0>>
        /\ Top.req[1] = requests /\ Top.inbox = <<>> /\ ~Top.orphaned /\ ~Top.surprised
        /\ ~Caller.orphaned =>
              /\ ~Caller.surprised
              /\ \A i \in 1..Len(Caller.inbox) : Top.answered /\ Caller.inbox[i] = Top.req
    BY <2>1, CallerFacts
  <2>3. PICK f \in Frames :
          /\ f = Closing(TRUE) /\ SameCall(f, Top) /\ f.at = "closing" /\ f.answered
          /\ f.raised = Top.raised /\ ~Top.answered
          /\ FrameTyped(f)' /\ AnswersCollect(f)' /\ InterruptsAreAlarms(f)'
    BY <1>1, <1>6, ClosingFrame
  <2>4. PICK t \in Frames : t = Caller
    BY <2>2
  <2>5. PICK req \in Requests : req = Top.req
    BY <1>3 DEF Frames
  <2>6. t.inbox \in Seq(Requests) /\ Append(t.inbox, req) \in Seq(Requests)
    BY DEF Frames
  <2>7. PICK c \in Frames :
          /\ c = [t EXCEPT !.inbox = Append(@, req)] /\ c.inbox = Append(t.inbox, req)
          /\ c.req = t.req /\ c.job = t.job /\ c.orphaned = t.orphaned
          /\ c.surprised = t.surprised /\ c.at = t.at
          /\ c.answers = t.answers /\ c.failed = t.failed /\ c.answered = t.answered
          /\ c.raised = t.raised /\ c.waits = t.waits
    <3> DEFINE g == [t EXCEPT !.inbox = Append(@, req)]
    <3>1. g \in Frames
      BY <2>6 DEF Frames
    <3>2. /\ g.inbox = Append(t.inbox, req)
          /\ g.req = t.req /\ g.job = t.job /\ g.orphaned = t.orphaned
          /\ g.surprised = t.surprised /\ g.at = t.at
          /\ g.answers = t.answers /\ g.failed = t.failed /\ g.answered = t.answered
          /\ g.raised = t.raised /\ g.waits = t.waits
      BY <2>6 DEF Frames
    <3> QED  BY <3>1, <3>2
  <2>8. stack' = <<c, f>>
    BY <1>1, <1>6, <2>3, <2>4, <2>5, <2>7 DEF Deliver, Delivered
  <2>9. FrameTyped(c) /\ AnswersCollect(c) /\ InterruptsAreAlarms(c)
    BY <2>2, <2>4, <2>7 DEF FrameTyped, AnswersCollect, Explained, InterruptsAreAlarms
  <2>10. FrameTyped(c)' /\ AnswersCollect(c)' /\ InterruptsAreAlarms(c)'
    <3>1. (alarmed => alarmed') /\ Len(coroutines') \in Nat /\ Len(coroutines) <= Len(coroutines')
      BY <1>1, <1>3
    <3> QED
      BY <1>3, <2>9, <3>1, FrameStays
  <2>11. f.req = Top.req /\ f.inbox = <<>> /\ ~f.orphaned /\ ~f.surprised
    BY <2>2, <2>3 DEF SameCall
  <2>12. c.orphaned \/ /\ ~c.surprised
                       /\ \A i \in 1..Len(c.inbox) : f.answered /\ c.inbox[i] = f.req
    <3> SUFFICES ASSUME ~c.orphaned
                 PROVE  ~c.surprised /\ \A i \in 1..Len(c.inbox) : c.inbox[i] = req
      BY <2>3, <2>5, <2>11
    <3>1. ~t.surprised /\ \A i \in 1..Len(t.inbox) : FALSE
      BY <2>2, <2>3, <2>4, <2>7
    <3>2. Len(t.inbox) = 0
      BY <2>6, <3>1
    <3>3. Len(c.inbox) = 1 /\ c.inbox[1] = req
      BY <2>6, <2>7, <3>2
    <3> QED
      BY <2>7, <3>1, <3>3
  <2>13. /\ StackTyped' /\ CallsInv' /\ Depth' = 2 /\ Top' = f /\ IsLocal'
         /\ RequestNames' = <<c.req, f.req>>
         /\ OwnAction' = <<>> /\ ActionNames' = <<NameOf(c)>>
    <3>1. c.at = "action" /\ c.req = <<requests', 0>> /\ f.req[1] = requests'
      BY <1>1, <2>2, <2>4, <2>7, <2>11
    <3> QED
      BY <2>3, <2>8, <2>10, <2>11, <2>12, <3>1, TwoFrames DEF IsNamed
  <2>14. /\ LogTyped' /\ Content("request")' = Content("request")
         /\ Content("action")' = Content("action")
    BY <1>1, <1>2, StandingContent DEF Kinds
  <2>15. RequestsAreNamed'
    <3>1. ~alarmed => Content("request") = <<t.req, Top.req>>
      BY <1>1, <1>2, <1>6, <2>1, <2>2, <2>4 DEF RequestsAreNamed, RequestNames, IsNamed
    <3> QED
      BY <1>1, <2>7, <2>11, <2>13, <2>14, <3>1 DEF RequestsAreNamed
  <2>16. ActionsAreNamed'
    <3>1. NameOf(c) = NameOf(t) /\ ~At("action")
      BY <1>1, <2>7 DEF NameOf, At
    <3>2. ~alarmed => Content("action") = <<NameOf(t)>>
      BY <1>2, <1>6, <2>2, <2>4, <3>1 DEF ActionsAreNamed, ActionNames, OwnAction
    <3> QED
      BY <1>1, <2>13, <2>14, <3>1, <3>2 DEF ActionsAreNamed
  <2>17. OthersTyped'
    BY <1>1, <1>2 DEF OthersTyped, Coroutines, Requests
  <2>18. HarakiriInv'
    BY <1>1, <1>2, <2>1, <2>3, <2>13 DEF HarakiriInv, Over
  <2>19. NamesAreOwn'
    BY <1>1, <1>2, StandingKeepsNamesOwn
  <2> QED
    BY <2>13, <2>14, <2>15, <2>16, <2>17, <2>18, <2>19, InvParts, PTL
<1> QED
  BY <1>5, <1>6

\* What Return leaves of the caller.
LEMMA ReturnedFrame ==
    ASSUME NEW t \in Frames, NEW req, NEW suppress \in BOOLEAN
    PROVE  \E c \in Frames :
             /\ c = Return(t, req, suppress)
             /\ c.req = t.req /\ c.job = t.job /\ c.orphaned = t.orphaned /\ c.at = t.at
             /\ c.answers = t.answers /\ c.failed = t.failed /\ c.answered = t.answered
             /\ c.raised = t.raised /\ c.waits = t.waits
             /\ IF suppress THEN c = t
                ELSE c.inbox = <<>>
                     /\ (c.surprised => t.surprised \/ \E i \in 1..Len(t.inbox) : t.inbox[i] # req)
<1>1. CASE suppress
  BY <1>1 DEF Return
<1>2. CASE ~suppress
  <2> DEFINE others == \E i \in 1..Len(t.inbox) : t.inbox[i] # req
             g == [t EXCEPT !.inbox = <<>>]
             c == [g EXCEPT !.surprised = @ \/ others]
  <2>1. Return(t, req, suppress) = c
    BY <1>2 DEF Return
  <2>2. others \in BOOLEAN
    OBVIOUS
  <2> HIDE DEF others
  <2>3. <<>> \in Seq(Requests)
    OBVIOUS
  <2>4. g \in Frames
    BY <2>3 DEF Frames
  <2>5. /\ g.req = t.req /\ g.job = t.job /\ g.orphaned = t.orphaned /\ g.at = t.at
        /\ g.answers = t.answers /\ g.failed = t.failed /\ g.answered = t.answered
        /\ g.raised = t.raised /\ g.waits = t.waits /\ g.inbox = <<>>
        /\ g.surprised = t.surprised
    BY DEF Frames
  <2> HIDE DEF g
  <2>6. g.surprised \in BOOLEAN /\ (g.surprised \/ others) \in BOOLEAN
    BY <2>4 DEF Frames
  <2>7. c \in Frames
    BY <2>4, <2>6 DEF Frames
  <2>8. /\ c.req = g.req /\ c.job = g.job /\ c.orphaned = g.orphaned /\ c.at = g.at
        /\ c.answers = g.answers /\ c.failed = g.failed /\ c.answered = g.answered
        /\ c.raised = g.raised /\ c.waits = g.waits /\ c.inbox = g.inbox
        /\ c.surprised = (g.surprised \/ others)
    BY <2>4 DEF Frames
  <2>9. c.surprised => t.surprised \/ others
    BY <2>5, <2>8
  <2> HIDE DEF c
  <2> QED
    BY <1>2, <2>1, <2>5, <2>7, <2>8, <2>9 DEF others
<1> QED
  BY <1>1, <1>2

\* The job ends, its names are popped, and a local call returns.
LEMMA CloseStep ==
    ASSUME IInv, Close
    PROVE  IInv'
<1>1. /\ Depth > 0 /\ Top.at = "closing" /\ Top.raised = "nothing" /\ Pop("request")
      /\ stack' = IF IsLocal THEN <<Return(Caller, Top.req, Top.job.suppress)>> ELSE <<>>
      /\ UNCHANGED <<coroutines, up, requests, alarmed, swallowed>>
  BY DEF Close, At
<1>2. /\ StackTyped /\ LogTyped /\ OthersTyped /\ CallsInv
      /\ HarakiriInv /\ RequestsAreNamed /\ ActionsAreNamed /\ NamesAreOwn
  BY InvParts
<1>3. /\ Top \in Frames /\ AnswersCollect(Top) /\ InterruptsAreAlarms(Top)
      /\ Len(coroutines) \in Nat
  BY <1>1, TopFacts
<1>4. Depth \in {1, 2} /\ (IsLocal <=> Depth = 2)
  BY <1>1, <1>2, DepthType DEF IsLocal
<1>5. "request" \in Kinds /\ "action" \in Kinds \ {"request"} /\ coroutines \in Seq(Coroutines)
  BY <1>2 DEF Kinds, OthersTyped
<1>6. /\ LogTyped' /\ Content("action")' = Content("action")
      /\ Content("request")' = Front(Content("request"))
  BY <1>1, <1>2, <1>5, PopContent
<1>7. NamesAreOwn'
  BY <1>1, <1>2, <1>5, PopKeepsNamesOwn
<1>8. OthersTyped'
  BY <1>1, <1>2 DEF OthersTyped, Coroutines, Requests
<1>9. ~At("action")
  BY <1>1 DEF At
<1>10. CASE ~IsLocal
  <2>1. stack' = <<>> /\ Depth = 1
    BY <1>1, <1>4, <1>10
  <2>2. /\ StackTyped' /\ CallsInv' /\ Depth' = 0 /\ ~IsLocal'
        /\ RequestNames' = <<>> /\ OwnAction' = <<>> /\ ActionNames' = <<>>
    BY <2>1, NoFrame
  <2>3. RequestsAreNamed'
    <3>1. CASE alarmed
      BY <1>1, <2>2, <3>1 DEF RequestsAreNamed
    <3>2. CASE ~alarmed
      <4>1. Content("request") = <<Top.req>>
        BY <1>1, <1>2, <1>10, <3>2 DEF RequestsAreNamed, RequestNames, IsNamed
      <4>2. Content("request")' = <<>>
        BY <1>6, <4>1, ShortSequences
      <4> QED
        BY <2>2, <4>2 DEF RequestsAreNamed
    <3> QED  BY <3>1, <3>2
  <2>4. ActionsAreNamed'
    <3>1. ~alarmed => Content("action") = <<>>
      BY <1>2, <1>9, <1>10 DEF ActionsAreNamed, ActionNames, OwnAction
    <3> QED
      BY <1>1, <1>6, <2>2, <3>1 DEF ActionsAreNamed
  <2>5. HarakiriInv'
    BY <1>1, <1>2, <2>2 DEF HarakiriInv
  <2> QED
    BY <1>6, <1>7, <1>8, <2>2, <2>3, <2>4, <2>5, InvParts, PTL
<1>11. CASE IsLocal
  <2>1. Depth = 2
    BY <1>4, <1>11
  <2>2. /\ Caller \in Frames /\ Caller = stack[1]
        /\ FrameTyped(Caller) /\ AnswersCollect(Caller) /\ InterruptsAreAlarms(Caller)
        /\ Caller.at = "action" /\ Caller.req = <<requests, 0>>
        /\ ~Caller.orphaned =>
              /\ ~Caller.surprised
              /\ \A i \in 1..Len(Caller.inbox) : Top.answered /\ Caller.inbox[i] = Top.req
    BY <2>1, CallerFacts
  <2>3. PICK t \in Frames : t = Caller
    BY <2>2
  <2>4. PICK suppress \in BOOLEAN : suppress = Top.job.suppress
    <3>1. Top.job.suppress \in BOOLEAN
      BY <1>3, JobAssumption DEF Frames
    <3> QED  BY <3>1
  <2>5. PICK c \in Frames :
          /\ c = Return(t, Top.req, suppress)
          /\ c.req = t.req /\ c.job = t.job /\ c.orphaned = t.orphaned /\ c.at = t.at
          /\ c.answers = t.answers /\ c.failed = t.failed /\ c.answered = t.answered
          /\ c.raised = t.raised /\ c.waits = t.waits
          /\ IF suppress THEN c = t
             ELSE c.inbox = <<>>
                  /\ (c.surprised => t.surprised \/ \E i \in 1..Len(t.inbox) : t.inbox[i] # Top.req)
    BY ReturnedFrame
  <2>6. stack' = <<c>>
    BY <1>1, <1>11, <2>3, <2>4, <2>5
  <2>7. FrameTyped(c) /\ AnswersCollect(c) /\ InterruptsAreAlarms(c)
    BY <2>2, <2>3, <2>5 DEF FrameTyped, AnswersCollect, Explained, InterruptsAreAlarms
  <2>8. FrameTyped(c)' /\ AnswersCollect(c)' /\ InterruptsAreAlarms(c)'
    <3>1. (alarmed => alarmed') /\ Len(coroutines') \in Nat /\ Len(coroutines) <= Len(coroutines')
      BY <1>1, <1>3
    <3> QED
      BY <1>3, <2>7, <3>1, FrameStays
  <2>9. c.orphaned \/ (~c.surprised /\ c.inbox = <<>>)
    <3>1. CASE suppress
      <4>1. ~Top.answered
        BY <1>3, <2>4, <3>1 DEF AnswersCollect
      <4>2. t.orphaned \/ (~t.surprised /\ \A i \in 1..Len(t.inbox) : FALSE)
        BY <2>2, <2>3, <4>1
      <4>3. t.inbox \in Seq(Requests)
        BY DEF Frames
      <4>4. (\A i \in 1..Len(t.inbox) : FALSE) => t.inbox = <<>>
        BY <4>3, EmptySeq
      <4> QED
        BY <2>5, <3>1, <4>2, <4>4
    <3>2. CASE ~suppress
      BY <2>2, <2>3, <2>5, <3>2
    <3> QED  BY <3>1, <3>2
  <2>10. /\ StackTyped' /\ CallsInv' /\ Depth' = 1 /\ Top' = c /\ ~IsLocal'
         /\ RequestNames' = <<c.req>>
         /\ OwnAction' = <<NameOf(c)>> /\ ActionNames' = OwnAction'
    <3>1. c.at = "action" /\ c.req = <<requests', 0>>
      BY <1>1, <2>2, <2>3, <2>5
    <3> QED
      BY <2>6, <2>8, <2>9, <3>1, OneFrame DEF IsNamed
  <2>11. RequestsAreNamed'
    <3>1. ~alarmed => Content("request") = <<t.req, Top.req>>
      BY <1>1, <1>2, <1>11, <2>1, <2>2, <2>3 DEF RequestsAreNamed, RequestNames, IsNamed
    <3>2. ~alarmed => Content("request")' = <<c.req>>
      <4>1. Front(<<t.req, Top.req>>) = <<t.req>>
        BY ShortSequences
      <4> QED  BY <1>6, <2>5, <3>1, <4>1
    <3> QED
      BY <1>1, <2>10, <3>2 DEF RequestsAreNamed
  <2>12. ActionsAreNamed'
    <3>1. NameOf(c) = NameOf(t)
      BY <2>5 DEF NameOf
    <3>2. ~alarmed => Content("action") = <<NameOf(t)>>
      BY <1>2, <1>9, <1>11, <2>2, <2>3 DEF ActionsAreNamed, ActionNames, OwnAction
    <3> QED
      BY <1>1, <1>6, <2>10, <3>1, <3>2 DEF ActionsAreNamed
  <2>13. HarakiriInv'
    <3>1. ~(alarmed /\ ~swallowed)
      BY <1>1, <1>2, <2>1 DEF HarakiriInv
    <3> QED
      BY <1>1, <1>2, <3>1 DEF HarakiriInv
  <2> QED
    BY <1>6, <1>7, <1>8, <2>10, <2>11, <2>12, <2>13, InvParts, PTL
<1> QED
  BY <1>10, <1>11

\* An error leaves the job, for the server or the action that called it.
LEMMA RaiseStep ==
    ASSUME IInv, Raise
    PROVE  IInv'
<1>1. /\ Depth > 0 /\ Top.at = "raising"
      /\ UNCHANGED <<coroutines, requests, alarmed>>
  BY DEF Raise, At
<1>2. /\ StackTyped /\ LogTyped /\ OthersTyped /\ CallsInv
      /\ HarakiriInv /\ RequestsAreNamed /\ ActionsAreNamed /\ NamesAreOwn
  BY InvParts
<1>3. /\ Top \in Frames /\ AnswersCollect(Top) /\ InterruptsAreAlarms(Top)
      /\ Len(coroutines) \in Nat
  BY <1>1, TopFacts
<1>4. Depth \in {1, 2} /\ (IsLocal <=> Depth = 2)
  BY <1>1, <1>2, DepthType DEF IsLocal
<1>5. ~At("action") /\ OwnAction = <<>> /\ swallowed \in BOOLEAN
  BY <1>1, TopFacts DEF At, OwnAction
<1>6. ASSUME UNCHANGED log
      PROVE  /\ LogTyped' /\ Content("request")' = Content("request") /\ NamesAreOwn'
             /\ Content("action")' = Content("action")
  BY <1>1, <1>2, <1>6, StandingContent, StandingKeepsNamesOwn DEF Kinds
<1>7. CASE /\ ~IsLocal /\ stack' = <<>> /\ up' \in {FALSE, up /\ Top.raised = "error"}
           /\ UNCHANGED <<log, swallowed>>
  <2>1. Depth = 1
    BY <1>4, <1>7
  <2>2. /\ StackTyped' /\ CallsInv' /\ Depth' = 0 /\ ~IsLocal'
        /\ RequestNames' = <<>> /\ OwnAction' = <<>> /\ ActionNames' = <<>>
    BY <1>7, NoFrame
  <2>3. RequestsAreNamed'
    <3>1. alarmed \/ Content("request") = <<>>
      BY <1>1, <1>2, <1>7 DEF RequestsAreNamed, RequestNames, IsNamed
    <3> QED
      BY <1>1, <1>6, <1>7, <2>2, <3>1 DEF RequestsAreNamed
  <2>4. ActionsAreNamed'
    <3>1. ~alarmed => Content("action") = <<>>
      BY <1>2, <1>5, <1>7 DEF ActionsAreNamed, ActionNames
    <3> QED
      BY <1>1, <1>6, <1>7, <2>2, <3>1 DEF ActionsAreNamed
  <2>5. up' \in BOOLEAN /\ (up' => up)
    <3>1. up \in BOOLEAN
      BY <1>2 DEF OthersTyped
    <3>2. (up /\ Top.raised = "error") \in BOOLEAN
      OBVIOUS
    <3>3. CASE up' = FALSE
      BY <3>3
    <3>4. CASE up' = (up /\ Top.raised = "error")
      BY <3>2, <3>4
    <3> QED  BY <1>7, <3>3, <3>4
  <2>6. HarakiriInv'
    BY <1>1, <1>2, <1>7, <2>2, <2>5 DEF HarakiriInv
  <2>7. OthersTyped'
    BY <1>1, <1>2, <1>7, <2>5 DEF OthersTyped, Coroutines, Requests
  <2>8. LogTyped' /\ NamesAreOwn'
    BY <1>6, <1>7
  <2> QED
    BY <2>2, <2>3, <2>4, <2>6, <2>7, <2>8, InvParts, PTL
<1>8. ASSUME IsLocal
      PROVE  /\ Depth = 2
             /\ \E t \in Frames :
                  /\ t = [Caller EXCEPT !.orphaned = @ \/ Top.answered]
                  /\ t.req = stack[1].req /\ t.job = stack[1].job /\ t.answers = stack[1].answers
                  /\ t.req = <<requests, 0>> /\ t.at = "action"
                  /\ t.orphaned \/ (~t.surprised /\ t.inbox = <<>>)
                  /\ FrameTyped(t) /\ AnswersCollect(t) /\ InterruptsAreAlarms(t)
  <2>1. Depth = 2
    BY <1>4, <1>8
  <2>2. /\ Caller \in Frames /\ Caller = stack[1]
        /\ FrameTyped(Caller) /\ AnswersCollect(Caller) /\ InterruptsAreAlarms(Caller)
        /\ Caller.at = "action" /\ Caller.req = <<requests, 0>>
        /\ ~Caller.orphaned =>
              /\ ~Caller.surprised
              /\ \A i \in 1..Len(Caller.inbox) : Top.answered /\ Caller.inbox[i] = Top.req
    BY <2>1, CallerFacts
  <2>3. PICK c \in Frames : c = Caller
    BY <2>2
  <2>4. PICK answered \in BOOLEAN : answered = Top.answered
    BY <1>3 DEF Frames
  <2> DEFINE t == [c EXCEPT !.orphaned = @ \/ answered]
  <2>5. c.orphaned \in BOOLEAN /\ (c.orphaned \/ answered) \in BOOLEAN /\ c.inbox \in Seq(Requests)
    BY DEF Frames
  <2>6. t \in Frames
    BY <2>5 DEF Frames
  <2>7. /\ t.req = c.req /\ t.job = c.job /\ t.answers = c.answers /\ t.at = c.at
        /\ t.failed = c.failed /\ t.answered = c.answered /\ t.raised = c.raised
        /\ t.waits = c.waits /\ t.inbox = c.inbox /\ t.surprised = c.surprised
        /\ t.orphaned = (c.orphaned \/ answered)
    BY DEF Frames
  <2> HIDE DEF t
  <2>8. t.orphaned \/ (~t.surprised /\ t.inbox = <<>>)
    <3>1. (\A i \in 1..Len(c.inbox) : FALSE) => c.inbox = <<>>
      BY <2>5, EmptySeq
    <3> QED
      BY <2>2, <2>3, <2>4, <2>7, <3>1
  <2>9. FrameTyped(t) /\ AnswersCollect(t) /\ InterruptsAreAlarms(t)
    BY <2>2, <2>3, <2>7 DEF FrameTyped, AnswersCollect, Explained, InterruptsAreAlarms
  <2>10. t = [Caller EXCEPT !.orphaned = @ \/ Top.answered]
    BY <2>3, <2>4 DEF t
  <2> QED
    BY <2>1, <2>2, <2>3, <2>6, <2>7, <2>8, <2>9, <2>10
<1>9. (alarmed => alarmed') /\ Len(coroutines') \in Nat /\ Len(coroutines) <= Len(coroutines')
  BY <1>1, <1>3
<1>10. CASE /\ IsLocal /\ swallowed' = (swallowed \/ Top.raised = "interrupt")
            /\ stack' = <<[Caller EXCEPT !.orphaned = @ \/ Top.answered]>>
            /\ UNCHANGED <<log, up>>
  <2>1. Depth = 2
    BY <1>8, <1>10
  <2>2. PICK t \in Frames :
          /\ stack' = <<t>>
          /\ t.req = stack[1].req /\ t.answers = stack[1].answers
          /\ t.req = <<requests, 0>> /\ t.at = "action"
          /\ t.orphaned \/ (~t.surprised /\ t.inbox = <<>>)
          /\ FrameTyped(t) /\ AnswersCollect(t) /\ InterruptsAreAlarms(t)
    BY <1>8, <1>10
  <2>3. FrameTyped(t)' /\ AnswersCollect(t)' /\ InterruptsAreAlarms(t)'
    BY <1>3, <1>9, <2>2, FrameStays
  <2>4. /\ StackTyped' /\ CallsInv' /\ Depth' = 1 /\ Top' = t /\ ~IsLocal'
        /\ RequestNames' = <<t.req>>
        /\ OwnAction' = <<NameOf(t)>> /\ ActionNames' = OwnAction'
    <3>1. t.req = <<requests', 0>>
      BY <1>1, <2>2
    <3> QED
      BY <2>2, <2>3, <3>1, OneFrame DEF IsNamed
  <2>5. RequestsAreNamed'
    <3>1. ~alarmed => Content("request") = <<t.req>>
      BY <1>1, <1>2, <1>10, <2>1, <2>2 DEF RequestsAreNamed, RequestNames, IsNamed
    <3> QED
      BY <1>1, <1>6, <1>10, <2>4, <3>1 DEF RequestsAreNamed
  <2>6. ActionsAreNamed'
    <3>1. NameOf(t) = NameOf(stack[1])
      BY <2>2 DEF NameOf
    <3>2. ~alarmed => Content("action") = <<NameOf(t)>>
      BY <1>2, <1>5, <1>10, <3>1 DEF ActionsAreNamed, ActionNames
    <3> QED
      BY <1>1, <1>6, <1>10, <2>4, <3>2 DEF ActionsAreNamed
  <2>7. HarakiriInv'
    <3>1. swallowed' <=> swallowed \/ Top.raised = "interrupt"
      BY <1>10, Zenon
    <3>2. ~(alarmed /\ ~swallowed')
      BY <1>2, <2>1, <3>1 DEF HarakiriInv
    <3> QED
      BY <1>1, <1>2, <1>10, <3>2 DEF HarakiriInv
  <2>8. OthersTyped'
    <3>1. (swallowed \/ Top.raised = "interrupt") \in BOOLEAN
      OBVIOUS
    <3>2. swallowed' \in BOOLEAN
      BY <1>10, <3>1, Zenon
    <3> QED  BY <1>1, <1>2, <1>10, <3>2 DEF OthersTyped, Coroutines, Requests
  <2>9. LogTyped' /\ NamesAreOwn'
    BY <1>6, <1>10
  <2> QED
    BY <2>4, <2>5, <2>6, <2>7, <2>8, <2>9, InvParts, PTL
<1>11. CASE /\ IsLocal /\ Top.raised = "interrupt"
            /\ stack' = <<Answered([Caller EXCEPT !.orphaned = @ \/ Top.answered], TRUE, "leaving")>>
            /\ Pop("action") /\ UNCHANGED <<up, swallowed>>
  <2>1. Depth = 2 /\ alarmed
    BY <1>3, <1>8, <1>11 DEF InterruptsAreAlarms
  <2>2. PICK t \in Frames :
          /\ stack' = <<Answered(t, TRUE, "leaving")>>
          /\ t.job = stack[1].job
          /\ t.req = <<requests, 0>> /\ t.at = "action"
          /\ t.orphaned \/ (~t.surprised /\ t.inbox = <<>>)
          /\ FrameTyped(t) /\ AnswersCollect(t) /\ InterruptsAreAlarms(t)
    BY <1>8, <1>11
  <2>0. PICK errors \in BOOLEAN, place \in Places : errors /\ place = "leaving"
    BY DEF Places
  <2>3. PICK f \in Frames :
          /\ f = Answered(t, errors, place) /\ SameCall(f, t) /\ f.at = place
          /\ f.answers = Append(t.answers, errors)
          /\ f.failed = t.failed /\ f.answered = t.answered
          /\ f.raised = t.raised /\ f.waits = 0
    BY AnsweredFrame
  <2>4. /\ t.answers \in Seq(BOOLEAN) /\ Len(t.answers) \in Nat /\ f.job = t.job
        /\ t.failed \in BOOLEAN /\ t.answered \in BOOLEAN
    <3>1. f.job = t.job
      BY <2>3 DEF SameCall
    <3> QED  BY <3>1 DEF Frames
  <2>5. /\ ~t.failed /\ ~t.answered /\ t.raised = "nothing"
        /\ \A i \in 1..Len(t.answers) : t.answers[i] => t.job.continueOnError
    BY <2>2, <2>4 DEF AnswersCollect, InterruptsAreAlarms, Over
  <2>6. /\ Len(f.answers) = Len(t.answers) + 1 /\ f.answers[Len(t.answers) + 1] = errors
        /\ \A i \in 1..Len(t.answers) : f.answers[i] = t.answers[i]
    BY <2>3, <2>4
  <2>7. FrameTyped(f)'
    <3>1. f.waits = 0 /\ f.at = "leaving"
      BY <2>0, <2>3
    <3> QED  BY <3>1 DEF FrameTyped
  <2>8. Explained(f)'
    <3> DEFINE n == Len(f.answers)
    <3>1. n > 0 /\ f.answers[n] /\ n - 1 = Len(t.answers) /\ alarmed'
      BY <1>1, <2>0, <2>1, <2>4, <2>6
    <3>2. \A i \in 1..(n - 1) : f.answers[i] => f.job.continueOnError
      BY <2>4, <2>5, <2>6, <3>1
    <3> QED
      BY <3>1, <3>2 DEF Explained
  <2>9. AnswersCollect(f)'
    BY <2>0, <2>3, <2>5, <2>8 DEF AnswersCollect
  <2>10. InterruptsAreAlarms(f)'
    BY <2>0, <2>3, <2>5 DEF InterruptsAreAlarms
  <2>11. /\ StackTyped' /\ CallsInv' /\ Depth' = 1 /\ Top' = f /\ ~IsLocal'
         /\ RequestNames' = <<f.req>>
         /\ OwnAction' = <<>> /\ ActionNames' = OwnAction'
    <3>1. /\ stack' = <<f>> /\ f.req = <<requests', 0>>
          /\ f.orphaned \/ (~f.surprised /\ f.inbox = <<>>)
      BY <1>1, <2>0, <2>2, <2>3 DEF SameCall
    <3> QED
      BY <2>0, <2>3, <2>7, <2>9, <2>10, <3>1, OneFrame DEF IsNamed
  <2>12. "action" \in Kinds /\ "request" \in Kinds \ {"action"} /\ coroutines \in Seq(Coroutines)
    BY <1>2 DEF Kinds, OthersTyped
  <2>13. /\ LogTyped' /\ Content("request")' = Content("request")
         /\ Content("action")' = Front(Content("action"))
    BY <1>2, <1>11, <2>12, PopContent
  <2>14. NamesAreOwn'
    BY <1>1, <1>2, <1>11, <2>12, PopKeepsNamesOwn
  <2>15. RequestsAreNamed'
    BY <1>1, <2>1 DEF RequestsAreNamed
  <2>16. ActionsAreNamed'
    BY <1>1, <2>1 DEF ActionsAreNamed
  <2>17. HarakiriInv'
    <3>1. up' = up /\ alarmed' = alarmed /\ swallowed' = swallowed /\ f.at \in Over
      BY <1>1, <1>11, <2>0, <2>3 DEF Over
    <3> QED
      BY <1>2, <2>11, <3>1 DEF HarakiriInv
  <2>18. OthersTyped'
    BY <1>1, <1>2, <1>11 DEF OthersTyped, Coroutines, Requests
  <2> QED
    BY <2>11, <2>13, <2>14, <2>15, <2>16, <2>17, <2>18, InvParts, PTL
<1> QED
  BY <1>7, <1>10, <1>11 DEF Raise
-----------------------------------------------------------------------------
(***************************************************************************)
(* Coroutines                                                              *)
(***************************************************************************)
LEMMA CoroutinesKeepNames ==
    ASSUME NamesAreOwn, LogTyped, requests \in Nat, coroutines \in Seq(Coroutines),
           UNCHANGED <<log, requests>>, Len(coroutines') \in Nat,
           \A c \in 1..Len(coroutines') :
             \/ /\ c <= Len(coroutines) /\ coroutines'[c].ids = coroutines[c].ids
                /\ coroutines'[c].req = coroutines[c].req
             \/ coroutines'[c].ids = mine /\ coroutines'[c].req[1] = requests
    PROVE  NamesAreOwn'
<1>1. lists' = lists /\ mine' = mine
  BY DEF log
<1>2. NamesBelong(mine, requests)'
  BY <1>1 DEF NamesAreOwn, NamesBelong
<1>3. ASSUME NEW c \in 1..Len(coroutines')
      PROVE  NamesBelong(coroutines[c].ids, coroutines[c].req[1])'
  <2>1. CASE /\ c <= Len(coroutines) /\ coroutines'[c].ids = coroutines[c].ids
             /\ coroutines'[c].req = coroutines[c].req
    <3>1. Len(coroutines) \in Nat
      OBVIOUS
    <3>2. c \in 1..Len(coroutines)
      BY <1>3, <2>1, <3>1
    <3>3. NamesBelong(coroutines[c].ids, coroutines[c].req[1])
      BY <3>2 DEF NamesAreOwn
    <3> QED
      BY <1>1, <2>1, <3>3 DEF NamesBelong
  <2>2. CASE coroutines'[c].ids = mine /\ coroutines'[c].req[1] = requests
    <3>1. NamesBelong(mine, requests)
      BY DEF NamesAreOwn
    <3> QED
      BY <1>1, <2>2, <3>1 DEF NamesBelong
  <2> QED  BY <1>3, <2>1, <2>2
<1> QED
  BY <1>2, <1>3 DEF NamesAreOwn

\* An action runs a coroutine.
LEMMA RunCoroutineStep ==
    ASSUME IInv, RunCoroutine
    PROVE  IInv'
<1>1. /\ StackTyped /\ LogTyped /\ OthersTyped /\ CallsInv
      /\ HarakiriInv /\ RequestsAreNamed /\ ActionsAreNamed /\ NamesAreOwn
  BY InvParts
<1>2. Depth > 0 /\ Top.at = "action"
  BY DEF RunCoroutine, Acting, At
<1>3. /\ Top \in Frames /\ FrameTyped(Top) /\ AnswersCollect(Top) /\ InterruptsAreAlarms(Top)
      /\ Len(coroutines) \in Nat
  BY <1>2, TopFacts
<1>4. PICK t \in Frames : t = Top
  BY <1>3
<1>5. PICK waits \in {0, Len(coroutines) + 1} :
        /\ stack' = [stack EXCEPT ![Depth].waits = waits]
        /\ UNCHANGED <<log, up, requests, alarmed, swallowed>>
  BY DEF RunCoroutine
<1>6. PICK w \in Nat : w = waits
  BY <1>3
<1> DEFINE new == [req |-> Top.req, ids |-> mine, at |-> "scheduled", hasLoop |-> ~IsLocal]
<1>7. coroutines' = Append(coroutines, new)
  BY DEF RunCoroutine
<1>8. /\ new \in Coroutines /\ new.ids = mine /\ new.req = Top.req
  <2>1. IsLocal \in BOOLEAN /\ (~IsLocal) \in BOOLEAN
    BY DEF IsLocal
  <2>2. Top.req \in Requests /\ mine \in [Kinds -> Nat]
    BY <1>1, <1>3 DEF Frames, LogTyped
  <2> QED
    BY <2>1, <2>2 DEF Coroutines
<1> HIDE DEF new
<1>9. /\ coroutines' \in Seq(Coroutines) /\ Len(coroutines') = Len(coroutines) + 1
      /\ \A c \in 1..Len(coroutines) : coroutines'[c] = coroutines[c]
      /\ coroutines'[Len(coroutines) + 1] = new
  <2>1. coroutines \in Seq(Coroutines)
    BY <1>1 DEF OthersTyped
  <2> QED
    BY <1>7, <1>8, <2>1, AppendProperties
<1>10. PICK f \in Frames :
        /\ f = [t EXCEPT !.waits = w] /\ SameCall(f, t) /\ f.at = t.at
        /\ f.answers = t.answers /\ f.failed = t.failed /\ f.answered = t.answered
        /\ f.raised = t.raised /\ f.waits = w
  <2> DEFINE g == [t EXCEPT !.waits = w]
  <2>1. g \in Frames
    BY DEF Frames
  <2>2. /\ SameCall(g, t) /\ g.at = t.at
        /\ g.answers = t.answers /\ g.failed = t.failed /\ g.answered = t.answered
        /\ g.raised = t.raised /\ g.waits = w
    BY DEF Frames, SameCall
  <2> QED  BY <2>1, <2>2
<1>11. stack' = [stack EXCEPT ![Depth] = f]
  BY <1>4, <1>5, <1>6, <1>10 DEF Top
<1>12. SameCall(f, Top) /\ f.job = t.job
  BY <1>4, <1>10 DEF SameCall
<1>13. FrameTyped(f)' /\ AnswersCollect(f)' /\ InterruptsAreAlarms(f)'
  <2>1. w <= Len(coroutines')
    BY <1>3, <1>6, <1>9
  <2>2. FrameTyped(f)'
    BY <1>2, <1>3, <1>4, <1>10, <1>12, <2>1 DEF FrameTyped
  <2>3. AnswersCollect(f)'
    BY <1>2, <1>3, <1>4, <1>5, <1>10, <1>12 DEF AnswersCollect, Explained
  <2>4. InterruptsAreAlarms(f)'
    BY <1>3, <1>4, <1>5, <1>10 DEF InterruptsAreAlarms
  <2> QED  BY <2>2, <2>3, <2>4
<1>14. StackTyped' /\ CallsInv'
  <2>1. Len(coroutines') \in Nat /\ Len(coroutines) <= Len(coroutines')
    BY <1>3, <1>9
  <2>2. requests' = requests /\ (alarmed => alarmed') /\ (Top.answered => f.answered)
    BY <1>4, <1>5, <1>10
  <2> QED
    BY <1>1, <1>2, <1>11, <1>12, <1>13, <2>1, <2>2, BecomesStep
<1>15. HarakiriInv'
  BY <1>1, <1>2, <1>4, <1>5, <1>10, <1>11, HarakiriStays
<1>16. OthersTyped'
  BY <1>1, <1>5, <1>9 DEF OthersTyped, Coroutines, Requests
<1>17. /\ LogTyped' /\ Content("request")' = Content("request")
       /\ Content("action")' = Content("action")
  BY <1>1, <1>5, StandingContent DEF Kinds
<1>18. /\ RequestNames' = RequestNames /\ OwnAction' = OwnAction /\ ActionNames' = ActionNames
       /\ alarmed' = alarmed
  <2>1. IsNamed(f) /\ IsNamed(Top) /\ At("action") /\ f.at = "action"
    BY <1>2, <1>4, <1>10 DEF IsNamed, At
  <2>2. NameOf(f) = NameOf(Top)
    BY <1>4, <1>10, <1>12 DEF NameOf, SameCall
  <2>3. /\ RequestNames' = IF IsLocal THEN <<stack[1].req, Top.req>> ELSE <<Top.req>>
        /\ OwnAction' = <<NameOf(Top)>>
        /\ ActionNames' = IF IsLocal THEN <<NameOf(stack[1]), NameOf(Top)>> ELSE <<NameOf(Top)>>
    BY <1>1, <1>2, <1>11, <1>12, <2>1, <2>2, NamesAfter
  <2> QED
    BY <1>2, <1>5, <2>1, <2>3 DEF RequestNames, OwnAction, ActionNames
<1>19. ActionsAreNamed'
  BY <1>1, <1>17, <1>18 DEF ActionsAreNamed
<1>20. RequestsAreNamed'
  BY <1>1, <1>17, <1>18 DEF RequestsAreNamed
<1>21. NamesAreOwn'
  <2>1. Top.req[1] = requests
    <3>1. Depth = 1 \/ Depth = 2
      BY <1>1, <1>2, DepthType
    <3>2. Depth = 1 => Top = stack[1]
      BY <1>1, DepthType
    <3> QED
      BY <1>1, <1>2, <3>1, <3>2 DEF CallsInv, OneRequestAtATime
  <2>2. requests \in Nat /\ coroutines \in Seq(Coroutines)
    BY <1>1 DEF OthersTyped
  <2>3. \A c \in 1..Len(coroutines') :
             \/ /\ c <= Len(coroutines) /\ coroutines'[c].ids = coroutines[c].ids
                /\ coroutines'[c].req = coroutines[c].req
             \/ coroutines'[c].ids = mine /\ coroutines'[c].req[1] = requests
    <3> SUFFICES ASSUME NEW c \in 1..Len(coroutines')
                 PROVE  \/ /\ c <= Len(coroutines) /\ coroutines'[c].ids = coroutines[c].ids
                           /\ coroutines'[c].req = coroutines[c].req
                        \/ coroutines'[c].ids = mine /\ coroutines'[c].req[1] = requests
      OBVIOUS
    <3>1. CASE c = Len(coroutines) + 1
      BY <1>8, <1>9, <2>1, <3>1
    <3>2. CASE c # Len(coroutines) + 1
      <4>1. c \in 1..Len(coroutines)
        BY <1>3, <1>9, <3>2
      <4> QED  BY <1>3, <1>9, <4>1
    <3> QED  BY <3>1, <3>2
  <2>4. Len(coroutines') \in Nat
    BY <1>3, <1>9
  <2> QED
    BY <1>1, <1>5, <2>2, <2>3, <2>4, CoroutinesKeepNames
<1> QED
  BY <1>14, <1>15, <1>16, <1>17, <1>19, <1>20, <1>21, InvParts, PTL

\* The event loop starts or ends a coroutine.
LEMMA LoopStepStep ==
    ASSUME IInv, LoopStep
    PROVE  IInv'
<1>1. /\ StackTyped /\ LogTyped /\ OthersTyped /\ CallsInv
      /\ HarakiriInv /\ RequestsAreNamed /\ ActionsAreNamed /\ NamesAreOwn
  BY InvParts
<1>2. PICK c \in DOMAIN coroutines : StartCoroutine(c) \/ EndCoroutine(c)
  BY DEF LoopStep
<1>3. PICK to \in {"running", "ended"} :
        /\ coroutines' = [coroutines EXCEPT ![c].at = to]
        /\ UNCHANGED <<stack, log, up, requests, alarmed, swallowed>>
  BY <1>2 DEF StartCoroutine, EndCoroutine, Progress
<1>4. coroutines \in Seq(Coroutines) /\ Len(coroutines) \in Nat
  BY <1>1 DEF OthersTyped
<1>5. c \in 1..Len(coroutines) /\ coroutines[c] \in Coroutines
  BY <1>4
<1>6. PICK old \in Coroutines : old = coroutines[c]
  BY <1>5
<1>7. PICK new \in Coroutines : new = [old EXCEPT !.at = to] /\ new.ids = old.ids /\ new.req = old.req
  <2> DEFINE g == [old EXCEPT !.at = to]
  <2>1. g \in Coroutines /\ g.ids = old.ids /\ g.req = old.req
    BY DEF Coroutines
  <2> QED  BY <2>1
<1>8. coroutines' = [coroutines EXCEPT ![c] = new]
  BY <1>3, <1>6, <1>7
<1>9. /\ coroutines' \in Seq(Coroutines) /\ Len(coroutines') = Len(coroutines)
      /\ \A d \in 1..Len(coroutines) : coroutines'[d] = IF d = c THEN new ELSE coroutines[d]
  BY <1>4, <1>5, <1>8
<1>10. StackTyped'
  <2>1. \A d \in 1..Depth : FrameTyped(stack[d])'
    BY <1>1, <1>3, <1>9 DEF StackTyped, FrameTyped
  <2> QED
    BY <1>1, <1>3, <2>1 DEF StackTyped, Depth
<1>11. Depth' = Depth /\ Top' = Top /\ IsLocal' = IsLocal /\ stack' = stack
  BY <1>3 DEF Depth, Top, IsLocal
<1>12. CallsInv' /\ HarakiriInv'
  <2>1. OneRequestAtATime' /\ InboxIsEmpty' /\ HarakiriInv'
    BY <1>1, <1>3, <1>11 DEF CallsInv, OneRequestAtATime, InboxIsEmpty, HarakiriInv
  <2>2. FramesInv'
    BY <1>1, <1>3, <1>11 DEF CallsInv, FramesInv, AnswersCollect, Explained, InterruptsAreAlarms
  <2> QED  BY <2>1, <2>2 DEF CallsInv
<1>13. OthersTyped'
  BY <1>1, <1>3, <1>9 DEF OthersTyped, Coroutines, Requests
<1>14. /\ LogTyped' /\ Content("request")' = Content("request")
       /\ Content("action")' = Content("action")
  BY <1>1, <1>3, StandingContent DEF Kinds
<1>15. RequestNames' = RequestNames /\ OwnAction' = OwnAction /\ ActionNames' = ActionNames
  BY <1>11 DEF RequestNames, OwnAction, ActionNames, IsNamed, NameOf, At
<1>16. RequestsAreNamed' /\ ActionsAreNamed'
  BY <1>1, <1>3, <1>11, <1>14, <1>15 DEF RequestsAreNamed, ActionsAreNamed
<1>17. NamesAreOwn'
  <2>1. \A d \in 1..Len(coroutines') :
          /\ d <= Len(coroutines) /\ coroutines'[d].ids = coroutines[d].ids
          /\ coroutines'[d].req = coroutines[d].req
    <3> SUFFICES ASSUME NEW d \in 1..Len(coroutines')
                 PROVE  /\ d <= Len(coroutines) /\ coroutines'[d].ids = coroutines[d].ids
                        /\ coroutines'[d].req = coroutines[d].req
      OBVIOUS
    <3>1. d \in 1..Len(coroutines) /\ d <= Len(coroutines)
      BY <1>4, <1>9
    <3>2. CASE d = c  BY <1>6, <1>7, <1>9, <3>1, <3>2
    <3>3. CASE d # c  BY <1>9, <3>1, <3>3
    <3> QED  BY <3>2, <3>3
  <2>2. requests \in Nat /\ Len(coroutines') \in Nat
    BY <1>1, <1>4, <1>9 DEF OthersTyped
  <2> QED
    BY <1>1, <1>3, <1>4, <2>1, <2>2, CoroutinesKeepNames
<1> QED
  BY <1>10, <1>12, <1>13, <1>14, <1>16, <1>17, InvParts, PTL
-----------------------------------------------------------------------------
(***************************************************************************)
(* SIGALRM                                                                 *)
(***************************************************************************)
LEMMA HarakiriStep ==
    ASSUME IInv, Harakiri
    PROVE  IInv'
<1>1. /\ stack # <<>> /\ Top.at # "raising" /\ ~alarmed /\ alarmed' = TRUE /\ up' = FALSE
      /\ UNCHANGED <<coroutines, requests>>
  BY DEF Harakiri
<1>2. StackTyped
  BY InvParts
<1>3. Depth > 0
  BY <1>1, <1>2, DepthType
<1>4. CASE /\ Top.at \in {"received", "entered"} /\ Interrupted("raising")
           /\ UNCHANGED <<log, swallowed>>
  <2>1. stack' = [stack EXCEPT ![Depth] = Failing("raising", "interrupt")]
    BY <1>4 DEF Interrupted
  <2> QED
    BY <1>1, <1>3, <1>4, <2>1, FailingStep
<1>5. CASE /\ Top.at \in {"preparing", "responding"} /\ Interrupted("closing")
           /\ UNCHANGED <<log, swallowed>>
  <2>1. stack' = [stack EXCEPT ![Depth] = Failing("closing", "interrupt")]
    BY <1>5 DEF Interrupted
  <2> QED
    BY <1>1, <1>3, <1>5, <2>1, FailingStep
<1>6. CASE /\ Top.at \in {"job", "leaving"} \/ Acting
           /\ stack' = [stack EXCEPT ![Depth] = JobFailed]
           /\ swallowed' = IsLocal /\ UNCHANGED log
  <2>1. Top.at \in {"job", "action", "leaving"}
    BY <1>6 DEF Acting, At
  <2> QED  BY <1>1, <1>3, <1>6, <2>1, FailedStep
<1>7. CASE /\ Top.at \in {"trying", "action"}
           /\ stack' = [stack EXCEPT ![Depth] = Answer(TRUE, TRUE)]
           /\ Pop("action") /\ swallowed' = IsLocal
  <2>1. PICK f \in Frames :
          /\ f = Answer(TRUE, TRUE) /\ SameCall(f, Top) /\ f.at = "leaving"
          /\ f.answered = Top.answered /\ f.raised = Top.raised
          /\ FrameTyped(f)' /\ AnswersCollect(f)' /\ InterruptsAreAlarms(f)'
    BY <1>1, <1>3, <1>7, AnswerIsExplained
  <2>2. stack' = [stack EXCEPT ![Depth] = f]
    BY <1>7, <2>1
  <2>3. swallowed' \in BOOLEAN /\ (swallowed' <=> IsLocal)
    <3>1. IsLocal \in BOOLEAN
      BY DEF IsLocal
    <3> QED  BY <1>7, <3>1, Zenon
  <2>4. HarakiriInv'
    <3>1. Top' = f /\ Depth' = Depth
      BY <1>2, <1>3, <2>2, BecomesFacts
    <3>2. Depth = 2 => IsLocal
      BY DEF IsLocal
    <3> QED
      BY <1>1, <2>1, <2>3, <3>1, <3>2 DEF HarakiriInv, Over
  <2> QED
    BY <1>1, <1>3, <1>7, <2>1, <2>2, <2>3, <2>4, PopActionStep
<1>8. CASE Top.at = "closing" /\ Interrupted("raising") /\ UNCHANGED <<log, swallowed>>
  <2>1. stack' = [stack EXCEPT ![Depth] = Failing("raising", "interrupt")]
    BY <1>8 DEF Interrupted
  <2> QED
    BY <1>1, <1>3, <1>8, <2>1, FailingStep
<1>9. CASE Top.at = "closing" /\ Interrupted("raising") /\ Pop("request") /\ UNCHANGED swallowed
  <2>1. stack' = [stack EXCEPT ![Depth] = Failing("raising", "interrupt")]
    BY <1>9 DEF Interrupted
  <2> QED
    BY <1>1, <1>3, <1>9, <2>1, PopRequestStep
<1>10. CASE /\ Top.at = "action" /\ swallowed' = TRUE /\ UNCHANGED log
            /\ \E waits \in {0, Top.waits} : stack' = [stack EXCEPT ![Depth].waits = waits]
  <2>1. /\ Top \in Frames /\ FrameTyped(Top) /\ AnswersCollect(Top) /\ InterruptsAreAlarms(Top)
        /\ Len(coroutines) \in Nat
    BY <1>3, TopFacts
  <2>2. PICK t \in Frames : t = Top
    BY <2>1
  <2>3. t.waits \in Nat
    BY DEF Frames
  <2>4. PICK w \in {0, t.waits} : stack' = [stack EXCEPT ![Depth].waits = w] /\ w \in Nat
    BY <1>10, <2>2, <2>3
  <2>5. PICK f \in Frames :
          /\ f = [t EXCEPT !.waits = w] /\ SameCall(f, t) /\ f.at = t.at
          /\ f.answers = t.answers /\ f.failed = t.failed /\ f.answered = t.answered
          /\ f.raised = t.raised /\ f.waits = w
    <3> DEFINE g == [t EXCEPT !.waits = w]
    <3>1. g \in Frames
      BY <2>4 DEF Frames
    <3>2. /\ SameCall(g, t) /\ g.at = t.at
          /\ g.answers = t.answers /\ g.failed = t.failed /\ g.answered = t.answered
          /\ g.raised = t.raised /\ g.waits = w
      BY DEF Frames, SameCall
    <3> QED  BY <3>1, <3>2
  <2>6. stack' = [stack EXCEPT ![Depth] = f] /\ SameCall(f, Top) /\ f.job = t.job
    BY <2>2, <2>4, <2>5 DEF Top, SameCall
  <2>7. FrameTyped(f)'
    <3>1. w = 0 \/ w = t.waits
      OBVIOUS
    <3> QED  BY <1>1, <1>10, <2>1, <2>2, <2>5, <2>6, <3>1 DEF FrameTyped
  <2>8. AnswersCollect(f)' /\ InterruptsAreAlarms(f)'
    BY <1>1, <1>10, <2>1, <2>2, <2>5, <2>6 DEF AnswersCollect, Explained, InterruptsAreAlarms
  <2>9. HarakiriInv'
    BY <1>1, <1>10 DEF HarakiriInv
  <2> QED
    BY <1>1, <1>3, <1>10, <2>2, <2>5, <2>6, <2>7, <2>8, <2>9, MoveStep DEF IsNamed, Over
<1> QED
  BY <1>4, <1>5, <1>6, <1>7, <1>8, <1>9, <1>10 DEF Harakiri

\* The steps that fail outside of the actions.
LEMMA FailureStep ==
    ASSUME IInv, PreparationFails \/ SendFails \/ CloseRaising \/ JobFails
    PROVE  IInv'
<1>1. CASE PreparationFails
  <2>1. /\ Depth > 0 /\ Top.at = "preparing"
        /\ stack' = [stack EXCEPT ![Depth] = Failing("closing", "error")]
        /\ UNCHANGED <<log, coroutines, up, requests, alarmed, swallowed>>
    BY <1>1 DEF PreparationFails, At, Becomes
  <2> QED  BY <2>1, FailingStep
<1>2. CASE SendFails
  <2>1. /\ Depth > 0 /\ Top.at = "responding"
        /\ stack' = [stack EXCEPT ![Depth] = Failing("closing", "error")]
        /\ UNCHANGED <<log, coroutines, up, requests, alarmed, swallowed>>
    BY <1>2 DEF SendFails, At, Becomes
  <2> QED  BY <2>1, FailingStep
<1>3. CASE JobFails
  <2>1. /\ Depth > 0 /\ Top.at \in {"job", "leaving"}
        /\ stack' = [stack EXCEPT ![Depth] = JobFailed]
        /\ UNCHANGED <<log, coroutines, up, requests, alarmed, swallowed>>
    BY <1>3 DEF JobFails, At, Becomes
  <2> QED  BY <2>1, FailedStep
<1>4. CASE CloseRaising
  <2> DEFINE error == IF Top.raised = "nothing" THEN "error" ELSE Top.raised
  <2>1. /\ Depth > 0 /\ Top.at = "closing" /\ Pop("request")
        /\ stack' = [stack EXCEPT ![Depth] = Failing("raising", error)]
        /\ UNCHANGED <<coroutines, up, requests, alarmed, swallowed>>
    BY <1>4 DEF CloseRaising, At, Becomes
  <2>2. Top \in Frames
    BY <2>1, TopFacts
  <2>3. Top.raised \in {"nothing", "error", "interrupt"}
    BY <2>2 DEF Frames
  <2>4. PICK e \in {"error", "interrupt"} : e = error
    BY <2>3
  <2>5. /\ Top.raised = "nothing" \/ e = Top.raised
        /\ e = "interrupt" => Top.raised = "interrupt"
    BY <2>4
  <2> HIDE DEF error
  <2>6. stack' = [stack EXCEPT ![Depth] = Failing("raising", e)]
    BY <2>1, <2>4
  <2> QED
    BY <2>1, <2>5, <2>6, PopRequestStep
<1> QED
  BY <1>1, <1>2, <1>3, <1>4

\* The steps that only go on.
LEMMA OrderlyStep ==
    ASSUME IInv, Prepare \/ BeginJob \/ BeginAction \/ LeaveJob
    PROVE  IInv'
<1>1. CASE Prepare
  BY <1>1, MoveToStep DEF Prepare
<1>2. CASE BeginJob
  BY <1>2, MoveToStep DEF BeginJob
<1>3. CASE BeginAction
  BY <1>3, MoveToStep DEF BeginAction
<1>4. CASE LeaveJob
  BY <1>4, MoveToStep DEF LeaveJob
<1> QED
  BY <1>1, <1>2, <1>3, <1>4

\* The invariant is about the variables of the specification.
LEMMA Stutter ==
    ASSUME IInv, UNCHANGED vars
    PROVE  IInv'
<1>1. /\ StackTyped /\ LogTyped /\ OthersTyped /\ CallsInv
      /\ HarakiriInv /\ RequestsAreNamed /\ ActionsAreNamed /\ NamesAreOwn
  BY InvParts
<1>2. UNCHANGED <<stack, log, coroutines, up, requests, alarmed, swallowed>>
  BY DEF vars, log
<1>3. StackTyped'
  BY <1>1, <1>2 DEF StackTyped, FrameTyped, Depth
<1>4. Depth' = Depth /\ Top' = Top /\ IsLocal' = IsLocal /\ stack' = stack
  BY <1>2 DEF Depth, Top, IsLocal
<1>5. OneRequestAtATime' /\ InboxIsEmpty' /\ HarakiriInv'
  BY <1>1, <1>2, <1>4 DEF CallsInv, OneRequestAtATime, InboxIsEmpty, HarakiriInv
<1>6. FramesInv'
  BY <1>1, <1>2, <1>4 DEF CallsInv, FramesInv, AnswersCollect, Explained, InterruptsAreAlarms
<1>7. OthersTyped'
  BY <1>1, <1>2 DEF OthersTyped, Coroutines, Requests
<1>8. /\ LogTyped' /\ Content("request")' = Content("request")
      /\ Content("action")' = Content("action")
  BY <1>1, <1>2, StandingContent DEF Kinds
<1>9. RequestNames' = RequestNames /\ OwnAction' = OwnAction /\ ActionNames' = ActionNames
  BY <1>4 DEF RequestNames, OwnAction, ActionNames, IsNamed, NameOf, At
<1>10. RequestsAreNamed' /\ ActionsAreNamed'
  BY <1>1, <1>2, <1>4, <1>8, <1>9 DEF RequestsAreNamed, ActionsAreNamed
<1>11. NamesAreOwn'
  BY <1>1, <1>2, StandingKeepsNamesOwn
<1>12. CallsInv'
  BY <1>5, <1>6 DEF CallsInv
<1> QED
  BY <1>3, <1>5, <1>7, <1>8, <1>10, <1>11, <1>12, InvParts, PTL
-----------------------------------------------------------------------------
(***************************************************************************)
(* Theorems                                                                *)
(***************************************************************************)
\* IInv holds at first: nothing is on the stack and no name in a list.
LEMMA InitInv == Init => IInv
<1> SUFFICES ASSUME Init
             PROVE  IInv
  OBVIOUS
<1>1. /\ stack = <<>> /\ Depth = 0 /\ coroutines = <<>> /\ Len(coroutines) = 0
      /\ up = TRUE /\ requests = 0 /\ alarmed = FALSE /\ swallowed = FALSE
      /\ lists = [kind \in Kinds |-> <<>>] /\ mine = [kind \in Kinds |-> 0]
  BY DEF Init, Depth
<1>2. ~IsLocal /\ ~At("action") /\ \A d \in 1..0 : FALSE
  BY <1>1 DEF IsLocal, At
<1>3. StackTyped
  <2>1. stack \in Seq(Frames)
    BY <1>1
  <2> QED  BY <1>1, <1>2, <2>1 DEF StackTyped
<1>4. OthersTyped
  <2>1. coroutines \in Seq(Coroutines)
    BY <1>1
  <2>2. requests \in 0..MaxRequests
    BY <1>1, JobAssumption
  <2> QED  BY <1>1, <2>1, <2>2 DEF OthersTyped
<1>5. LogTyped
  <2>1. lists = [kind \in Kinds |-> lists[kind]] /\ mine \in [Kinds -> Nat]
    BY <1>1
  <2>2. \A kind \in Kinds : lists[kind] = <<>> /\ mine[kind] = 0
    BY <1>1
  <2>3. \A kind \in Kinds : <<>> \in Seq(Seq(NamesOf(kind)))
    OBVIOUS
  <2>4. Len(<<>>) = 0
    OBVIOUS
  <2>5. \A kind \in Kinds : lists[kind] \in Seq(Seq(NamesOf(kind))) /\ mine[kind] <= Len(lists[kind])
    <3> SUFFICES ASSUME NEW kind \in Kinds
                 PROVE  lists[kind] \in Seq(Seq(NamesOf(kind))) /\ mine[kind] <= Len(lists[kind])
      OBVIOUS
    <3>1. mine[kind] = 0 /\ Len(lists[kind]) = 0
      BY <2>2, <2>4
    <3>2. mine[kind] <= Len(lists[kind])
      BY <3>1
    <3>3. lists[kind] \in Seq(Seq(NamesOf(kind)))
      BY <2>2, <2>3, Zenon
    <3> QED  BY <3>2, <3>3
  <2> QED  BY <2>1, <2>5 DEF LogTyped
<1>6. CallsInv
  BY <1>1, <1>2 DEF CallsInv, OneRequestAtATime, FramesInv, InboxIsEmpty
<1>7. HarakiriInv
  BY <1>1 DEF HarakiriInv
<1>8. Content("request") = <<>> /\ Content("action") = <<>>
  BY <1>1 DEF Content, Kinds
<1>9. RequestsAreNamed /\ ActionsAreNamed
  BY <1>1, <1>2, <1>8 DEF RequestsAreNamed, RequestNames, ActionsAreNamed, ActionNames, OwnAction
<1>10. NamesAreOwn
  BY <1>1, <1>2 DEF NamesAreOwn, NamesBelong, Kinds
<1> QED
  BY <1>3, <1>4, <1>5, <1>6, <1>7, <1>9, <1>10, InvParts

\* Every step keeps the invariant.
LEMMA NextInv == IInv /\ [Next]_vars => IInv'
<1> SUFFICES ASSUME IInv, [Next]_vars
             PROVE  IInv'
  OBVIOUS
<1>1. ASSUME NEW job \in Jobs, TakeRequest(job)
      PROVE  IInv'
  BY <1>1, TakeRequestStep
<1>2. ASSUME NEW job \in Jobs, CallLocally(job)
      PROVE  IInv'
  BY <1>2, CallLocallyStep
<1>3. CASE MainStep
  <2>1. CASE EnterContext  BY <2>1, EnterContextStep
  <2>2. CASE Prepare \/ BeginJob \/ BeginAction \/ LeaveJob  BY <2>2, OrderlyStep
  <2>3. CASE PreparationFails \/ SendFails \/ CloseRaising \/ JobFails  BY <2>3, FailureStep
  <2>4. CASE NameAction  BY <2>4, NameActionStep
  <2>5. CASE FinishAction  BY <2>5, FinishActionStep
  <2>6. CASE ActionRaisesJobError  BY <2>6, ActionRaisesStep
  <2>7. CASE AnswerUnknown  BY <2>7, AnswerUnknownStep
  <2>8. CASE SendResponse  BY <2>8, SendResponseStep
  <2>9. CASE Close  BY <2>9, CloseStep
  <2>10. CASE Raise  BY <2>10, RaiseStep
  <2> QED
    BY <1>3, <2>1, <2>2, <2>3, <2>4, <2>5, <2>6, <2>7, <2>8, <2>9, <2>10 DEF MainStep
<1>4. CASE LoopStep
  BY <1>4, LoopStepStep
<1>5. CASE RunCoroutine
  BY <1>5, RunCoroutineStep
<1>6. CASE Harakiri
  BY <1>6, HarakiriStep
<1>7. CASE UNCHANGED vars
  BY <1>7, Stutter
<1> QED
  BY <1>1, <1>2, <1>3, <1>4, <1>5, <1>6, <1>7 DEF Next

\* The names in the log are those of the requests and actions on the stack, no
\* list has names of two requests, each answer is explained, and only SIGALRM
\* interrupts.
THEOREM JobsInductive == Spec => []IInv
<1>1. Init => IInv
  BY InitInv
<1>2. IInv /\ [Next]_vars => IInv'
  BY NextInv
<1> QED
  BY <1>1, <1>2, PTL DEF Spec

\* Each variable has its type, and the stack of requests has at most two.
THEOREM JobsTypeCorrect == Spec => []TypeOK
<1>1. IInv => TypeOK
  BY DEF IInv
<1> QED
  BY <1>1, JobsInductive, PTL

\* The last name of a list is that of the request whose names it has.
LEMMA NamedOwn ==
    ASSUME LogTyped, NEW ids \in [Kinds -> Nat], NEW n, NamesBelong(ids, n),
           NEW kind \in Kinds, Named(ids, kind) # None
    PROVE  Owner(kind, Named(ids, kind)) = n
<1> DEFINE l == lists[kind][ids[kind]]
<1>1. ids[kind] # 0 /\ l # <<>> /\ Named(ids, kind) = Last(l)
  BY DEF Named
<1>2. ids[kind] \in 1..Len(lists[kind]) /\ lists[kind] \in Seq(Seq(NamesOf(kind)))
  BY <1>1 DEF NamesBelong, LogTyped
<1>3. l \in Seq(NamesOf(kind))
  BY <1>2
<1>4. \A i \in 1..Len(l) : Owner(kind, l[i]) = n
  BY <1>1 DEF NamesBelong
<1> HIDE DEF l
<1>5. Len(l) \in 1..Len(l) /\ Last(l) = l[Len(l)]
  BY <1>1, <1>3, EmptySeq DEF Last
<1> QED  BY <1>1, <1>4, <1>5

\* Server.handle_next_request, execute_job and PySOALogContextFilter: the main
\* thread logs under the request and the action that it runs, and after SIGALRM
\* under no name of another request.
THEOREM LogsNameJobs == Spec => []LogsNameTheJob
<1>1. IInv => LogsNameTheJob
  <2> SUFFICES ASSUME IInv
               PROVE  LogsNameTheJob
    OBVIOUS
  <2>1. StackTyped /\ LogTyped /\ CallsInv /\ RequestsAreNamed /\ ActionsAreNamed /\ NamesAreOwn
    BY InvParts
  <2>2. /\ Named(mine, "request") = IF Content("request") = <<>> THEN None
                                    ELSE Last(Content("request"))
        /\ Named(mine, "action") = IF Content("action") = <<>> THEN None
                                   ELSE Last(Content("action"))
    BY NamedIsLast DEF Kinds
  <2>3. Depth \in {0, 1, 2} /\ (stack = <<>> <=> Depth = 0)
    BY <2>1, DepthType
  <2>4. ASSUME Depth > 0
        PROVE  NamesThePresent
    <3>1. Top.req[1] = requests
      <4>1. Depth = 1 => Top = stack[1]
        BY <2>1, <2>4, DepthType
      <4> QED  BY <2>1, <2>3, <2>4, <4>1 DEF CallsInv, OneRequestAtATime
    <3>2. mine \in [Kinds -> Nat] /\ NamesBelong(mine, requests)
      BY <2>1 DEF LogTyped, NamesAreOwn
    <3>3. \A kind \in Kinds :
            Named(mine, kind) # None => Owner(kind, Named(mine, kind)) = requests
      BY <2>1, <3>2, NamedOwn
    <3> QED  BY <3>1, <3>3 DEF NamesThePresent
  <2>5. ASSUME Depth > 0, Top.at \in Places \ {"received", "raising"}, ~alarmed
        PROVE  Named(mine, "request") = Top.req
    <3>1. \/ RequestNames = <<stack[1].req, Top.req>>
          \/ RequestNames = <<Top.req>>
      BY <2>5 DEF RequestNames, IsNamed
    <3>2. <<stack[1].req, Top.req>> # <<>> /\ <<Top.req>> # <<>>
      OBVIOUS
    <3>3. Last(<<stack[1].req, Top.req>>) = Top.req /\ Last(<<Top.req>>) = Top.req
      BY ShortSequences
    <3> QED  BY <2>1, <2>2, <2>5, <3>1, <3>2, <3>3 DEF RequestsAreNamed
  <2>6. ASSUME At("action"), ~alarmed
        PROVE  Named(mine, "action") = NameOf(Top)
    <3>1. \/ Content("action") = <<NameOf(stack[1]), NameOf(Top)>>
          \/ Content("action") = <<NameOf(Top)>>
      BY <2>1, <2>6 DEF ActionsAreNamed, ActionNames, OwnAction
    <3>2. <<NameOf(stack[1]), NameOf(Top)>> # <<>> /\ <<NameOf(Top)>> # <<>>
      OBVIOUS
    <3>3. /\ Last(<<NameOf(stack[1]), NameOf(Top)>>) = NameOf(Top)
          /\ Last(<<NameOf(Top)>>) = NameOf(Top)
      BY ShortSequences
    <3> QED  BY <2>2, <3>1, <3>2, <3>3
  <2>7. ASSUME stack = <<>>, ~alarmed
        PROVE  \A kind \in Kinds : Named(mine, kind) = None
    <3>1. Depth = 0 /\ ~IsLocal /\ ~At("action")
      BY <2>3, <2>7 DEF IsLocal, At
    <3>2. Content("request") = <<>> /\ Content("action") = <<>>
      BY <2>1, <2>7, <3>1 DEF RequestsAreNamed, RequestNames, ActionsAreNamed, ActionNames, OwnAction
    <3> QED  BY <2>2, <3>2 DEF Kinds
  <2>8. At("action") => Depth > 0
    BY DEF At
  <2> QED
    BY <2>4, <2>5, <2>6, <2>7, <2>8 DEF LogsNameTheJob, NameOf
<1> QED
  BY <1>1, JobsInductive, PTL

\* Server.run_coroutine copies the context, whose lists the main thread goes on
\* using: a coroutine logs under no other request than its own.
THEOREM CoroutinesLogOwn == Spec => []CoroutinesLogTheirOwn
<1>1. IInv => CoroutinesLogTheirOwn
  <2> SUFFICES ASSUME IInv
               PROVE  CoroutinesLogTheirOwn
    OBVIOUS
  <2>1. LogTyped /\ OthersTyped /\ NamesAreOwn
    BY InvParts
  <2>2. coroutines \in Seq(Coroutines)
    BY <2>1 DEF OthersTyped
  <2>3. ASSUME NEW c \in DOMAIN coroutines, NEW kind \in Kinds,
               Named(coroutines[c].ids, kind) # None
        PROVE  Owner(kind, Named(coroutines[c].ids, kind)) = coroutines[c].req[1]
    <3>1. c \in 1..Len(coroutines) /\ coroutines[c] \in Coroutines
      BY <2>2
    <3>2. PICK ids \in [Kinds -> Nat] : ids = coroutines[c].ids
      BY <3>1 DEF Coroutines
    <3>3. NamesBelong(ids, coroutines[c].req[1])
      BY <2>1, <3>1, <3>2 DEF NamesAreOwn
    <3> QED  BY <2>1, <2>3, <3>2, <3>3, NamedOwn
  <2>4. \A c \in DOMAIN coroutines :
          /\ \/ Named(coroutines[c].ids, "request") = None
             \/ Named(coroutines[c].ids, "request")[1] = coroutines[c].req[1]
          /\ \/ Named(coroutines[c].ids, "action") = None
             \/ Named(coroutines[c].ids, "action")[1][1] = coroutines[c].req[1]
    BY <2>3 DEF Kinds, Owner
  <2> QED
    BY <2>4 DEF CoroutinesLogTheirOwn
<1> QED
  BY <1>1, JobsInductive, PTL

\* Server.execute_job: a response without an answer for each action ends with the
\* error, or the interrupt, that ended its job.
THEOREM AnswersExplained == Spec => []AnswersAreExplained
<1>1. IInv => AnswersAreExplained
  <2> SUFFICES ASSUME IInv, NEW d \in 1..Depth, stack[d].answered
               PROVE  LET f == stack[d]
                          n == Len(f.answers) IN
                      IF f.failed THEN n = 0
                      ELSE /\ \/ n = f.job.actions
                              \/ n > 0 /\ f.answers[n] /\ (alarmed \/ ~f.job.continueOnError)
                           /\ \A i \in 1..(n - 1) : f.answers[i] => f.job.continueOnError
    BY DEF AnswersAreExplained
  <2>1. AnswersCollect(stack[d])
    BY DEF IInv, FramesInv
  <2>2. Len(<<>>) = 0
    OBVIOUS
  <2> QED
    BY <2>1, <2>2 DEF AnswersCollect, Explained
<1> QED
  BY <1>1, JobsInductive, PTL

\* LocalClientTransport: a client of an action finds a response that is not its
\* own only after a call that raised although it was answered.
THEOREM UnexpectedExplained == Spec => []UnexpectedIsExplained
<1>1. IInv => UnexpectedIsExplained
  <2> SUFFICES ASSUME IInv
               PROVE  UnexpectedIsExplained
    OBVIOUS
  <2>1. StackTyped /\ CallsInv
    BY InvParts
  <2>2. Depth > 0 => (stack[1].surprised => stack[1].orphaned)
    BY <2>1 DEF CallsInv, InboxIsEmpty
  <2>3. Depth = 2 => ~stack[2].surprised
    BY <2>1 DEF CallsInv, OneRequestAtATime, Top
  <2>4. Depth \in {0, 1, 2}
    BY <2>1, DepthType
  <2> QED
    BY <2>2, <2>3, <2>4 DEF UnexpectedIsExplained
<1> QED
  BY <1>1, JobsInductive, PTL

\* Server.execute_job: once harakiri interrupted a job none of its actions is
\* run, unless an action caught the interrupt or a local call was all it ended.
THEOREM HarakiriEndsActions == Spec => NoActionAfterHarakiri
<1>1. IInv /\ [Next]_vars => [alarmed /\ ~swallowed => ~NameAction]_vars
  <2> SUFFICES ASSUME IInv, alarmed, ~swallowed, NameAction
               PROVE  FALSE
    OBVIOUS
  <2>1. Depth > 0 /\ Top.at = "trying"
    BY DEF NameAction, At
  <2>2. Top.at \in Over
    BY <2>1 DEF IInv, HarakiriInv
  <2> QED
    BY <2>1, <2>2 DEF Over
<1> QED
  BY <1>1, JobsInductive, PTL DEF Spec, NoActionAfterHarakiri
=============================================================================
