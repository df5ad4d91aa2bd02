-------------------------- MODULE KioskRuntimeProofs --------------------------
(***************************************************************************)
(* Proofs about KioskRuntime, for any number of events, any depths of the  *)
(* queues, any pace of the loop and any number of failures, power losses   *)
(* and moves of the server: what is sent is journaled, what is settled is  *)
(* settled as the server decided, and the screen never goes back.          *)
(***************************************************************************)
EXTENDS KioskRuntime, Integers, WellFoundedInduction, TLAPS

-----------------------------------------------------------------------------
(* The inductive invariant.                                                  *)

Decisions == {"SUCCESS", "BUSINESS_REJECTED", "CONFLICT_RESYNC"}

(* An answer to an event that says what the server decided says what it has  *)
(* decided of that event.  Whose result it is, is never mistaken.            *)
IsTrue(r) ==
  r.kind \in EventKinds =>
    /\ r.id \in Event /\ r.out # "OK"
    /\ r.out \in Decisions => answers[r.id] # None /\ answers[r.id].kind = r.out
ResultsAreTrue ==
  /\ task = "done" => IsTrue(req)
  /\ slot # None => IsTrue(slot)

(* Every snapshot anywhere is of a version the server has reached.           *)
Reached(snap) == snap = NoSnapshot \/ snap.ver \in 1..server.ver
SnapshotsReached ==
  /\ server.ver > 0
  /\ Reached(projection)
  /\ task = "done" => Reached(req.snap)
  /\ slot # None => Reached(slot.snap)
  /\ stash # None => Reached(stash.snap)
  /\ \A e \in Event : answers[e] # None => Reached(answers[e].snap)

(* While a replay is out, the list still has the event it is about.          *)
ReplayIsOfTheFirst == replaying => replayIds # <<>>

RuntimeInv ==
  /\ TypeOK /\ ReplayIsOfTheFirst
  /\ JournaledBeforeSent
  /\ ResultsAreTrue /\ SettledAsDecided
  /\ SnapshotsReached

-----------------------------------------------------------------------------
(* A set of numbers that is not empty has a least one.                       *)
LEMMA LeastNumber ==
  ASSUME NEW T \in SUBSET Nat, T # {}
  PROVE  \E n \in T : \A m \in T : n <= m
<1>1. PICK n \in T : \A m \in T : <<m, n>> \notin OpToRel(<, Nat)
  BY NatLessThanWellFounded, WFMin
<1>2. \A m \in T : ~(m < n)
  BY <1>1 DEF OpToRel
<1>. QED  BY <1>2

(* The list for a replay is one of events, the lists of those up to n before *)
(* it: the function that ByDeviceSeq defines exists, ...                     *)
UpTo(S, f, n) ==
  IF n = 0 THEN <<>> ELSE IF n \in S THEN Append(f[n - 1], n) ELSE f[n - 1]

(* The recursive definition has a value at every number.                     *)
LEMMA UpToExists ==
  ASSUME NEW S
  PROVE  \E f : f = [n \in 0..MaxEvents |-> UpTo(S, f, n)]
<1> DEFINE Exists(m) == \E f : f = [n \in 0..m |-> UpTo(S, f, n)]
           T == {m \in Nat : ~Exists(m)}
<1>1. ASSUME NEW m \in T, \A k \in T : m <= k
      PROVE  FALSE
  <2>1. CASE m = 0
    <3>1. [n \in 0..0 |-> <<>>] = [n \in 0..0 |-> UpTo(S, [k \in 0..0 |-> <<>>], n)]
      BY DEF UpTo
    <3>. QED  BY <1>1, <2>1, <3>1
  <2>2. CASE m # 0
    <3>1. m \in Nat \ {0} /\ m - 1 \in Nat /\ m - 1 \notin T
      BY <1>1, <2>2
    <3>2. PICK g : g = [n \in 0..m - 1 |-> UpTo(S, g, n)]
      BY <3>1
    <3> DEFINE h == [n \in 0..m |-> IF n = m THEN UpTo(S, g, m) ELSE g[n]]
    <3>3. ASSUME NEW n \in 0..m PROVE h[n] = UpTo(S, h, n)
      <4>1. n # 0 => n - 1 \in 0..m - 1 /\ h[n - 1] = g[n - 1]
        BY <3>1
      <4>2. CASE n = m
        BY <3>1, <4>1, <4>2 DEF UpTo
      <4>3. CASE n # m
        <5>1. n \in 0..m - 1
          BY <3>1, <4>3
        <5>2. h[n] = g[n] /\ g[n] = UpTo(S, g, n)
          BY <3>2, <4>3, <5>1
        <5>. QED  BY <4>1, <5>2 DEF UpTo
      <4>. QED  BY <4>2, <4>3
    <3>4. h = [n \in 0..m |-> UpTo(S, h, n)]
      BY <3>3
    <3>5. Exists(m)
      BY <3>4
    <3>. QED  BY <1>1, <3>5
  <2>. QED  BY <2>1, <2>2
<1>2. T = {}
  <2>1. T \in SUBSET Nat
    OBVIOUS
  <2>. QED  BY <1>1, <2>1, LeastNumber
<1>3. Exists(MaxEvents)
  BY <1>2, RuntimeAssumption
<1>. QED  BY <1>3

(* ... and what it lists is what it was asked for, each once and in order.   *)
ListsInOrder(s, S) ==
  /\ s \in Seq(S)
  /\ \A e \in S : \E i \in DOMAIN s : s[i] = e
  /\ \A i, j \in DOMAIN s : i < j => s[i] < s[j]

(* One number more: the list below it, and this one last if it is in the     *)
(* set.                                                                      *)
LEMMA OneMoreInOrder ==
  ASSUME NEW n \in Nat \ {0}, NEW S \in SUBSET Nat, NEW s, ListsInOrder(s, S \cap 1..n - 1), n \in S
  PROVE  ListsInOrder(Append(s, n), S \cap 1..n)
<1> DEFINE Before == S \cap 1..n - 1
           t      == Append(s, n)
<1>1. /\ s \in Seq(Before) /\ Len(s) \in Nat /\ DOMAIN s = 1..Len(s)
      /\ \A i \in 1..Len(s) : s[i] \in Before
  BY DEF ListsInOrder
<1>2. /\ DOMAIN t = 1..Len(s) + 1 /\ t[Len(s) + 1] = n
      /\ \A i \in 1..Len(s) : t[i] = s[i]
  BY <1>1
<1>3. Before \subseteq S \cap 1..n /\ n \in S \cap 1..n /\ S \cap 1..n = Before \cup {n}
  OBVIOUS
<1>4. t \in Seq(S \cap 1..n)
  <2>1. s \in Seq(S \cap 1..n)
    BY <1>1, <1>3
  <2>. QED  BY <1>3, <2>1
<1> HIDE DEF t
<1>5. ASSUME NEW e \in S \cap 1..n PROVE \E i \in DOMAIN t : t[i] = e
  <2>1. CASE e = n
    BY <1>1, <1>2, <2>1
  <2>2. CASE e # n
    <3>1. PICK i \in 1..Len(s) : s[i] = e
      BY <1>1, <1>3, <2>2 DEF ListsInOrder
    <3>. QED  BY <1>1, <1>2, <3>1
  <2>. QED  BY <2>1, <2>2
<1>6. ASSUME NEW i \in DOMAIN t, NEW j \in DOMAIN t, i < j PROVE t[i] < t[j]
  <2>1. i \in 1..Len(s) /\ t[i] = s[i]
    BY <1>1, <1>2, <1>6
  <2>2. CASE j = Len(s) + 1
    <3>1. s[i] \in 1..n - 1
      BY <1>1, <2>1
    <3>. QED  BY <1>2, <2>1, <2>2, <3>1
  <2>3. CASE j # Len(s) + 1
    <3>1. j \in 1..Len(s) /\ t[j] = s[j]
      BY <1>1, <1>2, <2>3
    <3>. QED  BY <1>1, <1>6, <2>1, <3>1 DEF ListsInOrder
  <2>. QED  BY <2>2, <2>3
<1>. QED  BY <1>4, <1>5, <1>6 DEF ListsInOrder, t

(* The list of the whole set holds its numbers, each once, in order.         *)
LEMMA ByDeviceSeqHolds ==
  ASSUME NEW S \in SUBSET Event
  PROVE  ListsInOrder(ByDeviceSeq(S), S)
<1> DEFINE f == CHOOSE f : f = [n \in 0..MaxEvents |-> UpTo(S, f, n)]
<1>1. f = [n \in 0..MaxEvents |-> UpTo(S, f, n)]
  BY UpToExists
<1>2. ByDeviceSeq(S) = f[MaxEvents]
  BY DEF ByDeviceSeq, UpTo
<1> HIDE DEF f
<1> DEFINE T == {n \in 0..MaxEvents : ~ListsInOrder(f[n], S \cap 1..n)}
<1>3. ASSUME NEW n \in T, \A m \in T : n <= m
      PROVE  FALSE
  <2>1. n # 0
    <3>1. f[0] = <<>>
      BY <1>1, RuntimeAssumption DEF UpTo
    <3>2. ListsInOrder(<<>>, S \cap 1..0)
      BY DEF ListsInOrder
    <3>. QED  BY <1>3, <3>1, <3>2
  <2>2. n \in Nat \ {0} /\ n \in 0..MaxEvents /\ n - 1 \in 0..MaxEvents
    BY <1>3, <2>1, RuntimeAssumption
  <2>3. ListsInOrder(f[n - 1], S \cap 1..n - 1)
    BY <1>3, <2>2
  <2>4. f[n] = IF n \in S THEN Append(f[n - 1], n) ELSE f[n - 1]
    BY <1>1, <2>2 DEF UpTo
  <2>5. CASE n \in S
    <3>1. S \in SUBSET Nat
      BY RuntimeAssumption DEF Event
    <3>2. ListsInOrder(Append(f[n - 1], n), S \cap 1..n)
      BY <2>2, <2>3, <2>5, <3>1, OneMoreInOrder
    <3>. QED  BY <1>3, <2>4, <2>5, <3>2
  <2>6. CASE n \notin S
    <3>1. S \cap 1..n = S \cap 1..n - 1
      BY <2>2, <2>6
    <3>. QED  BY <1>3, <2>3, <2>4, <2>6, <3>1
  <2>. QED  BY <2>5, <2>6
<1>4. T = {}
  <2>1. T \in SUBSET Nat
    BY RuntimeAssumption
  <2>. QED  BY <1>3, <2>1, LeastNumber
<1>5. S \cap 1..MaxEvents = S
  BY DEF Event
<1>6. MaxEvents \in 0..MaxEvents
  BY RuntimeAssumption
<1>7. ListsInOrder(f[MaxEvents], S)
  BY <1>4, <1>5, <1>6
<1>. QED  BY <1>2, <1>7

(* start_offline_replay_if_needed() lists every unsynced event, no other and *)
(* none twice, in the order in which they were made.                         *)
THEOREM ReplayListsTheUnsynced ==
  ListsInOrder(UnsyncedInOrder, {e \in Event : journal[e] \in Unsynced})
BY ByDeviceSeqHolds DEF UnsyncedInOrder

-----------------------------------------------------------------------------
(* What the definitions of the model give.                                   *)

(* The events that the requests of a queue are about, and what an enqueueing *)
(* or a dequeueing does to them.                                             *)
Ids(s) == {s[i].id : i \in DOMAIN s}

(* A queue after one more request, and without its head.                     *)
LEMMA IdsOfQueues ==
  ASSUME NEW S, NEW s \in Seq(S)
  PROVE  /\ \A r \in S : Append(s, r) \in Seq(S) /\ Ids(Append(s, r)) \subseteq Ids(s) \cup {r.id}
         /\ s # <<>> => /\ Head(s) \in S /\ Head(s).id \in Ids(s)
                        /\ Tail(s) \in Seq(S) /\ Ids(Tail(s)) \subseteq Ids(s)
                        /\ Len(Tail(s)) <= Len(s)
<1>1. ASSUME NEW r \in S
      PROVE  Append(s, r) \in Seq(S) /\ Ids(Append(s, r)) \subseteq Ids(s) \cup {r.id}
  <2>1. Append(s, r) \in Seq(S) /\ DOMAIN Append(s, r) = 1..Len(s) + 1 /\ DOMAIN s = 1..Len(s)
        /\ \A i \in 1..Len(s) + 1 : Append(s, r)[i] = (IF i = Len(s) + 1 THEN r ELSE s[i])
        /\ Len(s) \in Nat
    OBVIOUS
  <2>2. ASSUME NEW i \in 1..Len(s) + 1 PROVE Append(s, r)[i].id \in Ids(s) \cup {r.id}
    <3>1. CASE i = Len(s) + 1
      BY <2>1, <3>1
    <3>2. CASE i # Len(s) + 1
      <4>1. i \in 1..Len(s) /\ Append(s, r)[i] = s[i]
        BY <2>1, <3>2
      <4>. QED  BY <2>1, <4>1 DEF Ids
    <3>. QED  BY <3>1, <3>2
  <2>. QED  BY <2>1, <2>2 DEF Ids
<1>2. ASSUME s # <<>>
      PROVE  /\ Head(s) \in S /\ Head(s).id \in Ids(s)
             /\ Tail(s) \in Seq(S) /\ Ids(Tail(s)) \subseteq Ids(s)
             /\ Len(Tail(s)) <= Len(s)
  <2>1. /\ DOMAIN s = 1..Len(s) /\ Len(s) \in Nat \ {0} /\ Head(s) = s[1] /\ s[1] \in S
        /\ Tail(s) \in Seq(S) /\ DOMAIN Tail(s) = 1..Len(s) - 1 /\ Len(Tail(s)) <= Len(s)
        /\ \A i \in 1..Len(s) - 1 : Tail(s)[i] = s[i + 1]
    BY <1>2
  <2>2. Head(s).id \in Ids(s)
    BY <2>1 DEF Ids
  <2>3. ASSUME NEW i \in 1..Len(s) - 1 PROVE Tail(s)[i].id \in Ids(s)
    <3>1. i + 1 \in 1..Len(s) /\ Tail(s)[i] = s[i + 1]
      BY <2>1
    <3>. QED  BY <2>1, <3>1 DEF Ids
  <2>. QED  BY <2>1, <2>2, <2>3 DEF Ids
<1>. QED  BY <1>1, <1>2

(* The fields of a request.                                                  *)
LEMMA RequestFields ==
  /\ \A r \in Request : /\ r # None /\ r.kind \in EventKinds \cup OtherKinds
                        /\ r.id \in Event \cup {0}
                        /\ r.kind \in EventKinds => r.id \in Event
                        /\ r.kind \in OtherKinds => r.id = 0
  /\ \A k \in EventKinds, e \in Event : EventRequest(k, e) \in Request /\ EventRequest(k, e).id = e
  /\ \A k \in OtherKinds : OtherRequest(k) \in Request /\ OtherRequest(k).id = 0
BY NoneAssumption DEF Request, EventRequest, OtherRequest, EventKinds, OtherKinds

(* What TypeOK says of the task's request, which is its result in the end,   *)
(* and of the result in the slot.                                            *)
LEMMA TaskHolds ==
  ASSUME TypeOK
  PROVE  /\ task \in TaskPc
         /\ task \in {"checkHigh", "waitLow"} => req = None
         /\ task \in {"picked", "executing"} => req \in Request /\ req # None
         /\ task = "done" => req \in Result /\ req # None
         /\ slot # None => slot \in Result
<1>1. task \in TaskPc /\ (slot # None => slot \in Result)
  BY DEF TypeOK, WorkerTypeOK
<1>2. task \in {"checkHigh", "waitLow"} => req = None
  BY DEF TypeOK, WorkerTypeOK
<1>3. task \in {"picked", "executing"} => req \in Request
  BY DEF TypeOK, WorkerTypeOK
<1>4. task = "done" => req \in Result
  BY DEF TypeOK, WorkerTypeOK
<1>. QED  BY <1>1, <1>2, <1>3, <1>4, NoneAssumption

(* A queue after a call.                                                     *)
LEMMA QueuesAfter ==
  ASSUME TypeOK, NEW r \in Request
  PROVE  /\ HighAfter(r) \in Seq(Request) /\ Len(HighAfter(r)) <= HighDepth
         /\ Ids(HighAfter(r)) \subseteq Ids(high) \cup {r.id}
         /\ LowAfter(r) \in Seq(Request) /\ Len(LowAfter(r)) <= LowDepth
         /\ Ids(LowAfter(r)) \subseteq Ids(low) \cup {r.id}
<1>1. /\ high \in Seq(Request) /\ Len(high) <= HighDepth
      /\ low \in Seq(Request) /\ Len(low) <= LowDepth
  BY DEF TypeOK, WorkerTypeOK
<1>2. /\ Append(high, r) \in Seq(Request) /\ Ids(Append(high, r)) \subseteq Ids(high) \cup {r.id}
      /\ Append(low, r) \in Seq(Request) /\ Ids(Append(low, r)) \subseteq Ids(low) \cup {r.id}
      /\ Len(Append(high, r)) = Len(high) + 1 /\ Len(Append(low, r)) = Len(low) + 1
  BY <1>1, IdsOfQueues
<1>. QED
  BY <1>1, <1>2, WorkerAssumption DEF HighAfter, LowAfter, HighHasRoom, LowHasRoom

(* An answer the server gives is the one it gave before, if it did; else it  *)
(* shows the state as it is, or as it is after the event.                    *)
LEMMA AnswersHold ==
  ASSUME TypeOK, SnapshotsReached, NEW e \in Event, NEW a \in AnswersTo(e), ServeEvent(e, a)
  PROVE  /\ a \in Answer /\ a # None
         /\ answers' \in [Event -> Answer \cup {None}] /\ server' \in Snapshot
         /\ answers'[e] = a /\ (answers[e] # None => a = answers[e])
         /\ \A d \in Event \ {e} : answers'[d] = answers[d]
         /\ server'.ver >= server.ver
         /\ a.snap = NoSnapshot \/ a.snap.ver \in 1..server'.ver
<1>1. /\ server \in Snapshot /\ server.ver \in Nat \ {0} /\ answers \in [Event -> Answer \cup {None}]
      /\ answers' = [answers EXCEPT ![e] = a]
      /\ server' = IF answers[e] = None /\ a.kind = "SUCCESS" THEN a.snap ELSE server
  BY DEF TypeOK, SnapshotsReached, ServeEvent, Snapshot
<1>2. CASE answers[e] # None
  <2>1. a = answers[e] /\ server' = server
    BY <1>1, <1>2 DEF AnswersTo
  <2>2. a.snap = NoSnapshot \/ a.snap.ver \in 1..server.ver
    BY <1>2, <2>1 DEF SnapshotsReached, Reached
  <2>. QED  BY <1>1, <1>2, <2>1, <2>2
<1>3. CASE answers[e] = None
  <2>1. a \in FirstAnswers(e)
    BY <1>3 DEF AnswersTo
  <2>2. /\ a \in Answer /\ (a.snap = NoSnapshot \/ a.snap.ver \in 1..server'.ver)
        /\ server' \in Snapshot /\ server'.ver >= server.ver
    <3>1. CASE madeAt[e] < server.ver
      <4>1. a = [kind |-> "CONFLICT_RESYNC", snap |-> NoSnapshot]
        BY <2>1, <3>1 DEF FirstAnswers
      <4>2. a \in Answer /\ a.snap = NoSnapshot /\ a.kind # "SUCCESS"
        BY <4>1 DEF Answer, Snapshot, NoSnapshot
      <4>. QED  BY <1>1, <4>2
    <3>2. CASE a = [kind |-> "BUSINESS_REJECTED", snap |-> server]
      <4>1. a \in Answer /\ a.snap = server /\ a.kind # "SUCCESS"
        BY <1>1, <3>2 DEF Answer
      <4>. QED  BY <1>1, <4>1
    <3>3. CASE \E b \in BOOLEAN :
                 a = [kind |-> "SUCCESS", snap |-> [ver |-> server.ver + 1, known |-> b]]
      <4>1. PICK b \in BOOLEAN :
               a = [kind |-> "SUCCESS", snap |-> [ver |-> server.ver + 1, known |-> b]]
        BY <3>3
      <4>2. [ver |-> server.ver + 1, known |-> b] \in Snapshot
        BY <1>1, <4>1 DEF Snapshot
      <4>3. a \in Answer /\ a.snap \in Snapshot /\ a.kind = "SUCCESS"
        BY <4>1, <4>2 DEF Answer
      <4>4. a.snap.ver = server.ver + 1 /\ server' = a.snap
        BY <1>1, <1>3, <4>1
      <4>. QED  BY <1>1, <4>3, <4>4
    <3>. QED  BY <2>1, <3>1, <3>2, <3>3 DEF FirstAnswers
  <2>3. a # None
    BY <2>2, NoneAssumption
  <2>. QED  BY <1>1, <1>3, <2>2, <2>3
<1>. QED  BY <1>2, <1>3

(* A snapshot is applied only if it is newer than the one held.              *)
LEMMA AppliedHolds ==
  ASSUME TypeOK, NEW snap \in Snapshot
  PROVE  \/ Applied(snap) = projection
         \/ Applied(snap) = snap /\ snap # NoSnapshot
            /\ (projection = NoSnapshot \/ snap.ver > projection.ver)
<1>1. CASE snap.known /\ (projection = NoSnapshot \/ snap.ver > projection.ver)
  <2>1. snap # NoSnapshot
    BY <1>1 DEF NoSnapshot
  <2>. QED  BY <1>1, <2>1 DEF Applied
<1>2. CASE ~(snap.known /\ (projection = NoSnapshot \/ snap.ver > projection.ver))
  <2>1. ApplyResult(snap) # "APPLIED"
    BY <1>2 DEF ApplyResult
  <2>. QED  BY <2>1 DEF Applied
<1>. QED  BY <1>1, <1>2

(* What the result of an event gives as its status.                          *)
LEMMA StatusAfterHolds ==
  /\ \A out \in Outcome \ {"OK"} : StatusAfter(out) \in Terminal \cup {"PENDING"}
  /\ \A out \in Outcome \ {"OK"} :
       /\ StatusAfter(out) = "ACKED"    => out = "SUCCESS"
       /\ StatusAfter(out) = "REJECTED" => out = "BUSINESS_REJECTED"
       /\ StatusAfter(out) = "CONFLICT" => out = "CONFLICT_RESYNC"
<1>1. StatusAfter("retryable") = "PENDING" /\ StatusAfter("MALFORMED") = "PENDING"
  BY DEF StatusAfter
<1>2. StatusAfter("permanent") = "HUMAN_REVIEW"
  BY DEF StatusAfter
<1>3. StatusAfter("CONFLICT_RESYNC") = "CONFLICT"
  BY DEF StatusAfter
<1>4. StatusAfter("BUSINESS_REJECTED") = "REJECTED"
  BY DEF StatusAfter
<1>5. StatusAfter("SUCCESS") = "ACKED"
  BY DEF StatusAfter
<1>. QED  BY <1>1, <1>2, <1>3, <1>4, <1>5 DEF Outcome, Terminal

(* A list for a replay is one of events.                                     *)
LEMMA ReplayListType == TypeOK => ReplayList \in Seq(Event)
<1> DEFINE S == {e \in Event : journal[e] \in Unsynced}
<1>1. S \subseteq Event /\ UnsyncedInOrder \in Seq(S)
  BY ReplayListsTheUnsynced DEF ListsInOrder
<1>2. UnsyncedInOrder \in Seq(Event)
  BY <1>1
<1>. QED  BY <1>2 DEF TypeOK, ReplayList

-----------------------------------------------------------------------------
(* TypeOK is kept: by the network task, ...                                  *)
LEMMA TypeKeptByTask ==
  ASSUME RuntimeInv, Task
  PROVE  TypeOK'
<1> USE DEF RuntimeInv
<1>1. CASE TaskStep /\ UNCHANGED <<loop, runtime, backend, left>>
  <2>1. high \in Seq(Request) /\ Len(high) <= HighDepth /\ low \in Seq(Request) /\ Len(low) <= LowDepth
        /\ slot \in Result \cup {None}
    BY DEF TypeOK, WorkerTypeOK
  <2>2. WorkerTypeOK(Request, Result)'
    <3>1. CASE PickHigh
      BY <2>1, <3>1, IdsOfQueues, WorkerAssumption DEF PickHigh, WorkerTypeOK, TaskPc
    <3>2. CASE PickLow
      BY <2>1, <3>2, IdsOfQueues, WorkerAssumption DEF PickLow, WorkerTypeOK, TaskPc
    <3>3. CASE SeeHighEmpty
      BY <2>1, <3>3, TaskHolds DEF SeeHighEmpty, WorkerTypeOK, TaskPc
    <3>4. CASE WaitTimesOut
      BY <2>1, <3>4, TaskHolds DEF WaitTimesOut, WorkerTypeOK, TaskPc
    <3>5. CASE SetExecuting
      BY <2>1, <3>5, TaskHolds DEF SetExecuting, WorkerTypeOK, TaskPc
    <3>6. CASE Deposit
      BY <2>1, <3>6, TaskHolds DEF Deposit, WorkerTypeOK, TaskPc
    <3>. QED  BY <1>1, <3>1, <3>2, <3>3, <3>4, <3>5, <3>6 DEF TaskStep
  <2>. QED  BY <1>1, <2>2 DEF TypeOK, runtime, backend
<1>2. ASSUME NEW r \in Result, Executed(r), UNCHANGED <<loop, runtime>>,
             answers' \in [Event -> Answer \cup {None}], server' \in Snapshot,
             left' \in [Happening -> Nat]
      PROVE  TypeOK'
  <2>1. WorkerTypeOK(Request, Result)'
    BY <1>2 DEF Executed, TypeOK, WorkerTypeOK, TaskPc
  <2>. QED  BY <1>2, <2>1 DEF TypeOK, runtime
<1>3. CASE ExecuteFails
  <2>1. PICK out \in {"retryable", "permanent", "MALFORMED"} :
           Executed(ResultOf(req, out, NoSnapshot))
    BY <1>3 DEF ExecuteFails
  <2>2. ResultOf(req, out, NoSnapshot) \in Result
    BY <1>3, TaskHolds, RequestFields
       DEF ExecuteFails, ResultOf, Result, Outcome, Snapshot, NoSnapshot
  <2>3. answers' \in [Event -> Answer \cup {None}] /\ server' \in Snapshot
    <3>1. CASE UNCHANGED backend
      BY <3>1 DEF TypeOK, backend
    <3>2. CASE req.kind \in EventKinds /\ \E a \in AnswersTo(req.id) : ServeEvent(req.id, a)
      <4>1. req.id \in Event
        BY <1>3, <3>2, TaskHolds, RequestFields DEF ExecuteFails
      <4>. QED  BY <3>2, <4>1, AnswersHold
    <3>. QED  BY <1>3, <3>1, <3>2 DEF ExecuteFails
  <2>4. left' \in [Happening -> Nat]
    BY <1>3 DEF ExecuteFails, Spend, TypeOK, Happening
  <2>. QED  BY <1>2, <1>3, <2>1, <2>2, <2>3, <2>4 DEF ExecuteFails
<1>4. CASE ExecuteEvent
  <2>1. PICK a \in AnswersTo(req.id) : ServeEvent(req.id, a) /\ Executed(ResultOf(req, a.kind, a.snap))
    BY <1>4 DEF ExecuteEvent
  <2>2. req \in Request /\ req.id \in Event
    BY <1>4, TaskHolds, RequestFields DEF ExecuteEvent
  <2>3. a \in Answer /\ answers' \in [Event -> Answer \cup {None}] /\ server' \in Snapshot
    BY <2>1, <2>2, AnswersHold
  <2>4. ResultOf(req, a.kind, a.snap) \in Result
    BY <2>2, <2>3, RequestFields DEF ResultOf, Result, Outcome, Answer
  <2>. QED  BY <1>2, <1>4, <2>1, <2>3, <2>4 DEF ExecuteEvent, TypeOK
<1>5. CASE ExecuteOther
  <2>1. ResultOf(req, "OK", server) \in Result
    BY <1>5, TaskHolds, RequestFields DEF ExecuteOther, ResultOf, Result, Outcome, TypeOK
  <2>. QED  BY <1>2, <1>5, <2>1 DEF ExecuteOther, TypeOK, backend
<1>. QED  BY <1>1, <1>3, <1>4, <1>5 DEF Task

(* ... by what a pass of the loop does before the replay, ...                *)
LEMMA TypeKeptByInput ==
  ASSUME RuntimeInv, Input
  PROVE  TypeOK'
<1> USE DEF RuntimeInv
<1>1. CASE SendBusinessEvent
  <2> DEFINE r == EventRequest("BUSINESS_EVENT", nextId)
  <2>1. nextId \in Event /\ r \in Request
    BY <1>1, RequestFields DEF SendBusinessEvent, EventKinds
  <2>2. high' \in Seq(Request) /\ Len(high') <= HighDepth
    BY <1>1, <2>1, QueuesAfter DEF SendBusinessEvent
  <2>3. WorkerTypeOK(Request, Result)'
    BY <1>1, <2>2 DEF SendBusinessEvent, TypeOK, WorkerTypeOK
  <2>4. nextId' \in 1..MaxEvents + 1 /\ loop' \in LoopPc
    BY <1>1, <2>1, RuntimeAssumption DEF SendBusinessEvent, Event, LoopPc
  <2>5. journal' \in [Event -> Unsynced \cup Terminal \cup {"NONE"}] /\ madeAt' \in [Event -> Nat]
    BY <1>1, <2>1 DEF SendBusinessEvent, TypeOK, Unsynced, Snapshot
  <2>. QED  BY <1>1, <2>3, <2>4, <2>5 DEF SendBusinessEvent, TypeOK, backend
<1>2. CASE NotDurable
  <2>1. nextId' \in 1..MaxEvents + 1 /\ loop' \in LoopPc
    BY <1>2, RuntimeAssumption DEF NotDurable, Event, LoopPc
  <2>2. left' \in [Happening -> Nat]
    BY <1>2 DEF NotDurable, Spend, TypeOK, Happening
  <2>. QED  BY <1>2, <2>1, <2>2 DEF NotDurable, TypeOK, WorkerTypeOK, backend, worker
<1>3. CASE ManualResync
  <2>1. high' \in Seq(Request) /\ Len(high') <= HighDepth /\ resyncing' \in BOOLEAN
    BY <1>3, QueuesAfter, RequestFields DEF ManualResync, StartResync, OtherKinds
  <2>2. WorkerTypeOK(Request, Result)'
    BY <1>3, <2>1 DEF ManualResync, TypeOK, WorkerTypeOK
  <2>3. left' \in [Happening -> Nat]
    BY <1>3 DEF ManualResync, Spend, TypeOK, Happening
  <2>. QED  BY <1>3, <2>1, <2>2, <2>3 DEF ManualResync, TypeOK, backend, LoopPc
<1>4. CASE NoInput
  BY <1>4 DEF NoInput, TypeOK, WorkerTypeOK, backend, worker, runtime, LoopPc
<1>. QED  BY <1>1, <1>2, <1>3, <1>4 DEF Input

(* What poll() does with the result it takes.                                *)
LEMMA TypeKeptByPoll ==
  ASSUME RuntimeInv, PollResult
  PROVE  TypeOK'
<1> USE DEF RuntimeInv
<1>0. CASE NoResult
  BY <1>0 DEF NoResult, TypeOK, WorkerTypeOK, backend, worker, runtime, LoopPc
<1>1. ASSUME NEW kinds, TakeResult(kinds),
             high' \in Seq(Request), Len(high') <= HighDepth,
             journal' \in [Event -> Unsynced \cup Terminal \cup {"NONE"}],
             replayIds' \in Seq(Event), replaying' \in BOOLEAN, resyncing' \in BOOLEAN,
             projection' \in Snapshot, stash' \in Result \cup {None}
      PROVE  TypeOK'
  <2>1. WorkerTypeOK(Request, Result)'
    BY <1>1 DEF TakeResult, TypeOK, WorkerTypeOK
  <2>. QED  BY <1>1, <2>1 DEF TakeResult, TypeOK, backend, LoopPc
<1>2. high \in Seq(Request) /\ Len(high) <= HighDepth
  BY DEF TypeOK, WorkerTypeOK
<1>3. slot # None => slot \in Result /\ slot.snap \in Snapshot
  BY TaskHolds DEF Result
<1>4. slot # None => Applied(slot.snap) \in Snapshot
  BY <1>3 DEF Applied, TypeOK
<1>5. CASE TakeStateFetch
  <2>1. TakeResult({"STATE_FETCH"}) /\ UNCHANGED <<high, journal, replayIds, replaying, stash>>
    BY <1>5 DEF TakeStateFetch
  <2>2. projection' \in Snapshot /\ resyncing' \in BOOLEAN
    BY <1>4, <1>5 DEF TakeStateFetch, TakeResult, TypeOK
  <2>. QED  BY <1>1, <1>2, <2>1, <2>2 DEF TypeOK
<1>6. CASE TakeBootstrap
  <2>1. TakeResult({"BOOTSTRAP"}) /\ stash' = slot
        /\ UNCHANGED <<high, journal, replayIds, replaying, resyncing, projection>>
    BY <1>6 DEF TakeBootstrap
  <2>2. stash' \in Result
    BY <1>3, <2>1 DEF TakeResult
  <2>. QED  BY <1>1, <1>2, <2>1, <2>2 DEF TypeOK
<1>7. CASE TakeHeartbeat
  <2>1. TakeResult({"HEARTBEAT"})
        /\ UNCHANGED <<high, journal, replayIds, replaying, resyncing, projection, stash>>
    BY <1>7 DEF TakeHeartbeat
  <2>. QED  BY <1>1, <1>2, <2>1 DEF TypeOK
<1>8. CASE TakeEventResult
  <2>1. TakeResult(EventKinds) /\ replaying' = FALSE /\ stash' = stash
        /\ slot # None /\ slot.kind \in EventKinds
    BY <1>8 DEF TakeEventResult, TakeResult
  <2>2. slot \in Result /\ slot.id \in Event /\ slot.out \in Outcome \ {"OK"}
    BY <1>3, <2>1 DEF ResultsAreTrue, IsTrue, Result
  <2>3. journal' \in [Event -> Unsynced \cup Terminal \cup {"NONE"}]
    <3>1. StatusAfter(slot.out) \in Unsynced \cup Terminal \cup {"NONE"}
      BY <2>2, StatusAfterHolds DEF Unsynced
    <3>. QED  BY <1>8, <2>2, <3>1 DEF TakeEventResult, SetStatus, TypeOK
  <2>4. replayIds' \in Seq(Event)
    <3>1. replayIds \in Seq(Event) /\ replayIds' = IF replaying THEN Tail(replayIds) ELSE replayIds
      BY <1>8 DEF TakeEventResult, TypeOK
    <3>. QED  BY <3>1 DEF ReplayIsOfTheFirst
  <2>5. projection' \in Snapshot
    BY <1>4, <1>8, <2>1 DEF TakeEventResult, TypeOK
  <2>6. high' \in Seq(Request) /\ Len(high') <= HighDepth /\ resyncing' \in BOOLEAN
    BY <1>2, <1>8, QueuesAfter, RequestFields DEF TakeEventResult, StartResync, OtherKinds, TypeOK
  <2>. QED  BY <1>1, <2>1, <2>3, <2>4, <2>5, <2>6 DEF TypeOK
<1>. QED  BY <1>0, <1>5, <1>6, <1>7, <1>8 DEF PollResult

(* ... by the replay and the rest of the pass, ...                           *)
LEMMA TypeKeptByPollEnd ==
  ASSUME RuntimeInv, PollEnds \/ PollEndsFallback
  PROVE  TypeOK' /\ ReplayIsOfTheFirst'
<1> USE DEF RuntimeInv
<1>1. PICK ids \in {replayIds, ReplayList} : EndOfPoll(ids)
  BY DEF PollEnds, PollEndsFallback
<1>2. ids \in Seq(Event) /\ (replaying => ids # <<>>)
  BY <1>1, ReplayListType DEF TypeOK, ReplayIsOfTheFirst, ReplayList
<1>3. /\ replayIds' \in {ids, Tail(ids)} /\ (replayIds' = ids \/ ids # <<>>)
      /\ replaying' \in BOOLEAN /\ (replaying' => replayIds' = ids /\ ids # <<>>)
  BY <1>1, <1>2 DEF EndOfPoll, CheckOfflineReplay, TypeOK
<1>4. low' = low \/ \E r \in Request : low' = LowAfter(r)
  <2>1. ids # <<>> => EventRequest("OFFLINE_REPLAY", Head(ids)) \in Request
    BY <1>2, RequestFields DEF EventKinds
  <2>. QED  BY <1>1, <2>1 DEF EndOfPoll, CheckOfflineReplay
<1>5. low' \in Seq(Request) /\ Len(low') <= LowDepth
  BY <1>4, QueuesAfter DEF TypeOK, WorkerTypeOK
<1>6. WorkerTypeOK(Request, Result)'
  BY <1>1, <1>5 DEF EndOfPoll, TypeOK, WorkerTypeOK
<1>7. replayIds' \in Seq(Event)
  BY <1>2, <1>3
<1>8. TypeOK'
  BY <1>1, <1>3, <1>6, <1>7 DEF EndOfPoll, TypeOK, backend, LoopPc
<1>9. ReplayIsOfTheFirst'
  BY <1>3 DEF ReplayIsOfTheFirst
<1>. QED  BY <1>8, <1>9

(* The rest of the pass, and what happens around the kiosk.                  *)
LEMMA TypeKeptByTail ==
  ASSUME RuntimeInv, LoopTail
  PROVE  TypeOK' /\ ReplayIsOfTheFirst'
<1> USE DEF RuntimeInv
<1>1. CASE NothingMore
  BY <1>1 DEF NothingMore, TailDone, TypeOK, WorkerTypeOK, backend, LoopPc, ReplayIsOfTheFirst
<1>2. ReplayList \in Seq(Event) /\ (replaying => ReplayList # <<>>)
  BY ReplayListType DEF ReplayList, ReplayIsOfTheFirst
<1>3. CASE Reconnected
  <2>1. left' \in [Happening -> Nat]
    BY <1>3 DEF Reconnected, Spend, TypeOK, Happening
  <2>. QED
    BY <1>2, <1>3, <2>1 DEF Reconnected, TailDone, TypeOK, WorkerTypeOK, backend, LoopPc,
                            ReplayIsOfTheFirst
<1>4. CASE AskBootstrap
  <2>1. left' \in [Happening -> Nat]
    BY <1>4 DEF AskBootstrap, Spend, TypeOK, Happening
  <2>2. high' \in Seq(Request) /\ Len(high') <= HighDepth
    BY <1>4, QueuesAfter, RequestFields DEF AskBootstrap, OtherKinds
  <2>3. WorkerTypeOK(Request, Result)'
    BY <1>4, <2>2 DEF AskBootstrap, TailDone, TypeOK, WorkerTypeOK
  <2>. QED
    BY <1>4, <2>1, <2>3 DEF AskBootstrap, TailDone, TypeOK, backend, LoopPc, ReplayIsOfTheFirst
<1>5. CASE TakeStash
  <2>1. stash \in Result /\ stash.snap \in Snapshot
    BY <1>5 DEF TakeStash, TypeOK, Result
  <2>2. projection' \in Snapshot /\ replayIds' \in Seq(Event) /\ (replaying => replayIds' # <<>>)
    BY <1>2, <1>5, <2>1 DEF TakeStash, Applied, TypeOK, ReplayIsOfTheFirst
  <2>. QED
    BY <1>5, <2>2 DEF TakeStash, TailDone, TypeOK, WorkerTypeOK, backend, LoopPc,
                      ReplayIsOfTheFirst
<1>6. CASE Heartbeat
  <2>1. left' \in [Happening -> Nat]
    BY <1>6 DEF Heartbeat, Spend, TypeOK, Happening
  <2>2. low' \in Seq(Request) /\ Len(low') <= LowDepth
    BY <1>6, QueuesAfter, RequestFields DEF Heartbeat, OtherKinds
  <2>3. WorkerTypeOK(Request, Result)'
    BY <1>6, <2>2 DEF Heartbeat, TypeOK, WorkerTypeOK
  <2>. QED
    BY <1>6, <2>1, <2>3 DEF Heartbeat, TypeOK, runtime, backend, LoopPc, ReplayIsOfTheFirst
<1>. QED  BY <1>1, <1>3, <1>4, <1>5, <1>6 DEF LoopTail

(* ... and by every step there is.                                           *)
LEMMA TypeKept ==
  ASSUME RuntimeInv, [Next]_vars
  PROVE  TypeOK' /\ ReplayIsOfTheFirst'
<1> USE DEF RuntimeInv
<1>1. CASE Input
  BY <1>1, TypeKeptByInput
     DEF Input, SendBusinessEvent, NotDurable, ManualResync, NoInput, runtime, ReplayIsOfTheFirst
<1>2. CASE PollResult
  <2>1. ReplayIsOfTheFirst'
    BY <1>2 DEF PollResult, NoResult, TakeStateFetch, TakeBootstrap, TakeHeartbeat,
                TakeEventResult, runtime, ReplayIsOfTheFirst
  <2>. QED  BY <1>2, <2>1, TypeKeptByPoll
<1>3. CASE PollEnds \/ PollEndsFallback
  BY <1>3, TypeKeptByPollEnd
<1>4. CASE LoopTail
  BY <1>4, TypeKeptByTail
<1>5. CASE Task
  <2>1. ReplayIsOfTheFirst'
    BY <1>5 DEF Task, ExecuteFails, ExecuteEvent, ExecuteOther, runtime, ReplayIsOfTheFirst
  <2>. QED  BY <1>5, <2>1, TypeKeptByTask
<1>6. CASE ServerMoves
  <2>1. server' \in Snapshot
    BY <1>6 DEF ServerMoves, TypeOK, Snapshot
  <2>2. left' \in [Happening -> Nat]
    BY <1>6 DEF ServerMoves, Spend, TypeOK, Happening
  <2>. QED
    BY <1>6, <2>1, <2>2 DEF ServerMoves, TypeOK, WorkerTypeOK, worker, runtime, ReplayIsOfTheFirst
<1>7. CASE PowerLoss
  <2>1. left' \in [Happening -> Nat]
    BY <1>7 DEF PowerLoss, Spend, TypeOK, Happening
  <2>2. WorkerTypeOK(Request, Result)'
    BY <1>7, WorkerAssumption DEF PowerLoss, WorkerTypeOK, TaskPc
  <2>3. replayIds' \in Seq(Event) /\ projection' \in Snapshot /\ ReplayIsOfTheFirst'
    BY <1>7 DEF PowerLoss, NoSnapshot, Snapshot, ReplayIsOfTheFirst
  <2>. QED  BY <1>7, <2>1, <2>2, <2>3 DEF PowerLoss, TypeOK, backend, LoopPc
<1>8. CASE UNCHANGED vars
  BY <1>8 DEF vars, worker, runtime, backend, TypeOK, WorkerTypeOK, ReplayIsOfTheFirst
<1>. QED  BY <1>1, <1>2, <1>3, <1>4, <1>5, <1>6, <1>7, <1>8 DEF Next, Loop

-----------------------------------------------------------------------------
(* What is sent is journaled: the journal forgets nothing, and what is newly *)
(* on its way or answered is in it.                                          *)
InTask == IF req = None THEN {} ELSE {req.id}

(* Nothing new on its way or answered, and nothing out of the journal.       *)
LEMMA JournaledKept ==
  ASSUME RuntimeInv,
         \A e \in Event : journal[e] # "NONE" => journal'[e] # "NONE",
         NEW new \in SUBSET {e \in Event : journal'[e] # "NONE"},
         Ids(high') \subseteq Ids(high) \cup Ids(low) \cup InTask \cup {0} \cup new,
         Ids(low') \subseteq Ids(high) \cup Ids(low) \cup InTask \cup {0} \cup new,
         InTask' \subseteq Ids(high) \cup Ids(low) \cup InTask \cup {0} \cup new,
         \A e \in Event : answers'[e] # None => answers[e] # None \/ journal'[e] # "NONE"
  PROVE  JournaledBeforeSent'
<1>1. /\ OnItsWay = Ids(high) \cup Ids(low) \cup InTask
      /\ OnItsWay' = Ids(high') \cup Ids(low') \cup InTask'
  BY DEF OnItsWay, Ids, InTask
<1>2. \A e \in OnItsWay \ {0} : e \in Event
  <2>1. high \in Seq(Request) /\ low \in Seq(Request)
    BY DEF RuntimeInv, TypeOK, WorkerTypeOK
  <2>2. Ids(high) \subseteq Event \cup {0} /\ Ids(low) \subseteq Event \cup {0}
    BY <2>1, RequestFields DEF Ids
  <2>3. InTask \subseteq Event \cup {0}
    BY TaskHolds, RequestFields DEF RuntimeInv, InTask, TaskPc, Result
  <2>. QED  BY <1>1, <2>2, <2>3
<1>3. ASSUME NEW e \in OnItsWay' \ {0} PROVE journal'[e] # "NONE"
  <2>1. e \in OnItsWay \/ e \in new
    BY <1>1, <1>3
  <2>. QED  BY <1>2, <1>3, <2>1 DEF RuntimeInv, JournaledBeforeSent
<1>4. \A e \in Event : answers'[e] # None => journal'[e] # "NONE"
  BY DEF RuntimeInv, JournaledBeforeSent
<1>. QED  BY <1>3, <1>4 DEF JournaledBeforeSent

(* The network task only passes on what it got.                              *)
LEMMA JournaledKeptByTask ==
  ASSUME RuntimeInv, Task
  PROVE  JournaledBeforeSent'
<1> USE DEF RuntimeInv
<1>0. journal' = journal /\ high \in Seq(Request) /\ low \in Seq(Request)
  BY DEF Task, ExecuteFails, ExecuteEvent, ExecuteOther, runtime, TypeOK, WorkerTypeOK
<1>1. CASE TaskStep /\ UNCHANGED <<loop, runtime, backend, left>>
  <2>1. /\ Ids(high') \subseteq Ids(high) /\ Ids(low') \subseteq Ids(low)
        /\ InTask' \subseteq Ids(high) \cup Ids(low) \cup InTask
    <3>1. CASE PickHigh
      BY <1>0, <3>1, IdsOfQueues DEF PickHigh, InTask
    <3>2. CASE PickLow
      BY <1>0, <3>2, IdsOfQueues DEF PickLow, InTask
    <3>3. CASE SeeHighEmpty \/ WaitTimesOut \/ SetExecuting \/ Deposit
      BY <3>3 DEF SeeHighEmpty, WaitTimesOut, SetExecuting, Deposit, InTask
    <3>. QED  BY <1>1, <3>1, <3>2, <3>3 DEF TaskStep
  <2>. QED  BY <1>0, <1>1, <2>1, JournaledKept DEF backend
<1>2. CASE ExecuteFails \/ ExecuteEvent \/ ExecuteOther
  <2>1. /\ task = "executing" /\ req \in Request /\ InTask = {req.id}
        /\ high' = high /\ low' = low /\ InTask' \subseteq InTask
    BY <1>2, TaskHolds
       DEF ExecuteFails, ExecuteEvent, ExecuteOther, Executed, ResultOf, InTask
  <2>2. /\ \/ answers' = answers
           \/ req.id \in Event /\ \E a : answers' = [answers EXCEPT ![req.id] = a]
    BY <1>2, <2>1, RequestFields
       DEF ExecuteFails, ExecuteEvent, ExecuteOther, ServeEvent, backend
  <2>3. req.id \in Event => journal[req.id] # "NONE"
    BY <2>1 DEF JournaledBeforeSent, OnItsWay, InTask, Event
  <2>4. \A e \in Event : answers'[e] # None => answers[e] # None \/ journal'[e] # "NONE"
    BY <1>0, <2>2, <2>3 DEF TypeOK
  <2>. QED  BY <1>0, <2>1, <2>4, JournaledKept
<1>. QED  BY <1>1, <1>2 DEF Task

(* The loop journals first what it sends.                                    *)
LEMMA JournaledKeptByLoop ==
  ASSUME RuntimeInv, Loop
  PROVE  JournaledBeforeSent'
<1> USE DEF RuntimeInv
<1>0. answers' = answers /\ req' = req /\ InTask' = InTask
  BY DEF Loop, Input, SendBusinessEvent, NotDurable, ManualResync, NoInput, PollResult, NoResult,
         TakeStateFetch, TakeBootstrap, TakeHeartbeat, TakeEventResult, TakeResult, PollEnds,
         PollEndsFallback, EndOfPoll, LoopTail, NothingMore, Reconnected, AskBootstrap, TakeStash,
         Heartbeat, TailDone, worker, backend, InTask
<1>1. CASE SendBusinessEvent
  <2> DEFINE r == EventRequest("BUSINESS_EVENT", nextId)
  <2>1. /\ nextId \in Event /\ r \in Request /\ r.id = nextId
        /\ high' = HighAfter(r) /\ low' = low /\ journal'[nextId] # "NONE"
        /\ \A e \in Event \ {nextId} : journal'[e] = journal[e]
    BY <1>1, RequestFields DEF SendBusinessEvent, EventKinds, TypeOK
  <2>2. Ids(high') \subseteq Ids(high) \cup {nextId}
    BY <2>1, QueuesAfter
  <2>. QED  BY <1>0, <2>1, <2>2, JournaledKept
<1>2. ASSUME high' = high \/ \E k \in OtherKinds : high' = HighAfter(OtherRequest(k)),
             low' = low \/ \E k \in OtherKinds : low' = LowAfter(OtherRequest(k)),
             \A e \in Event : journal[e] # "NONE" => journal'[e] # "NONE"
      PROVE  JournaledBeforeSent'
  <2>1. Ids(high') \subseteq Ids(high) \cup {0} /\ Ids(low') \subseteq Ids(low) \cup {0}
    BY <1>2, QueuesAfter, RequestFields
  <2>. QED  BY <1>0, <1>2, <2>1, JournaledKept
<1>3. CASE NotDurable \/ ManualResync \/ NoInput
  BY <1>2, <1>3 DEF NotDurable, ManualResync, NoInput, StartResync, OtherKinds, worker, runtime
<1>4. CASE PollResult
  <2>1. \A e \in Event : journal[e] # "NONE" => journal'[e] # "NONE"
    <3>1. CASE TakeEventResult
      <4>1. slot \in Result /\ slot.id \in Event /\ slot.out \in Outcome \ {"OK"}
        BY <3>1, TaskHolds DEF TakeEventResult, TakeResult, ResultsAreTrue, IsTrue, Result
      <4>2. StatusAfter(slot.out) # "NONE"
        BY <4>1, StatusAfterHolds DEF Terminal
      <4>. QED  BY <3>1, <4>1, <4>2 DEF TakeEventResult, SetStatus, TypeOK
    <3>2. CASE ~TakeEventResult
      BY <1>4, <3>2
         DEF PollResult, NoResult, TakeStateFetch, TakeBootstrap, TakeHeartbeat, runtime
    <3>. QED  BY <3>1, <3>2
  <2>2. high' = high \/ high' = HighAfter(OtherRequest("STATE_FETCH"))
    BY <1>4 DEF PollResult, NoResult, TakeStateFetch, TakeBootstrap, TakeHeartbeat,
                TakeEventResult, StartResync, worker
  <2>3. low' = low
    BY <1>4 DEF PollResult, NoResult, TakeStateFetch, TakeBootstrap, TakeHeartbeat,
                TakeEventResult, TakeResult, worker
  <2>. QED  BY <1>2, <2>1, <2>2, <2>3 DEF OtherKinds
<1>5. CASE PollEnds \/ PollEndsFallback
  <2>1. PICK ids \in {replayIds, ReplayList} : EndOfPoll(ids)
    BY <1>5 DEF PollEnds, PollEndsFallback
  <2>2. ids \in Seq(Event)
    BY <2>1, ReplayListType DEF TypeOK
  <2>3. high' = high /\ journal' = journal
    BY <2>1 DEF EndOfPoll
  <2>4. CASE low' = low
    BY <1>2, <2>3, <2>4
  <2>5. CASE low' # low
    <3>1. /\ ids # <<>> /\ journal[Head(ids)] # "NONE"
          /\ low' = LowAfter(EventRequest("OFFLINE_REPLAY", Head(ids)))
      BY <2>1, <2>5 DEF EndOfPoll, CheckOfflineReplay
    <3>2. Head(ids) \in Event
      BY <2>2, <3>1
    <3>3. Ids(low') \subseteq Ids(low) \cup {Head(ids)}
      BY <3>1, <3>2, QueuesAfter, RequestFields DEF EventKinds
    <3>. QED  BY <1>0, <2>3, <3>1, <3>2, <3>3, JournaledKept
  <2>. QED  BY <2>4, <2>5
<1>6. CASE LoopTail
  BY <1>2, <1>6 DEF LoopTail, NothingMore, Reconnected, AskBootstrap, TakeStash, Heartbeat,
                    TailDone, OtherKinds, runtime
<1>. QED  BY <1>1, <1>3, <1>4, <1>5, <1>6 DEF Loop, Input

-----------------------------------------------------------------------------
(* Results are true and what is settled is settled as decided: an answer     *)
(* that was given stays, ...                                                 *)
AnswersStay == \A e \in Event : answers[e] # None => answers'[e] = answers[e]

(* The server never takes back an answer.                                    *)
LEMMA AnswersStayAlways ==
  ASSUME RuntimeInv, [Next]_vars
  PROVE  AnswersStay
<1> USE DEF RuntimeInv
<1>1. CASE ExecuteFails \/ ExecuteEvent
  <2>1. CASE answers' = answers
    BY <2>1 DEF AnswersStay
  <2>2. CASE req.kind \in EventKinds /\ \E a \in AnswersTo(req.id) : ServeEvent(req.id, a)
    <3>1. req.id \in Event
      BY <1>1, <2>2, TaskHolds, RequestFields DEF ExecuteFails, ExecuteEvent
    <3>. QED  BY <2>2, <3>1, AnswersHold DEF AnswersStay
  <2>. QED  BY <1>1, <2>1, <2>2 DEF ExecuteFails, ExecuteEvent, backend
<1>2. CASE ~(ExecuteFails \/ ExecuteEvent)
  <2>1. answers' = answers
    BY <1>2 DEF Next, Loop, Input, SendBusinessEvent, NotDurable, ManualResync, NoInput, PollResult,
         NoResult, TakeStateFetch, TakeBootstrap, TakeHeartbeat, TakeEventResult, TakeResult,
         PollEnds, PollEndsFallback, EndOfPoll, LoopTail, NothingMore, Reconnected, AskBootstrap,
         TakeStash, Heartbeat, TailDone, Task, ExecuteOther, ServerMoves, PowerLoss, backend, vars
  <2>. QED  BY <2>1 DEF AnswersStay
<1>. QED  BY <1>1, <1>2

(* ... so a result that is true stays true, ...                              *)
LEMMA TruthStays ==
  ASSUME AnswersStay, NEW r, IsTrue(r)
  PROVE  r.kind \in EventKinds =>
           /\ r.id \in Event /\ r.out # "OK"
           /\ r.out \in Decisions => answers'[r.id] # None /\ answers'[r.id].kind = r.out
BY DEF AnswersStay, IsTrue

(* ... the result of a request is what the server answered to it, ...        *)
LEMMA ExecutedIsTrue ==
  ASSUME RuntimeInv, ExecuteFails \/ ExecuteEvent \/ ExecuteOther
  PROVE  IsTrue(req)'
<1> USE DEF RuntimeInv
<1>1. task = "executing" /\ req \in Request
  BY TaskHolds DEF ExecuteFails, ExecuteEvent, ExecuteOther
<1>2. CASE ExecuteFails
  <2>1. req'.kind = req.kind /\ req'.id = req.id /\ req'.out \notin Decisions \cup {"OK"}
    BY <1>2 DEF ExecuteFails, Executed, ResultOf, Decisions
  <2>. QED  BY <1>1, <2>1, RequestFields DEF IsTrue
<1>3. CASE ExecuteEvent
  <2>1. req.id \in Event
    BY <1>1, <1>3, RequestFields DEF ExecuteEvent
  <2>2. PICK a \in AnswersTo(req.id) : ServeEvent(req.id, a) /\ req' = ResultOf(req, a.kind, a.snap)
    BY <1>3 DEF ExecuteEvent, Executed
  <2>3. a \in Answer /\ a # None /\ answers'[req.id] = a
    BY <2>1, <2>2, AnswersHold
  <2>4. req'.id = req.id /\ req'.out = a.kind /\ a.kind # "OK"
    BY <2>2, <2>3 DEF ResultOf, Answer
  <2>. QED  BY <2>1, <2>3, <2>4 DEF IsTrue
<1>4. CASE ExecuteOther
  <2>1. req'.kind \in OtherKinds
    BY <1>4 DEF ExecuteOther, Executed, ResultOf
  <2>. QED  BY <2>1 DEF IsTrue, EventKinds, OtherKinds
<1>. QED  BY <1>2, <1>3, <1>4

(* ... and it goes to the slot as it is.                                     *)
LEMMA ResultsKept ==
  ASSUME RuntimeInv, [Next]_vars
  PROVE  ResultsAreTrue'
<1> USE DEF RuntimeInv
<1>1. AnswersStay
  BY AnswersStayAlways
<1>2. CASE ExecuteFails \/ ExecuteEvent \/ ExecuteOther
  <2>1. slot' = slot
    BY <1>2 DEF ExecuteFails, ExecuteEvent, ExecuteOther, Executed
  <2>. QED  BY <1>1, <1>2, <2>1, ExecutedIsTrue, TruthStays DEF ResultsAreTrue, IsTrue
<1>3. CASE TaskStep
  <2>1. CASE Deposit
    <3>1. task = "done" /\ task' # "done" /\ slot' = req
      BY <2>1 DEF Deposit
    <3>. QED  BY <1>1, <3>1, TruthStays DEF ResultsAreTrue, IsTrue
  <2>2. CASE ~Deposit
    <3>1. slot' = slot /\ task' # "done"
      BY <1>3, <2>2 DEF TaskStep, PickHigh, PickLow, SeeHighEmpty, WaitTimesOut, SetExecuting
    <3>. QED  BY <1>1, <3>1, TruthStays DEF ResultsAreTrue, IsTrue
  <2>. QED  BY <2>1, <2>2
<1>4. CASE ~Task
  <2>1. /\ slot' = slot \/ slot' = None
        /\ (task' = task /\ req' = req) \/ task' # "done"
    BY <1>4 DEF Next, Loop, Input, SendBusinessEvent, NotDurable, ManualResync, NoInput, PollResult,
         NoResult, TakeStateFetch, TakeBootstrap, TakeHeartbeat, TakeEventResult, TakeResult,
         PollEnds, PollEndsFallback, EndOfPoll, LoopTail, NothingMore, Reconnected, AskBootstrap,
         TakeStash, Heartbeat, TailDone, ServerMoves, PowerLoss, worker, vars
  <2>. QED  BY <1>1, <2>1, TruthStays DEF ResultsAreTrue, IsTrue
<1>. QED  BY <1>2, <1>3, <1>4 DEF Task

(* A status changes to what the server decided, or to one that says nothing  *)
(* of its decision.                                                          *)
LEMMA SettledKept ==
  ASSUME RuntimeInv, [Next]_vars
  PROVE  SettledAsDecided'
<1> USE DEF RuntimeInv
<1>1. AnswersStay
  BY AnswersStayAlways
<1>2. CASE SendBusinessEvent
  <2>1. \A e \in Event : journal'[e] = journal[e] \/ journal'[e] \in Unsynced
    BY <1>2 DEF SendBusinessEvent, Unsynced, TypeOK
  <2>. QED  BY <1>1, <2>1 DEF AnswersStay, SettledAsDecided, Unsynced
<1>3. CASE TakeEventResult
  <2>1. slot \in Result /\ slot.id \in Event /\ slot.out \in Outcome \ {"OK"} /\ IsTrue(slot)
        /\ slot.kind \in EventKinds
    BY <1>3, TaskHolds DEF TakeEventResult, TakeResult, ResultsAreTrue, IsTrue, Result
  <2>2. \A e \in Event : \/ journal'[e] = journal[e]
                         \/ e = slot.id /\ journal'[e] = StatusAfter(slot.out)
    BY <1>3, <2>1 DEF TakeEventResult, SetStatus, TypeOK
  <2>3. /\ StatusAfter(slot.out) = "ACKED" => slot.out = "SUCCESS"
        /\ StatusAfter(slot.out) = "REJECTED" => slot.out = "BUSINESS_REJECTED"
        /\ StatusAfter(slot.out) = "CONFLICT" => slot.out = "CONFLICT_RESYNC"
    BY <2>1, StatusAfterHolds
  <2>4. slot.out \in Decisions => answers[slot.id] # None /\ answers[slot.id].kind = slot.out
    BY <2>1 DEF IsTrue
  <2>. QED  BY <1>1, <2>1, <2>2, <2>3, <2>4 DEF AnswersStay, SettledAsDecided, Decisions
<1>4. CASE ~(SendBusinessEvent \/ TakeEventResult)
  <2>1. journal' = journal
    BY <1>4 DEF Next, Loop, Input, NotDurable, ManualResync, NoInput, PollResult,
         NoResult, TakeStateFetch, TakeBootstrap, TakeHeartbeat,
         PollEnds, PollEndsFallback, EndOfPoll, LoopTail, NothingMore, Reconnected, AskBootstrap,
         TakeStash, Heartbeat, TailDone, Task, ExecuteFails, ExecuteEvent, ExecuteOther,
         ServerMoves, PowerLoss, runtime, vars
  <2>. QED  BY <1>1, <2>1 DEF AnswersStay, SettledAsDecided
<1>. QED  BY <1>2, <1>3, <1>4

-----------------------------------------------------------------------------
(* Every snapshot is of a version the server has reached: its version never  *)
(* goes back, ...                                                            *)
LEMMA VersionGrows ==
  ASSUME RuntimeInv, [Next]_vars
  PROVE  server'.ver \in Nat \ {0} /\ server'.ver >= server.ver
<1> USE DEF RuntimeInv
<1>0. server.ver \in Nat \ {0}
  BY DEF SnapshotsReached, TypeOK, Snapshot
<1>1. CASE server' = server
  BY <1>0, <1>1
<1>2. CASE ServerMoves
  <2>1. server'.ver = server.ver + 1
    BY <1>2 DEF ServerMoves
  <2>. QED  BY <1>0, <2>1
<1>3. CASE ExecuteFails \/ ExecuteEvent
  <2>1. CASE req.kind \in EventKinds /\ \E a \in AnswersTo(req.id) : ServeEvent(req.id, a)
    <3>1. req.id \in Event
      BY <1>3, <2>1, TaskHolds, RequestFields DEF ExecuteFails, ExecuteEvent
    <3>2. server' \in Snapshot /\ server'.ver >= server.ver
      BY <2>1, <3>1, AnswersHold
    <3>. QED  BY <1>0, <3>2 DEF Snapshot
  <2>. QED  BY <1>1, <1>3, <2>1 DEF ExecuteFails, ExecuteEvent, backend
<1>4. CASE ~(ServerMoves \/ ExecuteFails \/ ExecuteEvent)
  <2>1. server' = server
    BY <1>4 DEF Next, Loop, Input, SendBusinessEvent, NotDurable, ManualResync, NoInput, PollResult,
         NoResult, TakeStateFetch, TakeBootstrap, TakeHeartbeat, TakeEventResult, TakeResult,
         PollEnds, PollEndsFallback, EndOfPoll, LoopTail, NothingMore, Reconnected, AskBootstrap,
         TakeStash, Heartbeat, TailDone, Task, ExecuteOther, PowerLoss, backend, vars
  <2>. QED  BY <1>1, <2>1
<1>. QED  BY <1>2, <1>3, <1>4

(* ... so what was reached stays reached, ...                                *)
LEMMA ReachedStays ==
  ASSUME RuntimeInv, [Next]_vars, NEW snap, Reached(snap)
  PROVE  snap = NoSnapshot \/ snap.ver \in 1..server'.ver
<1>1. server.ver \in Nat /\ server'.ver \in Nat /\ server'.ver >= server.ver
  BY VersionGrows DEF RuntimeInv, TypeOK, Snapshot
<1>. QED  BY <1>1 DEF Reached

(* ... what a request brings is reached, ...                                 *)
LEMMA ExecutedIsReached ==
  ASSUME RuntimeInv, ExecuteFails \/ ExecuteEvent \/ ExecuteOther
  PROVE  Reached(req.snap)' /\ \A e \in Event : answers'[e] # None => Reached(answers[e].snap)'
<1> USE DEF RuntimeInv
<1>0. [Next]_vars
  BY DEF Next, Task
<1>1. ASSUME req.kind \in EventKinds, NEW a \in AnswersTo(req.id), ServeEvent(req.id, a)
      PROVE  \A e \in Event : answers'[e] # None => Reached(answers[e].snap)'
  <2>1. req.id \in Event
    BY <1>1, TaskHolds, RequestFields DEF ExecuteFails, ExecuteEvent, ExecuteOther
  <2>2. /\ answers'[req.id] = a /\ (a.snap = NoSnapshot \/ a.snap.ver \in 1..server'.ver)
        /\ \A e \in Event \ {req.id} : answers'[e] = answers[e]
    BY <1>1, <2>1, AnswersHold
  <2>3. ASSUME NEW e \in Event, answers'[e] # None PROVE Reached(answers[e].snap)'
    <3>1. CASE e = req.id
      BY <2>2, <3>1 DEF Reached
    <3>2. CASE e # req.id
      BY <1>0, <2>2, <2>3, <3>2, ReachedStays DEF SnapshotsReached, Reached
    <3>. QED  BY <3>1, <3>2
  <2>. QED  BY <2>3
<1>2. ASSUME UNCHANGED backend
      PROVE  \A e \in Event : answers'[e] # None => Reached(answers[e].snap)'
  BY <1>2 DEF backend, SnapshotsReached, Reached
<1>3. CASE ExecuteFails
  <2>1. req'.snap = NoSnapshot
    BY <1>3 DEF ExecuteFails, Executed, ResultOf
  <2>. QED  BY <1>1, <1>2, <1>3, <2>1 DEF ExecuteFails, Reached
<1>4. CASE ExecuteEvent
  <2>1. PICK a \in AnswersTo(req.id) : ServeEvent(req.id, a) /\ req' = ResultOf(req, a.kind, a.snap)
    BY <1>4 DEF ExecuteEvent, Executed
  <2>2. req.kind \in EventKinds /\ req.id \in Event
    BY <1>4, TaskHolds, RequestFields DEF ExecuteEvent
  <2>3. req'.snap = a.snap /\ (a.snap = NoSnapshot \/ a.snap.ver \in 1..server'.ver)
    BY <2>1, <2>2, AnswersHold DEF ResultOf
  <2>. QED  BY <1>1, <2>1, <2>2, <2>3 DEF Reached
<1>5. CASE ExecuteOther
  <2>1. req'.snap = server /\ UNCHANGED backend
    BY <1>5 DEF ExecuteOther, Executed, ResultOf
  <2>2. server.ver \in 1..server.ver /\ server' = server
    BY <2>1 DEF SnapshotsReached, TypeOK, Snapshot, backend
  <2>. QED  BY <1>2, <2>1, <2>2 DEF Reached
<1>. QED  BY <1>3, <1>4, <1>5

(* ... and the loop holds only what the answers brought.                     *)
LEMMA SnapshotsKept ==
  ASSUME RuntimeInv, [Next]_vars
  PROVE  SnapshotsReached'
<1> USE DEF RuntimeInv
<1>0. server'.ver > 0
  BY VersionGrows
<1>1. CASE ExecuteFails \/ ExecuteEvent \/ ExecuteOther
  <2>1. UNCHANGED <<slot, stash, projection>>
    BY <1>1 DEF ExecuteFails, ExecuteEvent, ExecuteOther, Executed, runtime
  <2>. QED  BY <1>0, <1>1, <2>1, ExecutedIsReached, ReachedStays DEF SnapshotsReached, Reached
<1>2. CASE ~(ExecuteFails \/ ExecuteEvent \/ ExecuteOther)
  <2>1. answers' = answers
    BY <1>2 DEF Next, Loop, Input, SendBusinessEvent, NotDurable, ManualResync, NoInput, PollResult,
         NoResult, TakeStateFetch, TakeBootstrap, TakeHeartbeat, TakeEventResult, TakeResult,
         PollEnds, PollEndsFallback, EndOfPoll, LoopTail, NothingMore, Reconnected, AskBootstrap,
         TakeStash, Heartbeat, TailDone, Task, ServerMoves, PowerLoss, backend, vars
  <2>2. /\ task' = "done" => task = "done" /\ req' = req
        /\ slot' # None => slot' = slot \/ (task = "done" /\ slot' = req)
    BY <1>2 DEF Next, Loop, Input, SendBusinessEvent, NotDurable, ManualResync, NoInput, PollResult,
         NoResult, TakeStateFetch, TakeBootstrap, TakeHeartbeat, TakeEventResult, TakeResult,
         PollEnds, PollEndsFallback, EndOfPoll, LoopTail, NothingMore, Reconnected, AskBootstrap,
         TakeStash, Heartbeat, TailDone, Task, TaskStep, PickHigh, PickLow, SeeHighEmpty, PickLow,
         WaitTimesOut, SetExecuting, Deposit, ServerMoves, PowerLoss, worker, vars
  <2>3. stash' # None => stash' = stash \/ (slot # None /\ stash' = slot)
    BY <1>2 DEF Next, Loop, Input, SendBusinessEvent, NotDurable, ManualResync, NoInput, PollResult,
         NoResult, TakeStateFetch, TakeBootstrap, TakeHeartbeat, TakeEventResult, TakeResult,
         PollEnds, PollEndsFallback, EndOfPoll, LoopTail, NothingMore, Reconnected, AskBootstrap,
         TakeStash, Heartbeat, TailDone, Task, ServerMoves, PowerLoss, runtime, vars
  <2>4. \/ projection' = projection \/ projection' = NoSnapshot
        \/ slot # None /\ projection' = slot.snap
        \/ stash # None /\ projection' = stash.snap
    BY <1>2 DEF Next, Loop, Input, SendBusinessEvent, NotDurable, ManualResync, NoInput, PollResult,
         NoResult, TakeStateFetch, TakeBootstrap, TakeHeartbeat, TakeEventResult, TakeResult,
         PollEnds, PollEndsFallback, EndOfPoll, LoopTail, NothingMore, Reconnected, AskBootstrap,
         TakeStash, Heartbeat, TailDone, Task, ServerMoves, PowerLoss, runtime, vars, Applied
  <2>5. Reached(projection)' /\ (task' = "done" => Reached(req.snap)')
    BY <2>2, <2>4, ReachedStays DEF SnapshotsReached, Reached
  <2>6. (slot' # None => Reached(slot.snap)') /\ (stash' # None => Reached(stash.snap)')
    BY <2>2, <2>3, ReachedStays DEF SnapshotsReached, Reached
  <2>7. \A e \in Event : answers'[e] # None => Reached(answers[e].snap)'
    BY <2>1, ReachedStays DEF SnapshotsReached, Reached
  <2>. QED  BY <1>0, <2>5, <2>6, <2>7 DEF SnapshotsReached
<1>. QED  BY <1>1, <1>2

-----------------------------------------------------------------------------
(* At the start nothing is sent, answered or shown.                          *)
LEMMA RuntimeInvInit == Init => RuntimeInv
<1> SUFFICES ASSUME Init PROVE RuntimeInv
  OBVIOUS
<1> USE DEF Init, WorkerInit
<1>1. WorkerTypeOK(Request, Result)
  BY WorkerAssumption DEF WorkerTypeOK, TaskPc
<1>2. TypeOK
  <2>1. projection \in Snapshot /\ server \in Snapshot
    BY DEF Snapshot, NoSnapshot
  <2>2. left \in [Happening -> Nat]
    BY RuntimeAssumption
  <2>3. nextId \in 1..MaxEvents + 1
    BY RuntimeAssumption
  <2>4. journal \in [Event -> Unsynced \cup Terminal \cup {"NONE"}] /\ madeAt \in [Event -> Nat]
        /\ answers \in [Event -> Answer \cup {None}]
    OBVIOUS
  <2>5. loop \in LoopPc /\ replayIds \in Seq(Event) /\ stash \in Result \cup {None}
    BY DEF LoopPc
  <2>6. replaying \in BOOLEAN /\ resyncing \in BOOLEAN
    <3>1. replaying = FALSE /\ resyncing = FALSE
      OBVIOUS
    <3>. QED  BY <3>1, Zenon
  <2>. QED  BY <1>1, <2>1, <2>2, <2>3, <2>4, <2>5, <2>6 DEF TypeOK
<1>3. JournaledBeforeSent
  BY DEF JournaledBeforeSent, OnItsWay
<1>4. ResultsAreTrue /\ SettledAsDecided /\ ReplayIsOfTheFirst
  BY DEF ResultsAreTrue, SettledAsDecided, ReplayIsOfTheFirst
<1>5. SnapshotsReached
  BY DEF SnapshotsReached, Reached
<1>. QED  BY <1>2, <1>3, <1>4, <1>5 DEF RuntimeInv

(* Every step keeps the invariant.                                           *)
LEMMA RuntimeInvStep == RuntimeInv /\ [Next]_vars => RuntimeInv'
<1> SUFFICES ASSUME RuntimeInv, [Next]_vars PROVE RuntimeInv'
  OBVIOUS
<1>1. TypeOK' /\ ReplayIsOfTheFirst'
  BY TypeKept
<1>2. JournaledBeforeSent'
  <2>1. CASE Loop
    BY <2>1, JournaledKeptByLoop
  <2>2. CASE Task
    BY <2>2, JournaledKeptByTask
  <2>3. CASE ServerMoves
    BY <2>3 DEF ServerMoves, worker, runtime, RuntimeInv, JournaledBeforeSent, OnItsWay
  <2>4. CASE PowerLoss
    BY <2>4 DEF PowerLoss, backend, RuntimeInv, JournaledBeforeSent, OnItsWay
  <2>5. CASE UNCHANGED vars
    BY <2>5 DEF vars, worker, runtime, backend, RuntimeInv, JournaledBeforeSent, OnItsWay
  <2>. QED  BY <2>1, <2>2, <2>3, <2>4, <2>5 DEF Next
<1>3. ResultsAreTrue' /\ SettledAsDecided'
  BY ResultsKept, SettledKept
<1>4. SnapshotsReached'
  BY SnapshotsKept
<1>. QED  BY <1>1, <1>2, <1>3, <1>4 DEF RuntimeInv

(* The invariant holds in every state.                                       *)
LEMMA RuntimeInvAlways == Spec => []RuntimeInv
BY RuntimeInvInit, RuntimeInvStep, PTL DEF Spec

-----------------------------------------------------------------------------
(* The queues keep their depths, the task has a request exactly when it      *)
(* works on one, and a replay is always of events: check_offline_replay()    *)
(* never takes the first of an empty list.                                   *)
THEOREM RuntimeTypeCorrect == Spec => []TypeOK
<1>1. RuntimeInv => TypeOK
  BY DEF RuntimeInv
<1>. QED  BY <1>1, RuntimeInvAlways, PTL

(* R1: send_business_event() has journaled an event before the server can    *)
(* have heard of it, whatever is lost and whenever the power goes.           *)
THEOREM SentIsJournaled == Spec => []JournaledBeforeSent
<1>1. RuntimeInv => JournaledBeforeSent
  BY DEF RuntimeInv
<1>. QED  BY <1>1, RuntimeInvAlways, PTL

(* apply_event_response() writes ACKED, REJECTED and CONFLICT only over an   *)
(* event the server has decided so, though it takes any event's result for   *)
(* that of the replay that is out.                                           *)
THEOREM SettledRight == Spec => []SettledAsDecided
<1>1. RuntimeInv => SettledAsDecided
  BY DEF RuntimeInv
<1>. QED  BY <1>1, RuntimeInvAlways, PTL

(* A decision that is recorded is never replaced by another one: an event's  *)
(* record may go back to PENDING when a late second request fails, but the   *)
(* server gives an event_id the answer it gave before, and only that.        *)
THEOREM DecisionsAreFinal == Spec => DecisionIsFinal
<1> DEFINE DecidedAs(e, d) ==
             /\ answers[e] # None
             /\ \/ d = "ACKED"    /\ answers[e].kind = "SUCCESS"
                \/ d = "REJECTED" /\ answers[e].kind = "BUSINESS_REJECTED"
                \/ d = "CONFLICT" /\ answers[e].kind = "CONFLICT_RESYNC"
<1>1. ASSUME NEW e \in Event, NEW d \in Decided
      PROVE  Spec => [](journal[e] = d => [](journal[e] \in Decided => journal[e] = d))
  <2>1. RuntimeInv /\ journal[e] = d => DecidedAs(e, d)
    BY DEF RuntimeInv, SettledAsDecided, Decided
  <2>2. RuntimeInv /\ [Next]_vars /\ DecidedAs(e, d) => DecidedAs(e, d)'
    BY AnswersStayAlways DEF AnswersStay
  <2>3. RuntimeInv /\ DecidedAs(e, d) => (journal[e] \in Decided => journal[e] = d)
    BY DEF RuntimeInv, SettledAsDecided, Decided
  <2> HIDE DEF DecidedAs
  <2>. QED  BY <2>1, <2>2, <2>3, RuntimeInvAlways, PTL DEF Spec
<1>. QED  BY <1>1 DEF DecisionIsFinal

(* The requests of a queue, and what an enqueueing or a dequeueing does to   *)
(* them.                                                                     *)
InQueue(s) == {s[i] : i \in DOMAIN s}

(* What a queue holds after one more request, whether there is room or not.  *)
LEMMA QueueKeeps ==
  ASSUME NEW S, NEW s \in Seq(S)
  PROVE  /\ \A r \in S : InQueue(s) \cup {r} \subseteq InQueue(Append(s, r))
         /\ s # <<>> => InQueue(s) \subseteq {Head(s)} \cup InQueue(Tail(s))
<1>0. DOMAIN s = 1..Len(s) /\ Len(s) \in Nat
  OBVIOUS
<1>1. ASSUME NEW r \in S PROVE InQueue(s) \cup {r} \subseteq InQueue(Append(s, r))
  <2>1. /\ DOMAIN Append(s, r) = 1..Len(s) + 1 /\ Append(s, r)[Len(s) + 1] = r
        /\ \A i \in 1..Len(s) : Append(s, r)[i] = s[i]
    OBVIOUS
  <2>2. 1..Len(s) \subseteq 1..Len(s) + 1 /\ Len(s) + 1 \in 1..Len(s) + 1
    BY <1>0
  <2>. QED  BY <1>0, <2>1, <2>2 DEF InQueue
<1>2. ASSUME s # <<>> PROVE InQueue(s) \subseteq {Head(s)} \cup InQueue(Tail(s))
  <2>1. /\ Head(s) = s[1] /\ DOMAIN Tail(s) = 1..Len(s) - 1
        /\ \A i \in 1..Len(s) - 1 : Tail(s)[i] = s[i + 1]
    BY <1>2
  <2>2. ASSUME NEW i \in 1..Len(s), i # 1 PROVE i - 1 \in DOMAIN Tail(s) /\ Tail(s)[i - 1] = s[i]
    BY <1>0, <2>1, <2>2
  <2>3. ASSUME NEW i \in 1..Len(s) PROVE s[i] \in {Head(s)} \cup InQueue(Tail(s))
    BY <2>1, <2>2 DEF InQueue
  <2>. QED  BY <1>0, <2>3 DEF InQueue
<1>. QED  BY <1>1, <1>2

(* What is under way, place by place.                                        *)
LEMMA UnderWayIs ==
  /\ UnderWay = InQueue(high) \cup InQueue(low) \cup ({req, slot} \ {None})
  /\ UnderWay' = InQueue(high') \cup InQueue(low') \cup ({req', slot'} \ {None})
BY DEF UnderWay, InQueue

(* A call adds to a queue, or finds it full and leaves it as it is.          *)
LEMMA CallsKeepQueues ==
  ASSUME TypeOK, NEW r \in Request
  PROVE  /\ InQueue(high) \subseteq InQueue(HighAfter(r))
         /\ InQueue(low) \subseteq InQueue(LowAfter(r))
         /\ LowHasRoom => r \in InQueue(LowAfter(r))
BY QueueKeeps DEF TypeOK, WorkerTypeOK, HighAfter, LowAfter

(* A replay that is out goes from queue to task to slot, ...                 *)
ReplayOut == \E r \in UnderWay : r.kind = "OFFLINE_REPLAY"

(* The task carries a request from one place to the next; a result is        *)
(* overwritten only in a slot that the loop has not polled.                  *)
LEMMA TaskKeepsReplay ==
  ASSUME RuntimeInv, Task, PromptLoop, ReplayOut
  PROVE  ReplayOut'
<1> USE DEF RuntimeInv
<1>0. high \in Seq(Request) /\ low \in Seq(Request)
  BY DEF TypeOK, WorkerTypeOK
<1>1. CASE TaskStep /\ UNCHANGED <<loop, runtime, backend, left>>
  <2>1. UnderWay \subseteq UnderWay'
    <3>1. CASE PickHigh
      <4>1. req = None /\ req' = Head(high) /\ Head(high) \in Request /\ req' # None
        BY <1>0, <3>1, TaskHolds, RequestFields DEF PickHigh
      <4>2. InQueue(high) \subseteq {req'} \cup InQueue(high') /\ low' = low /\ slot' = slot
        BY <1>0, <3>1, <4>1, QueueKeeps DEF PickHigh
      <4>. QED  BY <4>1, <4>2, UnderWayIs
    <3>2. CASE PickLow
      <4>1. req = None /\ req' = Head(low) /\ Head(low) \in Request /\ req' # None
        BY <1>0, <3>2, TaskHolds, RequestFields DEF PickLow
      <4>2. InQueue(low) \subseteq {req'} \cup InQueue(low') /\ high' = high /\ slot' = slot
        BY <1>0, <3>2, <4>1, QueueKeeps DEF PickLow
      <4>. QED  BY <4>1, <4>2, UnderWayIs
    <3>3. CASE SeeHighEmpty \/ WaitTimesOut \/ SetExecuting
      BY <3>3, UnderWayIs DEF SeeHighEmpty, WaitTimesOut, SetExecuting
    <3>4. CASE Deposit
      BY <3>4, TaskHolds, UnderWayIs DEF Deposit
    <3>. QED  BY <1>1, <3>1, <3>2, <3>3, <3>4 DEF TaskStep
  <2>. QED  BY <2>1 DEF ReplayOut
<1>2. CASE ExecuteFails \/ ExecuteEvent \/ ExecuteOther
  <2>1. /\ high' = high /\ low' = low /\ slot' = slot
        /\ req \in Request /\ req' \in Result /\ req' # None /\ req'.kind = req.kind
    <3>1. /\ task = "executing" /\ task' = "done" /\ req'.kind = req.kind
          /\ high' = high /\ low' = low /\ slot' = slot
      BY <1>2 DEF ExecuteFails, ExecuteEvent, ExecuteOther, Executed, ResultOf
    <3>2. TypeOK'
      BY <1>2, TypeKeptByTask DEF Task
    <3>3. req' \in Result
      BY <3>1, <3>2 DEF TypeOK, WorkerTypeOK
    <3>. QED  BY <3>1, <3>3, TaskHolds, NoneAssumption
  <2>. QED  BY <2>1, UnderWayIs DEF ReplayOut
<1>. QED  BY <1>1, <1>2 DEF Task

(* ... and the loop takes nothing else for it.                               *)
LEMMA LoopKeepsReplay ==
  ASSUME RuntimeInv, Loop, replaying', replaying => ReplayOut
  PROVE  ReplayOut'
<1> USE DEF RuntimeInv
<1>0. req' = req
  BY DEF Loop, Input, SendBusinessEvent, NotDurable, ManualResync, NoInput, PollResult, NoResult,
         TakeStateFetch, TakeBootstrap, TakeHeartbeat, TakeEventResult, TakeResult, PollEnds,
         PollEndsFallback, EndOfPoll, LoopTail, NothingMore, Reconnected, AskBootstrap, TakeStash,
         Heartbeat, TailDone, worker
<1>1. ASSUME replaying' = replaying,
             InQueue(high) \subseteq InQueue(high'), InQueue(low) \subseteq InQueue(low'),
             slot' = slot \/ slot = None \/ slot.kind \in OtherKinds
      PROVE  ReplayOut'
  <2>1. PICK r \in UnderWay : r.kind = "OFFLINE_REPLAY"
    BY <1>1 DEF ReplayOut
  <2>2. r \in UnderWay'
    BY <1>0, <1>1, <2>1, UnderWayIs DEF OtherKinds
  <2>. QED  BY <2>1, <2>2 DEF ReplayOut
<1>2. CASE Input \/ LoopTail
  <2>1. replaying' = replaying /\ slot' = slot
    BY <1>2 DEF Input, SendBusinessEvent, NotDurable, ManualResync, NoInput, LoopTail, NothingMore,
                Reconnected, AskBootstrap, TakeStash, Heartbeat, TailDone, worker, runtime
  <2>2. high' = high \/ \E r \in Request : high' = HighAfter(r)
    <3>1. nextId \in Event => EventRequest("BUSINESS_EVENT", nextId) \in Request
      BY RequestFields DEF EventKinds
    <3>2. \A k \in OtherKinds : OtherRequest(k) \in Request
      BY RequestFields
    <3>. QED
      BY <1>2, <3>1, <3>2
         DEF Input, SendBusinessEvent, NotDurable, ManualResync, StartResync, NoInput, LoopTail,
             NothingMore, Reconnected, AskBootstrap, TakeStash, Heartbeat, worker, OtherKinds
  <2>3. low' = low \/ \E r \in Request : low' = LowAfter(r)
    <3>1. OtherRequest("HEARTBEAT") \in Request
      BY RequestFields DEF OtherKinds
    <3>. QED
      BY <1>2, <3>1 DEF Input, SendBusinessEvent, NotDurable, ManualResync, NoInput, LoopTail,
             NothingMore, Reconnected, AskBootstrap, TakeStash, Heartbeat, TailDone, worker
  <2>4. InQueue(high) \subseteq InQueue(high') /\ InQueue(low) \subseteq InQueue(low')
    BY <2>2, <2>3, CallsKeepQueues
  <2>. QED  BY <1>1, <2>1, <2>4
<1>3. CASE PollResult
  <2>1. ~TakeEventResult
    BY DEF TakeEventResult
  <2>2. /\ replaying' = replaying /\ high' = high /\ low' = low
        /\ slot' = slot \/ slot.kind \in OtherKinds
    BY <1>3, <2>1 DEF PollResult, NoResult, TakeStateFetch, TakeBootstrap, TakeHeartbeat,
                      TakeResult, worker, runtime, OtherKinds
  <2>. QED  BY <1>1, <2>2
<1>4. CASE PollEnds \/ PollEndsFallback
  <2>1. PICK ids \in {replayIds, ReplayList} : EndOfPoll(ids)
    BY <1>4 DEF PollEnds, PollEndsFallback
  <2>2. ids \in Seq(Event)
    BY <2>1, ReplayListType DEF TypeOK
  <2> DEFINE r == EventRequest("OFFLINE_REPLAY", Head(ids))
  <2>3. ids # <<>> => r \in Request /\ r.kind = "OFFLINE_REPLAY"
    BY <2>2, RequestFields DEF EventKinds, EventRequest
  <2>4. high' = high /\ slot' = slot /\ (low' = low \/ (ids # <<>> /\ low' = LowAfter(r)))
    BY <2>1 DEF EndOfPoll, CheckOfflineReplay
  <2>5. InQueue(low) \subseteq InQueue(low')
    BY <2>3, <2>4, CallsKeepQueues
  <2>6. CASE replaying
    BY <1>1, <2>1, <2>4, <2>5, <2>6 DEF EndOfPoll, CheckOfflineReplay
  <2>7. CASE ~replaying
    <3>1. ids # <<>> /\ LowHasRoom /\ low' = LowAfter(r)
      BY <2>1, <2>7 DEF EndOfPoll, CheckOfflineReplay
    <3>2. r \in InQueue(low')
      BY <2>3, <3>1, CallsKeepQueues
    <3>. QED  BY <2>3, <3>1, <3>2, UnderWayIs DEF ReplayOut
  <2>. QED  BY <2>6, <2>7 DEF TypeOK
<1>. QED  BY <1>2, <1>3, <1>4 DEF Loop

(* check_offline_replay() never waits for a replay that is nowhere: when the *)
(* slot loses no result, replaying_ is up only while the replay is queued,   *)
(* executed or in the slot.                                                  *)
THEOREM ReplayIsSomewhere == Spec => []ReplayIsUnderWay
<1>1. Init => ReplayIsUnderWay
  BY DEF Init, ReplayIsUnderWay
<1>2. RuntimeInv /\ ReplayIsUnderWay /\ [Next]_vars => ReplayIsUnderWay'
  <2> SUFFICES ASSUME RuntimeInv, ReplayIsUnderWay, [Next]_vars, PromptLoop, replaying'
               PROVE  ReplayOut'
    BY DEF ReplayIsUnderWay, ReplayOut
  <2>1. replaying => ReplayOut
    BY DEF ReplayIsUnderWay, ReplayOut
  <2>2. CASE Loop
    BY <2>1, <2>2, LoopKeepsReplay
  <2>3. CASE Task
    BY <2>1, <2>3, TaskKeepsReplay
       DEF Task, ExecuteFails, ExecuteEvent, ExecuteOther, runtime
  <2>4. CASE PowerLoss
    BY <2>4 DEF PowerLoss
  <2>5. CASE ServerMoves \/ UNCHANGED vars
    BY <2>1, <2>5 DEF ServerMoves, vars, worker, runtime, ReplayOut, UnderWay
  <2>. QED  BY <2>2, <2>3, <2>4, <2>5 DEF Next
<1>. QED  BY <1>1, <1>2, RuntimeInvAlways, PTL DEF Spec

(* StateProjection::apply() never replaces a state by an older one, and what *)
(* it applies is a state the server has been in.                             *)
THEOREM NeverShowsOlder == Spec => ProjectionNeverRegresses
<1> DEFINE Regress ==
             \/ projection' = NoSnapshot /\ left'["powerLoss"] < left["powerLoss"]
             \/ projection'.ver > projection.ver /\ projection'.ver <= server.ver
             \/ projection' = projection
<1>1. ASSUME RuntimeInv, [Next]_vars PROVE [Regress]_vars
  <2> USE <1>1 DEF RuntimeInv
  <2>1. CASE PowerLoss
    <3>1. projection' = NoSnapshot /\ left'["powerLoss"] = left["powerLoss"] - 1
          /\ left["powerLoss"] \in Nat
      BY <2>1 DEF PowerLoss, Spend, TypeOK, Happening
    <3>. QED  BY <3>1
  <2>2. CASE TakeStateFetch \/ TakeEventResult \/ TakeStash
    <3>1. PICK snap \in Snapshot : Reached(snap) /\ projection' \in {projection, Applied(snap)}
      <4>1. CASE TakeStash
        <5>1. stash # None /\ stash.snap \in Snapshot /\ Reached(stash.snap)
          BY <4>1 DEF TakeStash, TypeOK, Result, SnapshotsReached
        <5>. QED  BY <4>1, <5>1 DEF TakeStash
      <4>2. CASE TakeStateFetch \/ TakeEventResult
        <5>1. slot # None /\ slot.snap \in Snapshot /\ Reached(slot.snap)
          BY <4>2, TaskHolds
             DEF TakeStateFetch, TakeEventResult, TakeResult, Result, SnapshotsReached
        <5>. QED  BY <4>2, <5>1 DEF TakeStateFetch, TakeEventResult
      <4>. QED  BY <2>2, <4>1, <4>2
    <3>2. CASE projection' = projection
      BY <3>2
    <3>3. CASE projection' # projection
      <4>1. /\ projection' = snap /\ snap # NoSnapshot
            /\ projection = NoSnapshot \/ snap.ver > projection.ver
        BY <3>1, <3>3, AppliedHolds
      <4>2. snap.ver \in 1..server.ver /\ server.ver \in Nat
        BY <3>1, <4>1 DEF Reached, TypeOK, Snapshot
      <4>3. projection = NoSnapshot => snap.ver > projection.ver
        BY <4>2 DEF NoSnapshot
      <4>. QED  BY <4>1, <4>2, <4>3
    <3>. QED  BY <3>2, <3>3
  <2>3. CASE ~(PowerLoss \/ TakeStateFetch \/ TakeEventResult \/ TakeStash)
    <3>1. projection' = projection
      BY <1>1, <2>3 DEF Next, Loop, Input, SendBusinessEvent, NotDurable, ManualResync, NoInput,
         PollResult, NoResult, TakeBootstrap, TakeHeartbeat, PollEnds, PollEndsFallback, EndOfPoll,
         LoopTail, NothingMore, Reconnected, AskBootstrap, Heartbeat, TailDone, Task, ExecuteFails,
         ExecuteEvent, ExecuteOther, ServerMoves, runtime, vars
    <3>. QED  BY <3>1
  <2>. QED  BY <2>1, <2>2, <2>3
<1>. QED  BY <1>1, RuntimeInvAlways, PTL DEF Spec, ProjectionNeverRegresses

-----------------------------------------------------------------------------
(* The journal, seen from the runtime.                                       *)

(* What of it the runtime has had accepted, and DurableLog, which            *)
(* EventJournal implements, over that.                                       *)
AsLog == [e \in {d \in Event : journal[d] # "NONE"} |-> journal[e]]
Log == INSTANCE DurableLog WITH log <- AsLog

(* An event is accepted as DurableLog accepts it, and is IN_FLIGHT at once   *)
(* when it could be sent: send_business_event() has appended both records    *)
(* before it returns.                                                        *)
AcceptedAs(e, s) ==
  /\ e \notin Log!Held
  /\ AsLog' = [x \in Log!Held \cup {e} |-> IF x = e THEN s ELSE AsLog[x]]
LogStep ==
  \/ \E e \in Event, s \in Unsynced : AcceptedAs(e, s)
  \/ \E e \in Event, s \in Unsynced \cup Terminal : Log!Update(e, s)

(* A number that is still to be handed out has no record.                    *)
NumbersAreFresh == \A e \in Event : e >= nextId => journal[e] = "NONE"

(* The journal holds no number that is still to be given.                    *)
LEMMA NumbersStayFresh ==
  RuntimeInv /\ NumbersAreFresh /\ [Next]_vars => NumbersAreFresh'
<1> SUFFICES ASSUME RuntimeInv, NumbersAreFresh, [Next]_vars PROVE NumbersAreFresh'
  OBVIOUS
<1> USE DEF RuntimeInv, TypeOK, NumbersAreFresh, Event
<1>1. CASE SendBusinessEvent
  BY <1>1 DEF SendBusinessEvent
<1>2. CASE NotDurable
  BY <1>2 DEF NotDurable
<1>3. CASE TakeEventResult
  BY <1>3 DEF TakeEventResult, TakeResult, SetStatus
<1>4. CASE ~(SendBusinessEvent \/ NotDurable \/ TakeEventResult)
  <2>1. UNCHANGED <<journal, nextId>>
    BY <1>4 DEF Next, Loop, Input, ManualResync, NoInput, PollResult, NoResult, TakeStateFetch,
         TakeBootstrap, TakeHeartbeat, TakeResult, PollEnds, PollEndsFallback, EndOfPoll, LoopTail,
         NothingMore, Reconnected, AskBootstrap, TakeStash, Heartbeat, TailDone, Task,
         ExecuteFails, ExecuteEvent, ExecuteOther, ServerMoves, PowerLoss, runtime, vars
  <2>. QED  BY <2>1
<1>. QED  BY <1>1, <1>2, <1>3, <1>4

(* The runtime asks of the journal only what DurableLog offers: it accepts   *)
(* an event once, changes the status of one it has accepted, and forgets     *)
(* none; a power loss changes nothing.                                       *)
THEOREM RuntimeKeepsToTheLog == Spec => Log!Init /\ [][LogStep]_AsLog
<1>1. Init => Log!Init /\ NumbersAreFresh
  <2> SUFFICES ASSUME Init PROVE Log!Init /\ NumbersAreFresh
    OBVIOUS
  <2>1. {d \in Event : journal[d] # "NONE"} = {}
    BY DEF Init
  <2>. QED  BY <2>1 DEF Init, NumbersAreFresh, AsLog, Log!Init
<1>2. RuntimeInv /\ NumbersAreFresh /\ [Next]_vars => [LogStep]_AsLog
  <2> SUFFICES ASSUME RuntimeInv, NumbersAreFresh, [Next]_vars PROVE [LogStep]_AsLog
    OBVIOUS
  <2>1. Log!Held = {d \in Event : journal[d] # "NONE"}
    BY DEF AsLog, Log!Held
  <2>2. CASE SendBusinessEvent
    <3>1. PICK s \in Unsynced : journal' = [journal EXCEPT ![nextId] = s]
      BY <2>2 DEF SendBusinessEvent, Unsynced
    <3>2. nextId \in Event /\ nextId \notin Log!Held
      BY <2>1, <2>2 DEF SendBusinessEvent, NumbersAreFresh, Event
    <3>3. {d \in Event : journal'[d] # "NONE"} = Log!Held \cup {nextId}
      BY <2>1, <3>1, <3>2 DEF RuntimeInv, TypeOK, Unsynced
    <3>4. AsLog' = [x \in Log!Held \cup {nextId} |-> journal'[x]]
      BY <3>3 DEF AsLog
    <3>5. \A x \in Log!Held \cup {nextId} : journal'[x] = IF x = nextId THEN s ELSE AsLog[x]
      BY <2>1, <3>1, <3>2 DEF RuntimeInv, TypeOK, AsLog
    <3>6. AcceptedAs(nextId, s)
      BY <3>2, <3>4, <3>5 DEF AcceptedAs
    <3>. QED  BY <3>1, <3>2, <3>6 DEF LogStep
  <2>3. CASE TakeEventResult
    <3>1. slot \in Result /\ slot.id \in Event /\ slot.out \in Outcome \ {"OK"}
      BY <2>3, TaskHolds
         DEF TakeEventResult, TakeResult, RuntimeInv, ResultsAreTrue, IsTrue, Result
    <3> DEFINE s == StatusAfter(slot.out)
    <3>2. s \in Unsynced \cup Terminal
      BY <3>1, StatusAfterHolds DEF Unsynced
    <3> HIDE DEF s
    <3>3. journal' = IF journal[slot.id] = "NONE" THEN journal
                     ELSE [journal EXCEPT ![slot.id] = s]
      BY <2>3 DEF TakeEventResult, SetStatus, s
    <3>4. CASE journal[slot.id] = "NONE"
      BY <3>3, <3>4 DEF AsLog
    <3>5. CASE journal[slot.id] # "NONE"
      <4>1. journal' = [journal EXCEPT ![slot.id] = s] /\ slot.id \in Log!Held /\ s # "NONE"
        BY <2>1, <3>1, <3>2, <3>3, <3>5 DEF Unsynced, Terminal
      <4>2. {d \in Event : journal'[d] # "NONE"} = Log!Held
        BY <2>1, <4>1 DEF RuntimeInv, TypeOK
      <4>3. AsLog' = [x \in Log!Held |-> journal'[x]]
        BY <4>2 DEF AsLog
      <4>4. AsLog' = [AsLog EXCEPT ![slot.id] = s]
        BY <2>1, <4>1, <4>3 DEF RuntimeInv, TypeOK, AsLog
      <4>5. Log!Update(slot.id, s)
        BY <4>1, <4>4 DEF Log!Update
      <4>. QED  BY <3>1, <3>2, <4>5 DEF LogStep
    <3>. QED  BY <3>4, <3>5
  <2>4. CASE ~(SendBusinessEvent \/ TakeEventResult)
    <3>1. journal' = journal
      BY <2>4 DEF Next, Loop, Input, NotDurable, ManualResync, NoInput, PollResult, NoResult,
         TakeStateFetch, TakeBootstrap, TakeHeartbeat, TakeResult, PollEnds, PollEndsFallback,
         EndOfPoll, LoopTail, NothingMore, Reconnected, AskBootstrap, TakeStash, Heartbeat,
         TailDone, Task, ExecuteFails, ExecuteEvent, ExecuteOther, ServerMoves, PowerLoss, runtime,
         vars
    <3>. QED  BY <3>1 DEF AsLog
  <2>. QED  BY <2>2, <2>3, <2>4
<1>. QED  BY <1>1, <1>2, NumbersStayFresh, RuntimeInvAlways, PTL DEF Spec
=============================================================================
