------------------------- MODULE NetworkTrafficProofs -------------------------
(***************************************************************************)
(* Proofs about NetworkTraffic, for any requests, any depths of the two    *)
(* queues and any pace of the loop: no request is handled twice, each tier *)
(* is served in the order of the calls, a HIGH request is overtaken once   *)
(* at the most, and a loop that is never late loses no result.             *)
(***************************************************************************)
EXTENDS NetworkTraffic, TLAPS

(* Where r is in the calls acc; whether it was enqueued before s, if they    *)
(* are of one tier; and the same of sets and of sequences.                   *)
Index(acc, r)        == CHOOSE i \in DOMAIN acc : acc[i] = r
Before(acc, r, s)    == (r \in High <=> s \in High) => Index(acc, r) < Index(acc, s)
AllBefore(acc, A, B) == \A r \in A, s \in B : Before(acc, r, s)
Sorted(acc, s)       == \A i, j \in DOMAIN s : i < j => Before(acc, s[i], s[j])
Distinct(acc)        == \A i, j \in DOMAIN acc : acc[i] = acc[j] => i = j

(* No call is made twice, and what is under way was accepted.                *)
CallsDistinct ==
  /\ Distinct(accepted)
  /\ Held(high) \subseteq High /\ Held(low) \subseteq Low
  /\ Pending \cup Held(delivered) \subseteq Held(accepted)

(* The results polled, the one in the slot, the one in the task and those    *)
(* in the queues follow each other in the order of the calls, in each tier.  *)
LineInOrder ==
  /\ Sorted(accepted, high) /\ Sorted(accepted, low) /\ Sorted(accepted, delivered)
  /\ AllBefore(accepted, Held(delivered), Pending)
  /\ AllBefore(accepted, InSlot, InTask \cup Held(high) \cup Held(low))
  /\ AllBefore(accepted, InTask, Held(high) \cup Held(low))

(* The task waits on LOW only after it has seen HIGH empty, and when it has  *)
(* passed a HIGH request, that one is still first.                           *)
PassedOnce == passed <= 1 /\ (passed = 1 => high # <<>> /\ task # "waitLow")

TrafficInv == TypeOK /\ CallsDistinct /\ LineInOrder /\ PassedOnce

-----------------------------------------------------------------------------
(* What a queue holds when a request is put at its end.                      *)
LEMMA AppendHolds ==
  ASSUME NEW S, NEW s \in Seq(S), NEW r \in S
  PROVE  /\ Append(s, r) \in Seq(S) /\ Len(Append(s, r)) = Len(s) + 1
         /\ DOMAIN Append(s, r) = 1..Len(s) + 1
         /\ \A i \in 1..Len(s) : Append(s, r)[i] = s[i]
         /\ Append(s, r)[Len(s) + 1] = r
         /\ Held(Append(s, r)) = Held(s) \cup {r}
<1>1. /\ Append(s, r) \in Seq(S) /\ Len(Append(s, r)) = Len(s) + 1
      /\ DOMAIN Append(s, r) = 1..Len(s) + 1 /\ DOMAIN s = 1..Len(s)
      /\ \A i \in 1..Len(s) : Append(s, r)[i] = s[i]
      /\ Append(s, r)[Len(s) + 1] = r
  OBVIOUS
<1>2. Held(Append(s, r)) = Held(s) \cup {r}
  <2>1. ASSUME NEW x \in Held(Append(s, r)) PROVE x \in Held(s) \cup {r}
    <3>1. PICK i \in 1..Len(s) + 1 : Append(s, r)[i] = x
      BY <1>1 DEF Held
    <3>. QED  BY <1>1, <3>1 DEF Held
  <2>2. ASSUME NEW x \in Held(s) \cup {r} PROVE x \in Held(Append(s, r))
    <3>1. CASE x = r
      BY <1>1, <3>1 DEF Held
    <3>2. CASE x \in Held(s)
      <4>1. PICK i \in 1..Len(s) : s[i] = x
        BY <1>1, <3>2 DEF Held
      <4>. QED  BY <1>1, <4>1 DEF Held
    <3>. QED  BY <3>1, <3>2
  <2>. QED  BY <2>1, <2>2
<1>. QED  BY <1>1, <1>2

(* And when its first one is taken.                                          *)
LEMMA TailHolds ==
  ASSUME NEW S, NEW s \in Seq(S), s # <<>>
  PROVE  /\ Head(s) \in S /\ Tail(s) \in Seq(S) /\ Len(Tail(s)) = Len(s) - 1 /\ Len(s) > 0
         /\ DOMAIN Tail(s) = 1..Len(s) - 1
         /\ \A i \in 1..Len(s) - 1 : Tail(s)[i] = s[i + 1]
         /\ Held(s) = Held(Tail(s)) \cup {Head(s)}
<1>1. /\ Head(s) \in S /\ Tail(s) \in Seq(S) /\ Len(Tail(s)) = Len(s) - 1 /\ Len(s) > 0
      /\ DOMAIN Tail(s) = 1..Len(s) - 1 /\ DOMAIN s = 1..Len(s) /\ Head(s) = s[1]
      /\ \A i \in 1..Len(s) - 1 : Tail(s)[i] = s[i + 1]
      /\ Len(s) \in Nat
  OBVIOUS
<1>2. Held(s) = Held(Tail(s)) \cup {Head(s)}
  <2>1. ASSUME NEW x \in Held(s) PROVE x \in Held(Tail(s)) \cup {Head(s)}
    <3>1. PICK i \in 1..Len(s) : s[i] = x
      BY <1>1, <2>1 DEF Held
    <3>2. CASE i = 1
      BY <1>1, <3>1, <3>2
    <3>3. CASE i # 1
      <4>1. i - 1 \in 1..Len(s) - 1 /\ (i - 1) + 1 = i
        BY <1>1, <3>1, <3>3
      <4>2. Tail(s)[i - 1] = x
        BY <1>1, <3>1, <4>1
      <4>. QED  BY <1>1, <4>1, <4>2 DEF Held
    <3>. QED  BY <3>2, <3>3
  <2>2. ASSUME NEW x \in Held(Tail(s)) \cup {Head(s)} PROVE x \in Held(s)
    <3>1. CASE x = Head(s)
      BY <1>1, <3>1 DEF Held
    <3>2. CASE x \in Held(Tail(s))
      <4>1. PICK i \in 1..Len(s) - 1 : Tail(s)[i] = x
        BY <1>1, <3>2 DEF Held
      <4>2. i + 1 \in 1..Len(s) /\ s[i + 1] = x
        BY <1>1, <4>1
      <4>. QED  BY <1>1, <4>2 DEF Held
    <3>. QED  BY <3>1, <3>2
  <2>. QED  BY <2>1, <2>2
<1>. QED  BY <1>1, <1>2

(* The place of a call is where it was made, and a later call leaves it.     *)
LEMMA IndexKept ==
  ASSUME NEW acc \in Seq(Request), Distinct(acc), NEW r \in Request \ Held(acc)
  PROVE  /\ Distinct(Append(acc, r))
         /\ \A x \in Held(acc) : Index(Append(acc, r), x) = Index(acc, x)
                                 /\ Index(acc, x) \in 1..Len(acc)
         /\ Index(Append(acc, r), r) = Len(acc) + 1
<1> DEFINE acc2 == Append(acc, r)
<1>1. /\ DOMAIN acc = 1..Len(acc) /\ DOMAIN acc2 = 1..Len(acc) + 1 /\ Len(acc) \in Nat
      /\ \A i \in 1..Len(acc) : acc2[i] = acc[i]
      /\ acc2[Len(acc) + 1] = r
  BY AppendHolds
<1>2. \A i \in 1..Len(acc) : acc[i] # r
  BY <1>1 DEF Held
<1> HIDE DEF acc2
<1>3. Distinct(acc2)
  BY <1>1, <1>2 DEF Distinct
<1>4. ASSUME NEW x \in Held(acc)
      PROVE  Index(acc2, x) = Index(acc, x) /\ Index(acc, x) \in 1..Len(acc)
  <2>1. PICK i \in 1..Len(acc) : acc[i] = x
    BY <1>1 DEF Held
  <2>2. Index(acc, x) = i
    BY <1>1, <2>1 DEF Index, Distinct
  <2>3. Index(acc2, x) = i
    BY <1>1, <1>3, <2>1 DEF Index, Distinct
  <2>. QED  BY <2>2, <2>3
<1>5. Index(acc2, r) = Len(acc) + 1
  BY <1>1, <1>3 DEF Index, Distinct
<1>. QED  BY <1>3, <1>4, <1>5 DEF acc2

(* So what was in order stays in order when a call is made, and the new call *)
(* comes after every earlier one.                                            *)
LEMMA OrderKept ==
  ASSUME NEW acc \in Seq(Request), Distinct(acc), NEW r \in Request \ Held(acc),
         NEW acc2, acc2 = Append(acc, r)
  PROVE  /\ \A x \in Held(acc) : Before(acc2, x, r)
         /\ \A x, y \in Held(acc) : Before(acc, x, y) => Before(acc2, x, y)
         /\ \A s : (\A i \in DOMAIN s : s[i] \in Held(acc)) /\ Sorted(acc, s) => Sorted(acc2, s)
<1>1. \A x \in Held(acc) : Before(acc2, x, r)
  BY IndexKept DEF Before
<1>2. \A x, y \in Held(acc) : Before(acc, x, y) => Before(acc2, x, y)
  BY IndexKept DEF Before
<1>3. ASSUME NEW s, \A i \in DOMAIN s : s[i] \in Held(acc), Sorted(acc, s)
      PROVE  Sorted(acc2, s)
  BY <1>2, <1>3 DEF Sorted
<1>. QED  BY <1>1, <1>2, <1>3

(* A queue in order is in order when one that comes after all is put at its  *)
(* end.                                                                      *)
LEMMA SortedAppend ==
  ASSUME NEW acc, NEW S, NEW s \in Seq(S), NEW r \in S, Sorted(acc, s),
         \A x \in Held(s) : Before(acc, x, r)
  PROVE  Sorted(acc, Append(s, r))
<1> SUFFICES ASSUME NEW i \in DOMAIN Append(s, r), NEW j \in DOMAIN Append(s, r), i < j
             PROVE  Before(acc, Append(s, r)[i], Append(s, r)[j])
  BY DEF Sorted
<1>1. /\ i \in 1..Len(s) /\ j \in 1..Len(s) + 1 /\ DOMAIN s = 1..Len(s) /\ Len(s) \in Nat
      /\ Append(s, r)[i] = s[i]
  BY AppendHolds
<1>2. CASE j = Len(s) + 1
  BY <1>1, <1>2, AppendHolds DEF Held
<1>3. CASE j # Len(s) + 1
  <2>1. j \in 1..Len(s) /\ Append(s, r)[j] = s[j]
    BY <1>1, <1>3, AppendHolds
  <2>. QED  BY <1>1, <2>1 DEF Sorted
<1>. QED  BY <1>2, <1>3

(* And when its first one is taken, which comes before the others.           *)
LEMMA SortedTail ==
  ASSUME NEW acc, NEW S, NEW s \in Seq(S), s # <<>>, Sorted(acc, s)
  PROVE  Sorted(acc, Tail(s)) /\ AllBefore(acc, {Head(s)}, Held(Tail(s)))
<1>1. /\ DOMAIN s = 1..Len(s) /\ Len(s) \in Nat \ {0} /\ Head(s) = s[1]
      /\ DOMAIN Tail(s) = 1..Len(s) - 1
      /\ \A i \in 1..Len(s) - 1 : Tail(s)[i] = s[i + 1]
  BY TailHolds
<1>2. ASSUME NEW i \in 1..Len(s) - 1, NEW j \in 1..Len(s) - 1, i < j
      PROVE  Before(acc, Tail(s)[i], Tail(s)[j])
  <2>1. i + 1 \in 1..Len(s) /\ j + 1 \in 1..Len(s) /\ i + 1 < j + 1
    BY <1>1, <1>2
  <2>. QED  BY <1>1, <2>1 DEF Sorted
<1>3. ASSUME NEW j \in 1..Len(s) - 1 PROVE Before(acc, Head(s), Tail(s)[j])
  <2>1. 1 \in 1..Len(s) /\ j + 1 \in 1..Len(s) /\ 1 < j + 1
    BY <1>1
  <2>. QED  BY <1>1, <2>1 DEF Sorted
<1>. QED  BY <1>1, <1>2, <1>3 DEF Sorted, AllBefore, Held

-----------------------------------------------------------------------------
(* An idle network task and empty queues.                                    *)
LEMMA TrafficInvInit == Init => TrafficInv
<1> SUFFICES ASSUME Init PROVE TrafficInv
  OBVIOUS
<1> USE WorkerAssumption DEF Init, WorkerInit
<1>1. TypeOK
  BY DEF TypeOK, WorkerTypeOK, TaskPc, Request
<1>2. Pending \cup Held(delivered) = {}
  BY DEF Pending, Held, InTask, InSlot
<1>3. CallsDistinct
  BY <1>2 DEF CallsDistinct, Distinct, Pending
<1>4. LineInOrder
  BY <1>2 DEF LineInOrder, Sorted, AllBefore, Pending
<1>. QED  BY <1>1, <1>3, <1>4 DEF TrafficInv, PassedOnce

(* What TypeOK says of the task's own request.                               *)
LEMMA TaskHolds ==
  ASSUME TypeOK
  PROVE  /\ task \in TaskPc
         /\ task \in {"checkHigh", "waitLow"} => req = None /\ InTask = {}
         /\ task \notin {"checkHigh", "waitLow"} => req \in Request /\ InTask = {req}
BY TrafficAssumption DEF TypeOK, WorkerTypeOK, TaskPc, InTask, Request

(* A call to the HIGH tier.                                                  *)
LEMMA TrafficInvHigh ==
  ASSUME TrafficInv, NEW r \in High, EnqueueHigh(r)
  PROVE  TrafficInv'
<1> USE DEF TrafficInv
<1>0. r \in Request /\ r \notin Held(accepted) /\ accepted \in Seq(Request) /\ high \in Seq(Request)
      /\ Len(high) <= HighDepth /\ UNCHANGED <<low, task, req, slot, delivered, passed>>
  BY DEF EnqueueHigh, Made, Request, TypeOK, WorkerTypeOK, Held
<1>1. CASE HighHasRoom
  <2>1. high' = Append(high, r) /\ accepted' = Append(accepted, r) /\ refused' = refused
    BY <1>1 DEF EnqueueHigh, HighAfter
  <2>2. TypeOK'
    BY <1>0, <1>1, <2>1, WorkerAssumption, AppendHolds
       DEF TypeOK, WorkerTypeOK, HighHasRoom
  <2>3. Held(high') = Held(high) \cup {r} /\ Held(accepted') = Held(accepted) \cup {r}
        /\ UNCHANGED <<InTask, InSlot, Held(low), Held(delivered)>>
        /\ Pending' = Pending \cup {r}
    BY <1>0, <2>1, AppendHolds DEF InTask, InSlot, Pending
  <2>4. CallsDistinct'
    BY <1>0, <2>1, <2>3, IndexKept DEF CallsDistinct
  <2>5. /\ Sorted(accepted', high) /\ Sorted(accepted', low) /\ Sorted(accepted', delivered)
        /\ \A x \in Held(high) : Before(accepted', x, r)
    BY <1>0, <2>1, OrderKept DEF CallsDistinct, LineInOrder, Pending, Held
  <2>6. Sorted(accepted', high')
    BY <1>0, <2>1, <2>5, SortedAppend
  <2>7. /\ AllBefore(accepted', Held(delivered), Pending \cup {r})
        /\ AllBefore(accepted', InSlot, (InTask \cup Held(high) \cup Held(low)) \cup {r})
        /\ AllBefore(accepted', InTask, (Held(high) \cup Held(low)) \cup {r})
    <3>1. /\ Held(delivered) \subseteq Held(accepted) /\ Pending \subseteq Held(accepted)
          /\ InSlot \subseteq Held(accepted) /\ InTask \subseteq Held(accepted)
          /\ InTask \cup Held(high) \cup Held(low) \subseteq Held(accepted)
      BY DEF CallsDistinct, Pending
    <3>2. /\ \A x \in Held(accepted) : Before(accepted', x, r)
          /\ \A x, y \in Held(accepted) : Before(accepted, x, y) => Before(accepted', x, y)
      BY <1>0, <2>1, OrderKept DEF CallsDistinct
    <3>. QED  BY <3>1, <3>2 DEF LineInOrder, AllBefore
  <2>8. LineInOrder'
    BY <1>0, <2>3, <2>5, <2>6, <2>7 DEF LineInOrder, AllBefore
  <2>9. PassedOnce'
    BY <1>0, <2>1, AppendHolds DEF PassedOnce
  <2>. QED  BY <2>2, <2>4, <2>8, <2>9
<1>2. CASE ~HighHasRoom
  <2>1. high' = high /\ accepted' = accepted /\ refused' = refused \cup {r}
    BY <1>2 DEF EnqueueHigh, HighAfter
  <2>2. TypeOK'
    BY <1>0, <2>1 DEF TypeOK, WorkerTypeOK
  <2>3. CallsDistinct' /\ LineInOrder' /\ PassedOnce'
    BY <1>0, <2>1 DEF CallsDistinct, LineInOrder, PassedOnce, Pending, InTask, InSlot
  <2>. QED  BY <2>2, <2>3
<1>. QED  BY <1>1, <1>2

(* A call to the LOW tier.                                                   *)
LEMMA TrafficInvLow ==
  ASSUME TrafficInv, NEW r \in Low, EnqueueLow(r)
  PROVE  TrafficInv'
<1> USE DEF TrafficInv
<1>0. r \in Request /\ r \notin Held(accepted) /\ accepted \in Seq(Request) /\ low \in Seq(Request)
      /\ Len(low) <= LowDepth /\ UNCHANGED <<high, task, req, slot, delivered, passed>>
  BY DEF EnqueueLow, Made, Request, TypeOK, WorkerTypeOK, Held
<1>1. CASE LowHasRoom
  <2>1. low' = Append(low, r) /\ accepted' = Append(accepted, r) /\ refused' = refused
    BY <1>1 DEF EnqueueLow, LowAfter
  <2>2. TypeOK'
    BY <1>0, <1>1, <2>1, WorkerAssumption, AppendHolds
       DEF TypeOK, WorkerTypeOK, LowHasRoom
  <2>3. Held(low') = Held(low) \cup {r} /\ Held(accepted') = Held(accepted) \cup {r}
        /\ UNCHANGED <<InTask, InSlot, Held(high), Held(delivered)>>
        /\ Pending' = Pending \cup {r}
    BY <1>0, <2>1, AppendHolds DEF InTask, InSlot, Pending
  <2>4. CallsDistinct'
    BY <1>0, <2>1, <2>3, IndexKept DEF CallsDistinct
  <2>5. /\ Sorted(accepted', high) /\ Sorted(accepted', low) /\ Sorted(accepted', delivered)
        /\ \A x \in Held(low) : Before(accepted', x, r)
    BY <1>0, <2>1, OrderKept DEF CallsDistinct, LineInOrder, Pending, Held
  <2>6. Sorted(accepted', low')
    BY <1>0, <2>1, <2>5, SortedAppend
  <2>7. /\ AllBefore(accepted', Held(delivered), Pending \cup {r})
        /\ AllBefore(accepted', InSlot, (InTask \cup Held(high) \cup Held(low)) \cup {r})
        /\ AllBefore(accepted', InTask, (Held(high) \cup Held(low)) \cup {r})
    <3>1. /\ Held(delivered) \subseteq Held(accepted) /\ Pending \subseteq Held(accepted)
          /\ InSlot \subseteq Held(accepted) /\ InTask \subseteq Held(accepted)
          /\ InTask \cup Held(high) \cup Held(low) \subseteq Held(accepted)
      BY DEF CallsDistinct, Pending
    <3>2. /\ \A x \in Held(accepted) : Before(accepted', x, r)
          /\ \A x, y \in Held(accepted) : Before(accepted, x, y) => Before(accepted', x, y)
      BY <1>0, <2>1, OrderKept DEF CallsDistinct
    <3>. QED  BY <3>1, <3>2 DEF LineInOrder, AllBefore
  <2>8. LineInOrder'
    BY <1>0, <2>3, <2>5, <2>6, <2>7 DEF LineInOrder, AllBefore
  <2>9. PassedOnce'
    BY <1>0, <2>1 DEF PassedOnce
  <2>. QED  BY <2>2, <2>4, <2>8, <2>9
<1>2. CASE ~LowHasRoom
  <2>1. low' = low /\ accepted' = accepted /\ refused' = refused \cup {r}
    BY <1>2 DEF EnqueueLow, LowAfter
  <2>2. TypeOK'
    BY <1>0, <2>1 DEF TypeOK, WorkerTypeOK
  <2>3. CallsDistinct' /\ LineInOrder' /\ PassedOnce'
    BY <1>0, <2>1 DEF CallsDistinct, LineInOrder, PassedOnce, Pending, InTask, InSlot
  <2>. QED  BY <2>2, <2>3
<1>. QED  BY <1>1, <1>2

(* The loop takes the result.                                                *)
LEMMA TrafficInvPoll ==
  ASSUME TrafficInv, Poll
  PROVE  TrafficInv'
<1> USE DEF TrafficInv
<1>1. slot \in Request /\ delivered \in Seq(Request) /\ delivered' = Append(delivered, slot)
      /\ slot' = None /\ UNCHANGED <<high, low, task, req, accepted, refused, passed>>
      /\ InSlot = {slot} /\ InSlot' = {} /\ InTask' = InTask
  BY DEF Poll, TypeOK, WorkerTypeOK, InSlot, InTask
<1>2. Held(delivered') = Held(delivered) \cup {slot} /\ delivered' \in Seq(Request)
      /\ Pending = Pending' \cup {slot} /\ Pending' = InTask \cup Held(high) \cup Held(low)
  BY <1>1, AppendHolds DEF Pending
<1>3. TypeOK'
  BY <1>1, <1>2 DEF TypeOK, WorkerTypeOK
<1>4. CallsDistinct'
  BY <1>1, <1>2 DEF CallsDistinct
<1>5. Sorted(accepted, delivered')
  <2>1. \A x \in Held(delivered) : Before(accepted, x, slot)
    BY <1>2 DEF LineInOrder, AllBefore
  <2>. QED  BY <1>1, <2>1, SortedAppend DEF LineInOrder
<1>6. AllBefore(accepted, Held(delivered'), Pending')
  BY <1>1, <1>2 DEF LineInOrder, AllBefore
<1>7. LineInOrder'
  BY <1>1, <1>5, <1>6 DEF LineInOrder, AllBefore
<1>8. PassedOnce'
  BY <1>1 DEF PassedOnce
<1>. QED  BY <1>3, <1>4, <1>7, <1>8

(* The task takes a request from either queue.                               *)
LEMMA TrafficInvPicks ==
  ASSUME TrafficInv, Task, PickHigh \/ PickLow
  PROVE  TrafficInv'
<1> USE DEF TrafficInv
<1>1. /\ req = None /\ InTask = {} /\ task' = "picked" /\ high \in Seq(Request) /\ low \in Seq(Request)
      /\ UNCHANGED <<slot, accepted, refused, delivered, InSlot>>
      /\ Held(high) \subseteq High /\ Held(low) \subseteq Low /\ High \cap Low = {}
  BY TaskHolds, TrafficAssumption
     DEF Task, PickHigh, PickLow, InSlot, TypeOK, WorkerTypeOK, CallsDistinct
<1>2. CASE PickHigh
  <2>1. high # <<>> /\ req' = Head(high) /\ high' = Tail(high) /\ low' = low
    BY <1>2 DEF PickHigh
  <2>2. /\ req' \in Request /\ req' # None /\ high' \in Seq(Request) /\ Len(high') <= HighDepth
        /\ Held(high) = Held(high') \cup {req'} /\ InTask' = {req'} /\ Pending' = Pending
    BY <1>1, <2>1, TailHolds, TrafficAssumption, WorkerAssumption
       DEF TypeOK, WorkerTypeOK, InTask, Pending, Request
  <2>3. PassedOnce' /\ passed' \in Nat
    BY <1>2, <2>1 DEF Task, PickHigh, PassedOnce
  <2>4. TypeOK'
    BY <1>1, <2>1, <2>2, <2>3 DEF TypeOK, WorkerTypeOK, TaskPc
  <2>5. CallsDistinct'
    BY <1>1, <2>1, <2>2 DEF CallsDistinct
  <2>6. Sorted(accepted, high') /\ AllBefore(accepted, {req'}, Held(high'))
    BY <1>1, <2>1, SortedTail DEF LineInOrder
  <2>7. AllBefore(accepted, {req'}, Held(low))
    BY <1>1, <2>2 DEF AllBefore, Before
  <2>8. LineInOrder'
    BY <1>1, <2>1, <2>2, <2>6, <2>7 DEF LineInOrder, AllBefore
  <2>. QED  BY <2>3, <2>4, <2>5, <2>8
<1>3. CASE PickLow
  <2>1. low # <<>> /\ req' = Head(low) /\ low' = Tail(low) /\ high' = high
    BY <1>3 DEF PickLow
  <2>2. /\ req' \in Request /\ req' # None /\ low' \in Seq(Request) /\ Len(low') <= LowDepth
        /\ Held(low) = Held(low') \cup {req'} /\ InTask' = {req'} /\ Pending' = Pending
    BY <1>1, <2>1, TailHolds, TrafficAssumption, WorkerAssumption
       DEF TypeOK, WorkerTypeOK, InTask, Pending, Request
  <2>3. PassedOnce' /\ passed' \in Nat
    BY <1>3, <2>1 DEF Task, PickLow, PassedOnce, TypeOK
  <2>4. TypeOK'
    BY <1>1, <2>1, <2>2, <2>3 DEF TypeOK, WorkerTypeOK, TaskPc
  <2>5. CallsDistinct'
    BY <1>1, <2>1, <2>2 DEF CallsDistinct
  <2>6. Sorted(accepted, low') /\ AllBefore(accepted, {req'}, Held(low'))
    BY <1>1, <2>1, SortedTail DEF LineInOrder
  <2>7. AllBefore(accepted, {req'}, Held(high))
    BY <1>1, <2>2 DEF AllBefore, Before
  <2>8. LineInOrder'
    BY <1>1, <2>1, <2>2, <2>6, <2>7 DEF LineInOrder, AllBefore
  <2>. QED  BY <2>3, <2>4, <2>5, <2>8
<1>. QED  BY <1>2, <1>3

(* The steps in which the task moves no request, and the end of execute().   *)
LEMMA TrafficInvWorks ==
  ASSUME TrafficInv, Task, SeeHighEmpty \/ WaitTimesOut \/ SetExecuting \/ Executed(req)
  PROVE  TrafficInv'
<1> USE DEF TrafficInv
<1>1. /\ UNCHANGED <<high, low, slot, accepted, refused, delivered, InSlot>> /\ req' = req
      /\ passed' = passed
      /\ task' \in TaskPc /\ (task' = "waitLow" => high = <<>>)
      /\ (task \in {"checkHigh", "waitLow"} <=> task' \in {"checkHigh", "waitLow"})
  BY DEF Task, SeeHighEmpty, WaitTimesOut, SetExecuting, Executed, InSlot, TaskPc
<1>2. UNCHANGED <<InTask, Pending>>
  BY <1>1 DEF InTask, Pending
<1>3. TypeOK'
  <2>1. WorkerTypeOK(Request, Request)'
    BY <1>1, TaskHolds DEF TypeOK, WorkerTypeOK, TaskPc
  <2>. QED  BY <1>1, <2>1 DEF TypeOK
<1>4. CallsDistinct' /\ LineInOrder'
  BY <1>1, <1>2 DEF CallsDistinct, LineInOrder
<1>5. PassedOnce'
  BY <1>1 DEF PassedOnce
<1>. QED  BY <1>3, <1>4, <1>5

(* The result goes to the slot, over one that nobody took.                   *)
LEMMA TrafficInvDeposit ==
  ASSUME TrafficInv, Task, Deposit
  PROVE  TrafficInv'
<1> USE DEF TrafficInv
<1>1. /\ UNCHANGED <<high, low, accepted, refused, delivered>> /\ passed' = passed
      /\ task = "done" /\ task' = "checkHigh" /\ slot' = req /\ req' = None
  BY DEF Task, Deposit
<1>2. req \in Request /\ req # None /\ InTask = {req} /\ InSlot' = {req} /\ InTask' = {}
  BY <1>1, TaskHolds, TrafficAssumption DEF InSlot, InTask, TaskPc, Request
<1>3. Pending' = Held(high) \cup Held(low) \cup InTask /\ Pending' \subseteq Pending
  BY <1>1, <1>2 DEF Pending
<1>4. TypeOK'
  BY <1>1, <1>2 DEF TypeOK, WorkerTypeOK, TaskPc
<1>5. CallsDistinct'
  BY <1>1, <1>3 DEF CallsDistinct
<1>6. LineInOrder'
  BY <1>1, <1>2, <1>3 DEF LineInOrder, AllBefore
<1>7. PassedOnce'
  BY <1>1 DEF PassedOnce
<1>. QED  BY <1>4, <1>5, <1>6, <1>7

-----------------------------------------------------------------------------
(* Every step of the task and of the loop keeps the invariant.               *)
LEMMA TrafficInvStep == TrafficInv /\ [Next]_vars => TrafficInv'
<1> SUFFICES ASSUME TrafficInv, [Next]_vars PROVE TrafficInv'
  OBVIOUS
<1>1. CASE \E r \in High : EnqueueHigh(r)
  BY <1>1, TrafficInvHigh
<1>2. CASE \E r \in Low : EnqueueLow(r)
  BY <1>2, TrafficInvLow
<1>3. CASE Poll
  BY <1>3, TrafficInvPoll
<1>4. CASE Task
  BY <1>4, TrafficInvPicks, TrafficInvWorks, TrafficInvDeposit DEF Task, TaskStep
<1>5. CASE UNCHANGED vars
  BY <1>5 DEF vars, worker, TrafficInv, TypeOK, WorkerTypeOK, CallsDistinct, LineInOrder,
              PassedOnce, Pending, InTask, InSlot
<1>. QED  BY <1>1, <1>2, <1>3, <1>4, <1>5 DEF Next

(* The invariant holds in every state.                                       *)
LEMMA TrafficInvAlways == Spec => []TrafficInv
BY TrafficInvInit, TrafficInvStep, PTL DEF Spec

(* The queues never hold more than FreeRTOS was asked for, and task_entry()  *)
(* has a request exactly when it is working on one.                          *)
THEOREM WorkerTypeCorrect == Spec => []TypeOK
<1>1. TrafficInv => TypeOK
  BY DEF TrafficInv
<1>. QED  BY <1>1, TrafficInvAlways, PTL

(* A HIGH request that waits is overtaken by one LOW request at the most,    *)
(* whatever is enqueued meanwhile.                                           *)
THEOREM HighWaitsForOne == Spec => []OneLowAtMost
<1>1. TrafficInv => OneLowAtMost
  BY DEF TrafficInv, PassedOnce, OneLowAtMost
<1>. QED  BY <1>1, TrafficInvAlways, PTL

(* Requests of one tier that are in order are different ones.                *)
LEMMA BeforeIsOther ==
  ASSUME TypeOK, CallsDistinct, NEW x, NEW y, x = y, x \in Held(accepted)
  PROVE  ~Before(accepted, x, y)
<1>1. accepted \in Seq(Request)
  BY DEF TypeOK
<1>2. PICK i \in 1..Len(accepted) : accepted[i] = x
  BY <1>1 DEF Held
<1>3. Index(accepted, x) = i
  BY <1>1, <1>2 DEF Index, CallsDistinct, Distinct
<1>. QED  BY <1>1, <1>3 DEF Before

(* In one line behind each other, no two are the same.                       *)
LEMMA LineHasNoneTwice == TrafficInv => NothingTwice
<1> SUFFICES ASSUME TrafficInv PROVE NothingTwice
  OBVIOUS
<1> USE DEF TrafficInv
<1>1. \A x \in Held(accepted) : ~Before(accepted, x, x)
  BY BeforeIsOther
<1>2. Held(high) \cap Held(low) = {}
  BY TrafficAssumption DEF CallsDistinct
<1>3. (Held(high) \cup Held(low)) \cap (InTask \cup InSlot) = {} /\ InTask \cap InSlot = {}
      /\ Held(delivered) \cap Pending = {}
  BY <1>1 DEF CallsDistinct, LineInOrder, AllBefore, Pending
<1>4. ASSUME NEW i \in DOMAIN delivered, NEW j \in DOMAIN delivered,
             delivered[i] = delivered[j]
      PROVE  i = j
  <2>1. ~(i < j) /\ ~(j < i)
    BY <1>1, <1>4 DEF CallsDistinct, LineInOrder, Sorted, Held
  <2>2. i \in Nat /\ j \in Nat
    BY DEF TypeOK
  <2>. QED  BY <2>1, <2>2
<1>. QED  BY <1>2, <1>3, <1>4 DEF NothingTwice

(* From enqueue_high_priority() or enqueue_low_priority() to poll_result(),  *)
(* no request is in two places, and none is polled twice.                    *)
THEOREM NoRequestTwice == Spec => []NothingTwice
BY LineHasNoneTwice, TrafficInvAlways, PTL

(* What was handed on in order is delivered in order.                        *)
LEMMA LineKeepsTiers == TrafficInv => TierOrder
BY TrafficAssumption
   DEF TrafficInv, LineInOrder, Sorted, Before, Index, Place, TierOrder, InOrder

(* The results of a tier reach the loop in the order of its calls, whatever  *)
(* the other tier does and however many results were overwritten.            *)
THEOREM TiersKeepOrder == Spec => []TierOrder
BY LineKeepsTiers, TrafficInvAlways, PTL

-----------------------------------------------------------------------------
(* With a loop that polls between any two results, a request that was        *)
(* accepted is under way or its result was polled: the one-place slot loses  *)
(* nothing then.                                                             *)
NothingIsLost == PromptLoop => Held(accepted) \subseteq Pending \cup Held(delivered)

(* The loop: a call adds to what is pending, a poll moves the result to what *)
(* was polled.                                                               *)
LEMMA NothingLostByCalls ==
  ASSUME TrafficInv, Held(accepted) \subseteq Pending \cup Held(delivered),
         (\E r \in High : EnqueueHigh(r)) \/ (\E r \in Low : EnqueueLow(r))
  PROVE  Held(accepted') \subseteq Pending' \cup Held(delivered')
<1> USE DEF TrafficInv
<1>0. /\ high \in Seq(Request) /\ low \in Seq(Request) /\ accepted \in Seq(Request)
      /\ UNCHANGED <<InTask, InSlot, delivered>>
  BY DEF TypeOK, WorkerTypeOK, EnqueueHigh, EnqueueLow, InTask, InSlot
<1>1. ASSUME NEW r \in High, EnqueueHigh(r)
      PROVE  Held(accepted') \subseteq Pending' \cup Held(delivered')
  <2>1. CASE HighHasRoom
    <3>1. high' = Append(high, r) /\ accepted' = Append(accepted, r) /\ low' = low
      BY <1>1, <2>1 DEF EnqueueHigh, HighAfter
    <3>2. r \in Request
      BY DEF Request
    <3>3. Held(high') = Held(high) \cup {r} /\ Held(accepted') = Held(accepted) \cup {r}
      BY <1>0, <3>1, <3>2, AppendHolds
    <3>. QED  BY <1>0, <3>1, <3>3 DEF Pending
  <2>2. CASE ~HighHasRoom
    BY <1>0, <1>1, <2>2 DEF EnqueueHigh, HighAfter, Pending
  <2>. QED  BY <2>1, <2>2
<1>2. ASSUME NEW r \in Low, EnqueueLow(r)
      PROVE  Held(accepted') \subseteq Pending' \cup Held(delivered')
  <2>1. CASE LowHasRoom
    <3>1. low' = Append(low, r) /\ accepted' = Append(accepted, r) /\ high' = high
      BY <1>2, <2>1 DEF EnqueueLow, LowAfter
    <3>2. r \in Request
      BY DEF Request
    <3>3. Held(low') = Held(low) \cup {r} /\ Held(accepted') = Held(accepted) \cup {r}
      BY <1>0, <3>1, <3>2, AppendHolds
    <3>. QED  BY <1>0, <3>1, <3>3 DEF Pending
  <2>2. CASE ~LowHasRoom
    BY <1>0, <1>2, <2>2 DEF EnqueueLow, LowAfter, Pending
  <2>. QED  BY <2>1, <2>2
<1>. QED  BY <1>1, <1>2

(* The task: it hands on what it holds, and deposits only in a slot that was *)
(* polled.                                                                   *)
LEMMA NothingLostByTask ==
  ASSUME TrafficInv, PromptLoop, Task
  PROVE  Pending \subseteq Pending'
<1> USE DEF TrafficInv
<1>0. high \in Seq(Request) /\ low \in Seq(Request)
  BY DEF TypeOK, WorkerTypeOK
<1>1. CASE PickHigh
  <2>1. req = None /\ req' = Head(high) /\ high' = Tail(high) /\ Held(high) = Held(high') \cup {req'}
        /\ req' # None /\ low' = low /\ slot' = slot
    BY <1>0, <1>1, TaskHolds, TailHolds, TrafficAssumption DEF PickHigh, Request
  <2>. QED  BY <2>1 DEF Pending, InTask, InSlot
<1>2. CASE PickLow
  <2>1. req = None /\ req' = Head(low) /\ low' = Tail(low) /\ Held(low) = Held(low') \cup {req'}
        /\ req' # None /\ high' = high /\ slot' = slot
    BY <1>0, <1>2, TaskHolds, TailHolds, TrafficAssumption DEF PickLow, Request
  <2>. QED  BY <2>1 DEF Pending, InTask, InSlot
<1>3. CASE SeeHighEmpty \/ WaitTimesOut \/ SetExecuting \/ Executed(req)
  BY <1>3 DEF SeeHighEmpty, WaitTimesOut, SetExecuting, Executed, Pending, InTask, InSlot
<1>4. CASE Deposit
  BY <1>4 DEF Deposit, Pending, InTask, InSlot
<1>. QED  BY <1>1, <1>2, <1>3, <1>4 DEF Task, TaskStep

(* deposit_result() overwrites a result only when loop() was late: every     *)
(* request the queues took is otherwise answered to the loop.                *)
THEOREM NoResultIsLost == Spec => []NothingIsLost
<1>1. Init => NothingIsLost
  BY DEF Init, NothingIsLost, Held
<1>2. TrafficInv /\ NothingIsLost /\ [Next]_vars => NothingIsLost'
  <2> SUFFICES ASSUME TrafficInv, [Next]_vars, PromptLoop,
                      Held(accepted) \subseteq Pending \cup Held(delivered)
               PROVE  Held(accepted') \subseteq Pending' \cup Held(delivered')
    BY DEF NothingIsLost
  <2>1. CASE (\E r \in High : EnqueueHigh(r)) \/ (\E r \in Low : EnqueueLow(r))
    BY <2>1, NothingLostByCalls
  <2>2. CASE Poll
    <3>1. /\ slot \in Request /\ delivered \in Seq(Request)
          /\ delivered' = Append(delivered, slot) /\ slot' = None
          /\ UNCHANGED <<high, low, req, accepted>>
      BY <2>2 DEF Poll, TrafficInv, TypeOK, WorkerTypeOK
    <3>2. Held(delivered') = Held(delivered) \cup {slot}
      BY <3>1, AppendHolds
    <3>. QED  BY <3>1, <3>2 DEF Pending, InTask, InSlot
  <2>3. CASE Task
    <3>1. Pending \subseteq Pending' /\ UNCHANGED <<accepted, delivered>>
      BY <2>3, NothingLostByTask DEF Task
    <3>. QED  BY <3>1
  <2>4. CASE UNCHANGED vars
    BY <2>4 DEF vars, worker, Pending, InTask, InSlot
  <2>. QED  BY <2>1, <2>2, <2>3, <2>4 DEF Next
<1>. QED  BY <1>1, <1>2, TrafficInvAlways, PTL DEF Spec
=============================================================================
