--------------------------- MODULE NetworkTraffic ---------------------------
(***************************************************************************)
(* The network task under every pattern of calls: each request of High and *)
(* of Low is enqueued once, at any moment, and the loop polls when it will. *)
(***************************************************************************)
EXTENDS NetworkWorker, FiniteSets

CONSTANTS High, Low \* the requests made of each tier

ASSUME TrafficAssumption ==
  /\ IsFiniteSet(High) /\ IsFiniteSet(Low)
  /\ High \cap Low = {}
  /\ None \notin High \cup Low

VARIABLES
  accepted,  \* the requests enqueued, in the order of the calls
  refused,   \* those that found their queue full
  delivered, \* the results the loop has polled, in order
  passed     \* LOW requests picked since a HIGH one has been waiting

vars == <<worker, accepted, refused, delivered, passed>>

Request == High \cup Low
Made    == refused \cup {accepted[i] : i \in DOMAIN accepted}

Init ==
  /\ WorkerInit
  /\ accepted = <<>> /\ refused = {} /\ delivered = <<>>
  /\ passed = 0

EnqueueHigh(r) ==
  /\ r \in High \ Made
  /\ high' = HighAfter(r)
  /\ IF HighHasRoom THEN accepted' = Append(accepted, r) /\ UNCHANGED refused
                    ELSE refused' = refused \cup {r} /\ UNCHANGED accepted
  /\ UNCHANGED <<low, task, req, slot, delivered, passed>>

EnqueueLow(r) ==
  /\ r \in Low \ Made
  /\ low' = LowAfter(r)
  /\ IF LowHasRoom THEN accepted' = Append(accepted, r) /\ UNCHANGED refused
                   ELSE refused' = refused \cup {r} /\ UNCHANGED accepted
  /\ UNCHANGED <<high, task, req, slot, delivered, passed>>

Poll ==
  /\ slot # None
  /\ delivered' = Append(delivered, slot)
  /\ slot' = None
  /\ UNCHANGED <<high, low, task, req, accepted, refused, passed>>

(* A result is named by its request.                                         *)
Task ==
  /\ TaskStep \/ Executed(req)
  /\ passed' = IF task = "checkHigh" /\ task' = "picked" THEN 0
               ELSE IF task = "waitLow" /\ task' = "picked" /\ high # <<>> THEN passed + 1
               ELSE passed
  /\ UNCHANGED <<accepted, refused, delivered>>

Next ==
  \/ \E r \in High : EnqueueHigh(r)
  \/ \E r \in Low : EnqueueLow(r)
  \/ Poll
  \/ Task

(* The task is never suspended for good, and the loop never stops polling.   *)
Spec == Init /\ [][Next]_vars /\ WF_vars(Task) /\ WF_vars(Poll)

-----------------------------------------------------------------------------
TypeOK ==
  /\ WorkerTypeOK(Request, Request)
  /\ accepted \in Seq(Request) /\ refused \subseteq Request
  /\ delivered \in Seq(Request)
  /\ passed \in Nat

Held(s)    == {s[i] : i \in DOMAIN s}
InTask     == IF req = None THEN {} ELSE {req}
InSlot     == IF slot = None THEN {} ELSE {slot}
Pending    == Held(high) \cup Held(low) \cup InTask \cup InSlot

(* A request is in one place at a time, and each result that is polled is    *)
(* polled once: nothing is picked, executed or delivered twice.              *)
NothingTwice ==
  /\ Held(high) \cap Held(low) = {} /\ (Held(high) \cup Held(low)) \cap (InTask \cup InSlot) = {}
  /\ InTask \cap InSlot = {}
  /\ Held(delivered) \cap Pending = {}
  /\ \A i, j \in DOMAIN delivered : delivered[i] = delivered[j] => i = j

(* Within a tier, results come in the order of the calls, whatever the other *)
(* tier does and however late the loop polls.                                *)
Place(r) == CHOOSE i \in DOMAIN accepted : accepted[i] = r
InOrder(T) ==
  \A i, j \in DOMAIN delivered :
    i < j /\ {delivered[i], delivered[j]} \subseteq T => Place(delivered[i]) < Place(delivered[j])
TierOrder == InOrder(High) /\ InOrder(Low)

(* A waiting HIGH request is overtaken by one LOW request at the most, the   *)
(* one the task may take when it has just seen the HIGH queue empty.         *)
OneLowAtMost == passed <= 1

(* Every request that was accepted is executed and its result deposited:     *)
(* neither tier starves the other, and no request stays in a queue.          *)
EveryRequestRuns == <>[](Held(high) \cup Held(low) \cup InTask = {})
=============================================================================
