--------------------------- MODULE RecoveryHistory ---------------------------
(***************************************************************************)
(* The last recovery events, in RAM: a ring of kRecoveryHistoryCapacity,   *)
(* read oldest first by /debug/device-state and by the heartbeat.  An      *)
(* event is known by its ordinal in this boot.                             *)
(***************************************************************************)
EXTENDS Naturals

CONSTANTS
  RingSize,    \* kRecoveryHistoryCapacity
  MaxRecorded  \* bound: events in one boot

ASSUME HistoryAssumption == RingSize \in Nat \ {0} /\ MaxRecorded \in Nat

VARIABLES
  ring,      \* g_history
  ringCount, \* g_history_count
  ringNext,  \* g_history_next
  recorded   \* history: how many were recorded in this boot

ringVars == <<ring, ringCount, ringNext, recorded>>

RingInit ==
  /\ ring = [i \in 0..RingSize - 1 |-> 0]
  /\ ringCount = 0 /\ ringNext = 0
  /\ recorded = 0

(* record_recovery_event() *)
Record ==
  /\ recorded < MaxRecorded
  /\ recorded' = recorded + 1
  /\ ring' = [ring EXCEPT ![ringNext] = recorded']
  /\ ringNext' = (ringNext + 1) % RingSize
  /\ ringCount' = IF ringCount < RingSize THEN ringCount + 1 ELSE ringCount

RingReboot ==
  /\ recorded > 0
  /\ ring' = [i \in 0..RingSize - 1 |-> 0]
  /\ ringCount' = 0 /\ ringNext' = 0
  /\ recorded' = 0

RingNextStep == Record \/ RingReboot

RingSpec == RingInit /\ [][RingNextStep]_ringVars

HistoryAtWrong(i) == ring[i]                               \* the oldest in slot 0

(* recovery_history_at(): the oldest is in slot 0 until the ring is full,    *)
(* then in the slot due to be overwritten.                                   *)
HistoryAt(i) == ring[((IF ringCount < RingSize THEN 0 ELSE ringNext) + i) % RingSize]

-----------------------------------------------------------------------------
(* What a reader sees is the latest events, every one of them while they     *)
(* fit, oldest first (recovery_supervisor.h:54-55).                          *)
HistoryIsTheLatest ==
  /\ ringCount = IF recorded < RingSize THEN recorded ELSE RingSize
  /\ \A i \in 0..ringCount - 1 : HistoryAt(i) = recorded - ringCount + 1 + i
=============================================================================
