---------------------------- MODULE NetworkWorker ----------------------------
(***************************************************************************)
(* The one network task of the kiosk (network/network_worker): two bounded *)
(* FreeRTOS queues into it, one mutex-protected result slot out of it.     *)
(*                                                                         *)
(* The task runs on its own, concurrently with the main loop.  Each action *)
(* is one step of it between two accesses to what it shares with the loop: *)
(* the queues, executing_ and the slot.  The module is open: a caller puts *)
(* requests in the queues, takes results from the slot, and says what      *)
(* executing a request yields.                                             *)
(***************************************************************************)
EXTENDS Naturals, Sequences

CONSTANTS
  HighDepth, LowDepth, \* the depths of the queues (3 and 2)
  None,                \* no request, no result
  PromptLoop           \* TRUE: the loop polls between any two deposits

ASSUME WorkerAssumption ==
  /\ HighDepth \in Nat \ {0} /\ LowDepth \in Nat \ {0}
  /\ PromptLoop \in BOOLEAN

VARIABLES
  high, low, \* high_queue_, low_queue_
  task,      \* where task_entry() is: see TaskPc
  req,       \* its local request, and then its result
  slot       \* pending_result_ while result_ready_, else None

worker == <<high, low, task, req, slot>>

(* "checkHigh": about to look at the HIGH queue.  "waitLow": it was empty;   *)
(* waits up to 50 ms on the LOW queue.  "picked": has a request, executing_  *)
(* not set yet.  "executing": executing_ is set.  "done": executing_ is      *)
(* cleared, the result not deposited yet.                                    *)
TaskPc == {"checkHigh", "waitLow", "picked", "executing", "done"}

WorkerTypeOK(Request, Result) ==
  /\ high \in Seq(Request) /\ Len(high) <= HighDepth
  /\ low \in Seq(Request) /\ Len(low) <= LowDepth
  /\ task \in TaskPc
  /\ req \in CASE task \in {"picked", "executing"} -> Request
               [] task = "done"                    -> Result
               [] OTHER                            -> {None}
  /\ slot \in Result \cup {None}

WorkerInit ==
  /\ high = <<>> /\ low = <<>>
  /\ task = "checkHigh" /\ req = None
  /\ slot = None

-----------------------------------------------------------------------------
(* The caller's side.                                                        *)

(* Mistakes that the properties must catch are written out where they could  *)
(* be made, each named ...Wrong and used nowhere.                            *)
HighHasRoomWrong == Len(high) <= HighDepth

HighHasRoom == Len(high) < HighDepth
LowHasRoom  == Len(low) < LowDepth

HighAfterWrong(r) == IF HighHasRoom THEN <<r>> \o high ELSE high

(* xQueueSend() with no wait: false at once if the queue is full.            *)
HighAfter(r) == IF HighHasRoom THEN Append(high, r) ELSE high
LowAfter(r)  == IF LowHasRoom THEN Append(low, r) ELSE low

(* high_priority_busy(): executing_ covers a LOW request too.                *)
HighPriorityBusy == task = "executing" \/ high # <<>>

-----------------------------------------------------------------------------
(* The task's side.                                                          *)

PickHighWrong ==                                           \* peeks, does not receive
  /\ task = "checkHigh"
  /\ high # <<>>
  /\ req' = Head(high)
  /\ task' = "picked"
  /\ UNCHANGED <<high, low, slot>>

PickHigh ==
  /\ task = "checkHigh"
  /\ high # <<>>
  /\ req' = Head(high) /\ high' = Tail(high)
  /\ task' = "picked"
  /\ UNCHANGED <<low, slot>>

SeeHighEmptyWrong ==                                       \* LOW is looked at regardless
  /\ task = "checkHigh"
  /\ task' = "waitLow"
  /\ UNCHANGED <<high, low, req, slot>>

SeeHighEmpty ==
  /\ task = "checkHigh"
  /\ high = <<>>
  /\ task' = "waitLow"
  /\ UNCHANGED <<high, low, req, slot>>

PickLow ==
  /\ task = "waitLow"
  /\ low # <<>>
  /\ req' = Head(low) /\ low' = Tail(low)
  /\ task' = "picked"
  /\ UNCHANGED <<high, slot>>

WaitTimesOutWrong ==                                       \* waits forever on the LOW queue
  /\ task = "waitLow"
  /\ low = <<>>
  /\ UNCHANGED worker

WaitTimesOut ==
  /\ task = "waitLow"
  /\ low = <<>>
  /\ task' = "checkHigh"
  /\ UNCHANGED <<high, low, req, slot>>

SetExecuting ==
  /\ task = "picked"
  /\ task' = "executing"
  /\ UNCHANGED <<high, low, req, slot>>

(* execute() returns r, and executing_ is cleared.                           *)
Executed(r) ==
  /\ task = "executing"
  /\ req' = r
  /\ task' = "done"
  /\ UNCHANGED <<high, low, slot>>

(* deposit_result(): a result that nobody has taken is overwritten.          *)
Deposit ==
  /\ task = "done"
  /\ PromptLoop => slot = None
  /\ slot' = req
  /\ req' = None
  /\ task' = "checkHigh"
  /\ UNCHANGED <<high, low>>

TaskStep == PickHigh \/ SeeHighEmpty \/ PickLow \/ WaitTimesOut \/ SetExecuting \/ Deposit
=============================================================================
