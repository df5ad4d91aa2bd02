------------------------------ MODULE Bootstrap ------------------------------
(***************************************************************************)
(* When loop() asks the server for a bootstrap: once a boot and once after *)
(* every reconnection, with a retry.  A request goes through the network   *)
(* task and its answer comes passes of loop() later; a reconnection in     *)
(* between starts over and does not recall it.                             *)
(*                                                                         *)
(* The task answers every request, and the loop takes each result from it  *)
(* before the next (NetworkWorker, with PromptLoop).                       *)
(***************************************************************************)
EXTENDS WifiLink

CONSTANT MaxAttempts \* kBootstrapMaxAttempts

ASSUME AttemptsAssumption == MaxAttempts \in Nat \ {0}

VARIABLES
  endpoint,  \* whether /bootstrap can be derived from the configured URL
  seen,      \* g_last_seen_reconnect_count
  attempted, \* g_bootstrap_attempted
  inFlight,  \* g_bootstrap_inflight
  attempts,  \* g_bootstrap_attempt_count
  waiting,   \* whether g_bootstrap_next_attempt_ms is still ahead
  requests,  \* how many are with the network task
  answer     \* pending_bootstrap_result_ while it is ready, or "none"

asking == <<seen, attempted, inFlight, attempts, waiting>>
bootstrapVars == <<linkVars, endpoint, asking, requests, answer>>

BootstrapStarts ==
  /\ seen = 0 /\ attempted = FALSE /\ inFlight = FALSE
  /\ attempts = 0 /\ waiting = FALSE
  /\ requests = 0 /\ answer = "none"

BootstrapInit ==
  /\ LinkInit /\ ssid # NoNet
  /\ endpoint \in BOOLEAN
  /\ BootstrapStarts

StartsOver ==
  /\ attempted' = FALSE /\ inFlight' = FALSE
  /\ attempts' = 0 /\ waiting' = FALSE

BootstrapReboot ==
  /\ trouble > 0 /\ trouble' = trouble - 1
  /\ LinkBegin(creds) /\ UNCHANGED <<air, torn>>
  /\ StartsOver
  /\ seen' = 0 /\ requests' = 0 /\ answer' = "none"
  /\ UNCHANGED endpoint

-----------------------------------------------------------------------------
LinkMoves(A) == A /\ UNCHANGED <<endpoint, asking, requests, answer>>

Online == wm = "CONNECTED"

Rearm ==
  /\ Online /\ reconnects # seen
  /\ seen' = reconnects
  /\ StartsOver
  /\ UNCHANGED <<linkVars, endpoint, requests, answer>>

MayAsk == Online /\ reconnects = seen /\ ~attempted /\ ~inFlight /\ ~waiting

(* When the queue is full nothing changes.                                   *)
Ask ==
  /\ MayAsk /\ endpoint
  /\ attempts' = attempts + 1
  /\ inFlight' = TRUE
  /\ requests' = requests + 1
  /\ UNCHANGED <<linkVars, endpoint, seen, attempted, waiting, answer>>

AskNowhere ==
  /\ MayAsk /\ ~endpoint
  /\ attempts' = attempts + 1
  /\ IF attempts' >= MaxAttempts
     THEN attempted' = TRUE /\ UNCHANGED waiting
     ELSE waiting' = TRUE /\ UNCHANGED attempted
  /\ UNCHANGED <<linkVars, endpoint, seen, inFlight, requests, answer>>

RetryDue ==
  /\ waiting /\ waiting' = FALSE
  /\ UNCHANGED <<linkVars, endpoint, seen, attempted, inFlight, attempts, requests, answer>>

(* FAILED: no response; REJECTED: refused, or in another protocol version.   *)
BootstrapStatus == {"OK", "REJECTED", "FAILED"}

(* KioskRuntime.poll() keeps the latest answer, connected or not.            *)
Answered ==
  /\ requests > 0 /\ requests' = requests - 1
  /\ answer' \in BootstrapStatus
  /\ UNCHANGED <<linkVars, endpoint, asking>>

TakeWrong ==                                               \* stays in flight
  /\ Online /\ reconnects = seen /\ answer # "none"
  /\ answer' = "none"
  /\ IF answer = "FAILED" /\ attempts < MaxAttempts
     THEN waiting' = TRUE /\ UNCHANGED attempted
     ELSE attempted' = TRUE /\ UNCHANGED waiting
  /\ UNCHANGED <<linkVars, endpoint, seen, inFlight, attempts, requests>>

(* Any answer settles the attempt under way, one that was asked for before   *)
(* the reconnection too.                                                     *)
Take ==
  /\ Online /\ reconnects = seen /\ answer # "none"
  /\ answer' = "none"
  /\ inFlight' = FALSE
  /\ IF answer = "FAILED" /\ attempts < MaxAttempts
     THEN waiting' = TRUE /\ UNCHANGED attempted
     ELSE attempted' = TRUE /\ UNCHANGED waiting
  /\ UNCHANGED <<linkVars, endpoint, seen, attempts, requests>>

BootstrapNext ==
  \/ LinkMoves(Joins) \/ LinkMoves(AirChanges) \/ LinkMoves(WmPoll)
  \/ LinkMoves(CooldownOver) \/ LinkMoves(ForceReconnect)
  \/ BootstrapReboot
  \/ Rearm \/ Ask \/ AskNowhere \/ RetryDue \/ Answered \/ Take

BootstrapSpec == BootstrapInit /\ [][BootstrapNext]_bootstrapVars

-----------------------------------------------------------------------------
BootstrapTypeOK ==
  /\ answer \in {"none", "OK", "REJECTED", "FAILED"}
  /\ attempts \in 0..MaxAttempts /\ requests \in Nat /\ seen <= reconnects

(* While g_bootstrap_inflight keeps loop() from asking again, an answer that  *)
(* will clear it is still to come or is kept, the answers to what was asked  *)
(* before a reconnection counted (kiosk_runtime_v2.ino:1012-1016).           *)
InFlightIsAnswered == inFlight => requests > 0 \/ answer # "none"

(* On a link that stays up the kiosk is through with its bootstrap in the    *)
(* end: no answer from before the reconnection leaves it waiting.            *)
BootstrapEnds == <>[]Online => <>[](attempted /\ seen = reconnects)
=============================================================================
