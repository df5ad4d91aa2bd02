---------------------------- MODULE QuantityEntry ----------------------------
(***************************************************************************)
(* Keys, scans and idle timeouts of runtime/kiosk_runtime beside the       *)
(* server's state: the local GOOD / DEFECT / REWORK entry is kept by the   *)
(* kiosk alone while answers, replays, resyncs and bootstraps change the   *)
(* state it belongs to.                                                    *)
(*                                                                         *)
(* A request is answered in one step, and its answer waits for the loop in *)
(* the result slot; KioskRuntime has the network at a finer grain, and the *)
(* journal and power losses.  What is typed is left out: whether a figure  *)
(* is zero, or REWORK larger than DEFECT, is a choice.                     *)
(***************************************************************************)
EXTENDS Integers, Sequences

CONSTANTS
  MaxEvents,  \* bound: events the operator makes
  HighDepth,  \* depth of the HIGH queue (3)
  None,       \* no request, no result, no snapshot
  MaxLost,    \* bound: requests that fail
  PromptLoop, \* TRUE: the loop polls between any two results
  MaxBoots,   \* bound: bootstraps asked for
  MaxResets,  \* bound: resets by a supervisor
  MaxSpent    \* bound: all of these together

Event == 1..MaxEvents
State == {"WAIT_EMPLOYEE", "WAIT_OPERATION", "SESSION_ACTIVE", "QUANTITY_INPUT"}
Open  == {"SESSION_ACTIVE", "QUANTITY_INPUT"}  \* a work session is open
Type  == {"SCAN", "FINISH_REQUESTED", "QUANTITY_SUBMITTED", "CANCEL_REQUESTED"}
Step  == {"GOOD", "DEFECT", "REWORK_DECISION", "REWORK", "SUMMARY"}

ASSUME EntryAssumption ==
  /\ MaxEvents \in Nat \ {0} /\ HighDepth \in Nat \ {0} /\ PromptLoop \in BOOLEAN
  /\ MaxLost \in Nat /\ MaxBoots \in Nat /\ MaxResets \in Nat /\ MaxSpent \in Nat

VARIABLES
  entry,      \* step: qty_step_; ses: the session on the screen when the figures
              \* were begun, that is when GOOD was confirmed (history)
  projection, \* state_projection_
  resyncing,  \* resyncing_
  sent,       \* the events made so far, by id
  unsynced,   \* those the journal has as PENDING or IN_FLIGHT
  high, low,  \* the network worker's queues; low: None or the replay's event
  slot,       \* the result the loop has not polled yet, or None
  server,     \* the server's state for this device; ses numbers the sessions
  answers,    \* its idempotency store
  booked,     \* <<e, s>>: the figures of event e were booked for session s
  spent       \* bound: failures, bootstraps and resets so far

network == <<high, low, slot>>
backend == <<server, answers, booked>>
vars    == <<entry, projection, resyncing, sent, unsynced, network, backend, spent>>

FreshEntry == [step |-> "GOOD", ses |-> 0]

Shown     == projection.st
Version   == projection.ver
SessionOn == projection.ses

(* A reboot came during an entry and its bootstrap has just been applied.    *)
Init ==
  /\ server = [ver |-> 1, st |-> "QUANTITY_INPUT", ses |-> 1]
  /\ projection = server /\ entry = FreshEntry /\ resyncing = FALSE
  /\ sent = <<>> /\ unsynced = {}
  /\ high = <<>> /\ low = None /\ slot = None
  /\ answers = [e \in Event |-> None] /\ booked = {}
  /\ spent = [lost |-> 0, boots |-> 0, resets |-> 0]

(* Bounds on what the environment does.                                      *)
Spend(what, most) ==
  /\ spent[what] < most
  /\ spent.lost + spent.boots + spent.resets < MaxSpent
  /\ spent' = [spent EXCEPT ![what] = @ + 1]

-----------------------------------------------------------------------------
(* send_business_event().                                                    *)

HighAfter(r) == IF Len(high) < HighDepth THEN Append(high, r) ELSE high

(* Mistakes that the properties must catch are written out where they could  *)
(* be made, each named ...Wrong and used nowhere.                            *)
ClaimWrong == 99                                           \* as good as no claim at all

(* expected_state_version: the version the operator acted on.                *)
Claim == Version

Send(type) ==
  /\ Len(sent) < MaxEvents
  /\ sent' = Append(sent, [type |-> type, ver |-> Claim, ses |-> SessionOn])
  /\ unsynced' = unsynced \cup {Len(sent) + 1}
  /\ high' = HighAfter([kind |-> "EVENT", id |-> Len(sent) + 1])
  /\ UNCHANGED <<projection, resyncing, low, slot, backend, spent>>

Scan == Send("SCAN") /\ UNCHANGED entry

-----------------------------------------------------------------------------
(* handle_business_key(): no key does anything without a snapshot or while a *)
(* resync is under way.                                                      *)

KeyAt(st) == Shown = st /\ ~resyncing
Typing    == UNCHANGED <<projection, resyncing, sent, unsynced, network, backend, spent>>

CancelKey ==
  /\ KeyAt("WAIT_OPERATION")
  /\ Send("CANCEL_REQUESTED")
  /\ UNCHANGED entry

FinishKey ==
  /\ KeyAt("SESSION_ACTIVE")
  /\ Send("FINISH_REQUESTED")
  /\ UNCHANGED entry

EntryAt(step) == KeyAt("QUANTITY_INPUT") /\ entry.step = step

Confirm(step, next) ==
  /\ EntryAt(step)
  /\ entry' = [entry EXCEPT !.step = next]
  /\ Typing

ConfirmGood ==
  /\ EntryAt("GOOD")
  /\ entry' = [step |-> "DEFECT", ses |-> SessionOn]
  /\ Typing

ConfirmDefect == Confirm("DEFECT", "REWORK_DECISION") \/ Confirm("DEFECT", "SUMMARY")
Repairable    == Confirm("REWORK_DECISION", "REWORK")
NotRepairable == Confirm("REWORK_DECISION", "SUMMARY")
ConfirmRework == Confirm("REWORK", "SUMMARY")  \* or, too large, nothing

(* The entry stays on SUMMARY until an answer comes.                         *)
Submit ==
  /\ EntryAt("SUMMARY")
  /\ Send("QUANTITY_SUBMITTED")
  /\ UNCHANGED entry

Restart ==
  /\ EntryAt("SUMMARY")
  /\ entry' = FreshEntry
  /\ UNCHANGED <<projection, resyncing, sent, unsynced, network, backend, spent>>

-----------------------------------------------------------------------------
(* check_ui_timeout(), with nothing queued or running in the HIGH tier.      *)

TimeoutCancelsWrong == {"WAIT_OPERATION", "QUANTITY_INPUT"}  \* the entry is cancelled too

(* In QUANTITY_INPUT the operator is warned, and the session stays open.     *)
TimeoutCancels == {"WAIT_OPERATION"}

IdleTimeout ==
  /\ ~resyncing /\ Shown \in TimeoutCancels /\ high = <<>>
  /\ Send("CANCEL_REQUESTED")
  /\ UNCHANGED entry

-----------------------------------------------------------------------------
(* The server: apply_event().                                                *)

Moved(st)      == [server EXCEPT !.ver = @ + 1, !.st = st]
SessionOpened  == [Moved("SESSION_ACTIVE") EXCEPT !.ses = @ + 1]

(* The states an event may leave: the one it is in stands for a rejection.   *)
Outcomes(type) ==
  CASE type = "SCAN" /\ server.st = "WAIT_EMPLOYEE"                -> {server, Moved("WAIT_OPERATION")}
    [] type = "SCAN" /\ server.st = "WAIT_OPERATION"               -> {server, SessionOpened}
    [] type = "FINISH_REQUESTED" /\ server.st = "SESSION_ACTIVE"   -> {Moved("QUANTITY_INPUT")}
    [] type = "QUANTITY_SUBMITTED" /\ server.st = "QUANTITY_INPUT" -> {Moved("WAIT_EMPLOYEE")}
    [] type = "CANCEL_REQUESTED" /\ server.st # "WAIT_EMPLOYEE"    -> {Moved("WAIT_EMPLOYEE")}
    [] OTHER                                                       -> {server}

(* /events: a claim that is out of date is a conflict; an event_id seen       *)
(* before gets the answer it got then.                                       *)
FirstAnswers(e) ==
  IF sent[e].ver < server.ver
    THEN {[out |-> "CONFLICT_RESYNC", snap |-> None]}
    ELSE {[out |-> IF after = server THEN "BUSINESS_REJECTED" ELSE "SUCCESS", snap |-> after] :
            after \in Outcomes(sent[e].type)}
AnswersTo(e) == IF answers[e] # None THEN {answers[e]} ELSE FirstAnswers(e)

Serve(e, a) ==
  LET accepted == answers[e] = None /\ a.out = "SUCCESS" IN
  /\ answers' = [answers EXCEPT ![e] = a]
  /\ server' = IF accepted THEN a.snap ELSE server
  /\ booked' = IF accepted /\ sent[e].type = "QUANTITY_SUBMITTED"
                 THEN booked \cup {<<e, server.ses>>} ELSE booked

SupervisorResets ==
  /\ Spend("resets", MaxResets)
  /\ server' = Moved("WAIT_EMPLOYEE")
  /\ UNCHANGED <<entry, projection, resyncing, sent, unsynced, network, answers, booked>>

-----------------------------------------------------------------------------
(* The network: the next request, of either tier, and its result, which may  *)
(* overwrite one that has not been polled.                                   *)

Pick(r) ==
  \/ high # <<>> /\ r = Head(high) /\ high' = Tail(high) /\ UNCHANGED low
  \/ low # None /\ r = [kind |-> "EVENT", id |-> low] /\ low' = None /\ UNCHANGED high

Request == [kind : {"EVENT"}, id : Event] \cup [kind : {"STATE_FETCH", "BOOTSTRAP"}, id : {0}]

Deposit(r, out, snap) ==
  /\ PromptLoop => slot = None
  /\ slot' = [kind |-> r.kind, id |-> r.id, out |-> out, snap |-> snap]

Execute ==
  /\ \E r \in Request :
       /\ Pick(r)
       /\ IF r.kind = "EVENT"
            THEN \E a \in AnswersTo(r.id) : Serve(r.id, a) /\ Deposit(r, a.out, a.snap)
            ELSE Deposit(r, "SUCCESS", server) /\ UNCHANGED backend
  /\ UNCHANGED <<entry, projection, resyncing, sent, unsynced, spent>>

(* The request, or the answer to it, is lost.                                *)
ExecuteFails ==
  /\ Spend("lost", MaxLost)
  /\ \E r \in Request :
       /\ Pick(r)
       /\ Deposit(r, "FAILED", None)
       /\ \/ UNCHANGED backend
          \/ r.kind = "EVENT" /\ \E a \in AnswersTo(r.id) : Serve(r.id, a)
  /\ UNCHANGED <<entry, projection, resyncing, sent, unsynced>>

(* check_offline_replay(): while HIGH is idle.  In which order is left open. *)
Replay(e) ==
  /\ e \in unsynced /\ high = <<>> /\ low = None
  /\ low' = e
  /\ UNCHANGED <<entry, projection, resyncing, sent, unsynced, high, slot, backend, spent>>

AskBootstrap ==
  /\ Spend("boots", MaxBoots)
  /\ high' = HighAfter([kind |-> "BOOTSTRAP", id |-> 0])
  /\ UNCHANGED <<entry, projection, resyncing, sent, unsynced, low, slot, backend>>

-----------------------------------------------------------------------------
(* poll().                                                                   *)

(* StateProjection::apply(): a version has one content here.                 *)
Applies(snap) == snap.ver >= projection.ver

TakeResult(kind) ==
  /\ slot # None /\ slot.kind = kind
  /\ slot' = None
  /\ UNCHANGED <<low, sent, backend, spent>>

StartResync == resyncing' = TRUE /\ high' = HighAfter([kind |-> "STATE_FETCH", id |-> 0])

(* on_bootstrap_result().                                                    *)
TakeBootstrap ==
  /\ TakeResult("BOOTSTRAP")
  /\ projection' = IF slot.out = "SUCCESS" /\ Applies(slot.snap) THEN slot.snap ELSE projection
  /\ UNCHANGED <<entry, resyncing, unsynced, high>>

(* handle_resync_result().                                                   *)
TakeStateFetch ==
  /\ TakeResult("STATE_FETCH")
  /\ IF slot.out = "SUCCESS" /\ Applies(slot.snap)
       THEN /\ projection' = slot.snap /\ resyncing' = FALSE
       ELSE UNCHANGED <<projection, resyncing>>
  /\ UNCHANGED <<entry, unsynced, high>>

TakeFailure ==
  /\ slot # None /\ slot.out = "FAILED"
  /\ TakeResult("EVENT")
  /\ UNCHANGED <<entry, projection, resyncing, unsynced, high>>

TakeConflict ==
  /\ slot # None /\ slot.out = "CONFLICT_RESYNC"
  /\ TakeResult("EVENT")
  /\ unsynced' = unsynced \ {slot.id}
  /\ StartResync
  /\ UNCHANGED <<entry, projection>>

(* apply_event_response(), with a snapshot that applies: entering            *)
(* QUANTITY_INPUT starts the entry afresh.                                   *)
TakeAnswer ==
  /\ slot # None /\ slot.out \in {"SUCCESS", "BUSINESS_REJECTED"}
  /\ TakeResult("EVENT")
  /\ Applies(slot.snap)
  /\ LET enters == Shown # "QUANTITY_INPUT" /\ slot.snap.st = "QUANTITY_INPUT"
     IN  /\ entry' = IF enters THEN FreshEntry ELSE entry
  /\ projection' = slot.snap
  /\ unsynced' = unsynced \ {slot.id}
  /\ UNCHANGED <<resyncing, high>>

(* The same with a snapshot older than the one shown.                        *)
TakeStaleAnswer ==
  /\ slot # None /\ slot.out \in {"SUCCESS", "BUSINESS_REJECTED"}
  /\ TakeResult("EVENT")
  /\ ~Applies(slot.snap)
  /\ unsynced' = unsynced \ {slot.id}
  /\ StartResync
  /\ UNCHANGED <<entry, projection>>

-----------------------------------------------------------------------------
Keys ==
  \/ CancelKey \/ FinishKey
  \/ ConfirmGood \/ ConfirmDefect \/ Repairable \/ NotRepairable \/ ConfirmRework
  \/ Submit \/ Restart

Network == Execute \/ ExecuteFails \/ (\E e \in Event : Replay(e)) \/ AskBootstrap

PollResult ==
  \/ TakeBootstrap \/ TakeStateFetch
  \/ TakeFailure \/ TakeConflict \/ TakeAnswer \/ TakeStaleAnswer

Next == Scan \/ Keys \/ IdleTimeout \/ Network \/ SupervisorResets \/ PollResult

Spec == Init /\ [][Next]_vars

-----------------------------------------------------------------------------
Snapshot == [ver : Nat, st : State, ses : Nat]

TypeOK ==
  /\ entry \in [step : Step, ses : Nat]
  /\ projection \in Snapshot /\ resyncing \in BOOLEAN
  /\ \A i \in DOMAIN sent : sent[i].type \in Type
  /\ unsynced \subseteq DOMAIN sent
  /\ high \in Seq(Request) /\ Len(high) <= HighDepth /\ low \in Event \cup {None}
  /\ server \in Snapshot

(* Figures are booked for the session the operator had on the screen when    *)
(* confirming them: an event that was lost and comes back by replay during a *)
(* later session is not booked for that one, and none is booked twice.       *)
BookedForItsSession ==
  /\ \A b \in booked : sent[b[1]].ses = b[2]
  /\ \A b, c \in booked : b[2] = c[2] => b = c

(* No key, timeout or replay of the kiosk closes an open work session but by *)
(* booking its figures; only a supervisor does.                              *)
NoSessionDiscarded ==
  [][server.st \in Open /\ server'.st \notin Open => booked' # booked \/ spent'.resets > spent.resets]_vars

-----------------------------------------------------------------------------
(* What the comments say and the code does not do.                           *)

(* kiosk_runtime.h:371: the entry starts afresh every time QUANTITY_INPUT is *)
(* entered, so that the figures on the screen belong to the session on it.   *)
EntryOfThisSession ==
  Shown = "QUANTITY_INPUT" /\ entry.step # "GOOD" => entry.ses = SessionOn
=============================================================================
