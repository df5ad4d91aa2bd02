---------------------------- MODULE KioskRuntime ----------------------------
(***************************************************************************)
(* How a business event gets from the operator to the server and its       *)
(* answer back to the screen: runtime/kiosk_runtime and the part of loop() *)
(* that drives it, composed with the network task (NetworkWorker), with    *)
(* the journal as the durable map of statuses it promises to be            *)
(* (DurableLog), and with the server (tools/mock_backend).                 *)
(*                                                                         *)
(* Three parties run concurrently: the main loop, one pass of which is the *)
(* four steps of LoopPc; the network task; and the server's supervisor.    *)
(* Power may go between any two steps.                                     *)
(*                                                                         *)
(* An event is the number of its device_seq.  Its content is left out, but *)
(* for the state version it was made against, and of a state snapshot the  *)
(* model keeps the version and whether the firmware knows the state.       *)
(* The device is provisioned and in the environment it expects.            *)
(***************************************************************************)
EXTENDS NetworkWorker

CONSTANTS
  MaxEvents, \* events the operator makes
  Budgets    \* how often each thing of the environment happens: see Happening

Event    == 1..MaxEvents
Unsynced == {"PENDING", "IN_FLIGHT"}
Terminal == {"ACKED", "REJECTED", "CONFLICT", "HUMAN_REVIEW"}

(* "failure": a request fails; "bootstrap", "heartbeat": one is asked for;   *)
(* "resync": asked for from the recovery menu; "move": the server's state    *)
(* changes on its own; "reconnect": Wi-Fi is back; "powerLoss": what it says.*)
Happening ==
  {"failure", "bootstrap", "heartbeat", "resync", "move", "reconnect", "powerLoss"}

ASSUME RuntimeAssumption ==
  /\ MaxEvents \in Nat \ {0}
  /\ Budgets \subseteq [Happening -> Nat]

VARIABLES
  loop,       \* where the main loop is: see LoopPc
  nextId,     \* device_seq_
  journal,    \* journal_: the status of each event
  madeAt,     \* expected_state_version in each event's payload
  replayIds,  \* replay_event_ids_ from replay_next_ on
  replaying,  \* replaying_
  resyncing,  \* resyncing_
  projection, \* state_projection_
  stash,      \* pending_bootstrap_result_ while bootstrap_result_ready_
  server,     \* the server's state for this device
  answers,    \* its idempotency store: the answer given to each event
  left        \* bound: what is left of the budget

runtime == <<journal, madeAt, nextId, replayIds, replaying, resyncing, projection, stash>>
backend == <<server, answers>>
vars    == <<worker, loop, runtime, backend, left>>

(* "input": scanner and keypad; "poll": KioskRuntime::poll() takes a result; *)
(* "replay": the end of poll(); "tail": the rest of loop().                  *)
LoopPc == {"input", "poll", "replay", "tail"}

Snapshot   == [ver : Nat, known : BOOLEAN]
NoSnapshot == [ver |-> 0, known |-> FALSE]
Answer     == [kind : {"SUCCESS", "BUSINESS_REJECTED", "CONFLICT_RESYNC"}, snap : Snapshot]

EventKinds == {"BUSINESS_EVENT", "OFFLINE_REPLAY"}
OtherKinds == {"STATE_FETCH", "BOOTSTRAP", "HEARTBEAT"}
EventRequest(k, e) == [kind |-> k, id |-> e]
OtherRequest(k)    == [kind |-> k, id |-> 0]
Request == [kind : EventKinds, id : Event] \cup {OtherRequest(k) : k \in OtherKinds}

(* What became of a request: a transport failure worth a retry or not, a     *)
(* body that does not parse, or the server's answer.                         *)
Outcome == {"retryable", "permanent", "MALFORMED", "OK",
            "SUCCESS", "BUSINESS_REJECTED", "CONFLICT_RESYNC"}
Result  == [kind : EventKinds \cup OtherKinds, id : Event \cup {0}, out : Outcome, snap : Snapshot]

ASSUME NoneAssumption == None \notin Request \cup Result \cup Answer

Spend(h) == left[h] > 0 /\ left' = [left EXCEPT ![h] = @ - 1]

Init ==
  /\ WorkerInit
  /\ loop = "input"
  /\ nextId = 1
  /\ journal = [e \in Event |-> "NONE"]
  /\ madeAt = [e \in Event |-> 0]
  /\ replayIds = <<>> /\ replaying = FALSE
  /\ resyncing = FALSE
  /\ projection = NoSnapshot
  /\ stash = None
  /\ server = [ver |-> 1, known |-> TRUE]
  /\ answers = [e \in Event |-> None]
  /\ left \in Budgets

-----------------------------------------------------------------------------
(* The server.                                                               *)

(* /events for the first time: CONFLICT if the event was made against an     *)
(* older version; else it is accepted, and the state moves on, or rejected.  *)
FirstAnswers(e) ==
  IF madeAt[e] < server.ver
    THEN {[kind |-> "CONFLICT_RESYNC", snap |-> NoSnapshot]}
    ELSE {[kind |-> "BUSINESS_REJECTED", snap |-> server]} \cup
         {[kind |-> "SUCCESS", snap |-> [ver |-> server.ver + 1, known |-> b]] : b \in BOOLEAN}

AnswersToWrong(e) == FirstAnswers(e)                       \* event_ids are not remembered

(* /events: an event_id seen before gets the answer it got then.             *)
AnswersTo(e) == IF answers[e] # None THEN {answers[e]} ELSE FirstAnswers(e)
ServeEvent(e, a) ==
  /\ answers' = [answers EXCEPT ![e] = a]
  /\ server' = IF answers[e] = None /\ a.kind = "SUCCESS" THEN a.snap ELSE server

(* A supervisor, or another terminal, changes the state.                     *)
ServerMoves ==
  /\ Spend("move")
  /\ \E b \in BOOLEAN : server' = [ver |-> server.ver + 1, known |-> b]
  /\ UNCHANGED <<worker, loop, runtime, answers>>

-----------------------------------------------------------------------------
(* The network task.                                                         *)

ResultOf(r, out, snap) == [kind |-> r.kind, id |-> r.id, out |-> out, snap |-> snap]

(* execute(), the second attempt of an event's included.  The server may     *)
(* have served a request whose outcome is a failure: the response was lost,  *)
(* or a first attempt reached it and the second was turned away.             *)
ExecuteFails ==
  /\ task = "executing"
  /\ Spend("failure")
  /\ \E out \in {"retryable", "permanent", "MALFORMED"} :
       Executed(ResultOf(req, out, NoSnapshot))
  /\ \/ UNCHANGED backend
     \/ req.kind \in EventKinds /\ \E a \in AnswersTo(req.id) : ServeEvent(req.id, a)
  /\ UNCHANGED <<loop, runtime>>

ExecuteEvent ==
  /\ task = "executing" /\ req.kind \in EventKinds
  /\ \E a \in AnswersTo(req.id) :
       /\ ServeEvent(req.id, a)
       /\ Executed(ResultOf(req, a.kind, a.snap))
  /\ UNCHANGED <<loop, runtime, left>>

ExecuteOther ==
  /\ task = "executing" /\ req.kind \in OtherKinds
  /\ Executed(ResultOf(req, "OK", server))
  /\ UNCHANGED <<loop, runtime, backend, left>>

Task ==
  \/ TaskStep /\ UNCHANGED <<loop, runtime, backend, left>>
  \/ ExecuteFails \/ ExecuteEvent \/ ExecuteOther

-----------------------------------------------------------------------------
(* Pieces of the loop.  Each leaves what it does not name to its caller.     *)

(* Mistakes that the properties must catch are written out where they could  *)
(* be made, each named ...Wrong and used nowhere.                            *)
ApplyResultWrong(snap) == IF snap.known THEN "APPLIED" ELSE "REJECTED_UNSUPPORTED"

(* StateProjection::apply(): a version never goes back, one version has one  *)
(* content, and a state the firmware does not know is never applied.         *)
ApplyResult(snap) ==
  IF ~snap.known THEN "REJECTED_UNSUPPORTED"
  ELSE IF projection = NoSnapshot \/ snap.ver > projection.ver THEN "APPLIED"
  ELSE IF snap.ver < projection.ver THEN "REJECTED_STALE"
  ELSE IF snap = projection THEN "APPLIED_IDENTICAL" ELSE "REJECTED_INCONSISTENT"
Applied(snap) == IF ApplyResult(snap) = "APPLIED" THEN snap ELSE projection

(* start_resync(): RESYNCING is shown even if the HIGH queue has no room.    *)
StartResync ==
  /\ resyncing' = TRUE
  /\ high' = HighAfter(OtherRequest("STATE_FETCH"))

(* pending_in_device_seq_order(): those of S, the lowest number first.       *)
ByDeviceSeq(S) ==
  LET upTo[n \in 0..MaxEvents] ==
        IF n = 0 THEN <<>> ELSE IF n \in S THEN Append(upTo[n - 1], n) ELSE upTo[n - 1]
  IN  upTo[MaxEvents]

UnsyncedInOrderWrong ==                                    \* IN_FLIGHT is not replayed
  ByDeviceSeq({e \in Event : journal[e] = "PENDING"})

(* start_offline_replay_if_needed(): all that is unsynced, when nothing is   *)
(* left of the last list.                                                    *)
UnsyncedInOrder == ByDeviceSeq({e \in Event : journal[e] \in Unsynced})
ReplayList == IF replaying \/ replayIds # <<>> THEN replayIds ELSE UnsyncedInOrder

(* append_transition(): of an event the journal has.                         *)
SetStatus(e, s) ==
  journal' = IF journal[e] = "NONE" THEN journal ELSE [journal EXCEPT ![e] = s]

-----------------------------------------------------------------------------
(* "input".                                                                  *)

(* handle_scan() and send_business_event().  A key press and the idle        *)
(* timeout's cancellation take the same path under stricter conditions.      *)
(* append_event() may fail: the event is given up, its device_seq is spent.  *)
SendBusinessEvent ==
  LET e == nextId IN
  /\ loop = "input"
  /\ e \in Event
  /\ madeAt' = [madeAt EXCEPT ![e] = projection.ver]
  /\ journal' = [journal EXCEPT ![e] = IF HighHasRoom THEN "IN_FLIGHT" ELSE "PENDING"]
  /\ high' = HighAfter(EventRequest("BUSINESS_EVENT", e))
  /\ nextId' = nextId + 1
  /\ loop' = "poll"
  /\ UNCHANGED <<low, task, req, slot, replayIds, replaying, resyncing, projection, stash,
                 backend, left>>

NotDurableWrong ==                                         \* sent although it is not journaled
  /\ loop = "input"
  /\ nextId \in Event
  /\ nextId' = nextId + 1
  /\ high' = HighAfter(EventRequest("BUSINESS_EVENT", nextId))
  /\ Spend("failure")
  /\ loop' = "poll"
  /\ UNCHANGED <<low, task, req, slot, journal, madeAt, replayIds, replaying, resyncing,
                 projection, stash, backend>>

NotDurable ==
  /\ loop = "input"
  /\ nextId \in Event
  /\ nextId' = nextId + 1
  /\ Spend("failure")
  /\ loop' = "poll"
  /\ UNCHANGED <<worker, journal, madeAt, replayIds, replaying, resyncing, projection, stash,
                 backend>>

(* request_manual_resync(), from the recovery menu.                          *)
ManualResync ==
  /\ loop = "input"
  /\ Spend("resync")
  /\ StartResync
  /\ loop' = "poll"
  /\ UNCHANGED <<low, task, req, slot, journal, madeAt, nextId, replayIds, replaying, projection,
                 stash, backend>>

NoInput ==
  /\ loop = "input"
  /\ loop' = "poll"
  /\ UNCHANGED <<worker, runtime, backend, left>>

-----------------------------------------------------------------------------
(* "poll": NetworkWorker::poll(), and the dispatch on the kind of result.    *)

NoResult ==
  /\ loop = "poll" /\ slot = None
  /\ loop' = "replay"
  /\ UNCHANGED <<worker, runtime, backend, left>>

TakeResult(kinds) ==
  /\ loop = "poll" /\ slot # None /\ slot.kind \in kinds
  /\ slot' = None
  /\ loop' = "replay"
  /\ UNCHANGED <<low, task, req, madeAt, nextId, backend, left>>

(* handle_resync_result(): RESYNCING ends only if the snapshot applies.      *)
TakeStateFetch ==
  /\ TakeResult({"STATE_FETCH"})
  /\ IF slot.out = "OK" /\ ApplyResult(slot.snap) \in {"APPLIED", "APPLIED_IDENTICAL"}
       THEN projection' = Applied(slot.snap) /\ resyncing' = FALSE
       ELSE UNCHANGED <<projection, resyncing>>
  /\ UNCHANGED <<high, journal, replayIds, replaying, stash>>

(* Kept for loop(), which asks for it later in this pass if Wi-Fi is up.     *)
TakeBootstrap ==
  /\ TakeResult({"BOOTSTRAP"})
  /\ stash' = slot
  /\ UNCHANGED <<high, journal, replayIds, replaying, resyncing, projection>>

TakeHeartbeat ==
  /\ TakeResult({"HEARTBEAT"})
  /\ UNCHANGED <<high, journal, replayIds, replaying, resyncing, projection, stash>>

StatusAfterWrong(out) ==                                   \* any answer at all counts as done
  CASE out = "retryable"         -> "PENDING"
    [] out = "permanent"         -> "HUMAN_REVIEW"
    [] out = "CONFLICT_RESYNC"   -> "CONFLICT"
    [] out = "BUSINESS_REJECTED" -> "REJECTED"
    [] OTHER                     -> "ACKED"

(* The status an event's result gives it: apply_event_response(), and the    *)
(* transport failures before it.                                             *)
StatusAfter(out) ==
  CASE out \in {"retryable", "MALFORMED"} -> "PENDING"
    [] out = "permanent"                  -> "HUMAN_REVIEW"
    [] out = "CONFLICT_RESYNC"            -> "CONFLICT"
    [] out = "BUSINESS_REJECTED"          -> "REJECTED"
    [] out = "SUCCESS"                    -> "ACKED"

HasSnapshot(r) == r.out \in {"SUCCESS", "BUSINESS_REJECTED"}
NeedsResync(r) ==
  \/ r.out = "CONFLICT_RESYNC"
  \/ HasSnapshot(r) /\ ApplyResult(r.snap) \in {"REJECTED_STALE", "REJECTED_INCONSISTENT"}

TakeEventResultWrong ==                                    \* a failure returns before it is over
  /\ TakeResult(EventKinds)
  /\ replaying' = (replaying /\ slot.out = "retryable")
  /\ replayIds' = IF replaying /\ ~replaying' THEN Tail(replayIds) ELSE replayIds
  /\ SetStatus(slot.id, StatusAfter(slot.out))
  /\ projection' = IF HasSnapshot(slot) THEN Applied(slot.snap) ELSE projection
  /\ IF NeedsResync(slot) THEN StartResync ELSE UNCHANGED <<resyncing, high>>
  /\ UNCHANGED stash

(* was_replay is replaying_, whatever the kind of the result: the list       *)
(* advances by one.                                                          *)
TakeEventResult ==
  /\ TakeResult(EventKinds)
  /\ replaying' = FALSE
  /\ replayIds' = IF replaying THEN Tail(replayIds) ELSE replayIds
  /\ SetStatus(slot.id, StatusAfter(slot.out))
  /\ projection' = IF HasSnapshot(slot) THEN Applied(slot.snap) ELSE projection
  /\ IF NeedsResync(slot) THEN StartResync ELSE UNCHANGED <<resyncing, high>>
  /\ UNCHANGED stash

-----------------------------------------------------------------------------
(* "replay": every 30 s start_offline_replay_if_needed(), and every time     *)
(* check_offline_replay().                                                   *)

CheckOfflineReplay(ids) ==
  LET go == ids # <<>> /\ ~replaying /\ ~HighPriorityBusy IN
  /\ replayIds' = IF go /\ journal[Head(ids)] = "NONE" THEN Tail(ids) ELSE ids
  /\ replaying' = (replaying \/ (go /\ journal[Head(ids)] # "NONE" /\ LowHasRoom))
  /\ low' = IF go /\ journal[Head(ids)] # "NONE"
              THEN LowAfter(EventRequest("OFFLINE_REPLAY", Head(ids))) ELSE low

EndOfPoll(ids) ==
  /\ loop = "replay"
  /\ CheckOfflineReplay(ids)
  /\ loop' = "tail"
  /\ UNCHANGED <<high, task, req, slot, journal, madeAt, nextId, resyncing, projection, stash,
                 backend, left>>

PollEnds         == EndOfPoll(replayIds)
PollEndsFallback == EndOfPoll(ReplayList)

-----------------------------------------------------------------------------
(* "tail": the rest of loop().  When it asks for a bootstrap is left open.   *)

TailDone ==
  /\ loop = "tail"
  /\ loop' = "input"
  /\ UNCHANGED <<low, task, req, slot, journal, madeAt, nextId, replaying, resyncing, backend>>

NothingMore ==
  /\ TailDone
  /\ UNCHANGED <<high, replayIds, projection, stash, left>>

Reconnected ==
  /\ TailDone
  /\ Spend("reconnect")
  /\ replayIds' = ReplayList
  /\ UNCHANGED <<high, projection, stash>>

AskBootstrap ==
  /\ TailDone
  /\ Spend("bootstrap")
  /\ high' = HighAfter(OtherRequest("BOOTSTRAP"))
  /\ UNCHANGED <<replayIds, projection, stash>>

(* take_bootstrap_result(), on_bootstrap_result() and the start of a replay. *)
TakeStash ==
  /\ TailDone
  /\ stash # None
  /\ stash' = None
  /\ IF stash.out = "OK"
       THEN projection' = Applied(stash.snap) /\ replayIds' = ReplayList
       ELSE UNCHANGED <<projection, replayIds>>
  /\ UNCHANGED <<high, left>>

Heartbeat ==
  /\ loop = "tail" /\ loop' = "input"
  /\ Spend("heartbeat")
  /\ low' = LowAfter(OtherRequest("HEARTBEAT"))
  /\ UNCHANGED <<high, task, req, slot, runtime, backend>>

-----------------------------------------------------------------------------
(* All of RAM goes, the queues and the slot with it; what the task was       *)
(* executing has reached the server by now, or never will.                   *)
PowerLoss ==
  /\ Spend("powerLoss")
  /\ high' = <<>> /\ low' = <<>> /\ task' = "checkHigh" /\ req' = None /\ slot' = None
  /\ loop' = "input"
  /\ replayIds' = <<>> /\ replaying' = FALSE
  /\ resyncing' = FALSE
  /\ projection' = NoSnapshot
  /\ stash' = None
  /\ UNCHANGED <<journal, madeAt, nextId, backend>>

Input      == SendBusinessEvent \/ NotDurable \/ ManualResync \/ NoInput
PollResult == NoResult \/ TakeStateFetch \/ TakeBootstrap \/ TakeHeartbeat \/ TakeEventResult
LoopTail   == NothingMore \/ Reconnected \/ AskBootstrap \/ TakeStash \/ Heartbeat
Loop       == Input \/ PollResult \/ PollEnds \/ PollEndsFallback \/ LoopTail

Next == Loop \/ Task \/ ServerMoves \/ PowerLoss

(* The loop and the task are never suspended for good, a bootstrap result    *)
(* that is kept is asked for, and the 30 s timer fires again and again.      *)
Spec ==
  /\ Init /\ [][Next]_vars
  /\ WF_vars(Loop) /\ WF_vars(Task)
  /\ SF_vars(PollEndsFallback) /\ SF_vars(TakeStash)

-----------------------------------------------------------------------------
TypeOK ==
  /\ WorkerTypeOK(Request, Result)
  /\ loop \in LoopPc /\ nextId \in 1..(MaxEvents + 1)
  /\ journal \in [Event -> Unsynced \cup Terminal \cup {"NONE"}]
  /\ madeAt \in [Event -> Nat]
  /\ replayIds \in Seq(Event) /\ replaying \in BOOLEAN
  /\ resyncing \in BOOLEAN
  /\ projection \in Snapshot
  /\ stash \in Result \cup {None}
  /\ server \in Snapshot
  /\ answers \in [Event -> Answer \cup {None}]
  /\ left \in [Happening -> Nat]

(* R1: what the server has been asked, or is about to be asked, is in the    *)
(* journal first.  A power loss leaves no event at the server that the       *)
(* kiosk knows nothing of.                                                   *)
OnItsWay == {high[i].id : i \in DOMAIN high} \cup {low[i].id : i \in DOMAIN low}
              \cup (IF req = None THEN {} ELSE {req.id})
JournaledBeforeSent ==
  /\ \A e \in OnItsWay \ {0} : journal[e] # "NONE"
  /\ \A e \in Event : answers[e] # None => journal[e] # "NONE"

(* A status that says what the server decided of an event is what it did     *)
(* decide of that event, whichever request brought the answer and however    *)
(* the results of live events and of replays are mixed up.                   *)
SettledAsDecided ==
  \A e \in Event :
    /\ journal[e] = "ACKED"    => answers[e] # None /\ answers[e].kind = "SUCCESS"
    /\ journal[e] = "REJECTED" => answers[e] # None /\ answers[e].kind = "BUSINESS_REJECTED"
    /\ journal[e] = "CONFLICT" => answers[e] # None /\ answers[e].kind = "CONFLICT_RESYNC"

(* Once the server's decision on an event is recorded, no other ever is.  A  *)
(* second request for the event that fails may put its record back to        *)
(* PENDING or send it to HUMAN_REVIEW (kiosk_runtime.cpp:1228), but if it is *)
(* settled by a decision afterwards, it is by the same one.                  *)
Decided == {"ACKED", "REJECTED", "CONFLICT"}
DecisionIsFinal ==
  \A e \in Event, d \in Decided :
    [](journal[e] = d => [](journal[e] \in Decided => journal[e] = d))

(* When the loop keeps up with the task, replaying_ is up only while a       *)
(* replay is with the task or its result in the slot, whatever other results *)
(* come in between: "a single stuck item can never wedge the rest of the     *)
(* backlog" (kiosk_runtime.cpp:1137-1141).                                   *)
UnderWay ==
  {high[i] : i \in DOMAIN high} \cup {low[i] : i \in DOMAIN low} \cup ({req, slot} \ {None})
ReplayIsUnderWay ==
  PromptLoop /\ replaying => \E r \in UnderWay : r.kind = "OFFLINE_REPLAY"

(* What is on the screen is a state the server has been in, and never one    *)
(* older than the one shown before, however late an answer comes.            *)
ProjectionNeverRegresses ==
  [][\/ projection' = NoSnapshot /\ left'["powerLoss"] < left["powerLoss"]
     \/ projection'.ver > projection.ver /\ projection'.ver <= server.ver
     \/ projection' = projection]_vars

(* Every event the journal holds is settled in the end, when failures end:   *)
(* by its own request, or by the 30 s fallback after a failure, a full queue *)
(* or a power loss.                                                          *)
EventuallySettled ==
  \A e \in Event : journal[e] \in Unsynced ~> journal[e] \in Terminal

-----------------------------------------------------------------------------
(* What the comments say and the code does not do.                           *)

(* kiosk_runtime.cpp:444: a resync that found no room, or failed, is retried.*)
ResyncEnds == resyncing ~> ~resyncing
=============================================================================
