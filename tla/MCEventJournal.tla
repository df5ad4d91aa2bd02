--------------------------- MODULE MCEventJournal ---------------------------
(***************************************************************************)
(* EventJournal for TLC, in one run for the two ways it compacts: "once",  *)
(* compact(), on a flash that keeps what it is given; and "ticks", what    *)
(* loop() does between its other calls, on one where everything may fail.  *)
(* With the recovery scan written as the code runs it, one frame after the *)
(* other applied to the index.                                             *)
(***************************************************************************)
EXTENDS EventJournal

VARIABLE way

(* Two events and a shorter log suffice where each write may fail.           *)
Ticks == INSTANCE EventJournal WITH
  MaxEvents <- 2, Capacity <- 3, MaxFrames <- 4, Written <- {"ACKED"},
  Blocking <- FALSE, Faults <- FaultKinds

JournalInit == way \in {"once", "ticks"} /\ Init

InWay(w, A) == way = w /\ A /\ UNCHANGED way

JournalNext == InWay("once", Next) \/ InWay("ticks", Ticks!Next)

JournalSpec ==
  /\ JournalInit /\ [][JournalNext]_<<way, vars>>
  /\ WF_<<way, vars>>(InWay("once", CompactionSteps) \/ InWay("ticks", Ticks!CompactionSteps))

-----------------------------------------------------------------------------
(* EventJournalIndex::apply_scanned_frame().                                 *)
ApplyFrame(idx, fr) ==
  CASE fr.kind = "EVENT" /\ fr.id \notin DOMAIN idx ->
         [e \in DOMAIN idx \cup {fr.id} |->
            IF e = fr.id THEN [status |-> fr.status, at |-> fr.at] ELSE idx[e]]
    [] fr.kind = "TRANSITION" /\ fr.id \in DOMAIN idx -> [idx EXCEPT ![fr.id].status = fr.status]
    [] OTHER -> idx

(* scan_journal(): stops at the first frame that is not OK.                  *)
ScanStep(acc, fr) ==
  IF acc.stop \/ fr.kind = "TORN"
    THEN [stop |-> TRUE, idx |-> acc.idx]
    ELSE [stop |-> FALSE, idx |-> ApplyFrame(acc.idx, fr)]

ScanLoop(s) ==
  LET upTo[n \in 0..Len(s)] ==
        IF n = 0 THEN [stop |-> FALSE, idx |-> NoRecords] ELSE ScanStep(upTo[n - 1], s[n])
  IN  upTo[Len(s)].idx

(* Recovery by the loop over frames and Scan, which says which frame decides *)
(* each record, agree on every log the journal can leave on the flash.       *)
ScanIsTheLoop == \A f \in {dat, tmp, old} : ScanLoop(f.frames) = Scan(f.frames)

(* EventJournal's OwedIsOnFlash, of compact() on a flash that does not fail. *)
OwedIsOnFlashOnce == way = "once" => OwedIsOnFlash

(* R1, R2, R5, R8: with compact() the journal is a durable log: every step   *)
(* of it, each write, rename and power loss of a compaction included, is one *)
(* step of DurableLog or none.                                               *)
Promise == INSTANCE DurableLog WITH
  log <- IF way = "once" THEN AsDurableLog ELSE NoRecords
ImplementsDurableLog == Promise!Spec
=============================================================================
