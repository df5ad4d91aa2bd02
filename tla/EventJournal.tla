---------------------------- MODULE EventJournal ----------------------------
(***************************************************************************)
(* The durable business-event journal of the kiosk: storage/event_journal  *)
(* over protocol/event_journal_core and protocol/event_journal_index.      *)
(*                                                                         *)
(* On flash the journal is an append-only file of frames (/journal.dat)    *)
(* and, while a compaction runs, /journal.dat.tmp and /journal.dat.old.    *)
(* In RAM it is an index from event_id to the record's merged status.      *)
(* The main loop is single threaded: what interleaves with one call is a   *)
(* power loss, and what interleaves with the chunks of an incremental      *)
(* compaction is every other call the loop makes.                          *)
(*                                                                         *)
(* One frame is one unit of space.  An event_id is a number in the order   *)
(* in which ids are created (device_seq); a record's other fields are      *)
(* left out, but for created_uptime_ms ("at"), which compaction sorts by.  *)
(***************************************************************************)
EXTENDS Integers, Sequences, FiniteSets, SequencesExt

CONSTANTS
  MaxEvents,      \* ids the caller ever creates
  Capacity,       \* kJournalCapacityBytes, in frames
  MaxFrames,      \* bound: the longest log explored (transitions ignore Capacity)
  Retention,      \* CompactionPolicy's count, the same for every terminal status
  RecordsPerTick, \* kCompactionRecordsPerTick
  Written,        \* the statuses the caller's transitions carry
  Blocking,       \* TRUE: compact(); FALSE: begin_compaction() + compact_tick()
  Faults          \* what may go wrong with the flash: see FaultKinds

Event    == 1..MaxEvents
Unsynced == {"PENDING", "IN_FLIGHT"}
Terminal == {"ACKED", "REJECTED", "CONFLICT", "HUMAN_REVIEW"}
Status   == Unsynced \cup Terminal

(* "cut": power is lost in the middle of a frame; "write": a write fails;    *)
(* "rename": SPIFFS.rename() fails, at boot too; "mount": SPIFFS.begin()     *)
(* fails.  SPIFFS.remove() of a file that is there does not.                 *)
FaultKinds == {"cut", "write", "rename", "mount"}

ASSUME JournalAssumption ==
  /\ MaxEvents \in Nat \ {0}
  /\ Capacity \in Nat /\ MaxFrames \in Nat
  /\ Retention \in Nat \ {0}
  /\ RecordsPerTick \in Nat \ {0}
  /\ Written \subseteq Status
  /\ Blocking \in BOOLEAN
  /\ Faults \subseteq FaultKinds

VARIABLES
  dat, tmp, old, \* the three files
  pc,            \* where the program is: see Pc
  initOk,        \* init_ok_
  records,       \* EventJournalIndex::records_
  used,          \* EventJournalIndex::used_bytes_
  active,        \* compaction_active_
  keep,          \* compaction_keep_
  copied,        \* the ids of the list that compaction_write_index_ has passed
  adrift,        \* the swap's rename back failed: the index is of the log in .old
  clock,         \* uptime, one tick for each event created since boot
  nextId,        \* the next event_id the caller creates
  owed           \* events accepted and not yet given a terminal status (history)

files == <<dat, tmp, old>>
ram   == <<initOk, records, used, adrift>>
job   == <<active, keep, copied>>
vars  == <<files, pc, ram, job, clock, nextId, owed>>

(***************************************************************************)
(* "off": no power.  "boot": init() has removed the stray temporary file.  *)
(* "loop": the main loop.  The rest are the points of                      *)
(* finish_compaction_validate_and_swap() between two calls to SPIFFS.      *)
(***************************************************************************)
Pc == {"off", "boot", "loop", "validate", "renameDat", "renameTmp", "removeOld"}

-----------------------------------------------------------------------------
(* Files and frames.  A TORN frame is one whose bytes are not all there: cut *)
(* short by a power loss or a failed write.  "id" says whose it was to be.   *)

Frame == [kind : {"EVENT", "TRANSITION", "TORN"}, id : Event, status : Status, at : Nat]

File    == [there : BOOLEAN, frames : Seq(Frame)]
NoFile  == [there |-> FALSE, frames |-> <<>>]

EventFrame(e, s, t)   == [kind |-> "EVENT", id |-> e, status |-> s, at |-> t]
TransitionFrame(e, s) == [kind |-> "TRANSITION", id |-> e, status |-> s, at |-> 0]
TornFrame(e)          == [kind |-> "TORN", id |-> e, status |-> "PENDING", at |-> 0]

(* What a frame that write() and flush() accepted is on the flash: flush()   *)
(* reports success whatever became of the bytes.                             *)
OnFlash(fr) == {fr} \cup (IF "write" \in Faults THEN {TornFrame(fr.id)} ELSE {})

(* open_for_append() creates the file if it is missing.                      *)
AppendFrame(f, fr) == [there |-> TRUE, frames |-> Append(f.frames, fr)]

(* scan_journal(): the frames before the first one that is not OK.           *)
Readable(s) == {i \in DOMAIN s : \A j \in 1..i : s[j].kind # "TORN"}
Clean(s)    == \A i \in DOMAIN s : s[i].kind # "TORN"

EventsAt(s, e) == {i \in Readable(s) : s[i].kind = "EVENT" /\ s[i].id = e}
ScanIds(s)     == {e \in Event : EventsAt(s, e) # {}}

(* apply_scanned_frame(): the first EVENT frame of an id makes its record,   *)
(* later ones are ignored, and the last TRANSITION after it sets its status. *)
FirstAt(s, e) == CHOOSE i \in EventsAt(s, e) : \A j \in EventsAt(s, e) : i <= j
UpdatesAt(s, e) ==
  {i \in Readable(s) : s[i].kind = "TRANSITION" /\ s[i].id = e /\ i > FirstAt(s, e)}
LastAt(s, e) ==
  LET c == UpdatesAt(s, e) \cup {FirstAt(s, e)} IN CHOOSE i \in c : \A j \in c : j <= i
Scan(s) == [e \in ScanIds(s) |-> [status |-> s[LastAt(s, e)].status, at |-> s[FirstAt(s, e)].at]]

(* What init() finds at the next boot, whichever file it takes the log from. *)
BootFile == IF dat.there THEN dat ELSE old
BootIds  == ScanIds(BootFile.frames)

-----------------------------------------------------------------------------
NoRecords == [e \in {} |-> [status |-> "PENDING", at |-> 0]]
Have      == DOMAIN records
InState(S) == {e \in Have : records[e].status \in S}

(* select_records_to_keep(): all that is unsynced, and of each terminal      *)
(* bucket the Retention records of largest created_uptime_ms.                *)
TrimmedTo(B, S) ==
  /\ S \subseteq B
  /\ Cardinality(S) = IF Retention < Cardinality(B) THEN Retention ELSE Cardinality(B)
  /\ \A a \in S, b \in B \ S : records[a].at >= records[b].at

(* Mistakes that the properties below must catch are written out where they  *)
(* could be made, each named ...Wrong and used nowhere.                      *)
KeepListsWrong ==                                          \* IN_FLIGHT counted as settled
  {K \in SUBSET Have : /\ InState({"PENDING"}) \subseteq K
                       /\ \A s \in Terminal \cup {"IN_FLIGHT"} :
                            TrimmedTo(InState({s}), K \cap InState({s}))}

KeepLists ==
  {K \in SUBSET Have : /\ InState(Unsynced) \subseteq K
                       /\ \A s \in Terminal : TrimmedTo(InState({s}), K \cap InState({s}))}

(* The index and the compaction state are RAM: gone when power is.           *)
RamLost == /\ records' = NoRecords /\ used' = 0 /\ initOk' = FALSE /\ adrift' = FALSE
           /\ active' = FALSE /\ keep' = {} /\ copied' = {}

JobOverWrong == keep' = {} /\ UNCHANGED <<active, copied>> \* only the list is cleared

JobOver == active' = FALSE /\ keep' = {} /\ copied' = {}

(* compact() does not return to the loop before it is done.                  *)
InLoop == pc = "loop" /\ (Blocking => ~active)

-----------------------------------------------------------------------------
Init ==
  /\ dat = NoFile /\ tmp = NoFile /\ old = NoFile
  /\ pc = "off"
  /\ initOk = FALSE /\ records = NoRecords /\ used = 0 /\ adrift = FALSE
  /\ active = FALSE /\ keep = {} /\ copied = {}
  /\ clock = 0 /\ nextId = 1 /\ owed = {}

(* init(): orphan recovery.  The stray temporary file goes first ...         *)
BootRemoveTmp ==
  /\ pc = "off"
  /\ pc' = "boot"
  /\ tmp' = NoFile
  /\ UNCHANGED <<dat, old, ram, job, clock, nextId, owed>>

BootRecoverWrong ==                                        \* .old is never put back
  /\ pc = "boot"
  /\ pc' = "loop"
  /\ dat' = dat
  /\ old' = NoFile
  /\ records' = Scan(dat'.frames)
  /\ used' = Cardinality(Readable(dat'.frames))
  /\ initOk' = TRUE
  /\ clock' = 0
  /\ UNCHANGED <<tmp, adrift, job, nextId, owed>>

(* ... then .old is either put back or removed, and the log is scanned.      *)
BootRecover ==
  /\ pc = "boot"
  /\ pc' = "loop"
  /\ dat' = BootFile
  /\ old' = NoFile
  /\ records' = Scan(dat'.frames)
  /\ used' = Cardinality(Readable(dat'.frames))
  /\ initOk' = TRUE
  /\ clock' = 0
  /\ UNCHANGED <<tmp, adrift, job, nextId, owed>>

(* The rename that is to put .old back fails, and its result is not looked   *)
(* at: there is no log to scan, and the journal takes events all the same.   *)
BootRestoreFails ==
  /\ "rename" \in Faults
  /\ pc = "boot"
  /\ ~dat.there /\ old.there
  /\ pc' = "loop"
  /\ records' = NoRecords /\ used' = 0
  /\ initOk' = TRUE
  /\ clock' = 0
  /\ UNCHANGED <<files, adrift, job, nextId, owed>>

(* SPIFFS.begin(true) cannot mount.  It formats the partition and mounts the *)
(* empty one; if that fails too the journal is unavailable for this boot.    *)
BootMountFails ==
  /\ "mount" \in Faults
  /\ pc = "off"
  /\ pc' = "loop"
  /\ \/ dat' = NoFile /\ tmp' = NoFile /\ old' = NoFile /\ initOk' = TRUE
     \/ UNCHANGED <<files, initOk>>
  /\ clock' = 0
  /\ UNCHANGED <<records, used, adrift, job, nextId, owed>>

PowerLoss ==
  /\ pc # "off"
  /\ pc' = "off"
  /\ RamLost
  /\ UNCHANGED <<files, clock, nextId, owed>>

-----------------------------------------------------------------------------
(* append_event(): decide_append(), the frame, then the index.               *)

MayAppendEvent(e) ==
  /\ InLoop /\ initOk
  /\ e = nextId /\ e \in Event
  /\ e \notin Have                 \* DUPLICATE_EVENT
  /\ used + 1 <= Capacity          \* FULL
  /\ Len(dat.frames) < MaxFrames

AppendEvent(e) ==
  /\ MayAppendEvent(e)
  /\ \E fr \in OnFlash(EventFrame(e, "PENDING", clock + 1)) : dat' = AppendFrame(dat, fr)
  /\ records' = [x \in Have \cup {e} |-> IF x = e THEN [status |-> "PENDING", at |-> clock + 1]
                                                  ELSE records[x]]
  /\ used' = used + 1
  /\ owed' = owed \cup {e}
  /\ nextId' = nextId + 1
  /\ clock' = clock + 1
  /\ UNCHANGED <<tmp, old, pc, initOk, adrift, job>>

(* append_journal_frame() returns false with part of the frame written; the  *)
(* caller is told, and the part stays in the file.                           *)
AppendEventFails(e) ==
  /\ "write" \in Faults
  /\ MayAppendEvent(e)
  /\ dat' = AppendFrame(dat, TornFrame(e))
  /\ nextId' = nextId + 1
  /\ clock' = clock + 1
  /\ UNCHANGED <<tmp, old, pc, ram, job, owed>>

(* append_transition(): no capacity check.                                   *)
MayAppendTransition(e) ==
  /\ InLoop /\ initOk
  /\ e \in Have
  /\ Len(dat.frames) < MaxFrames

AppendTransition(e, s) ==
  /\ MayAppendTransition(e)
  /\ \E fr \in OnFlash(TransitionFrame(e, s)) : dat' = AppendFrame(dat, fr)
  /\ records' = [records EXCEPT ![e].status = s]
  /\ used' = used + 1
  /\ owed' = IF s \in Terminal THEN owed \ {e} ELSE owed
  /\ UNCHANGED <<tmp, old, pc, initOk, adrift, job, clock, nextId>>

AppendTransitionFails(e) ==
  /\ "write" \in Faults
  /\ MayAppendTransition(e)
  /\ dat' = AppendFrame(dat, TornFrame(e))
  /\ UNCHANGED <<tmp, old, pc, ram, job, clock, nextId, owed>>

(* Power goes between two flushes of append_journal_frame().                 *)
PowerLossInAppend(e) ==
  /\ "cut" \in Faults
  /\ MayAppendEvent(e) \/ MayAppendTransition(e)
  /\ dat' = AppendFrame(dat, TornFrame(e))
  /\ nextId' = IF e = nextId THEN nextId + 1 ELSE nextId
  /\ pc' = "off"
  /\ RamLost
  /\ UNCHANGED <<tmp, old, clock, owed>>

-----------------------------------------------------------------------------
(* begin_compaction(), and the head of compact(): a no-op when there is      *)
(* nothing to drop.                                                          *)
BeginCompaction ==
  /\ pc = "loop" /\ initOk /\ ~active
  /\ \E K \in KeepLists :
       /\ Cardinality(K) # Cardinality(Have)
       /\ keep' = K
  /\ copied' = {}
  /\ active' = TRUE
  /\ tmp' = NoFile
  /\ UNCHANGED <<dat, old, pc, ram, clock, nextId, owed>>

(* compact_tick(): writes up to RecordsPerTick more records, each with the   *)
(* status it has NOW, and goes on to the swap after the last one.            *)
Chunk(C) ==
  LET left == keep \ copied IN
  /\ C \subseteq left
  /\ Cardinality(C) = IF RecordsPerTick < Cardinality(left) THEN RecordsPerTick ELSE Cardinality(left)

(* One EVENT frame for each id of C.  The order is that of random ids, and   *)
(* no two of these frames have an id in common.                              *)
FramesOf(C) ==
  LET q == SetToSeq(C)
  IN  [i \in DOMAIN q |-> EventFrame(q[i], records[q[i]].status, records[q[i]].at)]

CompactTick ==
  /\ pc = "loop" /\ active
  /\ \E C \in SUBSET keep :
       /\ Chunk(C)
       /\ tmp' = [there |-> TRUE, frames |-> tmp.frames \o FramesOf(C)]
       /\ copied' = copied \cup C
  /\ pc' = IF copied' = keep THEN "validate" ELSE "loop"
  /\ UNCHANGED <<dat, old, ram, active, keep, clock, nextId, owed>>

(* A write of the chunk fails and is seen to fail: give up.  The write index *)
(* stays where it is; begin_compaction() sets it back.                       *)
CompactTickFails ==
  /\ "write" \in Faults
  /\ pc = "loop" /\ active
  /\ \E C \in SUBSET keep : \E done \in SUBSET C :
       /\ Chunk(C) /\ done # C
       /\ copied' = copied \cup done
  /\ tmp' = NoFile
  /\ active' = FALSE /\ keep' = {}
  /\ UNCHANGED <<dat, old, pc, ram, clock, nextId, owed>>

(* A frame of the temporary file did not reach the flash, and nothing told.  *)
TmpFrameLost ==
  /\ "write" \in Faults
  /\ pc = "validate"
  /\ Clean(tmp.frames)
  /\ \E i \in DOMAIN tmp.frames : tmp' = [tmp EXCEPT !.frames[i] = TornFrame(@.id)]
  /\ UNCHANGED <<dat, old, pc, ram, job, clock, nextId, owed>>

TmpNotValidated == TRUE
TmpOnlyCounted  == Len(tmp.frames) = Cardinality(keep)

(* finish_compaction_validate_and_swap(): the temporary file must read back  *)
(* clean, with as many frames as the keep list has ids.                      *)
TmpIsValid == Clean(tmp.frames) /\ Len(tmp.frames) = Cardinality(keep)

ValidateTmpWrong ==                                        \* validates again instead of giving up
  /\ pc = "validate" /\ TmpIsValid
  /\ pc' = (IF dat.there THEN "renameDat" ELSE "renameTmp")
  /\ UNCHANGED <<files, ram, job, clock, nextId, owed>>

ValidateTmp ==
  /\ pc = "validate"
  /\ IF TmpIsValid
       THEN pc' = (IF dat.there THEN "renameDat" ELSE "renameTmp") /\ UNCHANGED <<tmp, job>>
       ELSE pc' = "loop" /\ tmp' = NoFile /\ JobOver
  /\ UNCHANGED <<dat, old, ram, clock, nextId, owed>>

(* SPIFFS.rename() refuses a name that is taken.                             *)
RenameDatToOld ==
  /\ pc = "renameDat"
  /\ ~old.there
  /\ old' = dat /\ dat' = NoFile
  /\ pc' = "renameTmp"
  /\ UNCHANGED <<tmp, ram, job, clock, nextId, owed>>

RenameDatFails ==
  /\ pc = "renameDat"
  /\ "rename" \in Faults \/ old.there
  /\ pc' = "loop" /\ tmp' = NoFile /\ JobOver
  /\ UNCHANGED <<dat, old, ram, clock, nextId, owed>>

RenameTmpToDat ==
  /\ pc = "renameTmp"
  /\ dat' = tmp /\ tmp' = NoFile
  /\ pc' = "removeOld"
  /\ UNCHANGED <<old, ram, job, clock, nextId, owed>>

(* The new file did not arrive: .old goes back, and the temporary file stays. *)
RenameTmpFails ==
  /\ "rename" \in Faults
  /\ pc = "renameTmp"
  /\ pc' = "loop"
  /\ \/ dat' = old /\ old' = NoFile /\ adrift' = FALSE
     \/ old.there /\ adrift' = TRUE /\ UNCHANGED <<dat, old>> \* so does the rename back
  /\ JobOver
  /\ UNCHANGED <<tmp, initOk, records, used, clock, nextId, owed>>

RebuildForgotten ==
  /\ pc = "removeOld"
  /\ old' = NoFile
  /\ pc' = "loop"
  /\ JobOver
  /\ UNCHANGED <<dat, tmp, ram, clock, nextId, owed>>

RebuildKeepsUsed ==
  /\ pc = "removeOld"
  /\ old' = NoFile
  /\ records' = [e \in keep \cap Have |-> records[e]]
  /\ pc' = "loop"
  /\ JobOver
  /\ adrift' = FALSE
  /\ UNCHANGED <<dat, tmp, used, initOk, clock, nextId, owed>>

(* rebuild_after_compaction() follows in the same breath: only RAM changes.  *)
RemoveOldAndRebuild ==
  /\ pc = "removeOld"
  /\ old' = NoFile
  /\ records' = [e \in keep \cap Have |-> records[e]]
  /\ used' = Cardinality(keep \cap Have)
  /\ adrift' = FALSE
  /\ pc' = "loop"
  /\ JobOver
  /\ UNCHANGED <<dat, tmp, initOk, clock, nextId, owed>>

-----------------------------------------------------------------------------
Compaction ==
  \/ BeginCompaction \/ CompactTick \/ CompactTickFails \/ TmpFrameLost
  \/ ValidateTmp
  \/ RenameDatToOld \/ RenameDatFails
  \/ RenameTmpToDat \/ RenameTmpFails
  \/ RemoveOldAndRebuild

Appends ==
  \E e \in Event :
    \/ AppendEvent(e) \/ AppendEventFails(e)
    \/ \E s \in Written : AppendTransition(e, s)
    \/ AppendTransitionFails(e)
    \/ PowerLossInAppend(e)

Next ==
  \/ BootRemoveTmp \/ BootRecover \/ BootRestoreFails \/ BootMountFails
  \/ PowerLoss
  \/ Appends
  \/ Compaction

Spec == Init /\ [][Next]_vars

(* The loop calls compact_tick() on every pass while a compaction is active, *)
(* and the swap is straight-line code.                                       *)
CompactionSteps ==
  \/ CompactTick \/ CompactTickFails \/ ValidateTmp
  \/ RenameDatToOld \/ RenameDatFails
  \/ RenameTmpToDat \/ RenameTmpFails
  \/ RemoveOldAndRebuild
FairSpec == Spec /\ WF_vars(CompactionSteps)

-----------------------------------------------------------------------------
TypeOK ==
  /\ dat \in File /\ tmp \in File /\ old \in File
  /\ pc \in Pc
  /\ initOk \in BOOLEAN /\ active \in BOOLEAN /\ adrift \in BOOLEAN
  /\ Have \subseteq Event
  /\ \A e \in Have : records[e] \in [status : Status, at : Nat]
  /\ used \in Nat /\ clock \in Nat /\ nextId \in 1..(MaxEvents + 1)
  /\ keep \subseteq Event /\ copied \subseteq Event
  /\ active => copied \subseteq keep
  /\ owed \subseteq Event

(* The log in use: /journal.dat, whatever a failed rename left beside it, but *)
(* for one case.  When the swap fails and so does the rename back, the index  *)
(* stays that of .old until an append starts a file it knows nothing of; only *)
(* then is nothing claimed, until a boot scans a log again.                   *)
LogInUse == IF adrift THEN old ELSE dat
LogKnown == pc = "loop" /\ initOk /\ ~(adrift /\ dat.there)

(* In the loop, the index in RAM names exactly the events of the log in use,  *)
(* unless a frame of it is torn: no append, swap, rebuild or boot puts one    *)
(* out of step with the other.  A boot that could not put .old back has no    *)
(* log, and so an empty index, and knows as much as is in what it starts then.*)
IndexMatchesFlash ==
  LogKnown /\ Clean(LogInUse.frames) => Have = ScanIds(LogInUse.frames)

(* used_bytes_, which decides FULL and when to compact, is the space the log  *)
(* in use really takes.  What a failed rename left in .old is not counted.    *)
SpaceIsAccounted ==
  LogKnown /\ Clean(LogInUse.frames) => used = Len(LogInUse.frames)

(* The swap installs only a file that reads back whole and holds every record *)
(* of the keep list, even if the flash lost a frame of it unnoticed.          *)
SwapIsValidated ==
  /\ pc \in {"renameDat", "renameTmp"} => Clean(tmp.frames) /\ ScanIds(tmp.frames) = keep
  /\ pc = "removeOld" => Clean(dat.frames) /\ ScanIds(dat.frames) = keep

(* Whatever step is taken, a power loss and a boot included, an event that    *)
(* the flash held is still recoverable after it, unless the step installs the *)
(* compacted file and the keep list left the event out.  Two ways out of it:  *)
(* a mount that fails and formats the partition, and the first append after a *)
(* rename of .old to .dat that failed, in the swap or at boot, which starts a *)
(* log beside the old one: the boot after it removes the old one.             *)
Formats       == pc = "off" /\ pc' = "loop"
StartsNewFile == pc = "loop" /\ ~dat.there /\ dat'.there
OnlyTheSwapForgets ==
  [][\A e \in BootIds :
       \/ e \in BootIds'
       \/ pc = "renameTmp" /\ e \notin keep
       \/ Formats \/ StartsNewFile]_vars

(* R1, R2, R5: an event that append_event() accepted and that no transition   *)
(* has settled is on the flash, as unsynced, at every instant.                *)
OwedIsOnFlash ==
  \A e \in owed : e \in BootIds /\ Scan(BootFile.frames)[e].status \in Unsynced

(* Seen through what a boot would recover, the journal is a durable log.     *)
AsDurableLog == [e \in BootIds |-> Scan(BootFile.frames)[e].status]

(* A compaction, once begun, ends: it swaps or it gives up.                   *)
CompactionEnds == active ~> ~active

-----------------------------------------------------------------------------
(* What the documents say and the code does not do.                          *)

(* docs/RELIABILITY.md:131 "PENDING events are never silently evicted": while *)
(* power stays on, no unsynced record leaves the index.                       *)
PendingNeverEvicted == [][pc' # "off" => InState(Unsynced) \subseteq Have']_vars

(* docs/RELIABILITY.md:86 (R5): a reboot resumes every PENDING event.         *)
RebootResumesPending == [][pc = "boot" /\ pc' = "loop" => owed \subseteq Have']_vars
=============================================================================
