------------------------- MODULE EventJournalProofs -------------------------
(***************************************************************************)
(* Proofs about EventJournal, for every number of events, every capacity,  *)
(* retention and chunk size, and every set of flash faults: the types and  *)
(* the swap, then what the index and used_bytes_ have to do with the log;  *)
(* that compact() on a flash that does not fail makes it a durable log;    *)
(* and that the loop of the recovery computes Scan, of any log.            *)
(***************************************************************************)
EXTENDS MCEventJournal, FiniteSetTheorems, SequenceTheorems, TLAPS

-----------------------------------------------------------------------------
(* Sets of numbers and enumerations of sets.                                 *)

(* A set of indices of a log that is not empty has a least and a greatest    *)
(* element: the scan finds a first EVENT frame of each id, and a last frame  *)
(* that sets its status.  The intervals below the elements of the set are    *)
(* finite, and finite sets are well-founded under strict inclusion.          *)
LEMMA LeastExists ==
  ASSUME NEW T, T \subseteq Nat, T # {}
  PROVE  \E m \in T : \A j \in T : m <= j
<1> DEFINE R == StrictSubsetOrdering(Nat)
           I == {1..t : t \in T}
<1>1. I \subseteq FiniteSubsetsOf(Nat) /\ I # {}
  <2>1. ASSUME NEW t \in T PROVE 1..t \in FiniteSubsetsOf(Nat)
    <3>1. t \in Int /\ 1..t \subseteq Nat
      OBVIOUS
    <3>2. IsFiniteSet(1..t)
      BY <3>1, FS_Interval
    <3>. QED  BY <3>1, <3>2 DEF FiniteSubsetsOf
  <2>. QED  BY <2>1
<1>2. \E X \in I : \A Y \in I : ~(<<Y, X>> \in R)
  <2>1. IsWellFoundedOn(R, FiniteSubsetsOf(Nat))
    BY FS_StrictSubsetOrderingWellFounded
  <2>. HIDE DEF R, I
  <2>. QED  BY <1>1, <2>1, WFMin
<1>3. PICK m \in T : \A j \in T : ~(<<1..j, 1..m>> \in R)
  BY <1>2
<1>4. ASSUME NEW j \in T, j < m PROVE FALSE
  <2>1. 1..j \subseteq 1..m /\ 1..j # 1..m
    <3>1. m \in 1..m /\ m \notin 1..j
      BY <1>4
    <3>. QED  BY <1>4, <3>1
  <2>2. 1..j \in SUBSET Nat /\ 1..m \in SUBSET Nat
    OBVIOUS
  <2>. QED  BY <1>3, <2>1, <2>2 DEF StrictSubsetOrdering
<1>. QED  BY <1>3, <1>4

LEMMA GreatestExists ==
  ASSUME NEW n \in Nat, NEW T, T \subseteq 1..n, T # {}
  PROVE  \E m \in T : \A j \in T : j <= m
<1> DEFINE D == {n - t : t \in T}
<1>1. D \subseteq Nat /\ D # {}
  <2>1. ASSUME NEW t \in T PROVE n - t \in Nat
    <3>1. t \in 1..n
      OBVIOUS
    <3>. QED  BY <3>1
  <2>. QED  BY <2>1
<1>2. PICK d \in D : \A j \in D : d <= j
  <2>. HIDE DEF D
  <2>. QED  BY <1>1, LeastExists
<1>3. PICK m \in T : d = n - m
  BY <1>2
<1>4. ASSUME NEW j \in T PROVE j <= m
  <2>1. j \in 1..n /\ m \in 1..n
    OBVIOUS
  <2>2. n - m <= n - j
    BY <1>2, <1>3
  <2>. QED  BY <2>1, <2>2
<1>. QED  BY <1>4

(* SetToSeq lists the elements of a finite set, each of them once: a chunk of *)
(* a compaction has one frame for each of its records.                       *)
LEMMA EnumerationOfSet ==
  ASSUME NEW C, IsFiniteSet(C)
  PROVE  /\ SetToSeq(C) \in Seq(C)
         /\ Len(SetToSeq(C)) = Cardinality(C)
         /\ DOMAIN SetToSeq(C) = 1..Cardinality(C)
         /\ {SetToSeq(C)[i] : i \in 1..Cardinality(C)} = C
<1> DEFINE n == Cardinality(C)
           q == SetToSeq(C)
<1>1. n \in Nat /\ ExistsBijection(1..n, C)
  BY FS_CardinalityType
<1>2. q \in [1..n -> C] /\ IsInjective(q)
  <2>1. \E f \in [1..n -> C] : IsInjective(f)
    BY <1>1 DEF ExistsBijection, Bijection, Injection
  <2>. QED  BY <2>1 DEF SetToSeq
<1>. HIDE DEF q
<1>3. \A x \in C : \E i \in 1..n : q[i] = x
  <2>1. q \in Injection(1..n, C)
    BY <1>2 DEF Injection
  <2>2. IsFiniteSet(1..n) /\ Cardinality(1..n) = n
    BY <1>1, FS_Interval
  <2>3. q \in Surjection(1..n, C)
    BY <2>1, <2>2, FS_Injection
  <2>. QED  BY <2>3 DEF Surjection
<1>4. q \in Seq(C) /\ Len(q) = n /\ DOMAIN q = 1..n
  BY <1>1, <1>2
<1>5. {q[i] : i \in 1..n} = C
  BY <1>2, <1>3
<1>. QED  BY <1>4, <1>5 DEF q

LEMMA EventIsFinite == IsFiniteSet(Event)
  BY JournalAssumption, FS_Interval DEF Event

-----------------------------------------------------------------------------
(* Frames, files and the scan.                                               *)

LEMMA FrameTypes ==
  ASSUME NEW e \in Event, NEW s \in Status, NEW t \in Nat
  PROVE  /\ EventFrame(e, s, t) \in Frame /\ TransitionFrame(e, s) \in Frame
         /\ TornFrame(e) \in Frame
         /\ OnFlash(EventFrame(e, s, t)) \subseteq Frame
         /\ OnFlash(TransitionFrame(e, s)) \subseteq Frame
<1>1. EventFrame(e, s, t) \in Frame /\ TransitionFrame(e, s) \in Frame /\ TornFrame(e) \in Frame
  BY DEF EventFrame, TransitionFrame, TornFrame, Frame, Status, Unsynced
<1>2. EventFrame(e, s, t).id = e /\ TransitionFrame(e, s).id = e
  BY DEF EventFrame, TransitionFrame
<1>. QED  BY <1>1, <1>2 DEF OnFlash

LEMMA AppendFrameType ==
  ASSUME NEW f \in File, NEW fr \in Frame
  PROVE  AppendFrame(f, fr) \in File
  BY DEF AppendFrame, File

LEMMA NoFileType == NoFile \in File
  BY DEF NoFile, File

(* The scan of any log yields a well-formed index: each id it names has a    *)
(* first EVENT frame and a last frame that sets its status.                  *)
LEMMA ScanType ==
  ASSUME NEW s \in Seq(Frame)
  PROVE  /\ DOMAIN Scan(s) = ScanIds(s)
         /\ ScanIds(s) \subseteq Event
         /\ \A e \in ScanIds(s) : Scan(s)[e] \in [status : Status, at : Nat]
<1>1. DOMAIN Scan(s) = ScanIds(s) /\ ScanIds(s) \subseteq Event
  BY DEF Scan, ScanIds
<1>2. DOMAIN s = 1..Len(s) /\ Len(s) \in Nat
  OBVIOUS
<1>3. Readable(s) \subseteq 1..Len(s)
  BY <1>2 DEF Readable
<1>4. ASSUME NEW e \in ScanIds(s)
      PROVE  Scan(s)[e] \in [status : Status, at : Nat]
  <2>1. EventsAt(s, e) \subseteq 1..Len(s) /\ EventsAt(s, e) # {}
    BY <1>3 DEF EventsAt, ScanIds
  <2>2. FirstAt(s, e) \in EventsAt(s, e)
    <3>1. \E m \in EventsAt(s, e) : \A j \in EventsAt(s, e) : m <= j
      BY <2>1, LeastExists
    <3>. QED  BY <3>1 DEF FirstAt
  <2> DEFINE c == UpdatesAt(s, e) \cup {FirstAt(s, e)}
  <2>3. c \subseteq 1..Len(s) /\ c # {}
    BY <1>3, <2>1, <2>2 DEF UpdatesAt
  <2>4. LastAt(s, e) \in c
    <3>1. \E m \in c : \A j \in c : j <= m
      <4>. HIDE DEF c
      <4>. QED  BY <1>2, <2>3, GreatestExists
    <3>. QED  BY <3>1 DEF LastAt
  <2>5. s[LastAt(s, e)] \in Frame /\ s[FirstAt(s, e)] \in Frame
    BY <1>2, <2>1, <2>2, <2>3, <2>4, ElementOfSeq
  <2>6. s[LastAt(s, e)].status \in Status /\ s[FirstAt(s, e)].at \in Nat
    BY <2>5 DEF Frame
  <2>. QED  BY <2>6 DEF Scan
<1>. QED  BY <1>1, <1>4

(* What the scan reads of a log is a number of frames.                       *)
LEMMA ReadableCount ==
  ASSUME NEW s \in Seq(Frame)
  PROVE  Cardinality(Readable(s)) \in Nat
<1>1. Len(s) \in Nat /\ Readable(s) \subseteq 1..Len(s)
  BY DEF Readable
<1>2. IsFiniteSet(1..Len(s))
  BY <1>1, FS_Interval
<1>. QED  BY <1>1, <1>2, FS_Subset, FS_CardinalityType

-----------------------------------------------------------------------------
(* The inductive invariant.                                                  *)

(* A compaction keeps records that the index still has: appends only add to  *)
(* it.  No compaction is under way at a boot.                                *)
KeepInv == keep \subseteq Have /\ (pc \in {"off", "boot"} => keep = {} /\ ~active)

(* While it is written, and until it is validated, the temporary file has    *)
(* EVENT frames only, whole or torn, one or more for each record copied and  *)
(* none for another; when the last record is copied, copied is keep.         *)
IdsIn(s) == {s[i].id : i \in DOMAIN s}
EventFramesOnly(s) == \A i \in DOMAIN s : s[i].kind \in {"EVENT", "TORN"}
TmpInv ==
  /\ (pc = "loop" /\ active) \/ pc = "validate" =>
       EventFramesOnly(tmp.frames) /\ IdsIn(tmp.frames) = copied
  /\ pc = "validate" => copied = keep

IInv == TypeOK /\ KeepInv /\ TmpInv /\ SwapIsValidated

LEMMA InitIInv == Init => IInv
<1>. SUFFICES ASSUME Init PROVE IInv
  OBVIOUS
<1>. USE DEF Init
<1>1. TypeOK
  <2>1. DOMAIN records = {}
    BY DEF NoRecords
  <2>2. 1 \in 1..(MaxEvents + 1)
    BY JournalAssumption
  <2>. QED  BY <2>1, <2>2, NoFileType DEF TypeOK, Pc, Have
<1>2. KeepInv /\ TmpInv /\ SwapIsValidated
  BY DEF KeepInv, TmpInv, SwapIsValidated, Have
<1>. QED  BY <1>1, <1>2 DEF IInv

(* The frames of one chunk.                                                  *)
LEMMA FramesOfType ==
  ASSUME TypeOK, NEW C, C \subseteq Have
  PROVE  /\ FramesOf(C) \in Seq(Frame)
         /\ EventFramesOnly(FramesOf(C))
         /\ IdsIn(FramesOf(C)) = C
<1> DEFINE q == SetToSeq(C)
           n == Cardinality(C)
<1>1. IsFiniteSet(C)
  BY EventIsFinite, FS_Subset DEF TypeOK
<1>2. q \in Seq(C) /\ Len(q) = n /\ DOMAIN q = 1..n /\ {q[i] : i \in 1..n} = C /\ n \in Nat
  BY <1>1, EnumerationOfSet, FS_CardinalityType
<1>. HIDE DEF q, n
<1>3. FramesOf(C) = [i \in 1..n |-> EventFrame(q[i], records[q[i]].status, records[q[i]].at)]
  BY <1>2 DEF FramesOf, q
<1>4. ASSUME NEW i \in 1..n
      PROVE  /\ FramesOf(C)[i] \in Frame
             /\ FramesOf(C)[i].kind = "EVENT" /\ FramesOf(C)[i].id = q[i]
  <2>1. q[i] \in C
    BY <1>2
  <2>2. q[i] \in Event /\ records[q[i]] \in [status : Status, at : Nat]
    BY <2>1 DEF TypeOK
  <2>3. FramesOf(C)[i] = EventFrame(q[i], records[q[i]].status, records[q[i]].at)
    BY <1>3
  <2>4. FramesOf(C)[i].kind = "EVENT" /\ FramesOf(C)[i].id = q[i]
    BY <2>3 DEF EventFrame
  <2>5. FramesOf(C)[i] \in Frame
    BY <2>2, <2>3, FrameTypes
  <2>. QED  BY <2>4, <2>5
<1>5. DOMAIN FramesOf(C) = 1..n
  BY <1>3
<1>6. FramesOf(C) \in Seq(Frame)
  BY <1>2, <1>3, <1>4, <1>5, SeqDef
<1>7. EventFramesOnly(FramesOf(C))
  BY <1>4, <1>5 DEF EventFramesOnly
<1>8. IdsIn(FramesOf(C)) = C
  BY <1>2, <1>4, <1>5 DEF IdsIn
<1>. QED  BY <1>6, <1>7, <1>8

(* Appending one log of EVENT frames to another.                             *)
LEMMA ConcatFrames ==
  ASSUME NEW s \in Seq(Frame), NEW t \in Seq(Frame), EventFramesOnly(s), EventFramesOnly(t)
  PROVE  /\ s \o t \in Seq(Frame)
         /\ EventFramesOnly(s \o t)
         /\ IdsIn(s \o t) = IdsIn(s) \cup IdsIn(t)
<1> DEFINE u == s \o t
<1>1. /\ u \in Seq(Frame) /\ Len(u) = Len(s) + Len(t)
      /\ \A i \in 1..(Len(s) + Len(t)) : u[i] = IF i <= Len(s) THEN s[i] ELSE t[i - Len(s)]
  BY ConcatProperties
<1>2. /\ Len(s) \in Nat /\ DOMAIN s = 1..Len(s)
      /\ Len(t) \in Nat /\ DOMAIN t = 1..Len(t)
      /\ DOMAIN u = 1..(Len(s) + Len(t))
  BY <1>1, LenProperties
<1>. HIDE DEF u
<1>3. \A i \in DOMAIN u : u[i] \in {s[j] : j \in DOMAIN s} \cup {t[j] : j \in DOMAIN t}
  <2>. SUFFICES ASSUME NEW i \in DOMAIN u
                PROVE  u[i] \in {s[j] : j \in DOMAIN s} \cup {t[j] : j \in DOMAIN t}
    OBVIOUS
  <2>1. CASE i <= Len(s)
    BY <1>1, <1>2, <2>1
  <2>2. CASE ~(i <= Len(s))
    <3>1. i - Len(s) \in DOMAIN t
      BY <1>2, <2>2
    <3>2. u[i] = t[i - Len(s)]
      BY <1>1, <1>2, <2>2
    <3>. QED  BY <3>1, <3>2
  <2>. QED  BY <2>1, <2>2
<1>4. \A j \in DOMAIN s : j \in DOMAIN u /\ u[j] = s[j]
  BY <1>1, <1>2
<1>5. \A j \in DOMAIN t : j + Len(s) \in DOMAIN u /\ u[j + Len(s)] = t[j]
  <2>. SUFFICES ASSUME NEW j \in DOMAIN t
                PROVE  j + Len(s) \in DOMAIN u /\ u[j + Len(s)] = t[j]
    OBVIOUS
  <2>1. j + Len(s) \in 1..(Len(s) + Len(t)) /\ ~(j + Len(s) <= Len(s))
    BY <1>2
  <2>2. (j + Len(s)) - Len(s) = j
    BY <1>2
  <2>. QED  BY <1>1, <1>2, <2>1, <2>2
<1>6. EventFramesOnly(u)
  BY <1>3 DEF EventFramesOnly
<1>7. IdsIn(u) = IdsIn(s) \cup IdsIn(t)
  BY <1>3, <1>4, <1>5 DEF IdsIn
<1>. QED  BY <1>1, <1>6, <1>7 DEF u

(* A log of EVENT frames that reads back clean holds exactly the ids in it.  *)
LEMMA CleanScan ==
  ASSUME NEW s \in Seq(Frame), EventFramesOnly(s), Clean(s)
  PROVE  ScanIds(s) = IdsIn(s)
<1>1. DOMAIN s = 1..Len(s) /\ Len(s) \in Nat
  OBVIOUS
<1>2. Readable(s) = DOMAIN s
  BY <1>1 DEF Readable, Clean
<1>3. \A i \in DOMAIN s : s[i].kind = "EVENT" /\ s[i].id \in Event
  <2>. SUFFICES ASSUME NEW i \in DOMAIN s PROVE s[i].kind = "EVENT" /\ s[i].id \in Event
    OBVIOUS
  <2>1. s[i] \in Frame
    BY <1>1, ElementOfSeq
  <2>2. s[i].kind = "EVENT"
    BY DEF EventFramesOnly, Clean
  <2>. QED  BY <2>1, <2>2 DEF Frame
<1>. QED  BY <1>2, <1>3 DEF ScanIds, EventsAt, IdsIn

-----------------------------------------------------------------------------
(* Every step preserves the type invariant.                                  *)

LEMMA StepTypeOK == IInv /\ [Next]_vars => TypeOK'
<1>. SUFFICES ASSUME TypeOK, KeepInv, [Next]_vars PROVE TypeOK'
  BY DEF IInv
<1>. USE DEF TypeOK, Have, Pc
<1>1. CASE BootRemoveTmp
  BY <1>1, NoFileType DEF BootRemoveTmp, ram, job
<1>2. CASE BootRecover
  <2>1. dat' \in File
    BY <1>2 DEF BootRecover, BootFile
  <2>2. dat'.frames \in Seq(Frame)
    BY <2>1 DEF File
  <2>3. /\ DOMAIN records' \subseteq Event
        /\ \A e \in DOMAIN records' : records'[e] \in [status : Status, at : Nat]
    BY <1>2, <2>2, ScanType DEF BootRecover
  <2>4. used' \in Nat
    BY <1>2, <2>2, ReadableCount DEF BootRecover
  <2>. QED  BY <1>2, <2>1, <2>3, <2>4, NoFileType DEF BootRecover, job
<1>3. CASE BootMountFails \/ BootRestoreFails
  <2>1. CASE BootMountFails
    BY <2>1, NoFileType DEF BootMountFails, files, job
  <2>2. CASE BootRestoreFails
    <3>1. DOMAIN records' = {}
      BY <2>2 DEF BootRestoreFails, NoRecords
    <3>. QED  BY <2>2, <3>1 DEF BootRestoreFails, files, job
  <2>. QED  BY <1>3, <2>1, <2>2
<1>4. CASE PowerLoss
  <2>1. DOMAIN records' = {}
    BY <1>4 DEF PowerLoss, RamLost, NoRecords
  <2>. QED  BY <1>4, <2>1 DEF PowerLoss, RamLost, files
<1>5. ASSUME NEW e \in Event, AppendEvent(e) PROVE TypeOK'
  <2>1. clock + 1 \in Nat /\ "PENDING" \in Status
    BY DEF Status, Unsynced
  <2>2. dat' \in File
    BY <1>5, <2>1, FrameTypes, AppendFrameType DEF AppendEvent
  <2>3. /\ DOMAIN records' \subseteq Event
        /\ \A x \in DOMAIN records' : records'[x] \in [status : Status, at : Nat]
    BY <1>5, <2>1 DEF AppendEvent
  <2>4. nextId' \in 1..(MaxEvents + 1)
    BY <1>5, JournalAssumption DEF AppendEvent, MayAppendEvent, Event
  <2>. QED  BY <1>5, <2>1, <2>2, <2>3, <2>4 DEF AppendEvent, job
<1>6. ASSUME NEW e \in Event, AppendEventFails(e) PROVE TypeOK'
  <2>1. dat' \in File
    BY <1>6, FrameTypes, AppendFrameType DEF AppendEventFails, Status, Unsynced
  <2>2. nextId' \in 1..(MaxEvents + 1)
    BY <1>6, JournalAssumption DEF AppendEventFails, MayAppendEvent, Event
  <2>. QED  BY <1>6, <2>1, <2>2 DEF AppendEventFails, ram, job
<1>7. ASSUME NEW e \in Event, NEW s \in Written, AppendTransition(e, s) PROVE TypeOK'
  <2>1. s \in Status
    BY JournalAssumption
  <2>2. dat' \in File
    BY <1>7, <2>1, FrameTypes, AppendFrameType DEF AppendTransition
  <2>3. e \in DOMAIN records
    BY <1>7 DEF AppendTransition, MayAppendTransition
  <2>4. /\ DOMAIN records' \subseteq Event
        /\ \A x \in DOMAIN records' : records'[x] \in [status : Status, at : Nat]
    BY <1>7, <2>1, <2>3 DEF AppendTransition
  <2>5. owed' \subseteq Event /\ used' \in Nat
    BY <1>7 DEF AppendTransition
  <2>. QED  BY <1>7, <2>2, <2>4, <2>5 DEF AppendTransition, job
<1>8. ASSUME NEW e \in Event, AppendTransitionFails(e) PROVE TypeOK'
  <2>1. dat' \in File
    BY <1>8, FrameTypes, AppendFrameType DEF AppendTransitionFails, Status, Unsynced
  <2>. QED  BY <1>8, <2>1 DEF AppendTransitionFails, ram, job
<1>9. ASSUME NEW e \in Event, PowerLossInAppend(e) PROVE TypeOK'
  <2>1. dat' \in File
    BY <1>9, FrameTypes, AppendFrameType DEF PowerLossInAppend, Status, Unsynced
  <2>2. DOMAIN records' = {}
    BY <1>9 DEF PowerLossInAppend, RamLost, NoRecords
  <2>3. nextId' \in 1..(MaxEvents + 1)
    BY <1>9, JournalAssumption DEF PowerLossInAppend, Event
  <2>. QED  BY <1>9, <2>1, <2>2, <2>3 DEF PowerLossInAppend, RamLost
<1>10. CASE BeginCompaction
  <2>1. keep' \subseteq Event
    BY <1>10 DEF BeginCompaction, KeepLists
  <2>. QED  BY <1>10, <2>1, NoFileType DEF BeginCompaction, ram
<1>11. CASE CompactTick
  <2>1. PICK C \in SUBSET keep :
          /\ Chunk(C)
          /\ tmp' = [there |-> TRUE, frames |-> tmp.frames \o FramesOf(C)]
          /\ copied' = copied \cup C
    BY <1>11 DEF CompactTick
  <2>2. FramesOf(C) \in Seq(Frame)
    BY FramesOfType DEF KeepInv
  <2>3. tmp' \in File
    BY <2>1, <2>2, ConcatProperties DEF File
  <2>4. pc' \in {"validate", "loop"}
    BY <1>11 DEF CompactTick
  <2>. QED  BY <1>11, <2>1, <2>3, <2>4 DEF CompactTick, ram
<1>12. CASE CompactTickFails
  <2>1. copied' \subseteq copied \cup keep
    BY <1>12 DEF CompactTickFails
  <2>. QED  BY <1>12, <2>1, NoFileType DEF CompactTickFails, ram
<1>13. CASE TmpFrameLost
  <2>1. PICK i \in DOMAIN tmp.frames : tmp' = [tmp EXCEPT !.frames[i] = TornFrame(@.id)]
    BY <1>13 DEF TmpFrameLost
  <2>2. tmp.frames \in Seq(Frame) /\ i \in 1..Len(tmp.frames)
    BY DEF File
  <2>3. tmp.frames[i].id \in Event
    <3>1. tmp.frames[i] \in Frame
      BY <2>2, ElementOfSeq
    <3>. QED  BY <3>1 DEF Frame
  <2>4. TornFrame(tmp.frames[i].id) \in Frame
    BY <2>3, FrameTypes DEF Status, Unsynced
  <2>5. [tmp.frames EXCEPT ![i] = TornFrame(tmp.frames[i].id)] \in Seq(Frame)
    BY <2>2, <2>4, ExceptSeq
  <2>6. tmp' \in File
    BY <2>1, <2>5 DEF File
  <2>. QED  BY <1>13, <2>6 DEF TmpFrameLost, ram, job
<1>14. CASE ValidateTmp
  BY <1>14, NoFileType DEF ValidateTmp, JobOver, ram, job
<1>15. CASE RenameDatToOld
  BY <1>15, NoFileType DEF RenameDatToOld, ram, job
<1>16. CASE RenameDatFails
  BY <1>16, NoFileType DEF RenameDatFails, JobOver, ram
<1>17. CASE RenameTmpToDat
  BY <1>17, NoFileType DEF RenameTmpToDat, ram, job
<1>18. CASE RenameTmpFails
  BY <1>18, NoFileType DEF RenameTmpFails, JobOver, ram
<1>19. CASE RemoveOldAndRebuild
  <2>1. used' \in Nat
    <3>1. IsFiniteSet(keep \cap DOMAIN records)
      BY EventIsFinite, FS_Subset
    <3>. QED  BY <1>19, <3>1, FS_CardinalityType DEF RemoveOldAndRebuild
  <2>2. /\ DOMAIN records' \subseteq Event
        /\ \A x \in DOMAIN records' : records'[x] \in [status : Status, at : Nat]
    BY <1>19 DEF RemoveOldAndRebuild
  <2>. QED  BY <1>19, <2>1, <2>2, NoFileType DEF RemoveOldAndRebuild, JobOver
<1>20. CASE UNCHANGED vars
  BY <1>20 DEF vars, files, ram, job
<1>. QED
  BY <1>1, <1>2, <1>3, <1>4, <1>5, <1>6, <1>7, <1>8, <1>9, <1>10, <1>11, <1>12, <1>13, <1>14,
     <1>15, <1>16, <1>17, <1>18, <1>19, <1>20 DEF Next, Appends, Compaction

-----------------------------------------------------------------------------
(* Every step preserves the rest.                                            *)

LEMMA StepKeepInv == IInv /\ [Next]_vars => KeepInv'
<1>. SUFFICES ASSUME TypeOK, KeepInv, [Next]_vars PROVE KeepInv'
  BY DEF IInv
<1>. USE DEF KeepInv, Have
<1>1. ASSUME UNCHANGED <<records, keep, active>>, pc' \in {"off", "boot"} => pc \in {"off", "boot"}
      PROVE  KeepInv'
  BY <1>1
<1>2. ASSUME keep' = {}, ~active' PROVE KeepInv'
  BY <1>2
<1>3. CASE BootRecover
  BY <1>3 DEF BootRecover, job
<1>4. ASSUME NEW e \in Event, AppendEvent(e) PROVE KeepInv'
  BY <1>4 DEF AppendEvent, MayAppendEvent, InLoop, job
<1>5. ASSUME NEW e \in Event, NEW s \in Written, AppendTransition(e, s) PROVE KeepInv'
  BY <1>5 DEF AppendTransition, MayAppendTransition, InLoop, job
<1>6. CASE BeginCompaction
  BY <1>6 DEF BeginCompaction, KeepLists, ram
<1>7. CASE CompactTick
  BY <1>1, <1>7 DEF CompactTick, ram
<1>8. CASE TmpFrameLost \/ RenameDatToOld \/ RenameTmpToDat
  BY <1>1, <1>8 DEF TmpFrameLost, RenameDatToOld, RenameTmpToDat, ram, job
<1>9. CASE ValidateTmp
  BY <1>1, <1>2, <1>9 DEF ValidateTmp, JobOver, ram, job
<1>10. CASE CompactTickFails \/ RenameDatFails \/ RenameTmpFails \/ RemoveOldAndRebuild
  BY <1>2, <1>10 DEF CompactTickFails, RenameDatFails, RenameTmpFails, RemoveOldAndRebuild, JobOver
<1>11. CASE PowerLoss \/ \E e \in Event : PowerLossInAppend(e)
  BY <1>2, <1>11 DEF PowerLoss, PowerLossInAppend, RamLost
<1>12. ASSUME NEW e \in Event, AppendEventFails(e) \/ AppendTransitionFails(e) PROVE KeepInv'
  BY <1>1, <1>12 DEF AppendEventFails, AppendTransitionFails, ram, job
<1>13. CASE BootRemoveTmp \/ BootMountFails
  BY <1>1, <1>13 DEF BootRemoveTmp, BootMountFails, ram, job
<1>15. CASE BootRestoreFails
  BY <1>15 DEF BootRestoreFails, job
<1>14. CASE UNCHANGED vars
  BY <1>1, <1>14 DEF vars, ram, job
<1>. QED
  BY <1>3, <1>4, <1>5, <1>6, <1>7, <1>8, <1>9, <1>10, <1>11, <1>12, <1>13, <1>14, <1>15
  DEF Next, Appends, Compaction

LEMMA StepTmpInv == IInv /\ [Next]_vars => TmpInv'
<1>. SUFFICES ASSUME TypeOK, KeepInv, TmpInv, [Next]_vars PROVE TmpInv'
  BY DEF IInv
<1>. USE DEF TmpInv
<1>1. ASSUME UNCHANGED <<tmp, pc, job>> PROVE TmpInv'
  BY <1>1 DEF job
<1>2. ASSUME pc' # "validate", pc' = "loop" => ~active' PROVE TmpInv'
  BY <1>2
<1>3. ASSUME NEW e \in Event,
             \/ AppendEvent(e) \/ AppendEventFails(e)
             \/ \E s \in Written : AppendTransition(e, s)
             \/ AppendTransitionFails(e)
      PROVE  TmpInv'
  BY <1>1, <1>3 DEF AppendEvent, AppendEventFails, AppendTransition, AppendTransitionFails
<1>4. CASE BeginCompaction
  <2>1. tmp'.frames = <<>> /\ copied' = {} /\ pc' = "loop"
    BY <1>4 DEF BeginCompaction, NoFile
  <2>. QED  BY <2>1 DEF EventFramesOnly, IdsIn
<1>5. CASE CompactTick
  <2>1. PICK C \in SUBSET keep :
          /\ tmp' = [there |-> TRUE, frames |-> tmp.frames \o FramesOf(C)]
          /\ copied' = copied \cup C
    BY <1>5 DEF CompactTick
  <2>2. C \subseteq Have
    BY DEF KeepInv
  <2>3. tmp.frames \in Seq(Frame) /\ EventFramesOnly(tmp.frames) /\ IdsIn(tmp.frames) = copied
    BY <1>5 DEF TypeOK, File, CompactTick
  <2>4. EventFramesOnly(tmp'.frames) /\ IdsIn(tmp'.frames) = copied'
    BY <2>1, <2>2, <2>3, FramesOfType, ConcatFrames
  <2>5. pc' = "validate" => copied' = keep'
    BY <1>5 DEF CompactTick
  <2>. QED  BY <2>4, <2>5
<1>6. CASE TmpFrameLost
  <2>1. PICK i \in DOMAIN tmp.frames : tmp' = [tmp EXCEPT !.frames[i] = TornFrame(@.id)]
    BY <1>6 DEF TmpFrameLost
  <2>2. EventFramesOnly(tmp.frames) /\ IdsIn(tmp.frames) = copied
    BY <1>6 DEF TmpFrameLost
  <2>3. /\ DOMAIN tmp'.frames = DOMAIN tmp.frames
        /\ \A j \in DOMAIN tmp.frames :
             tmp'.frames[j] = IF j = i THEN TornFrame(tmp.frames[i].id) ELSE tmp.frames[j]
    BY <2>1 DEF TypeOK, File
  <2>4. \A j \in DOMAIN tmp.frames :
          tmp'.frames[j].id = tmp.frames[j].id /\ tmp'.frames[j].kind \in {"EVENT", "TORN"}
    BY <2>2, <2>3 DEF TornFrame, EventFramesOnly
  <2>5. EventFramesOnly(tmp'.frames) /\ IdsIn(tmp'.frames) = copied
    BY <2>2, <2>3, <2>4 DEF EventFramesOnly, IdsIn
  <2>. QED  BY <1>6, <2>5 DEF TmpFrameLost, job
<1>7. CASE ValidateTmp
  BY <1>2, <1>7 DEF ValidateTmp, JobOver
<1>8. CASE CompactTickFails \/ RenameDatFails \/ RenameTmpFails \/ RemoveOldAndRebuild
  BY <1>2, <1>8 DEF CompactTickFails, RenameDatFails, RenameTmpFails, RemoveOldAndRebuild, JobOver
<1>9. CASE RenameDatToOld \/ RenameTmpToDat
  BY <1>2, <1>9 DEF RenameDatToOld, RenameTmpToDat
<1>10. CASE PowerLoss \/ \E e \in Event : PowerLossInAppend(e)
  BY <1>2, <1>10 DEF PowerLoss, PowerLossInAppend
<1>11. CASE BootRemoveTmp
  BY <1>2, <1>11 DEF BootRemoveTmp
<1>12. CASE BootRecover \/ BootRestoreFails \/ BootMountFails
  BY <1>2, <1>12 DEF BootRecover, BootRestoreFails, BootMountFails, KeepInv, job
<1>13. CASE UNCHANGED vars
  BY <1>1, <1>13 DEF vars, files
<1>. QED
  BY <1>3, <1>4, <1>5, <1>6, <1>7, <1>8, <1>9, <1>10, <1>11, <1>12, <1>13
  DEF Next, Appends, Compaction

LEMMA StepSwap == IInv /\ [Next]_vars => SwapIsValidated'
<1>. SUFFICES ASSUME TypeOK, TmpInv, SwapIsValidated, [Next]_vars PROVE SwapIsValidated'
  BY DEF IInv
<1>. USE DEF SwapIsValidated
<1>1. ASSUME pc' \notin {"renameDat", "renameTmp", "removeOld"} PROVE SwapIsValidated'
  BY <1>1
<1>2. CASE BootRemoveTmp \/ BootRecover \/ BootRestoreFails \/ BootMountFails \/ PowerLoss
  BY <1>1, <1>2 DEF BootRemoveTmp, BootRecover, BootRestoreFails, BootMountFails, PowerLoss
<1>3. ASSUME NEW e \in Event,
             \/ AppendEvent(e) \/ AppendEventFails(e)
             \/ \E s \in Written : AppendTransition(e, s)
             \/ AppendTransitionFails(e) \/ PowerLossInAppend(e)
      PROVE  SwapIsValidated'
  BY <1>1, <1>3
  DEF AppendEvent, AppendEventFails, AppendTransition, AppendTransitionFails, PowerLossInAppend,
      MayAppendEvent, MayAppendTransition, InLoop
<1>4. CASE BeginCompaction \/ CompactTick \/ CompactTickFails \/ TmpFrameLost
  BY <1>1, <1>4 DEF BeginCompaction, CompactTick, CompactTickFails, TmpFrameLost
<1>5. CASE ValidateTmp
  <2>1. CASE TmpIsValid
    <3>1. tmp.frames \in Seq(Frame) /\ EventFramesOnly(tmp.frames) /\ IdsIn(tmp.frames) = keep
      BY <1>5 DEF TypeOK, File, TmpInv, ValidateTmp
    <3>2. Clean(tmp.frames) /\ ScanIds(tmp.frames) = keep
      BY <2>1, <3>1, CleanScan DEF TmpIsValid
    <3>3. tmp' = tmp /\ keep' = keep /\ pc' \in {"renameDat", "renameTmp"}
      BY <1>5, <2>1 DEF ValidateTmp, job
    <3>. QED  BY <3>2, <3>3
  <2>2. CASE ~TmpIsValid
    BY <1>1, <1>5, <2>2 DEF ValidateTmp
  <2>. QED  BY <2>1, <2>2
<1>6. CASE RenameDatToOld
  BY <1>6 DEF RenameDatToOld, job
<1>7. CASE RenameTmpToDat
  BY <1>7 DEF RenameTmpToDat, job
<1>8. CASE RenameDatFails \/ RenameTmpFails \/ RemoveOldAndRebuild
  BY <1>1, <1>8 DEF RenameDatFails, RenameTmpFails, RemoveOldAndRebuild
<1>9. CASE UNCHANGED vars
  BY <1>9 DEF vars, files, job
<1>. QED
  BY <1>2, <1>3, <1>4, <1>5, <1>6, <1>7, <1>8, <1>9 DEF Next, Appends, Compaction

-----------------------------------------------------------------------------
(* The invariant the rest follows from, for every instance of the journal.   *)
THEOREM Invariance == Spec => []IInv
<1>1. IInv /\ [Next]_vars => IInv'
  BY StepTypeOK, StepKeepInv, StepTmpInv, StepSwap DEF IInv
<1>. QED  BY InitIInv, <1>1, PTL DEF Spec

(* Type correctness: in particular the scan of whatever is on the flash gives *)
(* well-formed records, and compact_tick() only ever writes records that the *)
(* index holds.                                                              *)
THEOREM TypeCorrect == Spec => []TypeOK
<1>1. IInv => TypeOK
  BY DEF IInv
<1>. QED  BY Invariance, <1>1, PTL

(* The swap of finish_compaction_validate_and_swap() installs a file that    *)
(* reads back whole and holds every record of the keep list: for every log,  *)
(* chunk size and retention, and whatever the flash does to the frames.      *)
THEOREM SwapInstallsKeepList == Spec => []SwapIsValidated
<1>1. IInv => SwapIsValidated
  BY DEF IInv
<1>. QED  BY Invariance, <1>1, PTL

-----------------------------------------------------------------------------
(* One more frame at the end of a log.                                       *)

(* The scan reads on: what was readable stays so, and a log that is clean    *)
(* with the new frame was clean before it.                                   *)
LEMMA AppendedLog ==
  ASSUME NEW s \in Seq(Frame), NEW fr \in Frame
  PROVE  /\ Append(s, fr) \in Seq(Frame)
         /\ DOMAIN s = 1..Len(s) /\ Len(s) \in Nat
         /\ Len(Append(s, fr)) = Len(s) + 1
         /\ DOMAIN Append(s, fr) = 1..(Len(s) + 1)
         /\ \A i \in 1..Len(s) : Append(s, fr)[i] = s[i]
         /\ Append(s, fr)[Len(s) + 1] = fr
         /\ Clean(Append(s, fr)) <=> Clean(s) /\ fr.kind # "TORN"
<1>1. /\ Append(s, fr) \in Seq(Frame)
      /\ Len(Append(s, fr)) = Len(s) + 1
      /\ DOMAIN s = 1..Len(s) /\ Len(s) \in Nat
      /\ DOMAIN Append(s, fr) = 1..(Len(s) + 1)
      /\ \A i \in 1..Len(s) : Append(s, fr)[i] = s[i]
      /\ Append(s, fr)[Len(s) + 1] = fr
  OBVIOUS
<1>2. 1..(Len(s) + 1) = 1..Len(s) \cup {Len(s) + 1}
  BY <1>1
<1>3. Clean(Append(s, fr)) <=> Clean(s) /\ fr.kind # "TORN"
  BY <1>1, <1>2 DEF Clean
<1>. QED  BY <1>1, <1>3

LEMMA CleanIsReadable ==
  ASSUME NEW s \in Seq(Frame), Clean(s)
  PROVE  Readable(s) = 1..Len(s)
<1>1. DOMAIN s = 1..Len(s) /\ Len(s) \in Nat
  OBVIOUS
<1>. QED  BY <1>1 DEF Readable, Clean

(* No append takes an event away from the scan ...                           *)
LEMMA AppendForgetsNothing ==
  ASSUME NEW s \in Seq(Frame), NEW fr \in Frame
  PROVE  ScanIds(s) \subseteq ScanIds(Append(s, fr))
<1> DEFINE t == Append(s, fr)
<1>1. /\ DOMAIN s = 1..Len(s) /\ Len(s) \in Nat /\ DOMAIN t = 1..(Len(s) + 1)
      /\ \A i \in 1..Len(s) : t[i] = s[i]
  BY AppendedLog
<1>. HIDE DEF t
<1>2. ASSUME NEW i \in Readable(s) PROVE i \in Readable(t) /\ t[i] = s[i]
  <2>1. i \in 1..Len(s) /\ \A j \in 1..i : s[j].kind # "TORN"
    BY <1>1 DEF Readable
  <2>2. \A j \in 1..i : j \in 1..Len(s)
    BY <1>1, <2>1
  <2>. QED  BY <1>1, <2>1, <2>2 DEF Readable
<1>. QED  BY <1>2 DEF ScanIds, EventsAt, t

(* ... and one to a clean log adds the event of the frame, if it is an EVENT.*)
LEMMA AppendedIds ==
  ASSUME NEW s \in Seq(Frame), NEW fr \in Frame, Clean(Append(s, fr))
  PROVE  ScanIds(Append(s, fr)) =
           ScanIds(s) \cup (IF fr.kind = "EVENT" THEN {fr.id} ELSE {})
<1> DEFINE t == Append(s, fr)
<1>1. /\ t \in Seq(Frame) /\ Len(s) \in Nat /\ Len(t) = Len(s) + 1
      /\ \A i \in 1..Len(s) : t[i] = s[i]
      /\ t[Len(s) + 1] = fr
      /\ Clean(s) /\ Clean(t)
  BY AppendedLog
<1>2. Readable(s) = 1..Len(s) /\ Readable(t) = 1..(Len(s) + 1)
  <2>. HIDE DEF t
  <2>. QED  BY <1>1, CleanIsReadable
<1>. HIDE DEF t
<1>3. 1..(Len(s) + 1) = 1..Len(s) \cup {Len(s) + 1}
  BY <1>1
<1>4. fr.id \in Event
  BY DEF Frame
<1>5. ASSUME NEW e \in Event
      PROVE  EventsAt(t, e) # {} <=> EventsAt(s, e) # {} \/ (fr.kind = "EVENT" /\ fr.id = e)
  BY <1>1, <1>2, <1>3 DEF EventsAt
<1>. QED  BY <1>4, <1>5 DEF ScanIds, t

-----------------------------------------------------------------------------
(* What the files and the index have to do with each other.                  *)

(* A file that is not there has no frames, and the swap moves files that are.*)
AbsentIsEmpty(f) == ~f.there => f.frames = <<>>
FilesInv ==
  /\ AbsentIsEmpty(dat) /\ AbsentIsEmpty(tmp) /\ AbsentIsEmpty(old)
  /\ pc \in {"validate", "renameDat", "renameTmp"} => tmp.there
  /\ pc = "renameTmp" => ~dat.there
  /\ pc = "removeOld" => dat.there

(* Before the scan the index is empty and the journal unavailable.           *)
OffInv == pc \in {"off", "boot"} => Have = {} /\ used = 0 /\ ~initOk /\ ~adrift

(* The validated file has one frame for each record kept.                    *)
SizeInv ==
  /\ pc \in {"renameDat", "renameTmp"} => Len(tmp.frames) = Cardinality(keep)
  /\ pc = "removeOld" => Len(dat.frames) = Cardinality(keep)

(* The log that the index is of is still there, and a compaction under way   *)
(* has something to compact: the swap does not install a log over none.      *)
BasisInv ==
  /\ adrift => old.there
  /\ active => Have # {}
  /\ pc = "validate" => active
  /\ pc = "renameDat" => dat.there

(* The index agrees with the log at every point before the new file is put   *)
(* in place, not only in the loop.                                           *)
Current == IF pc = "renameTmp" \/ adrift THEN old ELSE dat
Matches ==
  Clean(Current.frames) => Have = ScanIds(Current.frames) /\ used = Len(Current.frames)
IndexInv ==
  pc \in {"loop", "validate", "renameDat", "renameTmp"} /\ initOk /\ ~(adrift /\ dat.there)
    => Matches

LogInv == FilesInv /\ OffInv /\ SizeInv /\ BasisInv /\ IndexInv
JInv   == IInv /\ LogInv

LEMMA InitLogInv == Init => LogInv
<1>1. DOMAIN NoRecords = {}
  BY DEF NoRecords
<1>. QED
  BY <1>1
  DEF Init, LogInv, FilesInv, OffInv, SizeInv, BasisInv, IndexInv, AbsentIsEmpty, NoFile, Have

LEMMA StepFilesInv == JInv /\ [Next]_vars => FilesInv'
<1>. SUFFICES ASSUME FilesInv, [Next]_vars PROVE FilesInv'
  BY DEF JInv, LogInv
<1>. USE DEF FilesInv, AbsentIsEmpty, NoFile
<1>1. CASE BootRemoveTmp \/ BootRecover \/ BootRestoreFails \/ BootMountFails \/ PowerLoss
  BY <1>1
  DEF BootRemoveTmp, BootRecover, BootRestoreFails, BootFile, BootMountFails, PowerLoss, files
<1>2. ASSUME NEW e \in Event,
             \/ AppendEvent(e) \/ AppendEventFails(e)
             \/ \E s \in Written : AppendTransition(e, s)
             \/ AppendTransitionFails(e) \/ PowerLossInAppend(e)
      PROVE  FilesInv'
  <2>1. dat'.there /\ tmp' = tmp /\ old' = old /\ pc = "loop" /\ pc' \in {"loop", "off"}
    BY <1>2
    DEF AppendEvent, AppendEventFails, AppendTransition, AppendTransitionFails,
        PowerLossInAppend, MayAppendEvent, MayAppendTransition, InLoop, AppendFrame
  <2>. QED  BY <2>1
<1>3. CASE BeginCompaction \/ CompactTick \/ CompactTickFails
  BY <1>3 DEF BeginCompaction, CompactTick, CompactTickFails
<1>4. CASE TmpFrameLost
  BY <1>4 DEF TmpFrameLost
<1>5. CASE ValidateTmp
  BY <1>5 DEF ValidateTmp
<1>6. CASE RenameDatToOld \/ RenameDatFails
  BY <1>6 DEF RenameDatToOld, RenameDatFails
<1>7. CASE RenameTmpToDat \/ RenameTmpFails
  BY <1>7 DEF RenameTmpToDat, RenameTmpFails
<1>8. CASE RemoveOldAndRebuild
  BY <1>8 DEF RemoveOldAndRebuild
<1>9. CASE UNCHANGED vars
  BY <1>9 DEF vars, files
<1>. QED
  BY <1>1, <1>2, <1>3, <1>4, <1>5, <1>6, <1>7, <1>8, <1>9 DEF Next, Appends, Compaction

LEMMA StepOffInv == JInv /\ [Next]_vars => OffInv'
<1>. SUFFICES ASSUME OffInv, [Next]_vars PROVE OffInv'
  BY DEF JInv, LogInv
<1>. USE DEF OffInv, Have
<1>1. ASSUME pc' \notin {"off", "boot"} PROVE OffInv'
  BY <1>1
<1>2. CASE PowerLoss \/ \E e \in Event : PowerLossInAppend(e)
  BY <1>2 DEF PowerLoss, PowerLossInAppend, RamLost, NoRecords
<1>3. CASE BootRemoveTmp
  BY <1>3 DEF BootRemoveTmp, ram
<1>4. CASE BootRecover \/ BootRestoreFails \/ BootMountFails
  BY <1>1, <1>4 DEF BootRecover, BootRestoreFails, BootMountFails
<1>5. ASSUME NEW e \in Event,
             \/ AppendEvent(e) \/ AppendEventFails(e)
             \/ \E s \in Written : AppendTransition(e, s)
             \/ AppendTransitionFails(e)
      PROVE  OffInv'
  BY <1>1, <1>5
  DEF AppendEvent, AppendEventFails, AppendTransition, AppendTransitionFails,
      MayAppendEvent, MayAppendTransition, InLoop
<1>6. CASE Compaction
  BY <1>1, <1>6
  DEF Compaction, BeginCompaction, CompactTick, CompactTickFails, TmpFrameLost, ValidateTmp,
      RenameDatToOld, RenameDatFails, RenameTmpToDat, RenameTmpFails, RemoveOldAndRebuild
<1>7. CASE UNCHANGED vars
  BY <1>7 DEF vars, ram
<1>. QED  BY <1>2, <1>3, <1>4, <1>5, <1>6, <1>7 DEF Next, Appends

LEMMA StepSizeInv == JInv /\ [Next]_vars => SizeInv'
<1>. SUFFICES ASSUME SizeInv, [Next]_vars PROVE SizeInv'
  BY DEF JInv, LogInv
<1>. USE DEF SizeInv
<1>1. ASSUME pc' \notin {"renameDat", "renameTmp", "removeOld"} PROVE SizeInv'
  BY <1>1
<1>2. CASE BootRemoveTmp \/ BootRecover \/ BootRestoreFails \/ BootMountFails \/ PowerLoss
  BY <1>1, <1>2 DEF BootRemoveTmp, BootRecover, BootRestoreFails, BootMountFails, PowerLoss
<1>3. ASSUME NEW e \in Event,
             \/ AppendEvent(e) \/ AppendEventFails(e)
             \/ \E s \in Written : AppendTransition(e, s)
             \/ AppendTransitionFails(e) \/ PowerLossInAppend(e)
      PROVE  SizeInv'
  BY <1>1, <1>3
  DEF AppendEvent, AppendEventFails, AppendTransition, AppendTransitionFails, PowerLossInAppend,
      MayAppendEvent, MayAppendTransition, InLoop
<1>4. CASE BeginCompaction \/ CompactTick \/ CompactTickFails \/ TmpFrameLost
  BY <1>1, <1>4 DEF BeginCompaction, CompactTick, CompactTickFails, TmpFrameLost
<1>5. CASE ValidateTmp
  BY <1>1, <1>5 DEF ValidateTmp, TmpIsValid, job
<1>6. CASE RenameDatToOld \/ RenameTmpToDat
  BY <1>6 DEF RenameDatToOld, RenameTmpToDat, job
<1>7. CASE RenameDatFails \/ RenameTmpFails \/ RemoveOldAndRebuild
  BY <1>1, <1>7 DEF RenameDatFails, RenameTmpFails, RemoveOldAndRebuild
<1>8. CASE UNCHANGED vars
  BY <1>8 DEF vars, files, job
<1>. QED
  BY <1>2, <1>3, <1>4, <1>5, <1>6, <1>7, <1>8 DEF Next, Appends, Compaction

LEMMA StepBasisInv == JInv /\ [Next]_vars => BasisInv'
<1>. SUFFICES ASSUME BasisInv, OffInv, KeepInv, [Next]_vars PROVE BasisInv'
  BY DEF JInv, IInv, LogInv
<1>. USE DEF BasisInv, Have
<1>1. CASE BootRemoveTmp
  BY <1>1 DEF BootRemoveTmp, ram, job
<1>2. CASE BootRecover \/ BootRestoreFails \/ BootMountFails
  BY <1>2 DEF BootRecover, BootRestoreFails, BootMountFails, OffInv, KeepInv, job
<1>3. CASE PowerLoss \/ \E e \in Event : PowerLossInAppend(e)
  BY <1>3 DEF PowerLoss, PowerLossInAppend, RamLost
<1>4. ASSUME NEW e \in Event,
             \/ AppendEvent(e) \/ AppendEventFails(e)
             \/ \E s \in Written : AppendTransition(e, s)
             \/ AppendTransitionFails(e)
      PROVE  BasisInv'
  <2>1. UNCHANGED <<old, pc, adrift, active>> /\ pc = "loop"
    BY <1>4
    DEF AppendEvent, AppendEventFails, AppendTransition, AppendTransitionFails,
        MayAppendEvent, MayAppendTransition, InLoop, ram, job
  <2>2. DOMAIN records \subseteq DOMAIN records'
    BY <1>4 DEF AppendEvent, AppendEventFails, AppendTransition, AppendTransitionFails, ram
  <2>. QED  BY <2>1, <2>2
<1>5. CASE BeginCompaction
  BY <1>5 DEF BeginCompaction, KeepLists, ram
<1>6. CASE CompactTick \/ CompactTickFails \/ TmpFrameLost
  BY <1>6 DEF CompactTick, CompactTickFails, TmpFrameLost, ram, job
<1>7. CASE ValidateTmp
  BY <1>7 DEF ValidateTmp, JobOver, ram, job
<1>8. CASE RenameDatToOld \/ RenameDatFails \/ RenameTmpToDat
  BY <1>8 DEF RenameDatToOld, RenameDatFails, RenameTmpToDat, JobOver, ram, job
<1>9. CASE RenameTmpFails \/ RemoveOldAndRebuild
  BY <1>9 DEF RenameTmpFails, RemoveOldAndRebuild, JobOver
<1>10. CASE UNCHANGED vars
  BY <1>10 DEF vars, files, ram, job
<1>. QED
  BY <1>1, <1>2, <1>3, <1>4, <1>5, <1>6, <1>7, <1>8, <1>9, <1>10 DEF Next, Appends, Compaction

LEMMA NextIndexInv ==
  ASSUME ~(adrift' /\ dat'.there) /\ Clean(Current'.frames)
           => Have' = ScanIds(Current'.frames) /\ used' = Len(Current'.frames)
  PROVE  IndexInv'
  BY DEF IndexInv, Matches, Clean, ScanIds, EventsAt, Readable

(* An append whose frame reached the flash whole is in the index too; after  *)
(* one that did not, nothing is claimed.                                     *)
LEMMA StepAppendMatches ==
  ASSUME JInv, NEW e \in Event,
         \/ AppendEvent(e) \/ AppendEventFails(e)
         \/ \E s \in Written : AppendTransition(e, s)
         \/ AppendTransitionFails(e)
  PROVE  IndexInv'
<1>1. /\ pc = "loop" /\ pc' = "loop" /\ initOk /\ adrift' = adrift
      /\ dat'.there
  BY DEF AppendEvent, AppendEventFails, AppendTransition, AppendTransitionFails,
         MayAppendEvent, MayAppendTransition, InLoop, AppendFrame, ram
<1>. SUFFICES ASSUME ~adrift, Clean(dat'.frames)
              PROVE  Have' = ScanIds(dat'.frames) /\ used' = Len(dat'.frames)
  BY <1>1, NextIndexInv DEF Current
<1>2. TypeOK /\ IndexInv
  BY DEF JInv, IInv, LogInv
<1>3. dat.frames \in Seq(Frame)
  BY <1>2 DEF TypeOK, File
<1>4. Clean(dat.frames) => Have = ScanIds(dat.frames) /\ used = Len(dat.frames)
  BY <1>1, <1>2 DEF IndexInv, Matches, Current
<1>5. ASSUME NEW fr \in Frame, dat' = AppendFrame(dat, fr)
      PROVE  /\ Len(dat'.frames) = Len(dat.frames) + 1
             /\ Clean(dat.frames) /\ fr.kind # "TORN"
             /\ ScanIds(dat'.frames) =
                  ScanIds(dat.frames) \cup (IF fr.kind = "EVENT" THEN {fr.id} ELSE {})
  <2>1. dat'.frames = Append(dat.frames, fr)
    BY <1>5 DEF AppendFrame
  <2>. QED  BY <1>3, <2>1, AppendedLog, AppendedIds
<1>6. CASE AppendEvent(e)
  <2>1. PICK fr \in OnFlash(EventFrame(e, "PENDING", clock + 1)) : dat' = AppendFrame(dat, fr)
    BY <1>6 DEF AppendEvent
  <2>2. fr \in Frame
    BY <1>2, <2>1, FrameTypes DEF TypeOK, Status, Unsynced
  <2>3. fr.kind # "TORN"
    BY <1>5, <2>1, <2>2
  <2>4. fr.kind = "EVENT" /\ fr.id = e
    BY <2>1, <2>3 DEF OnFlash, EventFrame, TornFrame
  <2>5. Have' = Have \cup {e} /\ used' = used + 1
    BY <1>6 DEF AppendEvent, Have
  <2>. QED  BY <1>4, <1>5, <2>1, <2>2, <2>4, <2>5
<1>7. ASSUME NEW s \in Written, AppendTransition(e, s)
      PROVE  Have' = ScanIds(dat'.frames) /\ used' = Len(dat'.frames)
  <2>1. PICK fr \in OnFlash(TransitionFrame(e, s)) : dat' = AppendFrame(dat, fr)
    BY <1>7 DEF AppendTransition
  <2>2. fr \in Frame
    BY <2>1, FrameTypes, JournalAssumption
  <2>3. fr.kind # "TORN"
    BY <1>5, <2>1, <2>2
  <2>4. fr.kind = "TRANSITION"
    BY <2>1, <2>3 DEF OnFlash, TransitionFrame, TornFrame
  <2>5. Have' = Have /\ used' = used + 1
    BY <1>7 DEF AppendTransition, Have
  <2>. QED  BY <1>4, <1>5, <2>1, <2>2, <2>4, <2>5
<1>8. CASE AppendEventFails(e) \/ AppendTransitionFails(e)
  <2>1. dat' = AppendFrame(dat, TornFrame(e))
    BY <1>8 DEF AppendEventFails, AppendTransitionFails
  <2>2. TornFrame(e) \in Frame /\ TornFrame(e).kind = "TORN"
    BY FrameTypes DEF TornFrame, Frame, Status, Unsynced
  <2>. QED  BY <1>5, <2>1, <2>2
<1>. QED  BY <1>6, <1>7, <1>8

LEMMA StepIndexInv == JInv /\ [Next]_vars => IndexInv'
<1>. SUFFICES ASSUME JInv, [Next]_vars PROVE IndexInv'
  OBVIOUS
<1>0. /\ TypeOK /\ KeepInv /\ SwapIsValidated
      /\ FilesInv /\ OffInv /\ SizeInv /\ BasisInv /\ IndexInv
  BY DEF JInv, IInv, LogInv
<1>1. ASSUME pc' \notin {"loop", "validate", "renameDat", "renameTmp"} \/ ~initOk' PROVE IndexInv'
  BY <1>1 DEF IndexInv
<1>2. ASSUME UNCHANGED <<dat, old, ram>>, pc \in {"loop", "validate", "renameDat"},
             pc' # "renameTmp" \/ adrift
      PROVE  IndexInv'
  BY <1>0, <1>2, NextIndexInv DEF IndexInv, Matches, Current, Have, ram
<1>3. CASE BootRemoveTmp \/ PowerLoss \/ RenameTmpToDat \/ \E e \in Event : PowerLossInAppend(e)
  BY <1>1, <1>3 DEF BootRemoveTmp, PowerLoss, RenameTmpToDat, PowerLossInAppend
<1>4. CASE BootRecover
  <2>1. dat'.frames \in Seq(Frame)
    BY <1>0, <1>4 DEF BootRecover, BootFile, TypeOK, File
  <2>2. Current' = dat'
    BY <1>0, <1>4 DEF BootRecover, Current, OffInv
  <2>3. Have' = ScanIds(dat'.frames)
    BY <1>4, <2>1, ScanType DEF BootRecover, Have
  <2>4. ASSUME Clean(dat'.frames) PROVE used' = Len(dat'.frames)
    <3>1. Readable(dat'.frames) = 1..Len(dat'.frames) /\ Len(dat'.frames) \in Nat
      BY <2>1, <2>4, CleanIsReadable
    <3>2. Cardinality(1..Len(dat'.frames)) = Len(dat'.frames)
      BY <3>1, FS_Interval
    <3>. QED  BY <1>4, <3>1, <3>2 DEF BootRecover
  <2>. QED  BY <2>2, <2>3, <2>4, NextIndexInv
<1>5. ASSUME dat'.frames = <<>>, Have' = {}, used' = 0, ~adrift', pc' = "loop" PROVE IndexInv'
  <2>1. Current'.frames = <<>>
    BY <1>5 DEF Current
  <2>2. ScanIds(<<>>) = {}
    BY DEF ScanIds, EventsAt, Readable
  <2>. QED  BY <1>5, <2>1, <2>2, NextIndexInv
<1>6. CASE BootRestoreFails
  BY <1>0, <1>5, <1>6
  DEF BootRestoreFails, FilesInv, AbsentIsEmpty, OffInv, NoRecords, Have, files
<1>7. CASE BootMountFails
  <2>1. CASE dat' = NoFile
    BY <1>0, <1>5, <1>7, <2>1 DEF BootMountFails, NoFile, OffInv, Have
  <2>2. CASE initOk' = initOk
    BY <1>0, <1>1, <1>7, <2>2 DEF BootMountFails, OffInv
  <2>. QED  BY <1>7, <2>1, <2>2 DEF BootMountFails
<1>8. CASE BeginCompaction \/ CompactTick \/ CompactTickFails \/ TmpFrameLost \/ RenameDatFails
  BY <1>2, <1>8
  DEF BeginCompaction, CompactTick, CompactTickFails, TmpFrameLost, RenameDatFails
<1>9. CASE ValidateTmp
  <2>1. CASE pc' # "renameTmp" \/ adrift
    BY <1>2, <1>9, <2>1 DEF ValidateTmp
  <2>2. CASE ~initOk
    BY <1>1, <1>9, <2>2 DEF ValidateTmp, ram
  <2>3. CASE pc' = "renameTmp" /\ ~adrift /\ initOk   \* nothing to compact then
    <3>1. ~dat.there /\ pc = "validate"
      BY <1>9, <2>3 DEF ValidateTmp, JobOver, job
    <3>2. dat.frames = <<>>
      BY <1>0, <3>1 DEF FilesInv, AbsentIsEmpty
    <3>3. Have = ScanIds(<<>>) /\ ScanIds(<<>>) = {}
      BY <1>0, <2>3, <3>1, <3>2
      DEF IndexInv, Matches, Current, Clean, ScanIds, EventsAt, Readable
    <3>. QED  BY <1>0, <3>1, <3>3 DEF BasisInv
  <2>. QED  BY <2>1, <2>2, <2>3
<1>10. CASE RenameDatToOld
  <2>1. ~adrift /\ pc = "renameDat" /\ pc' = "renameTmp" /\ old' = dat
        /\ UNCHANGED <<records, used, initOk, adrift>>
    BY <1>0, <1>10 DEF RenameDatToOld, BasisInv, ram
  <2>. QED  BY <1>0, <1>1, <2>1, NextIndexInv DEF IndexInv, Matches, Current, Have
<1>11. CASE RenameTmpFails
  <2>1. ~dat.there /\ pc = "renameTmp" /\ pc' = "loop" /\ UNCHANGED <<records, used, initOk>>
    BY <1>0, <1>11 DEF RenameTmpFails, FilesInv
  <2>2. Current' = old
    BY <1>11, <2>1 DEF RenameTmpFails, Current
  <2>. QED  BY <1>0, <1>1, <2>1, <2>2, NextIndexInv DEF IndexInv, Matches, Current, Have
<1>12. CASE RemoveOldAndRebuild
  <2>1. Current' = dat
    BY <1>12 DEF RemoveOldAndRebuild, Current
  <2>2. ScanIds(dat.frames) = keep /\ Len(dat.frames) = Cardinality(keep)
    BY <1>0, <1>12 DEF RemoveOldAndRebuild, SwapIsValidated, SizeInv
  <2>3. keep \cap Have = keep
    BY <1>0 DEF KeepInv
  <2>4. Have' = keep /\ used' = Cardinality(keep)
    BY <1>12, <2>3 DEF RemoveOldAndRebuild, Have
  <2>. QED  BY <2>1, <2>2, <2>4, NextIndexInv
<1>13. CASE UNCHANGED vars
  BY <1>0, <1>13, NextIndexInv DEF vars, files, ram, IndexInv, Matches, Current, Have
<1>. QED
  BY <1>3, <1>4, <1>6, <1>7, <1>8, <1>9, <1>10, <1>11, <1>12, <1>13, StepAppendMatches
  DEF Next, Appends, Compaction

(* No step but the swap takes an event out of what a boot would recover.     *)
LEMMA StepForgetsOnlyBySwap ==
  ASSUME JInv, [Next]_vars, NEW e \in BootIds
  PROVE  \/ e \in BootIds'
         \/ pc = "renameTmp" /\ e \notin keep
         \/ Formats \/ StartsNewFile
<1>0. TypeOK /\ SwapIsValidated /\ FilesInv
  BY DEF JInv, IInv, LogInv
<1>1. BootIds' = ScanIds(BootFile'.frames)
  BY DEF BootIds, ScanIds, EventsAt, Readable
<1>2. ASSUME BootFile'.frames = BootFile.frames PROVE e \in BootIds'
  BY <1>1, <1>2 DEF BootIds
<1>3. CASE UNCHANGED <<dat, old>>
  BY <1>2, <1>3 DEF BootFile
<1>4. CASE BootRecover
  BY <1>0, <1>2, <1>4 DEF BootRecover, BootFile, FilesInv, AbsentIsEmpty, NoFile
<1>5. CASE BootMountFails
  BY <1>5 DEF BootMountFails, Formats
<1>6. ASSUME NEW x \in Event,
             \/ AppendEvent(x) \/ AppendEventFails(x)
             \/ \E s \in Written : AppendTransition(x, s)
             \/ AppendTransitionFails(x) \/ PowerLossInAppend(x)
      PROVE  e \in BootIds' \/ StartsNewFile
  <2>1. PICK fr \in Frame : dat' = AppendFrame(dat, fr)
    <3>1. CASE AppendEvent(x)
      BY <1>0, <3>1, FrameTypes DEF AppendEvent, TypeOK, Status, Unsynced
    <3>2. ASSUME NEW s \in Written, AppendTransition(x, s)
          PROVE  \E fr \in Frame : dat' = AppendFrame(dat, fr)
      BY <3>2, FrameTypes, JournalAssumption DEF AppendTransition
    <3>3. CASE AppendEventFails(x) \/ AppendTransitionFails(x) \/ PowerLossInAppend(x)
      <4>1. TornFrame(x) \in Frame
        BY FrameTypes DEF Frame, Status, Unsynced
      <4>. QED  BY <3>3, <4>1 DEF AppendEventFails, AppendTransitionFails, PowerLossInAppend
    <3>. QED  BY <1>6, <3>1, <3>2, <3>3
  <2>2. dat'.there /\ dat'.frames = Append(dat.frames, fr)
    BY <2>1 DEF AppendFrame
  <2>3. pc = "loop"
    BY <1>6
    DEF AppendEvent, AppendEventFails, AppendTransition, AppendTransitionFails,
        PowerLossInAppend, MayAppendEvent, MayAppendTransition, InLoop
  <2>4. CASE dat.there
    <3>1. BootFile = dat /\ BootFile' = dat'
      BY <2>2, <2>4 DEF BootFile
    <3>2. dat.frames \in Seq(Frame)
      BY <1>0 DEF TypeOK, File
    <3>. QED  BY <1>1, <2>2, <3>1, <3>2, AppendForgetsNothing DEF BootIds
  <2>5. CASE ~dat.there
    BY <2>2, <2>3, <2>5 DEF StartsNewFile
  <2>. QED  BY <2>4, <2>5
<1>7. CASE RenameDatToOld
  BY <1>0, <1>2, <1>7 DEF RenameDatToOld, BootFile, FilesInv, AbsentIsEmpty, NoFile
<1>8. CASE RenameTmpToDat
  <2>1. BootFile' = tmp
    BY <1>0, <1>8 DEF RenameTmpToDat, BootFile, FilesInv
  <2>2. BootIds' = keep
    BY <1>0, <1>1, <1>8, <2>1 DEF RenameTmpToDat, SwapIsValidated
  <2>. QED  BY <1>8, <2>2 DEF RenameTmpToDat
<1>9. CASE RenameTmpFails
  BY <1>0, <1>2, <1>9 DEF RenameTmpFails, BootFile, FilesInv, AbsentIsEmpty, NoFile
<1>10. CASE RemoveOldAndRebuild
  BY <1>0, <1>2, <1>10 DEF RemoveOldAndRebuild, BootFile, FilesInv
<1>11. CASE BootRemoveTmp \/ BootRestoreFails \/ PowerLoss \/ BeginCompaction \/ CompactTick
            \/ CompactTickFails \/ TmpFrameLost \/ ValidateTmp \/ RenameDatFails
            \/ UNCHANGED vars
  <2>1. UNCHANGED <<dat, old>>
    BY <1>11
    DEF BootRemoveTmp, BootRestoreFails, PowerLoss, BeginCompaction, CompactTick,
        CompactTickFails, TmpFrameLost, ValidateTmp, RenameDatFails, vars, files
  <2>. QED  BY <1>3, <2>1
<1>. QED
  BY <1>4, <1>5, <1>6, <1>7, <1>8, <1>9, <1>10, <1>11 DEF Next, Appends, Compaction

-----------------------------------------------------------------------------
THEOREM LogInvariance == Spec => []JInv
<1>1. Init => JInv
  BY InitIInv, InitLogInv DEF JInv
<1>2. JInv /\ [Next]_vars => JInv'
  <2>1. JInv /\ [Next]_vars => IInv'
    BY StepTypeOK, StepKeepInv, StepTmpInv, StepSwap DEF JInv, IInv
  <2>2. JInv /\ [Next]_vars => LogInv'
    BY StepFilesInv, StepOffInv, StepSizeInv, StepBasisInv, StepIndexInv DEF LogInv
  <2>. QED  BY <2>1, <2>2 DEF JInv
<1>. QED  BY <1>1, <1>2, PTL DEF Spec

(* used_bytes_ is the space the log in use takes, after any sequence of      *)
(* appends, compactions that end or give up, renames that fail in a swap or  *)
(* at a boot, power losses and boots.                                        *)
THEOREM SpaceAccounted == Spec => []SpaceIsAccounted
<1>1. JInv => SpaceIsAccounted
  BY DEF JInv, LogInv, IndexInv, Matches, Current, SpaceIsAccounted, LogKnown, LogInUse
<1>. QED  BY LogInvariance, <1>1, PTL

(* The index in RAM names exactly the events of the log in use, which after  *)
(* a boot that could not put .old back is the one started since.             *)
THEOREM IndexIsTheLog == Spec => []IndexMatchesFlash
<1>1. JInv => IndexMatchesFlash
  BY DEF JInv, LogInv, IndexInv, Matches, Current, IndexMatchesFlash, LogKnown, LogInUse
<1>. QED  BY LogInvariance, <1>1, PTL

(* Only the rename that installs the compacted file forgets an event, and    *)
(* only one that select_records_to_keep() left out.                          *)
THEOREM OnlySwapForgets == Spec => OnlyTheSwapForgets
<1>1. JInv /\ [Next]_vars =>
        [\A e \in BootIds :
           \/ e \in BootIds'
           \/ pc = "renameTmp" /\ e \notin keep
           \/ Formats \/ StartsNewFile]_vars
  BY StepForgetsOnlyBySwap
<1>. QED  BY LogInvariance, <1>1, PTL DEF Spec, OnlyTheSwapForgets

-----------------------------------------------------------------------------
(* The status that the scan gives an event.                                  *)

(* The frames that decide it: the first EVENT frame of the event, and the    *)
(* last of that and the TRANSITION frames after it.                          *)
Deciding(s, e) == UpdatesAt(s, e) \cup {FirstAt(s, e)}

LEMMA DecidingFrames ==
  ASSUME NEW s \in Seq(Frame), NEW e \in ScanIds(s)
  PROVE  /\ Len(s) \in Nat /\ DOMAIN s = 1..Len(s)
         /\ EventsAt(s, e) \subseteq 1..Len(s)
         /\ FirstAt(s, e) \in EventsAt(s, e)
         /\ \A j \in EventsAt(s, e) : FirstAt(s, e) <= j
         /\ Deciding(s, e) \subseteq 1..Len(s)
         /\ LastAt(s, e) \in Deciding(s, e)
         /\ \A j \in Deciding(s, e) : j <= LastAt(s, e)
         /\ Scan(s)[e].status = s[LastAt(s, e)].status
         /\ Scan(s)[e].at = s[FirstAt(s, e)].at
<1>1. DOMAIN s = 1..Len(s) /\ Len(s) \in Nat
  OBVIOUS
<1>2. Readable(s) \subseteq 1..Len(s)
  BY <1>1 DEF Readable
<1>3. EventsAt(s, e) \subseteq 1..Len(s) /\ EventsAt(s, e) # {}
  BY <1>2 DEF EventsAt, ScanIds
<1>4. FirstAt(s, e) \in EventsAt(s, e) /\ \A j \in EventsAt(s, e) : FirstAt(s, e) <= j
  <2>1. \E m \in EventsAt(s, e) : \A j \in EventsAt(s, e) : m <= j
    BY <1>1, <1>3, LeastExists
  <2>. QED  BY <2>1 DEF FirstAt
<1>5. Deciding(s, e) \subseteq 1..Len(s) /\ Deciding(s, e) # {}
  BY <1>2, <1>3, <1>4 DEF UpdatesAt, Deciding
<1>6. LastAt(s, e) \in Deciding(s, e) /\ \A j \in Deciding(s, e) : j <= LastAt(s, e)
  <2>1. \E m \in Deciding(s, e) : \A j \in Deciding(s, e) : j <= m
    BY <1>1, <1>5, GreatestExists
  <2>2. LastAt(s, e) = CHOOSE i \in Deciding(s, e) : \A j \in Deciding(s, e) : j <= i
    BY DEF LastAt, Deciding
  <2>. QED  BY <2>1, <2>2
<1>7. Scan(s)[e].status = s[LastAt(s, e)].status /\ Scan(s)[e].at = s[FirstAt(s, e)].at
  BY DEF Scan
<1>. QED  BY <1>1, <1>3, <1>4, <1>5, <1>6, <1>7

(* A frame more at the end of a clean log: a TRANSITION of an event that the *)
(* log holds decides its status, and so does the EVENT of one that it does   *)
(* not; every other event keeps the status it had.                           *)
LEMMA AppendedStatus ==
  ASSUME NEW s \in Seq(Frame), NEW fr \in Frame, Clean(Append(s, fr))
  PROVE  /\ \A e \in ScanIds(s) :
              Scan(Append(s, fr))[e].status =
                IF fr.kind = "TRANSITION" /\ fr.id = e THEN fr.status ELSE Scan(s)[e].status
         /\ \A e \in ScanIds(s) : Scan(Append(s, fr))[e].at = Scan(s)[e].at
         /\ fr.kind = "EVENT" /\ fr.id \notin ScanIds(s) =>
              Scan(Append(s, fr))[fr.id].status = fr.status /\ Scan(Append(s, fr))[fr.id].at = fr.at
<1> DEFINE t == Append(s, fr)
           n == Len(s)
<1>1. /\ t \in Seq(Frame) /\ n \in Nat /\ Len(t) = n + 1
      /\ \A i \in 1..n : t[i] = s[i]
      /\ t[n + 1] = fr
      /\ Clean(s) /\ Clean(t)
  BY AppendedLog
<1>2. ScanIds(t) = ScanIds(s) \cup (IF fr.kind = "EVENT" THEN {fr.id} ELSE {})
  BY AppendedIds
<1>. HIDE DEF t, n
<1>3. Readable(s) = 1..n /\ Readable(t) = 1..n \cup {n + 1} /\ n + 1 \notin 1..n
  <2>1. Readable(s) = 1..n /\ Readable(t) = 1..(n + 1)
    BY <1>1, CleanIsReadable DEF n
  <2>. QED  BY <1>1, <2>1
<1>4. ASSUME NEW e \in ScanIds(s)
      PROVE  /\ Scan(t)[e].status =
                  IF fr.kind = "TRANSITION" /\ fr.id = e THEN fr.status ELSE Scan(s)[e].status
             /\ Scan(t)[e].at = Scan(s)[e].at
  <2>1. /\ EventsAt(s, e) \subseteq 1..n
        /\ FirstAt(s, e) \in EventsAt(s, e)
        /\ \A j \in EventsAt(s, e) : FirstAt(s, e) <= j
        /\ Deciding(s, e) \subseteq 1..n
        /\ LastAt(s, e) \in Deciding(s, e)
        /\ \A j \in Deciding(s, e) : j <= LastAt(s, e)
        /\ Scan(s)[e].status = s[LastAt(s, e)].status
        /\ Scan(s)[e].at = s[FirstAt(s, e)].at
    BY DecidingFrames DEF n
  <2>2. e \in ScanIds(t)
    BY <1>2
  <2>3. /\ FirstAt(t, e) \in EventsAt(t, e)
        /\ \A j \in EventsAt(t, e) : FirstAt(t, e) <= j
        /\ LastAt(t, e) \in Deciding(t, e)
        /\ \A j \in Deciding(t, e) : j <= LastAt(t, e)
        /\ Scan(t)[e].status = t[LastAt(t, e)].status
        /\ Scan(t)[e].at = t[FirstAt(t, e)].at
        /\ EventsAt(t, e) \subseteq 1..Len(t) /\ Deciding(t, e) \subseteq 1..Len(t)
    BY <1>1, <2>2, DecidingFrames
  <2>4. /\ EventsAt(s, e) \subseteq EventsAt(t, e)
        /\ \A j \in EventsAt(t, e) : j \in EventsAt(s, e) \/ j = n + 1
    BY <1>1, <1>3 DEF EventsAt
  <2>5. FirstAt(t, e) = FirstAt(s, e)
    <3>1. FirstAt(t, e) <= FirstAt(s, e) /\ FirstAt(s, e) \in 1..n /\ FirstAt(t, e) \in Int
      BY <1>1, <2>1, <2>3, <2>4
    <3>2. FirstAt(t, e) # n + 1
      BY <1>1, <3>1
    <3>3. FirstAt(s, e) <= FirstAt(t, e)
      BY <2>1, <2>3, <2>4, <3>2
    <3>. QED  BY <3>1, <3>3
  <2>6. Deciding(t, e) =
          Deciding(s, e) \cup (IF fr.kind = "TRANSITION" /\ fr.id = e THEN {n + 1} ELSE {})
    <3>1. FirstAt(s, e) \in 1..n /\ n + 1 > FirstAt(s, e)
      BY <1>1, <2>1
    <3>2. UpdatesAt(t, e) =
            UpdatesAt(s, e) \cup (IF fr.kind = "TRANSITION" /\ fr.id = e THEN {n + 1} ELSE {})
      BY <1>1, <1>3, <2>5, <3>1 DEF UpdatesAt
    <3>. QED  BY <2>5, <3>2 DEF Deciding
  <2>9. Scan(t)[e].at = Scan(s)[e].at
    BY <1>1, <2>1, <2>3, <2>5
  <2>7. CASE fr.kind = "TRANSITION" /\ fr.id = e
    <3>1. n + 1 \in Deciding(t, e) /\ LastAt(t, e) \in 1..(n + 1)
      BY <1>1, <2>3, <2>6, <2>7
    <3>2. LastAt(t, e) = n + 1
      BY <1>1, <2>3, <3>1
    <3>. QED  BY <1>1, <2>3, <2>7, <2>9, <3>2
  <2>8. CASE ~(fr.kind = "TRANSITION" /\ fr.id = e)
    <3>1. Deciding(t, e) = Deciding(s, e)
      BY <2>6, <2>8
    <3>2. LastAt(t, e) \in 1..n /\ LastAt(s, e) \in 1..n
      BY <2>1, <2>3, <3>1
    <3>3. LastAt(t, e) = LastAt(s, e)
      BY <1>1, <2>1, <2>3, <3>1, <3>2
    <3>. QED  BY <1>1, <2>1, <2>3, <2>8, <2>9, <3>2, <3>3
  <2>. QED  BY <2>7, <2>8
<1>5. ASSUME fr.kind = "EVENT", fr.id \notin ScanIds(s)
      PROVE  Scan(t)[fr.id].status = fr.status /\ Scan(t)[fr.id].at = fr.at
  <2>1. fr.id \in ScanIds(t) /\ fr.id \in Event
    BY <1>2, <1>5 DEF Frame
  <2>2. EventsAt(s, fr.id) = {}
    BY <1>5, <2>1 DEF ScanIds
  <2>3. EventsAt(t, fr.id) \subseteq {n + 1}
    BY <1>1, <1>3, <2>2 DEF EventsAt
  <2>4. /\ FirstAt(t, fr.id) = n + 1
        /\ LastAt(t, fr.id) \in Deciding(t, fr.id)
        /\ Deciding(t, fr.id) \subseteq 1..(n + 1)
        /\ \A j \in Deciding(t, fr.id) : j <= LastAt(t, fr.id)
        /\ Scan(t)[fr.id].status = t[LastAt(t, fr.id)].status
        /\ Scan(t)[fr.id].at = t[FirstAt(t, fr.id)].at
    BY <1>1, <2>1, <2>3, DecidingFrames
  <2>5. n + 1 \in Deciding(t, fr.id)
    BY <2>4 DEF Deciding
  <2>6. LastAt(t, fr.id) = n + 1
    BY <1>1, <2>4, <2>5
  <2>. QED  BY <1>1, <2>4, <2>6
<1>. QED  BY <1>4, <1>5 DEF t

(* In a log of EVENT frames, one of the event's own frames decides.          *)
LEMMA EventFrameDecides ==
  ASSUME NEW s \in Seq(Frame), \A i \in DOMAIN s : s[i].kind = "EVENT", NEW e \in ScanIds(s)
  PROVE  \E i \in DOMAIN s : s[i].id = e /\ Scan(s)[e].status = s[i].status
<1>1. /\ DOMAIN s = 1..Len(s)
      /\ EventsAt(s, e) \subseteq 1..Len(s)
      /\ FirstAt(s, e) \in EventsAt(s, e)
      /\ LastAt(s, e) \in Deciding(s, e)
      /\ Scan(s)[e].status = s[LastAt(s, e)].status
  BY DecidingFrames
<1>2. UpdatesAt(s, e) = {}
  BY DEF UpdatesAt, Readable
<1>3. LastAt(s, e) = FirstAt(s, e)
  BY <1>1, <1>2 DEF Deciding
<1>4. s[FirstAt(s, e)].id = e /\ FirstAt(s, e) \in DOMAIN s
  BY <1>1 DEF EventsAt
<1>. QED  BY <1>1, <1>3, <1>4

-----------------------------------------------------------------------------
(* compact() on a flash that does not fail.                                  *)

(* The calls of compact() are not interleaved with appends, and the flash    *)
(* keeps what it is given; power may still be lost between any two steps.    *)
Reliable == Blocking /\ Faults = {}

Swapping == {"validate", "renameDat", "renameTmp", "removeOld"}
Running  == Swapping \cup {"loop"}

(* No frame of any file is torn; /journal.dat.old is there only during the   *)
(* swap; and until it is over nothing that is owed may be left out.          *)
StageInv ==
  /\ Clean(dat.frames) /\ Clean(tmp.frames) /\ Clean(old.frames)
  /\ pc \in Running => initOk
  /\ ~adrift
  /\ pc \in {"loop", "validate", "renameDat"} => ~old.there
  /\ pc \in Swapping => active
  /\ active => InState(Unsynced) \subseteq keep

(* The copies carry the status their records have: nothing changes a record  *)
(* while compact() runs.                                                     *)
TrueCopies(s) ==
  \A i \in DOMAIN s : s[i].kind = "EVENT" /\ s[i].status = records[s[i].id].status
CopyInv ==
  /\ (pc = "loop" /\ active) \/ pc \in {"validate", "renameDat", "renameTmp"} =>
       TrueCopies(tmp.frames)
  /\ pc = "removeOld" => TrueCopies(dat.frames)

(* The index gives each event the status that a scan of the log would.       *)
StatusInv ==
  pc \in Running \ {"removeOld"} =>
    \A e \in Have : records[e].status = AsDurableLog[e]

OnceInv == JInv /\ StageInv /\ CopyInv /\ StatusInv /\ OwedIsOnFlash

LEMMA ReliableSteps ==
  ASSUME Reliable
  PROVE  /\ InLoop => pc = "loop" /\ ~active
         /\ \A fr : OnFlash(fr) = {fr}
         /\ Next => \/ BootRemoveTmp \/ BootRecover \/ PowerLoss
                    \/ \E e \in Event : AppendEvent(e) \/ \E s \in Written : AppendTransition(e, s)
                    \/ BeginCompaction \/ CompactTick \/ ValidateTmp
                    \/ RenameDatToOld \/ RenameDatFails \/ RenameTmpToDat
                    \/ RemoveOldAndRebuild
<1>1. InLoop => pc = "loop" /\ ~active
  BY Zenon DEF Reliable, InLoop
<1>2. \A fr : OnFlash(fr) = {fr}
  BY DEF Reliable, OnFlash
<1>3. /\ ~BootMountFails /\ ~BootRestoreFails /\ ~CompactTickFails /\ ~TmpFrameLost /\ ~RenameTmpFails
      /\ \A e \in Event : ~AppendEventFails(e) /\ ~AppendTransitionFails(e) /\ ~PowerLossInAppend(e)
  BY DEF Reliable, BootMountFails, BootRestoreFails, CompactTickFails, TmpFrameLost, RenameTmpFails,
         AppendEventFails, AppendTransitionFails, PowerLossInAppend
<1>. QED  BY <1>1, <1>2, <1>3 DEF Next, Appends, Compaction

(* While the old log is still in place it holds what the index does.         *)
LEMMA LogIsTheIndex ==
  ASSUME OnceInv, pc \in Running \ {"removeOld"}
  PROVE  /\ Have = BootIds
         /\ Clean(BootFile.frames) /\ BootFile.frames \in Seq(Frame)
         /\ \A e \in BootIds : AsDurableLog[e] = records[e].status
<1>1. TypeOK /\ FilesInv /\ IndexInv /\ StageInv /\ StatusInv
  BY DEF OnceInv, JInv, IInv, LogInv
<1>2. initOk /\ ~adrift /\ BootFile.frames = Current.frames
  BY <1>1 DEF FilesInv, AbsentIsEmpty, StageInv, Running, Swapping, Current, BootFile
<1>3. Clean(BootFile.frames) /\ BootFile.frames \in Seq(Frame)
  BY <1>1 DEF StageInv, BootFile, TypeOK, File
<1>4. Have = BootIds
  BY <1>1, <1>2, <1>3 DEF IndexInv, Matches, Running, Swapping, BootIds
<1>. QED  BY <1>1, <1>3, <1>4 DEF StatusInv

LEMMA NextLog ==
  AsDurableLog' = [e \in ScanIds(BootFile'.frames) |-> Scan(BootFile'.frames)[e].status]
  BY DEF AsDurableLog, BootIds, Scan, ScanIds, EventsAt, Readable, LastAt, FirstAt, UpdatesAt

LEMMA SameFileSameLog ==
  ASSUME BootFile'.frames = BootFile.frames
  PROVE  AsDurableLog' = AsDurableLog
  BY NextLog DEF AsDurableLog, BootIds

(* A file that passed validation holds the records kept, as they are.        *)
LEMMA CopiesAreRecords ==
  ASSUME NEW s \in Seq(Frame), TrueCopies(s), ScanIds(s) = keep, NEW e \in keep
  PROVE  Scan(s)[e].status = records[e].status
<1>1. \A i \in DOMAIN s : s[i].kind = "EVENT"
  BY DEF TrueCopies
<1>2. PICK i \in DOMAIN s : s[i].id = e /\ Scan(s)[e].status = s[i].status
  BY <1>1, EventFrameDecides
<1>. QED  BY <1>2 DEF TrueCopies

(* A frame written to the flash is one more frame of the log.                *)
LEMMA AppendToLog ==
  ASSUME OnceInv, NEW fr \in Frame, fr.kind # "TORN", old' = old,
         dat' = AppendFrame(dat, fr), pc = "loop"
  PROVE  /\ BootFile'.frames = Append(BootFile.frames, fr)
         /\ BootFile.frames \in Seq(Frame) /\ Clean(Append(BootFile.frames, fr))
         /\ Have = BootIds
<1>1. TypeOK /\ FilesInv /\ StageInv
  BY DEF OnceInv, JInv, IInv, LogInv
<1>2. ~old.there
  BY <1>1 DEF StageInv
<1>3. BootFile'.frames = Append(BootFile.frames, fr)
  BY <1>1, <1>2 DEF AppendFrame, BootFile, FilesInv, AbsentIsEmpty
<1>4. Have = BootIds /\ Clean(BootFile.frames) /\ BootFile.frames \in Seq(Frame)
  BY LogIsTheIndex DEF Running, Swapping
<1>. QED  BY <1>3, <1>4, AppendedLog

LEMMA AcceptedLog ==
  ASSUME Reliable, OnceInv, NEW e \in Event, AppendEvent(e)
  PROVE  /\ Have = BootIds /\ e \notin BootIds
         /\ AsDurableLog' =
              [x \in BootIds \cup {e} |-> IF x = e THEN "PENDING" ELSE AsDurableLog[x]]
         /\ owed' = owed \cup {e}
<1> DEFINE fr == EventFrame(e, "PENDING", clock + 1)
           s == BootFile.frames
<1>1. fr \in Frame /\ fr.kind = "EVENT" /\ fr.id = e /\ fr.status = "PENDING"
  BY FrameTypes DEF OnceInv, JInv, IInv, TypeOK, Status, Unsynced, EventFrame
<1>2. /\ dat' = AppendFrame(dat, fr) /\ old' = old /\ pc = "loop"
      /\ e \notin Have /\ owed' = owed \cup {e}
  BY ReliableSteps DEF AppendEvent, MayAppendEvent
<1>. HIDE DEF fr
<1>3. /\ BootFile'.frames = Append(s, fr) /\ s \in Seq(Frame) /\ Clean(Append(s, fr))
      /\ Have = BootIds
  BY <1>1, <1>2, AppendToLog
<1>4. ScanIds(BootFile'.frames) = BootIds \cup {e}
  BY <1>1, <1>3, AppendedIds DEF BootIds
<1>5. /\ \A x \in BootIds : Scan(BootFile'.frames)[x].status = AsDurableLog[x]
      /\ Scan(BootFile'.frames)[e].status = "PENDING"
  BY <1>1, <1>2, <1>3, AppendedStatus DEF BootIds, AsDurableLog
<1>. QED  BY <1>2, <1>3, <1>4, <1>5, NextLog

LEMMA UpdatedLog ==
  ASSUME Reliable, OnceInv, NEW e \in Event, NEW st \in Written, AppendTransition(e, st)
  PROVE  /\ Have = BootIds /\ e \in BootIds
         /\ AsDurableLog' = [AsDurableLog EXCEPT ![e] = st]
         /\ owed' = IF st \in Terminal THEN owed \ {e} ELSE owed
<1> DEFINE fr == TransitionFrame(e, st)
           s == BootFile.frames
<1>1. fr \in Frame /\ fr.kind = "TRANSITION" /\ fr.id = e /\ fr.status = st
  BY FrameTypes, JournalAssumption DEF TransitionFrame
<1>2. /\ dat' = AppendFrame(dat, fr) /\ old' = old /\ pc = "loop"
      /\ e \in Have /\ owed' = IF st \in Terminal THEN owed \ {e} ELSE owed
  BY ReliableSteps DEF AppendTransition, MayAppendTransition
<1>. HIDE DEF fr
<1>3. /\ BootFile'.frames = Append(s, fr) /\ s \in Seq(Frame) /\ Clean(Append(s, fr))
      /\ Have = BootIds
  BY <1>1, <1>2, AppendToLog
<1>4. ScanIds(BootFile'.frames) = BootIds
  BY <1>1, <1>3, AppendedIds DEF BootIds
<1>5. \A x \in BootIds :
        Scan(BootFile'.frames)[x].status = IF x = e THEN st ELSE AsDurableLog[x]
  BY <1>1, <1>3, AppendedStatus DEF BootIds, AsDurableLog
<1>6. AsDurableLog' = [AsDurableLog EXCEPT ![e] = st]
  BY <1>4, <1>5, NextLog DEF AsDurableLog
<1>. QED  BY <1>2, <1>3, <1>6

(* Each step, as a change to what a boot would recover and to what is owed.  *)
Kept == [e \in keep |-> AsDurableLog[e]]
LogStep ==
  \/ AsDurableLog' = AsDurableLog /\ owed' = owed
  \/ \E e \in Event :
       /\ e \notin BootIds
       /\ AsDurableLog' = [x \in BootIds \cup {e} |-> IF x = e THEN "PENDING" ELSE AsDurableLog[x]]
       /\ owed' = owed \cup {e}
  \/ \E e \in BootIds, s \in Status :
       /\ AsDurableLog' = [AsDurableLog EXCEPT ![e] = s]
       /\ owed' = IF s \in Terminal THEN owed \ {e} ELSE owed
  \/ /\ keep \subseteq BootIds
     /\ \A e \in BootIds \ keep : AsDurableLog[e] \in Terminal
     /\ AsDurableLog' = Kept
     /\ owed' = owed

LEMMA EachStepIsALogStep ==
  ASSUME Reliable, OnceInv, [Next]_vars
  PROVE  LogStep
<1>0. /\ TypeOK /\ KeepInv /\ SwapIsValidated /\ FilesInv
      /\ StageInv /\ CopyInv
  BY DEF OnceInv, JInv, IInv, LogInv
<1>1. ASSUME BootFile'.frames = BootFile.frames, owed' = owed PROVE LogStep
  BY <1>1, SameFileSameLog DEF LogStep
<1>2. CASE BootRemoveTmp \/ PowerLoss \/ BeginCompaction \/ CompactTick \/ ValidateTmp
           \/ RenameDatFails \/ UNCHANGED vars
  <2>1. UNCHANGED <<dat, old, owed>>
    BY <1>2
    DEF BootRemoveTmp, PowerLoss, BeginCompaction, CompactTick, ValidateTmp, RenameDatFails,
        vars, files
  <2>. QED  BY <1>1, <2>1 DEF BootFile
<1>3. CASE BootRecover
  BY <1>0, <1>1, <1>3 DEF BootRecover, BootFile, FilesInv, AbsentIsEmpty, NoFile
<1>4. CASE RenameDatToOld
  BY <1>0, <1>1, <1>4 DEF RenameDatToOld, BootFile, FilesInv, AbsentIsEmpty, NoFile
<1>5. CASE RemoveOldAndRebuild
  BY <1>0, <1>1, <1>5 DEF RemoveOldAndRebuild, BootFile, FilesInv
<1>6. ASSUME NEW e \in Event, AppendEvent(e) PROVE LogStep
  BY <1>6, AcceptedLog DEF LogStep
<1>7. ASSUME NEW e \in Event, NEW s \in Written, AppendTransition(e, s) PROVE LogStep
  BY <1>7, UpdatedLog, JournalAssumption DEF LogStep
<1>8. CASE RenameTmpToDat
  <2>1. BootFile' = tmp /\ pc = "renameTmp" /\ owed' = owed
    BY <1>0, <1>8 DEF RenameTmpToDat, BootFile, FilesInv
  <2>2. ScanIds(tmp.frames) = keep /\ TrueCopies(tmp.frames) /\ tmp.frames \in Seq(Frame)
    BY <1>0, <2>1 DEF SwapIsValidated, CopyInv, TypeOK, File
  <2>3. Have = BootIds /\ \A e \in BootIds : AsDurableLog[e] = records[e].status
    BY <2>1, LogIsTheIndex DEF Running, Swapping
  <2>4. keep \subseteq BootIds
    BY <1>0, <2>3 DEF KeepInv
  <2>5. \A e \in keep : Scan(tmp.frames)[e].status = AsDurableLog[e]
    BY <2>2, <2>3, <2>4, CopiesAreRecords
  <2>6. AsDurableLog' = Kept
    BY <2>1, <2>2, <2>5, NextLog DEF Kept
  <2>7. \A e \in BootIds \ keep : AsDurableLog[e] \in Terminal
    <3>1. InState(Unsynced) \subseteq keep
      BY <1>0, <2>1 DEF StageInv, Swapping
    <3>2. \A e \in Have \ keep : records[e].status \in Terminal
      BY <1>0, <3>1 DEF InState, TypeOK, Status
    <3>. QED  BY <2>3, <3>2
  <2>. QED  BY <2>1, <2>4, <2>6, <2>7 DEF LogStep
<1>. QED
  BY <1>2, <1>3, <1>4, <1>5, <1>6, <1>7, <1>8, ReliableSteps

LEMMA InitOnceInv == Init => StageInv /\ CopyInv /\ StatusInv /\ OwedIsOnFlash
  BY DEF Init, StageInv, CopyInv, StatusInv, OwedIsOnFlash, Running, Swapping, Clean, NoFile

LEMMA StepStageInv ==
  ASSUME Reliable, OnceInv, CopyInv', [Next]_vars
  PROVE  StageInv'
<1>0. TypeOK /\ KeepInv /\ FilesInv /\ StageInv /\ CopyInv
  BY DEF OnceInv, JInv, IInv, LogInv
<1>. USE <1>0 DEF StageInv, Running, Swapping
<1>1. Clean(<<>>)
  BY DEF Clean
<1>2. CASE BootRemoveTmp
  BY <1>1, <1>2 DEF BootRemoveTmp, NoFile, ram, job, KeepInv
<1>3. CASE BootRecover
  BY <1>1, <1>3 DEF BootRecover, BootFile, NoFile, job, KeepInv
<1>4. CASE PowerLoss
  BY <1>4 DEF PowerLoss, RamLost, files
<1>5. ASSUME NEW e \in Event, AppendEvent(e) \/ \E s \in Written : AppendTransition(e, s)
      PROVE  StageInv'
  <2>1. PICK fr \in Frame : fr.kind # "TORN" /\ dat' = AppendFrame(dat, fr)
    <3>1. CASE AppendEvent(e)
      BY <3>1, ReliableSteps, FrameTypes
      DEF AppendEvent, TypeOK, EventFrame, Status, Unsynced
    <3>2. ASSUME NEW s \in Written, AppendTransition(e, s)
          PROVE  \E fr \in Frame : fr.kind # "TORN" /\ dat' = AppendFrame(dat, fr)
      BY <3>2, ReliableSteps, FrameTypes, JournalAssumption DEF AppendTransition, TransitionFrame
    <3>. QED  BY <1>5, <3>1, <3>2
  <2>2. Clean(dat'.frames)
    BY <2>1, AppendedLog DEF AppendFrame, TypeOK, File
  <2>3. UNCHANGED <<tmp, old, pc, initOk, adrift, job>> /\ pc = "loop" /\ ~active
    BY <1>5, ReliableSteps DEF AppendEvent, AppendTransition, MayAppendEvent, MayAppendTransition
  <2>. QED  BY <2>2, <2>3 DEF job
<1>6. CASE BeginCompaction
  BY <1>1, <1>6 DEF BeginCompaction, KeepLists, NoFile, ram, InState, Have
<1>7. CASE CompactTick
  <2>1. Clean(tmp'.frames)
    BY <1>7 DEF CompactTick, CopyInv, TrueCopies, Clean
  <2>. QED  BY <1>7, <2>1 DEF CompactTick, ram, InState, Have
<1>8. CASE ValidateTmp
  <2>1. CASE TmpIsValid
    BY <1>8, <2>1 DEF ValidateTmp, ram, job, InState, Have
  <2>2. CASE ~TmpIsValid
    BY <1>1, <1>8, <2>2 DEF ValidateTmp, JobOver, NoFile, ram
  <2>. QED  BY <2>1, <2>2
<1>9. CASE RenameDatToOld
  BY <1>1, <1>9 DEF RenameDatToOld, NoFile, ram, job, InState, Have
<1>10. CASE RenameDatFails
  BY <1>10 DEF RenameDatFails, Reliable
<1>11. CASE RenameTmpToDat
  BY <1>1, <1>11 DEF RenameTmpToDat, NoFile, ram, job, InState, Have
<1>12. CASE RemoveOldAndRebuild
  BY <1>1, <1>12 DEF RemoveOldAndRebuild, JobOver, NoFile
<1>13. CASE UNCHANGED vars
  BY <1>13 DEF vars, files, ram, job, InState, Have
<1>. QED
  BY <1>2, <1>3, <1>4, <1>5, <1>6, <1>7, <1>8, <1>9, <1>10, <1>11, <1>12, <1>13, ReliableSteps

(* The frames of one chunk are true copies, and so is what they are added to.*)
LEMMA ChunkIsTrue ==
  ASSUME TypeOK, NEW C, C \subseteq Have, NEW s \in Seq(Frame), TrueCopies(s)
  PROVE  TrueCopies(s \o FramesOf(C))
<1> DEFINE q == SetToSeq(C)
           n == Cardinality(C)
           t == FramesOf(C)
           u == s \o t
<1>1. IsFiniteSet(C)
  BY EventIsFinite, FS_Subset DEF TypeOK
<1>2. DOMAIN q = 1..n
  BY <1>1, EnumerationOfSet
<1>3. t \in Seq(Frame)
  BY FramesOfType
<1>4. \A i \in DOMAIN t : t[i].kind = "EVENT" /\ t[i].status = records[t[i].id].status
  <2>. HIDE DEF q, n
  <2>1. t = [i \in 1..n |-> EventFrame(q[i], records[q[i]].status, records[q[i]].at)]
    BY <1>2 DEF FramesOf, q
  <2>. QED  BY <2>1 DEF EventFrame
<1>. HIDE DEF q, n, t
<1>5. /\ u \in Seq(Frame) /\ Len(u) = Len(s) + Len(t)
      /\ \A i \in 1..(Len(s) + Len(t)) : u[i] = IF i <= Len(s) THEN s[i] ELSE t[i - Len(s)]
  BY <1>3, ConcatProperties
<1>6. /\ Len(s) \in Nat /\ DOMAIN s = 1..Len(s)
      /\ Len(t) \in Nat /\ DOMAIN t = 1..Len(t)
      /\ DOMAIN u = 1..(Len(s) + Len(t))
  BY <1>3, <1>5, LenProperties
<1>. HIDE DEF u
<1>7. ASSUME NEW i \in DOMAIN u
      PROVE  u[i].kind = "EVENT" /\ u[i].status = records[u[i].id].status
  <2>1. CASE i <= Len(s)
    <3>1. i \in DOMAIN s /\ u[i] = s[i]
      BY <1>5, <1>6, <2>1
    <3>. QED  BY <3>1 DEF TrueCopies
  <2>2. CASE ~(i <= Len(s))
    <3>1. i - Len(s) \in DOMAIN t /\ u[i] = t[i - Len(s)]
      BY <1>5, <1>6, <2>2
    <3>. QED  BY <1>4, <3>1
  <2>. QED  BY <2>1, <2>2
<1>. QED  BY <1>7 DEF TrueCopies, u, t

LEMMA StepCopyInv ==
  ASSUME Reliable, OnceInv, [Next]_vars
  PROVE  CopyInv'
<1>0. TypeOK /\ KeepInv /\ FilesInv /\ StageInv /\ CopyInv
  BY DEF OnceInv, JInv, IInv, LogInv
<1>. USE <1>0 DEF CopyInv, TrueCopies
<1>1. ASSUME pc' \in {"off", "loop", "boot"}, pc' = "loop" => ~active' PROVE CopyInv'
  BY <1>1
<1>2. CASE BootRemoveTmp \/ BootRecover \/ PowerLoss
  BY <1>1, <1>2 DEF BootRemoveTmp, BootRecover, PowerLoss, job, KeepInv
<1>3. ASSUME NEW e \in Event, AppendEvent(e) \/ \E s \in Written : AppendTransition(e, s)
      PROVE  CopyInv'
  BY <1>1, <1>3, ReliableSteps
  DEF AppendEvent, AppendTransition, MayAppendEvent, MayAppendTransition, job
<1>4. CASE BeginCompaction
  BY <1>4 DEF BeginCompaction, NoFile
<1>5. CASE CompactTick
  <2>1. PICK C \in SUBSET keep : tmp' = [there |-> TRUE, frames |-> tmp.frames \o FramesOf(C)]
    BY <1>5 DEF CompactTick
  <2>2. C \subseteq Have /\ tmp.frames \in Seq(Frame)
    BY DEF KeepInv, TypeOK, File
  <2>3. tmp'.frames = tmp.frames \o FramesOf(C) /\ records' = records
    BY <1>5, <2>1 DEF CompactTick, ram
  <2>4. TrueCopies(tmp.frames \o FramesOf(C))
    BY <1>5, <2>2, ChunkIsTrue DEF CompactTick
  <2>. QED  BY <1>5, <2>3, <2>4 DEF CompactTick
<1>6. CASE ValidateTmp
  BY <1>1, <1>6 DEF ValidateTmp, JobOver, ram
<1>7. CASE RenameDatToOld
  BY <1>7 DEF RenameDatToOld, ram
<1>8. CASE RenameTmpToDat
  BY <1>8 DEF RenameTmpToDat, ram
<1>9. CASE RenameDatFails \/ RemoveOldAndRebuild
  BY <1>1, <1>9 DEF RenameDatFails, RemoveOldAndRebuild, JobOver
<1>10. CASE UNCHANGED vars
  BY <1>10 DEF vars, files, ram, job
<1>. QED
  BY <1>2, <1>3, <1>4, <1>5, <1>6, <1>7, <1>8, <1>9, <1>10, ReliableSteps

LEMMA StepStatusInv ==
  ASSUME Reliable, OnceInv, [Next]_vars
  PROVE  StatusInv'
<1>0. /\ TypeOK /\ KeepInv /\ SwapIsValidated /\ FilesInv /\ StageInv /\ CopyInv /\ StatusInv
  BY DEF OnceInv, JInv, IInv, LogInv
<1>. USE DEF StatusInv, Running, Swapping
<1>1. ASSUME pc' \in {"off", "boot", "removeOld"} PROVE StatusInv'
  BY <1>1
<1>2. ASSUME BootFile'.frames = BootFile.frames, records' = records,
             pc \in Running \ {"removeOld"}
      PROVE  StatusInv'
  <2>1. AsDurableLog' = AsDurableLog
    BY <1>2, SameFileSameLog
  <2>2. Have' = Have
    BY <1>2 DEF Have
  <2>. QED  BY <1>0, <1>2, <2>1, <2>2
<1>3. CASE BootRemoveTmp \/ PowerLoss \/ RenameTmpToDat
  BY <1>1, <1>3 DEF BootRemoveTmp, PowerLoss, RenameTmpToDat
<1>4. CASE BootRecover
  <2>1. BootFile'.frames = dat'.frames /\ dat'.frames \in Seq(Frame)
    BY <1>0, <1>4 DEF BootRecover, BootFile, FilesInv, AbsentIsEmpty, NoFile, TypeOK, File
  <2>2. records' = Scan(dat'.frames)
    BY <1>4 DEF BootRecover
  <2>3. Have' = ScanIds(dat'.frames)
    BY <2>1, <2>2, ScanType DEF Have
  <2>. QED  BY <2>1, <2>2, <2>3, NextLog
<1>5. ASSUME NEW e \in Event, AppendEvent(e) PROVE StatusInv'
  <2>1. /\ Have = BootIds /\ e \notin BootIds
        /\ AsDurableLog' =
             [x \in BootIds \cup {e} |-> IF x = e THEN "PENDING" ELSE AsDurableLog[x]]
    BY <1>5, AcceptedLog
  <2>2. records' = [x \in Have \cup {e} |-> IF x = e THEN [status |-> "PENDING", at |-> clock + 1]
                                                    ELSE records[x]]
    BY <1>5 DEF AppendEvent
  <2>3. Have' = Have \cup {e} /\ pc = "loop"
    BY <1>5, <2>2, ReliableSteps DEF Have, AppendEvent, MayAppendEvent
  <2>. QED  BY <1>0, <2>1, <2>2, <2>3
<1>6. ASSUME NEW e \in Event, NEW s \in Written, AppendTransition(e, s) PROVE StatusInv'
  <2>1. /\ Have = BootIds /\ e \in BootIds
        /\ AsDurableLog' = [AsDurableLog EXCEPT ![e] = s]
    BY <1>6, UpdatedLog
  <2>2. records' = [records EXCEPT ![e].status = s] /\ pc = "loop"
    BY <1>6, ReliableSteps DEF AppendTransition, MayAppendTransition
  <2>3. Have' = Have
    BY <2>2 DEF Have
  <2>4. ASSUME NEW x \in Have PROVE records'[x].status = AsDurableLog'[x]
    <3>1. DOMAIN AsDurableLog = BootIds
      BY DEF AsDurableLog
    <3>2. AsDurableLog'[x] = IF x = e THEN s ELSE AsDurableLog[x]
      BY <2>1, <3>1
    <3>3. records'[x].status = IF x = e THEN s ELSE records[x].status
      BY <1>0, <2>2 DEF TypeOK, Have
    <3>. QED  BY <1>0, <2>2, <3>2, <3>3
  <2>. QED  BY <2>3, <2>4
<1>7. CASE BeginCompaction \/ CompactTick \/ ValidateTmp
  BY <1>2, <1>7 DEF BeginCompaction, CompactTick, ValidateTmp, BootFile, ram
<1>8. CASE RenameDatToOld
  BY <1>0, <1>2, <1>8
  DEF RenameDatToOld, BootFile, FilesInv, AbsentIsEmpty, NoFile, ram
<1>9. CASE RenameDatFails
  BY <1>2, <1>9 DEF RenameDatFails, BootFile, ram
<1>10. CASE RemoveOldAndRebuild
  <2>1. BootFile'.frames = dat.frames /\ dat.frames \in Seq(Frame)
    BY <1>0, <1>10 DEF RemoveOldAndRebuild, BootFile, FilesInv, TypeOK, File
  <2>2. ScanIds(dat.frames) = keep /\ TrueCopies(dat.frames)
    BY <1>0, <1>10 DEF RemoveOldAndRebuild, SwapIsValidated, CopyInv
  <2>3. keep \cap Have = keep
    BY <1>0 DEF KeepInv
  <2>4. records' = [e \in keep |-> records[e]] /\ Have' = keep
    BY <1>10, <2>3 DEF RemoveOldAndRebuild, Have
  <2>5. \A e \in keep : Scan(dat.frames)[e].status = records[e].status
    BY <2>1, <2>2, CopiesAreRecords
  <2>. QED  BY <2>1, <2>2, <2>4, <2>5, NextLog
<1>11. CASE UNCHANGED vars
  <2>1. BootFile' = BootFile /\ records' = records /\ pc' = pc
    BY <1>11 DEF vars, files, ram, BootFile
  <2>. QED  BY <1>1, <1>2, <2>1, <1>0 DEF TypeOK, Pc
<1>. QED
  BY <1>3, <1>4, <1>5, <1>6, <1>7, <1>8, <1>9, <1>10, <1>11, ReliableSteps

(* What is owed is held as unsynced: each step keeps that so, as a step of   *)
(* the log that a boot would recover.                                        *)
LEMMA OwedInLog ==
  OwedIsOnFlash <=> \A e \in owed : e \in DOMAIN AsDurableLog /\ AsDurableLog[e] \in Unsynced
  BY DEF OwedIsOnFlash, AsDurableLog

LEMMA StepOwed ==
  ASSUME Reliable, OnceInv, [Next]_vars
  PROVE  OwedIsOnFlash'
<1>1. \A e \in owed : e \in BootIds /\ AsDurableLog[e] \in Unsynced
  BY OwedInLog DEF OnceInv, AsDurableLog
<1>2. SUFFICES \A e \in owed' : e \in DOMAIN AsDurableLog' /\ AsDurableLog'[e] \in Unsynced
  <2>1. OwedIsOnFlash' <=> (\A e \in owed : e \in DOMAIN AsDurableLog /\ AsDurableLog[e] \in Unsynced)'
    BY OwedInLog, PTL
  <2>. QED  BY <2>1, <1>2
<1>3. DOMAIN AsDurableLog = BootIds
  BY DEF AsDurableLog
<1>4. LogStep
  BY EachStepIsALogStep
<1>5. Status \ Terminal = Unsynced /\ "PENDING" \in Unsynced /\ Unsynced \cap Terminal = {}
  BY DEF Status, Terminal, Unsynced
<1>. QED  BY <1>1, <1>3, <1>4, <1>5 DEF LogStep, Kept

LEMMA StepOnceInv ==
  ASSUME Reliable, OnceInv, [Next]_vars
  PROVE  OnceInv'
<1>1. JInv'
  <2>1. JInv /\ [Next]_vars => IInv' /\ LogInv'
    BY StepTypeOK, StepKeepInv, StepTmpInv, StepSwap,
       StepFilesInv, StepOffInv, StepSizeInv, StepBasisInv, StepIndexInv DEF JInv, IInv, LogInv
  <2>. QED  BY <2>1 DEF OnceInv, JInv
<1>2. CopyInv'
  BY StepCopyInv
<1>3. StageInv' /\ StatusInv' /\ OwedIsOnFlash'
  BY <1>2, StepStageInv, StepStatusInv, StepOwed
<1>. QED  BY <1>1, <1>2, <1>3 DEF OnceInv

LEMMA InitOnce == Init => OnceInv
  BY InitIInv, InitLogInv, InitOnceInv DEF OnceInv, JInv

(* R1, R2, R5: with compact() and a flash that does not fail, an event that  *)
(* append_event() accepted and nothing has settled is on the flash as        *)
(* unsynced at every instant, between any two renames of a swap included.    *)
THEOREM OwedStaysOnFlash == Reliable => (Spec => []OwedIsOnFlash)
<1>. SUFFICES ASSUME Reliable PROVE Spec => []OwedIsOnFlash
  OBVIOUS
<1>1. OnceInv /\ [Next]_vars => OnceInv'
  BY StepOnceInv
<1>2. OnceInv => OwedIsOnFlash
  BY DEF OnceInv
<1>. QED  BY InitOnce, <1>1, <1>2, PTL DEF Spec

(* The promise of the journal, and what a boot would recover as its state.   *)
Durable == INSTANCE DurableLog WITH log <- AsDurableLog

LEMMA InitPromise == Init => Durable!Init
<1>. SUFFICES ASSUME Init PROVE AsDurableLog = [e \in {} |-> "PENDING"]
  BY DEF Durable!Init
<1>1. BootIds = {}
  BY DEF Init, BootIds, BootFile, NoFile, ScanIds, EventsAt, Readable
<1>. QED  BY <1>1 DEF AsDurableLog

LEMMA LogStepKeepsPromise ==
  ASSUME LogStep, BootIds \subseteq Event
  PROVE  [Durable!Next]_AsDurableLog
<1>1. Durable!Held = BootIds
  BY DEF Durable!Held, AsDurableLog
<1>2. ASSUME NEW e \in Event, e \notin BootIds,
             AsDurableLog' = [x \in BootIds \cup {e} |-> IF x = e THEN "PENDING" ELSE AsDurableLog[x]]
      PROVE  Durable!Accept(e)
  BY <1>1, <1>2 DEF Durable!Accept
<1>3. ASSUME NEW e \in BootIds, NEW s \in Status,
             AsDurableLog' = [AsDurableLog EXCEPT ![e] = s]
      PROVE  e \in Event /\ s \in Unsynced \cup Terminal /\ Durable!Update(e, s)
  BY <1>1, <1>3 DEF Durable!Update, Status
<1>4. ASSUME keep \subseteq BootIds,
             \A e \in BootIds \ keep : AsDurableLog[e] \in Terminal,
             AsDurableLog' = Kept
      PROVE  \E S \in SUBSET Durable!Held : Durable!Forget(S)
  <2>1. BootIds \ (BootIds \ keep) = keep
    BY <1>4
  <2>2. Durable!Forget(BootIds \ keep)
    BY <1>1, <1>4, <2>1 DEF Durable!Forget, Kept
  <2>. QED  BY <1>1, <2>2
<1>. QED  BY <1>2, <1>3, <1>4 DEF LogStep, Durable!Next

LEMMA StepIsPromised ==
  ASSUME Reliable, OnceInv, [Next]_vars
  PROVE  [Durable!Next]_AsDurableLog
<1>1. BootIds \subseteq Event
  BY DEF BootIds, ScanIds
<1>. QED  BY <1>1, EachStepIsALogStep, LogStepKeepsPromise

(* R1, R2, R5, R8: with compact() and a flash that does not fail the journal *)
(* implements the durable log: each write, rename, power loss and boot is an *)
(* acceptance, a change of status, the forgetting of settled events, or      *)
(* nothing at all.                                                           *)
THEOREM JournalIsADurableLog == Reliable => (Spec => Durable!Spec)
<1>. SUFFICES ASSUME Reliable PROVE Spec => Durable!Spec
  OBVIOUS
<1>1. OnceInv /\ [Next]_vars => OnceInv'
  BY StepOnceInv
<1>2. OnceInv /\ [Next]_vars => [Durable!Next]_AsDurableLog
  BY StepIsPromised
<1>. QED  BY InitOnce, InitPromise, <1>1, <1>2, PTL DEF Spec, Durable!Spec

-----------------------------------------------------------------------------
(* The recovery scan, which reads the log one frame after the other, and     *)
(* Scan, which says of each event which frames decide it.                    *)

(* One frame more of a clean log is one step of the loop.                    *)
LEMMA AppendedScan ==
  ASSUME NEW s \in Seq(Frame), NEW fr \in Frame, Clean(Append(s, fr))
  PROVE  Scan(Append(s, fr)) = ApplyFrame(Scan(s), fr)
<1> DEFINE t == Append(s, fr)
<1>1. t \in Seq(Frame) /\ fr.kind \in {"EVENT", "TRANSITION"} /\ fr.id \in Event
  <2>1. t \in Seq(Frame)
    BY AppendedLog
  <2>. QED  BY <2>1, AppendedLog DEF Frame
<1>2. ScanIds(t) = ScanIds(s) \cup (IF fr.kind = "EVENT" THEN {fr.id} ELSE {})
  BY AppendedIds
<1>a. ASSUME NEW e \in ScanIds(s)
      PROVE  /\ Scan(t)[e].status =
                  IF fr.kind = "TRANSITION" /\ fr.id = e THEN fr.status ELSE Scan(s)[e].status
             /\ Scan(t)[e].at = Scan(s)[e].at
  BY AppendedStatus
<1>b. fr.kind = "EVENT" /\ fr.id \notin ScanIds(s) =>
        Scan(t)[fr.id].status = fr.status /\ Scan(t)[fr.id].at = fr.at
  BY AppendedStatus
<1>. HIDE DEF t
<1>3. ASSUME NEW e \in ScanIds(s)
      PROVE  Scan(s)[e] = [status |-> Scan(s)[e].status, at |-> Scan(s)[e].at]
  <2>1. Scan(s)[e] \in [status : Status, at : Nat]
    BY ScanType
  <2>. QED  BY <2>1
<1>4. ASSUME NEW e \in ScanIds(t)
      PROVE  Scan(t)[e] = [status |-> Scan(t)[e].status, at |-> Scan(t)[e].at]
  <2>1. Scan(t)[e] \in [status : Status, at : Nat]
    BY <1>1, ScanType
  <2>. QED  BY <2>1
<1>c. ASSUME NEW e \in ScanIds(s), ~(fr.kind = "TRANSITION" /\ fr.id = e)
      PROVE  Scan(t)[e] = Scan(s)[e]
  <2>1. e \in ScanIds(t)
    BY <1>2
  <2>2. Scan(t)[e].status = Scan(s)[e].status /\ Scan(t)[e].at = Scan(s)[e].at
    BY <1>a, <1>c
  <2>. QED  BY <1>3, <1>4, <2>1, <2>2, Zenon
<1>5. /\ Scan(s) = [e \in ScanIds(s) |-> Scan(s)[e]]
      /\ Scan(t) = [e \in ScanIds(t) |-> Scan(t)[e]]
      /\ DOMAIN Scan(s) = ScanIds(s)
  BY DEF Scan
<1>6. CASE fr.kind = "EVENT" /\ fr.id \notin ScanIds(s)
  <2>1. ApplyFrame(Scan(s), fr) =
          [e \in ScanIds(s) \cup {fr.id} |->
             IF e = fr.id THEN [status |-> fr.status, at |-> fr.at] ELSE Scan(s)[e]]
    BY <1>5, <1>6, Zenon DEF ApplyFrame
  <2>2. \A e \in ScanIds(t) :
          Scan(t)[e] = IF e = fr.id THEN [status |-> fr.status, at |-> fr.at] ELSE Scan(s)[e]
    <3>1. fr.id \in ScanIds(t) /\ \A e \in ScanIds(t) : e # fr.id => e \in ScanIds(s)
      BY <1>2, <1>6
    <3>2. Scan(t)[fr.id] = [status |-> fr.status, at |-> fr.at]
      BY <1>4, <1>6, <1>b, <3>1
    <3>. QED  BY <1>6, <1>c, <3>1, <3>2
  <2>. QED  BY <1>2, <1>5, <1>6, <2>1, <2>2 DEF t
<1>7. CASE fr.kind = "TRANSITION" /\ fr.id \in ScanIds(s)
  <2>1. ApplyFrame(Scan(s), fr) = [Scan(s) EXCEPT ![fr.id].status = fr.status]
    BY <1>5, <1>7, Zenon DEF ApplyFrame
  <2>2. Scan(t)[fr.id] = [status |-> fr.status, at |-> Scan(s)[fr.id].at]
    <3>1. fr.id \in ScanIds(t)
      BY <1>2, <1>7
    <3>2. Scan(t)[fr.id].status = fr.status /\ Scan(t)[fr.id].at = Scan(s)[fr.id].at
      BY <1>7, <1>a
    <3>. QED  BY <1>4, <3>1, <3>2, Zenon
  <2>3. [Scan(s)[fr.id] EXCEPT !.status = fr.status] = [status |-> fr.status, at |-> Scan(s)[fr.id].at]
    <3>1. Scan(s)[fr.id] \in [status : Status, at : Nat]
      BY <1>7, ScanType
    <3>. QED  BY <3>1
  <2>4. ScanIds(t) = ScanIds(s)
    BY <1>2, <1>7
  <2>5. \A e \in ScanIds(s) : e # fr.id => Scan(t)[e] = Scan(s)[e]
    BY <1>c
  <2>. QED  BY <1>5, <1>7, <2>1, <2>2, <2>3, <2>4, <2>5 DEF t
<1>8. CASE \/ fr.kind = "EVENT" /\ fr.id \in ScanIds(s)
           \/ fr.kind = "TRANSITION" /\ fr.id \notin ScanIds(s)
  <2>1. ApplyFrame(Scan(s), fr) = Scan(s)
    BY <1>5, <1>8, Zenon DEF ApplyFrame
  <2>2. ScanIds(t) = ScanIds(s)
    BY <1>2, <1>8
  <2>3. \A e \in ScanIds(s) : Scan(t)[e] = Scan(s)[e]
    BY <1>8, <1>c
  <2>. QED  BY <1>5, <2>1, <2>2, <2>3 DEF t
<1>. QED  BY <1>1, <1>6, <1>7, <1>8

(* A frame after a torn one, or a torn one, is not read.                     *)
LEMMA UnreadFrame ==
  ASSUME NEW s \in Seq(Frame), NEW fr \in Frame, ~Clean(Append(s, fr))
  PROVE  Scan(Append(s, fr)) = Scan(s)
<1> DEFINE t == Append(s, fr)
<1>1. /\ DOMAIN s = 1..Len(s) /\ Len(s) \in Nat /\ DOMAIN t = 1..(Len(s) + 1)
      /\ \A i \in 1..Len(s) : t[i] = s[i]
      /\ t[Len(s) + 1] = fr /\ (~Clean(s) \/ fr.kind = "TORN")
  BY AppendedLog
<1>. HIDE DEF t
<1>2. Readable(t) = Readable(s)
  <2>1. ASSUME NEW i \in 1..Len(s)
        PROVE  i \in Readable(t) <=> i \in Readable(s)
    <3>1. \A j \in 1..i : j \in 1..Len(s) /\ t[j] = s[j]
      BY <1>1
    <3>2. i \in 1..(Len(s) + 1)
      BY <1>1
    <3>. QED  BY <1>1, <3>1, <3>2 DEF Readable
  <2>2. Len(s) + 1 \notin Readable(t)
    <3>1. CASE fr.kind = "TORN"
      BY <1>1, <3>1 DEF Readable
    <3>2. CASE ~Clean(s)
      <4>1. PICK i \in 1..Len(s) : s[i].kind = "TORN"
        BY <1>1, <3>2 DEF Clean
      <4>2. i \in 1..(Len(s) + 1) /\ t[i].kind = "TORN"
        BY <1>1, <4>1
      <4>. QED  BY <4>2 DEF Readable
    <3>. QED  BY <1>1, <3>1, <3>2
  <2>3. Readable(t) \subseteq 1..Len(s) \cup {Len(s) + 1} /\ Readable(s) \subseteq 1..Len(s)
    BY <1>1 DEF Readable
  <2>. QED  BY <2>1, <2>2, <2>3
<1>3. \A i \in Readable(s) : t[i] = s[i]
  BY <1>1 DEF Readable
<1>4. \A e \in Event : EventsAt(t, e) = EventsAt(s, e)
  BY <1>2, <1>3 DEF EventsAt
<1>5. ScanIds(t) = ScanIds(s)
  BY <1>4 DEF ScanIds
<1>6. ASSUME NEW e \in ScanIds(s)
      PROVE  [status |-> t[LastAt(t, e)].status, at |-> t[FirstAt(t, e)].at]
               = [status |-> s[LastAt(s, e)].status, at |-> s[FirstAt(s, e)].at]
  <2>0. e \in Event
    BY DEF ScanIds
  <2>1. FirstAt(t, e) = FirstAt(s, e)
    BY <1>4, <2>0 DEF FirstAt
  <2>2. UpdatesAt(t, e) = UpdatesAt(s, e)
    BY <1>2, <1>3, <2>1 DEF UpdatesAt
  <2>3. LastAt(t, e) = LastAt(s, e)
    BY <2>1, <2>2 DEF LastAt
  <2>4. FirstAt(s, e) \in EventsAt(s, e) /\ LastAt(s, e) \in Deciding(s, e)
    BY DecidingFrames
  <2>5. FirstAt(s, e) \in Readable(s) /\ LastAt(s, e) \in Readable(s)
    BY <2>4 DEF Deciding, EventsAt, UpdatesAt
  <2>. QED  BY <1>3, <2>1, <2>3, <2>5
<1>. QED  BY <1>5, <1>6 DEF Scan, t

(* The function that ScanLoop defines exists, ...                            *)
LoopAt(s, f, n) ==
  IF n = 0 THEN [stop |-> FALSE, idx |-> NoRecords] ELSE ScanStep(f[n - 1], s[n])

LEMMA LoopExists ==
  ASSUME NEW s, NEW last \in Nat
  PROVE  \E f : f = [n \in 0..last |-> LoopAt(s, f, n)]
<1> DEFINE Exists(m) == \E f : f = [n \in 0..m |-> LoopAt(s, f, n)]
           T == {m \in Nat : ~Exists(m)}
<1>1. ASSUME NEW m \in T, \A k \in T : m <= k
      PROVE  FALSE
  <2>1. CASE m = 0
    <3> DEFINE g == [n \in 0..0 |-> [stop |-> FALSE, idx |-> NoRecords]]
    <3>1. g = [n \in 0..0 |-> LoopAt(s, g, n)]
      BY DEF LoopAt
    <3>. QED  BY <1>1, <2>1, <3>1
  <2>2. CASE m # 0
    <3>1. m \in Nat \ {0} /\ m - 1 \in Nat /\ m - 1 \notin T
      BY <1>1, <2>2
    <3>2. PICK g : g = [n \in 0..m - 1 |-> LoopAt(s, g, n)]
      BY <3>1
    <3> DEFINE h == [n \in 0..m |-> IF n = m THEN LoopAt(s, g, m) ELSE g[n]]
    <3>3. ASSUME NEW n \in 0..m PROVE h[n] = LoopAt(s, h, n)
      <4>1. n # 0 => n - 1 \in 0..m - 1 /\ h[n - 1] = g[n - 1]
        BY <3>1
      <4>2. CASE n = m
        BY <3>1, <4>1, <4>2 DEF LoopAt
      <4>3. CASE n # m
        <5>1. n \in 0..m - 1
          BY <3>1, <4>3
        <5>2. h[n] = g[n] /\ g[n] = LoopAt(s, g, n)
          BY <3>2, <4>3, <5>1
        <5>. QED  BY <4>1, <5>2 DEF LoopAt
      <4>. QED  BY <4>2, <4>3
    <3>4. h = [n \in 0..m |-> LoopAt(s, h, n)]
      BY <3>3
    <3>5. Exists(m)
      BY <3>4
    <3>. QED  BY <1>1, <3>5
  <2>. QED  BY <2>1, <2>2
<1>2. T = {}
  <2>1. T \subseteq Nat
    OBVIOUS
  <2>. HIDE DEF T
  <2>. QED  BY <1>1, <2>1, LeastExists
<1>. QED  BY <1>2

(* ... and after n frames its index is Scan of those n.                      *)
Prefix(s, n) == [i \in 1..n |-> s[i]]

LEMMA PrefixGrows ==
  ASSUME NEW s \in Seq(Frame), NEW n \in 1..Len(s)
  PROVE  /\ Prefix(s, n - 1) \in Seq(Frame) /\ s[n] \in Frame
         /\ Prefix(s, n) = Append(Prefix(s, n - 1), s[n])
<1> DEFINE p == Prefix(s, n - 1)
<1>1. n \in Nat \ {0} /\ n - 1 \in Nat /\ Len(s) \in Nat /\ \A i \in 1..Len(s) : s[i] \in Frame
  OBVIOUS
<1>2. p \in Seq(Frame) /\ Len(p) = n - 1 /\ \A i \in 1..n - 1 : p[i] = s[i]
  <2>1. p \in [1..n - 1 -> Frame]
    BY <1>1 DEF Prefix
  <2>. QED  BY <1>1, <2>1, SeqDef DEF Prefix
<1>. HIDE DEF p
<1>3. /\ Append(p, s[n]) = [i \in 1..n |-> IF i = n THEN s[n] ELSE p[i]]
  BY <1>1, <1>2
<1>4. Append(p, s[n]) = Prefix(s, n)
  BY <1>1, <1>2, <1>3 DEF Prefix
<1>. QED  BY <1>1, <1>2, <1>4 DEF p

(* scan_journal() and apply_scanned_frame() on any log, torn anywhere or     *)
(* not: each event that an EVENT frame before the first torn one names has   *)
(* the time of the first such frame, and the status of the last TRANSITION   *)
(* after it.                                                                 *)
THEOREM LoopIsScan ==
  ASSUME NEW s \in Seq(Frame)
  PROVE  ScanLoop(s) = Scan(s)
<1> DEFINE f == CHOOSE f : f = [n \in 0..Len(s) |-> LoopAt(s, f, n)]
<1>0. Len(s) \in Nat /\ DOMAIN s = 1..Len(s)
  OBVIOUS
<1>1. f = [n \in 0..Len(s) |-> LoopAt(s, f, n)]
  BY <1>0, LoopExists
<1>2. ScanLoop(s) = f[Len(s)].idx
  BY DEF ScanLoop, LoopAt
<1> HIDE DEF f
<1> DEFINE Right(n) == (f[n].stop <=> ~Clean(Prefix(s, n))) /\ f[n].idx = Scan(Prefix(s, n))
           T == {n \in 0..Len(s) : ~Right(n)}
<1>3. ASSUME NEW n \in T, \A m \in T : n <= m
      PROVE  FALSE
  <2>1. CASE n = 0
    <3>1. f[0].stop = FALSE /\ f[0].idx = NoRecords
      BY <1>0, <1>1 DEF LoopAt
    <3>2. Clean(Prefix(s, 0)) /\ ScanIds(Prefix(s, 0)) = {}
      BY DEF Prefix, Clean, ScanIds, EventsAt, Readable
    <3>3. Scan(Prefix(s, 0)) = NoRecords
      BY <3>2 DEF Scan, NoRecords
    <3>. QED  BY <1>3, <2>1, <3>1, <3>2, <3>3
  <2>2. CASE n # 0
    <3> DEFINE p  == Prefix(s, n - 1)
               fr == s[n]
    <3>1. n \in 1..Len(s) /\ n - 1 \in 0..Len(s)
      BY <1>0, <1>3, <2>2
    <3>2. p \in Seq(Frame) /\ fr \in Frame /\ Prefix(s, n) = Append(p, fr)
      BY <3>1, PrefixGrows
    <3>3. (f[n - 1].stop <=> ~Clean(p)) /\ f[n - 1].idx = Scan(p)
      BY <1>3, <3>1
    <3>4. f[n] = ScanStep(f[n - 1], fr)
      BY <1>0, <1>1, <3>1, <2>2 DEF LoopAt
    <3>. HIDE DEF p, fr
    <3>5. Clean(Append(p, fr)) <=> Clean(p) /\ fr.kind # "TORN"
      BY <3>2, AppendedLog
    <3>6. CASE Clean(Append(p, fr))
      <4>1. f[n] = [stop |-> FALSE, idx |-> ApplyFrame(Scan(p), fr)]
        BY <3>3, <3>4, <3>5, <3>6 DEF ScanStep
      <4>2. ApplyFrame(Scan(p), fr) = Scan(Append(p, fr))
        BY <3>2, <3>6, AppendedScan
      <4>3. ~f[n].stop /\ f[n].idx = Scan(Prefix(s, n)) /\ Clean(Prefix(s, n))
        BY <3>2, <3>6, <4>1, <4>2
      <4>. QED  BY <1>3, <4>3
    <3>7. CASE ~Clean(Append(p, fr))
      <4>1. f[n] = [stop |-> TRUE, idx |-> Scan(p)]
        BY <3>3, <3>4, <3>5, <3>7 DEF ScanStep
      <4>2. Scan(p) = Scan(Append(p, fr))
        BY <3>2, <3>7, UnreadFrame
      <4>3. f[n].stop /\ f[n].idx = Scan(Prefix(s, n)) /\ ~Clean(Prefix(s, n))
        BY <3>2, <3>7, <4>1, <4>2
      <4>. QED  BY <1>3, <4>3
    <3>. QED  BY <3>6, <3>7
  <2>. QED  BY <2>1, <2>2
<1>4. T = {}
  <2>1. T \subseteq Nat
    BY <1>0
  <2>. HIDE DEF T
  <2>. QED  BY <1>3, <2>1, LeastExists
<1>5. Prefix(s, Len(s)) = s
  BY <1>0 DEF Prefix
<1>. QED  BY <1>0, <1>2, <1>4, <1>5

(* Whatever compactions, failed writes and power losses leave in any of the  *)
(* three files, the loop over its frames recovers what Scan says.            *)
THEOREM RecoveryIsScan == Spec => []ScanIsTheLoop
<1>1. TypeOK => ScanIsTheLoop
  BY LoopIsScan DEF TypeOK, File, ScanIsTheLoop
<1>. QED  BY <1>1, TypeCorrect, PTL

-----------------------------------------------------------------------------
(* The same two promises of the specification that is run, where a journal   *)
(* that compacts in ticks on a flash that fails stands beside this one.      *)

OnceSteps == way \in {"once", "ticks"} /\ (way = "once" => OnceInv)

LEMMA OnceStepsInit ==
  ASSUME JournalInit
  PROVE  OnceSteps
BY InitOnce DEF JournalInit, OnceSteps

LEMMA OnceStepsStep ==
  ASSUME Reliable, OnceSteps, [JournalNext]_<<way, vars>>
  PROVE  OnceSteps' /\ way' = way /\ (way = "once" => [Next]_vars)
<1>1. way' = way /\ (way = "once" => [Next]_vars)
  BY DEF JournalNext, InWay, OnceSteps
<1>. QED  BY <1>1, StepOnceInv DEF OnceSteps

(* R1, R2, R5, of the behaviours that compact at once: what append_event()   *)
(* accepted and nothing has settled is on the flash as unsynced, at every    *)
(* write, rename, power loss and boot.                                       *)
THEOREM OwedStaysOnFlashOnce == Reliable => (JournalSpec => []OwedIsOnFlashOnce)
<1>. SUFFICES ASSUME Reliable PROVE JournalSpec => []OwedIsOnFlashOnce
  OBVIOUS
<1>1. OnceSteps /\ [JournalNext]_<<way, vars>> => OnceSteps'
  BY OnceStepsStep
<1>2. JournalInit => OnceSteps
  BY OnceStepsInit
<1>3. OnceSteps => OwedIsOnFlashOnce
  BY DEF OnceSteps, OnceInv, OwedIsOnFlashOnce
<1>. QED  BY <1>1, <1>2, <1>3, PTL DEF JournalSpec

LEMMA PromiseIsDurable ==
  ASSUME OnceSteps, way' = way, way = "once" => [Durable!Next]_AsDurableLog
  PROVE  [Promise!Next]_(IF way = "once" THEN AsDurableLog ELSE NoRecords)
<1>1. CASE way = "once"
  <2>1. /\ (IF way = "once" THEN AsDurableLog ELSE NoRecords) = AsDurableLog
        /\ (IF way = "once" THEN AsDurableLog ELSE NoRecords)' = AsDurableLog'
    BY <1>1
  <2>2. CASE AsDurableLog' = AsDurableLog
    BY <2>1, <2>2
  <2>3. ASSUME NEW e \in Event, Durable!Accept(e)
        PROVE  Promise!Accept(e)
    BY <2>1, <2>3 DEF Durable!Accept, Durable!Held, Promise!Accept, Promise!Held
  <2>4. ASSUME NEW e \in Event, NEW s \in Unsynced \cup Terminal, Durable!Update(e, s)
        PROVE  Promise!Update(e, s)
    BY <2>1, <2>4 DEF Durable!Update, Durable!Held, Promise!Update, Promise!Held
  <2>5. ASSUME NEW S \in SUBSET Durable!Held, Durable!Forget(S)
        PROVE  S \in SUBSET Promise!Held /\ Promise!Forget(S)
    BY <2>1, <2>5 DEF Durable!Forget, Durable!Held, Promise!Forget, Promise!Held
  <2>6. Promise!Next \/ AsDurableLog' = AsDurableLog
    BY <1>1, <2>3, <2>4, <2>5 DEF Durable!Next, Promise!Next
  <2>. QED  BY <2>2, <2>6
<1>2. CASE way # "once"
  <2>1. (IF way = "once" THEN AsDurableLog ELSE NoRecords)' = NoRecords
    BY <1>2 DEF NoRecords
  <2>. QED  BY <1>2, <2>1
<1>. QED  BY <1>1, <1>2

(* R1, R2, R5, R8, of the behaviours that compact at once: each step of the  *)
(* journal is one of DurableLog or none.  Of those that compact in ticks     *)
(* nothing is promised.                                                      *)
THEOREM JournalIsADurableLogOnce == Reliable => (JournalSpec => ImplementsDurableLog)
<1>. SUFFICES ASSUME Reliable PROVE JournalSpec => ImplementsDurableLog
  OBVIOUS
<1>1. OnceSteps /\ [JournalNext]_<<way, vars>> => OnceSteps'
  BY OnceStepsStep
<1>2. JournalInit => OnceSteps
  BY OnceStepsInit
<1>3. JournalInit => Promise!Init
  BY InitPromise DEF JournalInit, Promise!Init, Durable!Init, NoRecords
<1>4. OnceSteps /\ [JournalNext]_<<way, vars>>
        => [Promise!Next]_(IF way = "once" THEN AsDurableLog ELSE NoRecords)
  <2>1. OnceInv /\ [Next]_vars => [Durable!Next]_AsDurableLog
    BY StepIsPromised
  <2>. QED  BY <2>1, OnceStepsStep, PromiseIsDurable DEF OnceSteps
<1>. QED
  BY <1>1, <1>2, <1>3, <1>4, PTL DEF JournalSpec, ImplementsDurableLog, Promise!Spec
=============================================================================
