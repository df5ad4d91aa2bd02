---------------------------- MODULE RecoveryProofs ----------------------------
(***************************************************************************)
(* Proofs about RecoverySupervisor, for every threshold, patience and      *)
(* number of mishaps, and about RecoveryHistory, for every size of the     *)
(* ring and number of events.                                              *)
(***************************************************************************)
EXTENDS RecoverySupervisor, RecoveryHistory, Integers, TLAPS

RecFlags ==
  /\ safeMode \in BOOLEAN /\ stable \in BOOLEAN
  /\ forced \in BOOLEAN /\ opened \in BOOLEAN /\ unmarked \in BOOLEAN

(* With the flags, more than RecTypeOK says, and why the count of critical   *)
(* checks is bounded: the check that reaches the patience asks for the       *)
(* reboot.                                                                   *)
RecCounts ==
  /\ nvsCode \in Code \cup {NoCode, "TASK_CREATE_FAILED"}
  /\ nvsStreak \in 0..SafeModeThreshold /\ streak \in 0..SafeModeThreshold
  /\ phase \in {"off", "up", "code", "streak"}
  /\ cause \in Code \cup {NoCode} /\ (cause # NoCode <=> phase \in {"code", "streak"})
  /\ level \in Level
  /\ critical \in 0..Patience /\ checks \in 0..ChecksPerTick
  /\ phase = "up" => critical < Patience
  /\ still \in 0..StallTicks - 1 /\ stage \in 0..2
  /\ asked \in 0..SafeModeThreshold /\ done \in 0..SafeModeThreshold
  /\ askedFor \in Code \cup {NoCode} /\ doneFor \in Code \cup {NoCode}
  /\ mishaps \in Nat

(* What RAM and NVS have to do with each other in each phase: RAM has the    *)
(* streak of NVS if it could be read and no stable boot has forgotten it.    *)
RamAndNvs ==
  /\ phase # "off" => (safeMode <=> streak >= SafeModeThreshold)
  /\ phase \in {"up", "code"} =>
       /\ opened /\ ~stable => streak = nvsStreak
       /\ ~opened \/ stable => streak = 0
  /\ phase = "streak" => nvsCode = cause /\ streak > 0
  /\ phase = "up" /\ stable =>
       asked = 0 /\ done = 0 /\ ~forced /\ (~unmarked => nvsStreak = 0)

(* The streak counts no reboot that was not asked for.  A run of stalled     *)
(* screens is never longer than one, because the boot that asks for the      *)
(* reboot was stable; so a power loss between the two puts, which leaves the *)
(* code of one run beside the streak of another, leaves a streak of one at   *)
(* the most.                                                                 *)
NoneTooMany ==
  /\ askedFor = NoCode => asked = 0
  /\ askedFor = "UI_STALL" => asked <= 1
  /\ phase \in {"code", "streak"} => askedFor = cause /\ asked > 0
  /\ ~forced /\ ~unmarked =>
       /\ nvsStreak <= asked
       /\ nvsStreak > 0 /\ nvsCode = "LOW_MEMORY" => askedFor = "LOW_MEMORY"
       /\ phase = "code" => Run(nvsCode, nvsStreak, cause) <= asked
       /\ phase = "streak" => streak <= asked

(* And it counts every one that was completed.                               *)
NoneTooFew ==
  /\ done <= nvsStreak
  /\ done > 0 /\ doneFor = "LOW_MEMORY" => nvsCode = "LOW_MEMORY"
  /\ phase \in {"code", "streak"} /\ cause = "UI_STALL" => done = 0
  /\ phase = "streak" => Run(doneFor, done, cause) <= streak

RecInv == RecFlags /\ RecCounts /\ RamAndNvs /\ NoneTooMany /\ NoFalseSafeMode /\ NoneTooFew

-----------------------------------------------------------------------------
(* A kiosk taken out of its box.                                             *)
LEMMA RecInvInit == RecInit => RecInv
<1> SUFFICES ASSUME RecInit PROVE RecInv
  OBVIOUS
<1> USE RecoveryAssumption DEF RecInit, NoCode
<1>1. RecFlags
  BY DEF RecFlags
<1>2. RecCounts
  BY DEF RecCounts, Code, Level
<1>3. RamAndNvs
  BY DEF RamAndNvs
<1>4. NoneTooMany /\ NoFalseSafeMode /\ NoneTooFew
  BY DEF NoneTooMany, NoFalseSafeMode, NoneTooFew
<1>. QED  BY <1>1, <1>2, <1>3, <1>4 DEF RecInv

(* A run counted one further, and never past the threshold.                  *)
LEMMA RunCounts ==
  ASSUME NEW n \in 0..SafeModeThreshold, NEW for, NEW code
  PROVE  /\ Run(for, n, code) \in 1..SafeModeThreshold
         /\ for # code => Run(for, n, code) = 1
         /\ n = 0 => Run(for, n, code) = 1
         /\ for = code => Run(for, n, code) >= n
         /\ \A m \in 0..n : Run(for, m, code) <= Run(for, n, code)
BY RecoveryAssumption DEF Run

(* The boot, and the two puts of a controlled reboot.                        *)
LEMMA RecInvReboot ==
  ASSUME RecInv, RecBoot \/ PutCode \/ PutStreakAndRestart
  PROVE  RecInv'
<1> USE RecoveryAssumption DEF RecInv, NoCode, LoopForgotten, recNvs, recRam, recLoop, recScreen, recPast, recMarks, Mishap
<1>1. CASE RecBoot
  <2>0. /\ phase' = "up" /\ stable' = FALSE /\ opened' \in BOOLEAN
        /\ IF opened' THEN streak' = nvsStreak ELSE streak' = 0
        /\ safeMode' = (streak' >= SafeModeThreshold)
        /\ UNCHANGED <<nvsCode, nvsStreak, cause, level, asked, done, askedFor, doneFor,
                       forced, unmarked>>
    BY <1>1 DEF RecBoot
  <2>1. RecFlags'
    <3>1. safeMode' \in BOOLEAN
      BY <2>0
    <3>2. stable' \in BOOLEAN /\ opened' \in BOOLEAN
      BY <2>0
    <3>3. forced' \in BOOLEAN /\ unmarked' \in BOOLEAN
      BY <2>0 DEF RecFlags
    <3>. QED  BY <3>1, <3>2, <3>3 DEF RecFlags
  <2>2. mishaps' \in Nat /\ streak' \in 0..SafeModeThreshold
    <3>1. mishaps' \in Nat
      BY <1>1 DEF RecBoot, RecCounts
    <3>. QED  BY <2>0, <3>1 DEF RecCounts
  <2>3. RecCounts'
    BY <1>1, <2>0, <2>2 DEF RecBoot, RecCounts
  <2>4. RamAndNvs'
    BY <2>0 DEF RamAndNvs
  <2>5. NoneTooMany' /\ NoneTooFew'
    BY <1>1, <2>0 DEF RecBoot, NoneTooMany, NoneTooFew
  <2>6. NoFalseSafeMode'
    <3>1. safeMode' <=> streak' >= SafeModeThreshold
      BY <2>0
    <3>2. streak' >= SafeModeThreshold => nvsStreak >= SafeModeThreshold
      BY <2>0
    <3>3. UNCHANGED <<asked, forced, unmarked>>
      BY <2>0
    <3>. QED  BY <3>1, <3>2, <3>3 DEF RecCounts, NoneTooMany, NoFalseSafeMode
  <2>. QED  BY <2>1, <2>3, <2>4, <2>5, <2>6
<1>2. CASE PutCode
  <2>1. streak' \in 1..SafeModeThreshold
    BY <1>2, RunCounts DEF PutCode, RecCounts
  <2>0. RecFlags'
    BY <1>2 DEF PutCode, RecFlags
  <2>2. RecCounts'
    BY <1>2, <2>1 DEF PutCode, RecCounts
  <2>. safeMode' <=> streak' >= SafeModeThreshold
    BY <1>2 DEF PutCode
  <2>. phase = "code" /\ phase' = "streak" /\ nvsCode' = cause
       /\ streak' = Run(nvsCode, nvsStreak, cause)
       /\ UNCHANGED <<nvsStreak, stable, cause, asked, askedFor, forced, unmarked, opened, done>>
    BY <1>2 DEF PutCode
  <2>3. RamAndNvs'
    BY <2>1 DEF RamAndNvs
  <2>4. NoneTooMany'
    BY <1>2 DEF PutCode, NoneTooMany
  <2>5. NoFalseSafeMode'
    BY <2>1 DEF RecCounts, NoneTooMany, NoFalseSafeMode
  <2>6. Run(doneFor, done, cause) <= streak'
    BY <1>2 DEF PutCode, RecCounts, NoneTooFew, Run, Code
  <2>7. NoneTooFew'
    BY <1>2, <2>6 DEF PutCode, RecCounts, NoneTooFew, Code, Run
  <2>. QED  BY <2>0, <2>2, <2>3, <2>4, <2>5, <2>7
<1>3. CASE PutStreakAndRestart
  <2>1. done' \in 1..SafeModeThreshold
    BY <1>3, RunCounts DEF PutStreakAndRestart, RecCounts
  <2>0. RecFlags'
    BY <1>3, <2>1 DEF PutStreakAndRestart, RecFlags
  <2>2. RecCounts'
    BY <1>3, <2>1 DEF PutStreakAndRestart, RecCounts
  <2>3. RamAndNvs' /\ NoFalseSafeMode'
    BY <1>3 DEF PutStreakAndRestart, RamAndNvs, NoFalseSafeMode
  <2>4. NoneTooMany'
    BY <1>3 DEF PutStreakAndRestart, NoneTooMany, RamAndNvs
  <2>5. NoneTooFew'
    BY <1>3 DEF PutStreakAndRestart, NoneTooFew, RamAndNvs
  <2>. QED  BY <2>0, <2>2, <2>3, <2>4, <2>5
<1>. QED  BY <1>1, <1>2, <1>3

(* What may go wrong with a reboot: NVS, the power; and the test hook.       *)
LEMMA RecInvMishap ==
  ASSUME RecInv, RestartUnrecorded \/ RecPowerLoss \/ ForceSafeMode
  PROVE  RecInv'
<1> USE RecoveryAssumption DEF RecInv, NoCode, LoopForgotten, recNvs, recRam, recLoop, recScreen, recPast, recMarks, Mishap
<1>1. CASE RestartUnrecorded
  <2>0. RecFlags'
    BY <1>1 DEF RestartUnrecorded, RecFlags
  <2>1. RecCounts'
    BY <1>1 DEF RestartUnrecorded, RecCounts
  <2>2. RamAndNvs' /\ NoFalseSafeMode' /\ NoneTooMany'
    BY <1>1 DEF RestartUnrecorded, RamAndNvs, NoFalseSafeMode, NoneTooMany
  <2>3. NoneTooFew'
    BY <1>1 DEF RestartUnrecorded, RecCounts, NoneTooFew
  <2>. QED  BY <2>0, <2>1, <2>2, <2>3
<1>2. CASE RecPowerLoss
  <2>0. RecFlags'
    BY <1>2 DEF RecPowerLoss, RecFlags
  <2>1. RecCounts'
    BY <1>2 DEF RecPowerLoss, RecCounts
  <2>2. RamAndNvs' /\ NoFalseSafeMode' /\ NoneTooMany' /\ NoneTooFew'
    BY <1>2 DEF RecPowerLoss, RamAndNvs, NoFalseSafeMode, NoneTooMany, NoneTooFew
  <2>. QED  BY <2>0, <2>1, <2>2
<1>3. CASE ForceSafeMode
  <2>0. RecFlags'
    BY <1>3 DEF ForceSafeMode, RecFlags
  <2>1. RecCounts'
    BY <1>3 DEF ForceSafeMode, RecCounts
  <2>2. RamAndNvs' /\ NoFalseSafeMode' /\ NoneTooMany' /\ NoneTooFew'
    BY <1>3 DEF ForceSafeMode, RamAndNvs, NoFalseSafeMode, NoneTooMany, NoneTooFew
  <2>. QED  BY <2>0, <2>1, <2>2
<1>. QED  BY <1>1, <1>2, <1>3

(* The heap, the compaction and the screen move.                             *)
LEMMA RecInvMoves ==
  ASSUME RecInv, HeapMoves \/ CompactionOver \/ Draw \/ UNCHANGED recVars
  PROVE  RecInv'
<1>1. UNCHANGED <<recNvs, recRam, phase, cause, recPast, mishaps, critical, checks, still, stage>>
  BY DEF HeapMoves, CompactionOver, Draw, recVars, recLoop, recScreen
<1>2. level' \in Level
  BY DEF HeapMoves, CompactionOver, Draw, recVars, RecInv, RecCounts
<1>3. RecFlags' /\ RecCounts'
  BY <1>1, <1>2 DEF RecInv, RecFlags, RecCounts, recNvs, recRam, recPast, recMarks
<1>4. RamAndNvs' /\ NoneTooMany' /\ NoFalseSafeMode' /\ NoneTooFew'
  BY <1>1 DEF RecInv, RamAndNvs, NoneTooMany, NoFalseSafeMode, NoneTooFew, Run,
              recNvs, recRam, recPast, recMarks
<1>. QED  BY <1>3, <1>4 DEF RecInv

(* Asking for a reboot: for want of memory in any boot, for a stalled screen *)
(* only in one that was stable, in which no run is left.                     *)
LEMMA RecInvAsks ==
  ASSUME RecInv, NEW code \in Code, AskReboot(code), phase = "up",
         code = "UI_STALL" => stable,
         UNCHANGED <<recNvs, recRam, level, mishaps>>,
         critical' \in 0..Patience, checks' \in 0..ChecksPerTick,
         still' \in 0..StallTicks - 1, stage' \in 0..2
  PROVE  RecInv'
<1> USE RecoveryAssumption DEF RecInv, recNvs, recRam, recMarks, Code, NoCode
<1>1. phase' = "code" /\ cause' = code /\ asked' = Run(askedFor, asked, code) /\ askedFor' = code
      /\ UNCHANGED <<done, doneFor, forced, opened, unmarked>>
  BY DEF AskReboot
<1>2. asked' \in 1..SafeModeThreshold
  BY <1>1, RunCounts DEF RecCounts
<1>3. RecFlags'
  BY <1>1 DEF RecFlags
<1>4. RecCounts'
  BY <1>1, <1>2 DEF RecCounts
<1>5. RamAndNvs'
  BY <1>1 DEF RamAndNvs
<1>6. NoFalseSafeMode' /\ (~forced /\ ~unmarked => nvsStreak <= asked')
  BY <1>1 DEF RecCounts, RamAndNvs, NoneTooMany, NoFalseSafeMode, Run
<1>7. NoneTooMany'
  BY <1>1, <1>2, <1>6 DEF RecCounts, RamAndNvs, NoneTooMany, Run
<1>8. NoneTooFew'
  BY <1>1 DEF RamAndNvs, NoneTooFew
<1>. QED  BY <1>3, <1>4, <1>5, <1>6, <1>7, <1>8

(* The check of the heap, which may ask.                                     *)
LEMMA RecInvLowMemory ==
  ASSUME RecInv, LowMemoryCheck
  PROVE  RecInv'
<1> USE RecoveryAssumption DEF LowMemoryCheck
<1>1. critical \in Nat /\ critical < Patience /\ critical' = Count /\ checks' \in 0..ChecksPerTick
      /\ UNCHANGED recScreen
  BY DEF RecInv, RecCounts
<1>2. critical' \in 0..Patience /\ (level # "CRITICAL" => critical' < Patience)
  BY <1>1 DEF Count, RecInv, RecCounts, Level
<1>3. CASE level = "CRITICAL" /\ critical' >= Patience
  BY <1>1, <1>2, <1>3, RecInvAsks DEF Code, recScreen, RecInv, RecCounts
<1>4. CASE ~(level = "CRITICAL" /\ critical' >= Patience)
  <2>1. UNCHANGED <<recNvs, recRam, phase, cause, recPast, level, mishaps, still, stage>>
    BY <1>4 DEF recScreen
  <2>2. critical' < Patience
    BY <1>2, <1>4
  <2>3. RecFlags' /\ RecCounts'
    BY <1>1, <1>2, <2>1, <2>2 DEF RecInv, RecFlags, RecCounts, recNvs, recRam, recPast, recMarks
  <2>4. RamAndNvs' /\ NoneTooMany' /\ NoFalseSafeMode' /\ NoneTooFew'
    BY <2>1 DEF RecInv, RamAndNvs, NoneTooMany, NoFalseSafeMode, NoneTooFew, Run,
                recNvs, recRam, recPast, recMarks
  <2>. QED  BY <2>3, <2>4 DEF RecInv
<1>. QED  BY <1>3, <1>4

(* The tick that declares the boot stable, and the one that gives the screen *)
(* up.                                                                       *)
LEMMA RecInvTick ==
  ASSUME RecInv, DiagnosticsTick \/ StallReboot
  PROVE  RecInv'
<1> USE RecoveryAssumption
<1>1. CASE DiagnosticsTick
  <2>. USE <1>1 DEF DiagnosticsTick, RecInv
  <2>1. checks' \in 0..ChecksPerTick /\ still' \in 0..StallTicks - 1 /\ stage' \in 0..2
        /\ phase = "up" /\ UNCHANGED <<phase, cause, level, critical>>
    BY DEF RecCounts, ScreenAlive, ScreenStalled
  <2>2. CASE stable
    <3>1. UNCHANGED <<recNvs, recRam, recPast, mishaps>>
      BY <2>2 DEF MarkStable
    <3>2. RecFlags' /\ RecCounts'
      BY <2>1, <3>1 DEF RecFlags, RecCounts, recNvs, recRam, recPast, recMarks
    <3>3. RamAndNvs' /\ NoneTooMany' /\ NoFalseSafeMode' /\ NoneTooFew'
      BY <2>1, <3>1 DEF RamAndNvs, NoneTooMany, NoFalseSafeMode, NoneTooFew, Run,
                        recNvs, recRam, recPast, recMarks
    <3>. QED  BY <3>2, <3>3
  <2>3. CASE ~stable
    <3>1. /\ asked' = 0 /\ done' = 0 /\ askedFor' = NoCode /\ doneFor' = NoCode
          /\ streak' = 0 /\ UNCHANGED <<nvsCode, opened>> /\ stable' /\ ~forced'
      BY <2>3 DEF MarkStable
    <3>2. stable' \in BOOLEAN /\ forced' \in BOOLEAN /\ unmarked' \in BOOLEAN
          /\ safeMode' \in BOOLEAN
      BY <2>3 DEF MarkStable, ClearStreak, RecFlags
    <3>3. ~safeMode'
      <4>1. streak = 0 => ~safeMode
        BY <2>1 DEF RamAndNvs
      <4>. QED  BY <2>3, <4>1 DEF MarkStable
    <3>4. nvsStreak' \in {0, nvsStreak} /\ (~unmarked' => nvsStreak' = 0)
      BY <2>1, <2>3 DEF MarkStable, ClearStreak, RamAndNvs
    <3>5. mishaps' \in Nat
      BY <2>3 DEF MarkStable, ClearStreak, Mishap, RecCounts
    <3>6. RecFlags'
      BY <3>1, <3>2 DEF RecFlags
    <3>7. RecCounts'
      BY <2>1, <3>1, <3>4, <3>5 DEF RecCounts
    <3>8. RamAndNvs' /\ NoFalseSafeMode'
      BY <2>1, <3>1, <3>3, <3>4 DEF RamAndNvs, NoFalseSafeMode
    <3>9. NoneTooMany'
      BY <2>1, <3>1, <3>4 DEF NoneTooMany, NoCode
    <3>10. NoneTooFew'
      BY <2>1, <3>1, <3>4, <3>7 DEF NoneTooFew, RecCounts
    <3>. QED  BY <3>6, <3>7, <3>8, <3>9, <3>10
  <2>. QED  BY <2>2, <2>3
<1>2. CASE StallReboot
  BY <1>2, RecInvAsks
     DEF StallReboot, Code, RecInv, RecCounts, recLoop, recScreen
<1>. QED  BY <1>1, <1>2

-----------------------------------------------------------------------------
(* Every step keeps the invariant.                                           *)
LEMMA RecInvStep == RecInv /\ [RecNext]_recVars => RecInv'
BY RecInvReboot, RecInvMishap, RecInvMoves, RecInvLowMemory, RecInvTick DEF RecNext

(* The invariant holds in every state.                                       *)
LEMMA RecInvAlways == RecSpec => []RecInv
BY RecInvInit, RecInvStep, PTL DEF RecSpec

(* What is kept in NVS and in RAM is what recovery_supervisor_init() and     *)
(* loop() expect; the count of critical checks never passes the patience.    *)
THEOREM RecTypeCorrect == RecSpec => []RecTypeOK
<1>1. RecInv => RecTypeOK
  <2>. SUFFICES ASSUME RecInv PROVE RecTypeOK
    OBVIOUS
  <2>1. still < StallTicks
    BY RecoveryAssumption DEF RecInv, RecCounts
  <2>2. /\ nvsCode \in Code \cup {NoCode, "TASK_CREATE_FAILED"}
        /\ nvsStreak \in 0..SafeModeThreshold /\ streak \in 0..SafeModeThreshold
        /\ phase \in {"off", "up", "code", "streak"}
        /\ cause \in Code \cup {NoCode} /\ (cause # NoCode <=> phase \in {"code", "streak"})
        /\ level \in Level /\ stage \in 0..2
        /\ critical \in 0..Patience /\ checks \in 0..ChecksPerTick
    BY DEF RecInv, RecCounts
  <2>. QED  BY <2>1, <2>2 DEF RecInv, RecFlags, RecTypeOK
<1>. QED  BY <1>1, RecInvAlways, PTL

(* Whatever fails between the two puts of request_controlled_reboot(), safe  *)
(* mode means that as many reboots for one reason were asked for in a row,   *)
(* with no stable boot in between, or that the test hook was used, or that   *)
(* the last stable boot could not open NVS to clear the streak.              *)
THEOREM SafeModeIsEarned == RecSpec => []NoFalseSafeMode
<1>1. RecInv => NoFalseSafeMode
  BY DEF RecInv
<1>. QED  BY <1>1, RecInvAlways, PTL

(* And after as many completed reboots for one reason every boot that can    *)
(* open NVS is in safe mode, those that cannot in between included: no power *)
(* loss takes away from the streak what recovery_supervisor has put.         *)
THEOREM RepeatedFaultIsCaught == RecSpec => []LoopIsCaught
<1>1. RecInv => LoopIsCaught
  BY RecoveryAssumption DEF RecInv, RecCounts, RamAndNvs, NoneTooFew, LoopIsCaught
<1>. QED  BY <1>1, RecInvAlways, PTL

-----------------------------------------------------------------------------
(* Where each event is: before ringNext those of this round, from there on   *)
(* those of the round before, if there was one.                              *)
RingInv ==
  /\ recorded \in Nat /\ ringNext \in 0..RingSize - 1
  /\ ringCount = IF recorded < RingSize THEN recorded ELSE RingSize
  /\ recorded < RingSize => ringNext = recorded
  /\ ring \in [0..RingSize - 1 -> Int]
  /\ \A j \in 0..RingSize - 1 :
       ring[j] = IF j < ringNext THEN recorded - ringNext + 1 + j
                 ELSE IF recorded < RingSize THEN 0
                 ELSE recorded - RingSize - ringNext + 1 + j

(* A slot one round further is the slot itself.                              *)
LEMMA RoundOnce ==
  ASSUME NEW n \in 0..2 * RingSize - 1
  PROVE  n % RingSize = IF n < RingSize THEN n ELSE n - RingSize
<1>1. CASE n < RingSize
  BY <1>1, HistoryAssumption
<1>2. CASE n >= RingSize
  BY <1>2, HistoryAssumption
<1>. QED  BY <1>1, <1>2, HistoryAssumption

(* The ring is empty at a boot.                                              *)
LEMMA RingInvInit == RingInit => RingInv
BY HistoryAssumption DEF RingInit, RingInv

(* Recording an event, in the last slot of the round too, and a reboot.      *)
LEMMA RingInvStep == RingInv /\ [RingNextStep]_ringVars => RingInv'
<1> SUFFICES ASSUME RingInv, [RingNextStep]_ringVars PROVE RingInv'
  OBVIOUS
<1>1. CASE Record
  <2>1. recorded \in Nat /\ ringNext \in 0..RingSize - 1 /\ RingSize \in Nat \ {0}
    BY HistoryAssumption DEF RingInv
  <2>2. ringNext + 1 \in 0..2 * RingSize - 1
    BY <2>1
  <2>3. ringNext' = IF ringNext + 1 < RingSize THEN ringNext + 1 ELSE 0
    BY <1>1, <2>1, <2>2, RoundOnce DEF Record
  <2>4. recorded' = recorded + 1
        /\ ringCount' = (IF recorded' < RingSize THEN recorded' ELSE RingSize)
        /\ (recorded' < RingSize => ringNext' = recorded')
        /\ (recorded = RingSize - 1 => ringNext' = 0)
    <3>1. recorded' = recorded + 1
          /\ ringCount' = IF ringCount < RingSize THEN ringCount + 1 ELSE ringCount
      BY <1>1 DEF Record
    <3>2. ringCount = (IF recorded < RingSize THEN recorded ELSE RingSize)
          /\ (recorded < RingSize => ringNext = recorded)
      BY DEF RingInv
    <3>. QED  BY <2>1, <2>3, <3>1, <3>2
  <2>5. ring' \in [0..RingSize - 1 -> Int] /\ ring' = [ring EXCEPT ![ringNext] = recorded + 1]
    BY <1>1, <2>1 DEF Record, RingInv
  <2>6. ASSUME NEW j \in 0..RingSize - 1
        PROVE  ring'[j] = IF j < ringNext' THEN recorded' - ringNext' + 1 + j
                          ELSE IF recorded' < RingSize THEN 0
                          ELSE recorded' - RingSize - ringNext' + 1 + j
    <3>1. ring[j] = IF j < ringNext THEN recorded - ringNext + 1 + j
                    ELSE IF recorded < RingSize THEN 0
                    ELSE recorded - RingSize - ringNext + 1 + j
      BY DEF RingInv
    <3>2. ring'[j] = IF j = ringNext THEN recorded + 1 ELSE ring[j]
      BY <2>1, <2>5 DEF RingInv
    <3>3. recorded < RingSize => ringNext = recorded
      BY DEF RingInv
    <3>. QED  BY <2>1, <2>3, <2>4, <3>1, <3>2, <3>3
  <2>7. recorded' \in Nat /\ ringNext' \in 0..RingSize - 1
    BY <2>1, <2>3, <2>4
  <2>8. \A j \in 0..RingSize - 1 :
          ring'[j] = IF j < ringNext' THEN recorded' - ringNext' + 1 + j
                     ELSE IF recorded' < RingSize THEN 0
                     ELSE recorded' - RingSize - ringNext' + 1 + j
    BY <2>6
  <2>. QED  BY <2>4, <2>5, <2>7, <2>8 DEF RingInv
<1>2. CASE RingReboot
  BY <1>2, HistoryAssumption DEF RingReboot, RingInv
<1>3. CASE UNCHANGED ringVars
  BY <1>3 DEF ringVars, RingInv
<1>. QED  BY <1>1, <1>2, <1>3 DEF RingNextStep

(* However many events a boot records, recovery_history_at() gives the       *)
(* latest of them, oldest first.                                             *)
THEOREM HistoryReadsTheLatest == RingSpec => []HistoryIsTheLatest
<1>1. RingInv => HistoryIsTheLatest
  <2> SUFFICES ASSUME RingInv, NEW i \in 0..ringCount - 1
               PROVE  HistoryAt(i) = recorded - ringCount + 1 + i
    BY DEF HistoryIsTheLatest, RingInv
  <2>1. /\ recorded \in Nat /\ ringNext \in 0..RingSize - 1 /\ RingSize \in Nat \ {0}
        /\ ringCount = IF recorded < RingSize THEN recorded ELSE RingSize
        /\ recorded < RingSize => ringNext = recorded
    BY HistoryAssumption DEF RingInv
  <2>2. i \in 0..RingSize - 1
    BY <2>1
  <2>3. ASSUME NEW j \in 0..RingSize - 1
        PROVE  ring[j] = IF j < ringNext THEN recorded - ringNext + 1 + j
                         ELSE IF recorded < RingSize THEN 0
                         ELSE recorded - RingSize - ringNext + 1 + j
    BY DEF RingInv
  <2>4. CASE recorded < RingSize
    <3>1. HistoryAt(i) = ring[i]
      BY <2>1, <2>2, <2>4 DEF HistoryAt
    <3>. QED  BY <2>1, <2>2, <2>3, <2>4, <3>1
  <2>5. CASE recorded >= RingSize
    <3>1. ringNext + i \in 0..2 * RingSize - 1
      BY <2>1, <2>2
    <3>2. HistoryAt(i) = ring[IF ringNext + i < RingSize THEN ringNext + i
                              ELSE ringNext + i - RingSize]
      BY <2>1, <2>5, <3>1, RoundOnce DEF HistoryAt
    <3>3. CASE ringNext + i < RingSize
      BY <2>1, <2>2, <2>3, <2>5, <3>2, <3>3
    <3>4. CASE ringNext + i >= RingSize
      BY <2>1, <2>2, <2>3, <2>5, <3>2, <3>4
    <3>. QED  BY <2>1, <2>2, <3>3, <3>4
  <2>. QED  BY <2>1, <2>4, <2>5
<1>2. RingSpec => []RingInv
  BY RingInvInit, RingInvStep, PTL DEF RingSpec
<1>. QED  BY <1>1, <1>2, PTL
=============================================================================
