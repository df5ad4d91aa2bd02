------------------------- MODULE RecoverySupervisor -------------------------
(***************************************************************************)
(* The kiosk watching itself: health/recovery_supervisor and the two       *)
(* supervisors of loop() that may ask it for a reboot.  The low-memory one *)
(* runs every second and is patient; the one for a stalled screen runs at  *)
(* the 30 s diagnostics tick, which also declares the boot stable.  The    *)
(* reboot's code and the length of the run of reboots with that code are   *)
(* kept in NVS, one key after the other, and the next boot reads them.     *)
(* Each opening of NVS may fail; a put into it once it is open does not,   *)
(* but for the last one, whose failure leaves what a power loss leaves.    *)
(*                                                                         *)
(* Time is counted in checks (1 s) and in ticks (30 s); what is recorded   *)
(* in RAM for diagnostics is in RecoveryHistory.                           *)
(***************************************************************************)
EXTENDS Naturals

CONSTANTS
  SafeModeThreshold,  \* kSafeModeThreshold
  Patience,           \* kCriticalRebootPatienceChecks
  ChecksPerTick,      \* kDiagnosticsPrintIntervalMs over kLowMemoryCheckIntervalMs
  StallTicks,         \* kUiStallThresholdMs over kDiagnosticsPrintIntervalMs
  MaxMishaps          \* bound: power losses and failures of NVS

ASSUME RecoveryAssumption ==
  /\ SafeModeThreshold \in Nat \ {0} /\ Patience \in Nat \ {0}
  /\ StallTicks \in Nat \ {0} /\ MaxMishaps \in Nat
  /\ ChecksPerTick \in Nat /\ ChecksPerTick > Patience

Code  == {"LOW_MEMORY", "UI_STALL"}
NoCode == "none"  \* no reboot; "" in NVS
Level == {"NORMAL", "WARNING", "CRITICAL"}

VARIABLES
  nvsCode, nvsStreak,  \* NVS: last_code (NoCode if none) and streak
  streak, safeMode,    \* RAM: g_same_fault_streak, g_safe_mode
  stable,              \* RAM: g_marked_stable_this_boot
  phase,               \* "off", "up", or the put the reboot makes next: "code", "streak"
  cause,               \* the code of the reboot under way
  level,               \* what the heap is like
  compacting,          \* whether an incremental compaction is active
  critical,            \* g_consecutive_critical_low_memory_checks
  checks,              \* checks since the last tick
  still, drawn,        \* ticks without a frame; whether one was drawn since the last
  stage,               \* 0, 1 after the forced redraw, 2 after the re-initialisation
  asked, done,         \* history: reboots in a row for one code, asked for and completed
  askedFor, doneFor,   \* history: those codes
  forced,              \* history: the test hook was used, and no boot was stable since
  opened,              \* history: recovery_supervisor_init() could open NVS in this boot
  unmarked,            \* history: the last stable boot could not say so in NVS
  mishaps              \* bound: what may still go wrong

recNvs    == <<nvsCode, nvsStreak>>
recRam    == <<streak, safeMode, stable>>
recScreen == <<still, drawn, stage>>
recLoop   == <<critical, checks, recScreen, compacting>>
recMarks  == <<forced, opened, unmarked>>
recPast   == <<asked, done, askedFor, doneFor, recMarks>>
recVars   == <<recNvs, recRam, phase, cause, level, recLoop, recPast, mishaps>>

RecInit ==
  /\ nvsCode = NoCode /\ nvsStreak = 0
  /\ streak = 0 /\ safeMode = FALSE /\ stable = FALSE
  /\ phase = "off" /\ cause = NoCode
  /\ level = "NORMAL" /\ compacting = FALSE
  /\ critical = 0 /\ checks = 0
  /\ still = 0 /\ drawn = FALSE /\ stage = 0
  /\ asked = 0 /\ done = 0 /\ askedFor = NoCode /\ doneFor = NoCode
  /\ forced = FALSE /\ opened = FALSE /\ unmarked = FALSE
  /\ mishaps = MaxMishaps

LoopForgotten ==
  /\ critical' = 0 /\ checks' = 0 /\ compacting' = FALSE
  /\ still' = 0 /\ drawn' = TRUE /\ stage' = 0

-----------------------------------------------------------------------------
Mishap == mishaps > 0 /\ mishaps' = mishaps - 1

(* recovery_supervisor_init(), which may not be able to open NVS; setup()    *)
(* draws the first screen.                                                   *)
RecBoot ==
  /\ phase = "off"
  /\ phase' = "up"
  /\ \/ opened' = TRUE /\ streak' = nvsStreak /\ UNCHANGED mishaps
     \/ opened' = FALSE /\ streak' = 0 /\ Mishap
  /\ safeMode' = (streak' >= SafeModeThreshold)
  /\ stable' = FALSE
  /\ LoopForgotten
  /\ UNCHANGED <<recNvs, cause, level, asked, done, askedFor, doneFor, forced, unmarked>>

(* Bound: a run is counted up to the threshold, past which the code does not *)
(* tell lengths apart.                                                       *)
Run(for, n, code) ==
  IF for # code THEN 1 ELSE IF n < SafeModeThreshold THEN n + 1 ELSE n

AskReboot(code) ==
  /\ phase' = "code" /\ cause' = code
  /\ asked' = Run(askedFor, asked, code) /\ askedFor' = code
  /\ UNCHANGED <<done, doneFor, recMarks>>

(* request_controlled_reboot(): the new streak is computed before the first  *)
(* put, last_code is put before streak.                                      *)
PutCode ==
  /\ phase = "code"
  /\ streak' = Run(nvsCode, nvsStreak, cause)
  /\ safeMode' = (streak' >= SafeModeThreshold)
  /\ nvsCode' = cause
  /\ phase' = "streak"
  /\ UNCHANGED <<nvsStreak, stable, cause, level, recLoop, recPast, mishaps>>

PutStreakAndRestartWrong ==                                \* only the code is kept
  /\ phase = "streak"
  /\ phase' = "off" /\ cause' = NoCode
  /\ done' = Run(doneFor, done, cause) /\ doneFor' = cause
  /\ LoopForgotten
  /\ UNCHANGED <<recNvs, recRam, level, asked, askedFor, recMarks, mishaps>>

PutStreakAndRestart ==
  /\ phase = "streak"
  /\ nvsStreak' = streak
  /\ phase' = "off" /\ cause' = NoCode
  /\ done' = Run(doneFor, done, cause) /\ doneFor' = cause
  /\ LoopForgotten
  /\ UNCHANGED <<nvsCode, recRam, level, asked, askedFor, recMarks, mishaps>>

(* prefs.begin() fails: the restart leaves no trace.                         *)
RestartUnrecorded ==
  /\ phase = "code" /\ Mishap
  /\ phase' = "off" /\ cause' = NoCode
  /\ LoopForgotten
  /\ done' = 0 /\ doneFor' = NoCode
  /\ UNCHANGED <<recNvs, recRam, level, asked, askedFor, recMarks>>

(* Between the puts, too.  It interrupts a run no more than the code does.   *)
RecPowerLoss ==
  /\ phase # "off" /\ Mishap
  /\ phase' = "off" /\ cause' = NoCode
  /\ LoopForgotten
  /\ UNCHANGED <<recNvs, recRam, level, recPast>>

(* force_safe_mode_for_test(), a serial command of the DEV build.            *)
ForceSafeMode ==
  /\ phase = "up" /\ Mishap
  /\ nvsCode' = "TASK_CREATE_FAILED" /\ nvsStreak' = SafeModeThreshold
  /\ asked' = 0 /\ askedFor' = NoCode /\ done' = 0 /\ doneFor' = NoCode
  /\ forced' = TRUE
  /\ phase' = "off"
  /\ LoopForgotten
  /\ UNCHANGED <<recRam, cause, level, opened, unmarked>>

-----------------------------------------------------------------------------
(* The heap; a compaction may bring it back and ends in its own time.        *)
HeapMoves ==
  /\ phase = "up"
  /\ level' \in Level \ {level}
  /\ UNCHANGED <<recNvs, recRam, phase, cause, recLoop, recPast, mishaps>>

CompactionOver ==
  /\ compacting
  /\ compacting' = FALSE
  /\ UNCHANGED <<recNvs, recRam, phase, cause, level, critical, checks, recScreen,
                 recPast, mishaps>>

CountWrong ==                                              \* waits for the compaction
  CASE level = "NORMAL"   -> 0
    [] level = "WARNING"  -> critical
    [] level = "CRITICAL" -> IF compacting THEN critical ELSE critical + 1

(* The check of the heap.  A WARNING starts a compaction; CRITICAL starts    *)
(* one and counts; only NORMAL stops the count.                              *)
Count ==
  CASE level = "NORMAL"   -> 0
    [] level = "WARNING"  -> critical
    [] level = "CRITICAL" -> critical + 1

LowMemoryCheck ==
  /\ phase = "up" /\ checks < ChecksPerTick
  /\ checks' = checks + 1
  /\ critical' = Count
  /\ \/ level = "NORMAL" /\ UNCHANGED compacting
     \/ level # "NORMAL" /\ compacting' \in {compacting, TRUE}
  /\ IF level = "CRITICAL" /\ critical' >= Patience
     THEN AskReboot("LOW_MEMORY")
     ELSE UNCHANGED <<phase, cause, recPast>>
  /\ UNCHANGED <<recNvs, recRam, level, recScreen, mishaps>>

MarkStableWrong ==                                         \* the streak in NVS stays
  IF stable THEN UNCHANGED <<recNvs, recRam, recPast, mishaps>>
  ELSE /\ stable' = TRUE
       /\ asked' = 0 /\ done' = 0 /\ askedFor' = NoCode /\ doneFor' = NoCode
       /\ forced' = FALSE /\ unmarked' = ~opened
       /\ streak' = 0 /\ safeMode' = FALSE
       /\ UNCHANGED <<recNvs, opened, mishaps>>

(* What is left to do in NVS: nothing, as far as RAM knows, or the streak is *)
(* cleared, or NVS cannot be opened and the streak stays.                    *)
ClearStreak ==
  \/ streak = 0 /\ unmarked' = ~opened /\ UNCHANGED <<nvsStreak, mishaps>>
  \/ streak # 0 /\ unmarked' = FALSE /\ nvsStreak' = 0 /\ UNCHANGED mishaps
  \/ streak # 0 /\ unmarked' = TRUE /\ Mishap /\ UNCHANGED nvsStreak

(* recovery_supervisor_mark_stable(), once a boot; RAM is cleared even if    *)
(* NVS is not.  It returns early at a streak of 0, with safe mode off.       *)
MarkStable ==
  IF stable THEN UNCHANGED <<recNvs, recRam, recPast, mishaps>>
  ELSE /\ stable' = TRUE
       /\ asked' = 0 /\ done' = 0 /\ askedFor' = NoCode /\ doneFor' = NoCode
       /\ forced' = FALSE
       /\ ClearStreak
       /\ streak' = 0 /\ safeMode' = (streak = 0 /\ safeMode)
       /\ UNCHANGED <<nvsCode, opened>>

(* A frame since the last tick, or not yet five minutes without one: the     *)
(* escalation starts afresh, or waits.                                       *)
ScreenAlive ==
  \/ drawn /\ still' = 0 /\ stage' = 0 /\ drawn' = FALSE
  \/ ~drawn /\ still + 1 < StallTicks
     /\ still' = still + 1 /\ UNCHANGED <<stage, drawn>>

(* One forced redraw, then one re-initialisation of the display with another *)
(* redraw; either may bring a frame.                                         *)
ScreenStalled ==
  /\ ~drawn /\ still + 1 >= StallTicks /\ stage < 2
  /\ stage' = stage + 1
  /\ drawn' \in BOOLEAN
  /\ UNCHANGED still

DiagnosticsTick ==
  /\ phase = "up" /\ checks = ChecksPerTick
  /\ checks' = 0
  /\ MarkStable
  /\ ScreenAlive \/ ScreenStalled
  /\ UNCHANGED <<phase, cause, level, critical, compacting>>

(* Neither helped.  The 30 s tick that asks has itself marked the boot       *)
(* stable, or an earlier one has.                                            *)
StallReboot ==
  /\ phase = "up" /\ checks = ChecksPerTick
  /\ ~drawn /\ still + 1 >= StallTicks /\ stage = 2
  /\ stable
  /\ AskReboot("UI_STALL")
  /\ UNCHANGED <<recNvs, recRam, level, recLoop, mishaps>>

Draw ==
  /\ phase = "up" /\ ~drawn
  /\ drawn' = TRUE
  /\ UNCHANGED <<recNvs, recRam, phase, cause, level, critical, checks, compacting,
                 still, stage, recPast, mishaps>>

RecNext ==
  \/ RecBoot \/ PutCode \/ PutStreakAndRestart
  \/ RestartUnrecorded \/ RecPowerLoss \/ ForceSafeMode
  \/ HeapMoves \/ CompactionOver \/ LowMemoryCheck \/ DiagnosticsTick \/ StallReboot \/ Draw

(* loop() goes on and setup() ends; nothing says that the heap moves.        *)
RecSpec == RecInit /\ [][RecNext]_recVars

-----------------------------------------------------------------------------
RecTypeOK ==
  /\ nvsCode \in Code \cup {NoCode, "TASK_CREATE_FAILED"}
  /\ nvsStreak \in 0..SafeModeThreshold /\ streak \in 0..SafeModeThreshold
  /\ safeMode \in BOOLEAN /\ stable \in BOOLEAN
  /\ phase \in {"off", "up", "code", "streak"}
  /\ cause \in Code \cup {NoCode} /\ (cause # NoCode <=> phase \in {"code", "streak"})
  /\ level \in Level
  /\ critical \in 0..Patience /\ checks \in 0..ChecksPerTick
  /\ still < StallTicks /\ stage \in 0..2

(* Safe mode is entered only after that many reboots for one reason were     *)
(* asked for with no stable boot in between, whenever the power went: "so    *)
(* sparse, well-separated incidents months apart don't eventually accumulate *)
(* into a false SAFE_MODE trip" (recovery_supervisor.h:66-71).  A stable     *)
(* boot that could not open NVS to say so is the one exception: the streak   *)
(* of before goes on counting, until a stable boot can.                      *)
NoFalseSafeMode == safeMode => asked >= SafeModeThreshold \/ forced \/ unmarked

(* That many completed in a row for one reason, and the next boot is in safe *)
(* mode: the streak "survives across the actual reboot boundary"             *)
(* (recovery_supervisor.h:60-64); or that boot could not read it, and then   *)
(* the first boot after it that can is.                                      *)
LoopIsCaught == phase = "up" /\ opened /\ done >= SafeModeThreshold => safeMode

(* A heap that is critical at every boot ends in safe mode, and stays there. *)
CriticalEndsInSafeMode == <>[](level = "CRITICAL") => <>[]safeMode
=============================================================================
