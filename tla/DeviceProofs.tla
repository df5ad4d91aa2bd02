---------------------------- MODULE DeviceProofs ----------------------------
(***************************************************************************)
(* Proofs about two small parts of the device: DeviceSequence, for every   *)
(* block size and every moment of power loss, and Keypad, for every set of *)
(* keys, debounce times and number of faults; and about MCDevice, which    *)
(* puts these and the parts proved about elsewhere side by side: each      *)
(* moves there as its own specification says, and keeps what it promises.  *)
(***************************************************************************)
EXTENDS MCDevice, NetworkTrafficProofs, UiBundleProofs, RecoveryProofs, WifiRecoveryProofs,
        FiniteSetTheorems, TLAPS

(* The mark covers what was handed out; the block in RAM lies below the mark *)
(* that is stored, or is yet to be stored, and above all that was handed     *)
(* out.                                                                      *)
SeqInv ==
  /\ SeqTypeOK
  /\ MarkCoversHanded
  /\ seqStep = "up" => ceiling = hwm /\ handed <= current /\ current <= ceiling
  /\ seqStep = "persist" => ceiling = current + BlockSize /\ handed <= current

(* Initially nothing was handed out.                                         *)
LEMMA SeqInvInit == SeqInit => SeqInv
BY DEF SeqInit, SeqInv, SeqTypeOK, MarkCoversHanded

(* Every step of the reservation, and a power loss between any two.          *)
LEMMA SeqInvStep == SeqInv /\ [SeqNext]_seqVars => SeqInv'
<1> SUFFICES ASSUME SeqInv, [SeqNext]_seqVars PROVE SeqInv'
  OBVIOUS
<1> USE SequenceAssumption DEF SeqInv, SeqTypeOK, MarkCoversHanded
<1>1. CASE SeqBoot
  BY <1>1 DEF SeqBoot
<1>2. CASE Persist
  BY <1>2 DEF Persist
<1>3. CASE HandOut
  BY <1>3 DEF HandOut
<1>4. CASE ReserveNextBlock
  BY <1>4 DEF ReserveNextBlock
<1>5. CASE SeqPowerLoss
  BY <1>5 DEF SeqPowerLoss
<1>6. CASE UNCHANGED seqVars
  BY <1>6 DEF seqVars
<1>. QED  BY <1>1, <1>2, <1>3, <1>4, <1>5, <1>6 DEF SeqNext

(* The invariant holds in every state.                                       *)
LEMMA SeqInvAlways == SeqSpec => []SeqInv
BY SeqInvInit, SeqInvStep, PTL DEF SeqSpec

(* What NVS holds covers every number ever handed out, so that the block of  *)
(* the next boot begins above them.                                          *)
THEOREM MarkCovers == SeqSpec => []MarkCoversHanded
<1>1. SeqInv => MarkCoversHanded
  BY DEF SeqInv
<1>. QED  BY <1>1, SeqInvAlways, PTL

(* Only HandOut raises the number in a state where numbers are handed out.   *)
LEMMA SeqStepIncreases ==
  SeqInv /\ [SeqNext]_seqVars => [current' > current /\ seqStep = "up" => current' > handed]_seqVars
<1> SUFFICES ASSUME SeqInv, SeqNext, current' > current, seqStep = "up"
             PROVE  current' > handed
  OBVIOUS
<1>1. CASE HandOut
  BY <1>1 DEF HandOut, SeqInv, SeqTypeOK
<1>2. CASE ReserveNextBlock
  BY <1>2 DEF ReserveNextBlock, SeqInv, SeqTypeOK
<1>3. CASE SeqPowerLoss
  BY <1>3 DEF SeqPowerLoss, SeqInv, SeqTypeOK
<1>. QED  BY <1>1, <1>2, <1>3 DEF SeqNext, SeqBoot, Persist

(* Whenever the power goes, no number is handed out that is not higher than  *)
(* every number before it: no two events get the same device_seq.            *)
THEOREM NumbersNeverRepeat == SeqSpec => NumbersIncrease
BY SeqInvAlways, SeqStepIncreases, PTL DEF SeqSpec, NumbersIncrease

-----------------------------------------------------------------------------
(* Keypad.                                                                   *)

(* A key that has not been open since its KEY_DOWN is closed, and is the one *)
(* the debouncer last took: a second finger makes the reading "several", and *)
(* is taken itself only when the first key has been let go.  A KEY_DOWN      *)
(* needs a mapping, and whatever takes the mapping away lets every key go or *)
(* forgets them all.                                                         *)
HeldIsEmitted == \A k \in Key \ reopened : k \in pressed /\ emitted = k
DownNeedsMapping == ~calibrated => reopened = Key
PressInv ==
  /\ IsFiniteSet(pressed) /\ pressed \subseteq Key /\ reopened \subseteq Key
  /\ HeldIsEmitted /\ DownNeedsMapping

(* What scan_pair() reads, of any two fingers.                               *)
LEMMA ReadingOfFingers ==
  ASSUME IsFiniteSet(pressed), pressed \subseteq Key
  PROVE  /\ Reading = Open => pressed = {}
         /\ Reading \in Key => pressed = {Reading}
<1>1. CASE pressed = {}
  BY <1>1, KeypadAssumption DEF Reading
<1>2. CASE pressed # {} /\ Cardinality(pressed) # 1
  BY <1>2, KeypadAssumption DEF Reading
<1>3. CASE pressed # {} /\ Cardinality(pressed) = 1
  <2>1. Reading = CHOOSE k \in Key : pressed = {k}
    BY <1>3 DEF Reading
  <2>2. \E k \in Key : pressed = {k}
    BY <1>3, FS_Singleton
  <2>. QED  BY <1>3, <2>1, <2>2, KeypadAssumption
<1>. QED  BY <1>1, <1>2, <1>3

(* Initially no key is pressed or held.                                      *)
LEMMA PressInvInit == PadInit => PressInv
  BY FS_EmptySet DEF PadInit, PadFresh, PressInv, HeldIsEmitted, DownNeedsMapping

(* Polls that take no key: what is pressed, and what was let go, stays.      *)
LEMMA KeepsPresses ==
  ASSUME PressInv, UNCHANGED <<pressed, reopened, calibrated, emitted>>
  PROVE  PressInv'
  BY DEF PressInv, HeldIsEmitted, DownNeedsMapping

(* Every key is let go, or forgotten.                                        *)
LEMMA ForgetsPresses ==
  ASSUME IsFiniteSet(pressed'), pressed' \subseteq Key, reopened' = Key
  PROVE  PressInv'
  BY DEF PressInv, HeldIsEmitted, DownNeedsMapping

(* A poll: a key is taken once it is the only one that is read.              *)
LEMMA PollPresses == PressInv /\ PadPoll => PressInv'
<1>. SUFFICES ASSUME PressInv, PadPoll PROVE PressInv'
  OBVIOUS
<1>1. CASE PollError \/ PollChanged \/ PollWaits
  BY <1>1, KeepsPresses DEF PollError, PollChanged, PollWaits, PollSame, padMap
<1>2. CASE PollRaw
  <2>1. reopened = Key /\ reopened' = Key /\ pressed' = pressed
    BY <1>2 DEF PollRaw, PollSame, PressInv, DownNeedsMapping
  <2>. QED  BY <2>1, ForgetsPresses DEF PressInv
<1>3. CASE PollDown
  <2>1. candidate \in Key /\ pressed = {candidate} /\ pressed' = pressed /\ calibrated' = calibrated
    <3>1. candidate \in Key /\ Reading = candidate /\ pressed' = pressed /\ calibrated' = calibrated
      BY <1>3 DEF PollDown, PollSame, padMap
    <3>. QED  BY <3>1, ReadingOfFingers DEF PressInv
  <2>2. CASE UNCHANGED <<emitted, reopened>>
    BY <2>1, <2>2, KeepsPresses
  <2>3. CASE emitted' = candidate /\ reopened' = reopened \ {candidate}
    <3>1. \A k \in Key \ reopened' : k \in pressed' /\ emitted' = k
      BY <2>1, <2>3 DEF PressInv, HeldIsEmitted
    <3>2. calibrated
      BY <1>3 DEF PollDown
    <3>. QED  BY <2>1, <2>3, <3>1, <3>2 DEF PressInv, HeldIsEmitted, DownNeedsMapping
  <2>. QED  BY <1>3, <2>2, <2>3 DEF PollDown
<1>4. CASE PollUp
  <2>1. Reading = Open /\ UNCHANGED <<pressed, reopened>>
    BY <1>4 DEF PollUp, PollSame
  <2>2. pressed = {}
    BY <2>1, ReadingOfFingers DEF PressInv
  <2>3. reopened = Key
    BY <2>2 DEF PressInv, HeldIsEmitted
  <2>. QED  BY <2>1, <2>3, ForgetsPresses DEF PressInv
<1>5. CASE PollSteady
  BY <1>5, KeepsPresses DEF PollSteady, PollSame, padMap
<1>. QED  BY <1>1, <1>2, <1>3, <1>4, <1>5 DEF PadPoll

(* Fingers, polls, calibrations and reboots.                                 *)
LEMMA StepPressInv == PressInv /\ [PadNext]_padVars => PressInv'
<1>. SUFFICES ASSUME PressInv, [PadNext]_padVars PROVE PressInv'
  OBVIOUS
<1>1. ASSUME NEW k \in Key, Touch(k) PROVE PressInv'
  <2>1. IsFiniteSet(pressed')
    BY <1>1, FS_AddElement DEF Touch, PressInv
  <2>. QED
    BY <1>1, <2>1 DEF Touch, padRam, padMap, PressInv, HeldIsEmitted, DownNeedsMapping
<1>2. ASSUME NEW k \in Key, Lift(k) PROVE PressInv'
  <2>1. IsFiniteSet(pressed')
    BY <1>2, FS_RemoveElement DEF Lift, PressInv
  <2>. QED
    BY <1>2, <2>1 DEF Lift, padRam, padMap, PressInv, HeldIsEmitted, DownNeedsMapping
<1>3. CASE BusFails \/ GlitchPasses
  BY <1>3, KeepsPresses DEF BusFails, GlitchPasses, padRam, padMap
<1>4. CASE PadPoll
  BY <1>4, PollPresses
<1>5. CASE Calibrate \/ CalibrationRefused \/ CalibrationNotSaved
  BY <1>5, ForgetsPresses, FS_EmptySet
  DEF Calibrate, CalibrationRefused, CalibrationNotSaved, Calibrating
<1>6. CASE PadReboot
  BY <1>6, ForgetsPresses DEF PadReboot, PressInv
<1>7. CASE UNCHANGED padVars
  BY <1>7, KeepsPresses DEF padVars, padRam, padMap
<1>. QED  BY <1>1, <1>2, <1>3, <1>4, <1>5, <1>6, <1>7 DEF PadNext

(* Only PollDown publishes a KEY_DOWN, of a key that it had not taken.       *)
DownIsOfAnOpened == event'.kind = "DOWN" /\ event'.turn # event.turn => emitted' \in reopened

(* Every other step publishes no KEY_DOWN.                                   *)
LEMMA StepDownOnce == PressInv /\ [PadNext]_padVars => [DownIsOfAnOpened]_padVars
<1>. SUFFICES ASSUME PressInv, PadNext, event'.kind = "DOWN", event'.turn # event.turn
              PROVE  emitted' \in reopened
  BY DEF DownIsOfAnOpened
<1>1. CASE PollDown
  <2>1. candidate \in Key /\ candidate # emitted
    BY <1>1 DEF PollDown
  <2>2. emitted' = candidate
    BY <1>1 DEF PollDown, Silent, Event
  <2>. QED  BY <2>1, <2>2 DEF PressInv, HeldIsEmitted
<1>2. ~Silent
  BY DEF Silent, Event
<1>3. event' # event
  OBVIOUS
<1>4. ASSUME NEW k, NEW kind, Publish(kind, k) PROVE kind = "DOWN"
  BY <1>4 DEF Publish, Event
<1>5. ~(\E k \in Key : Touch(k) \/ Lift(k)) /\ ~BusFails /\ ~GlitchPasses
  BY <1>3 DEF Touch, Lift, BusFails, GlitchPasses, padRam
<1>6. ~PollError /\ ~PollChanged /\ ~PollWaits /\ ~PollSteady
  BY <1>2 DEF PollError, PollChanged, PollWaits, PollSteady
<1>7. ~PollRaw /\ ~PollUp
  BY <1>2, <1>4 DEF PollRaw, PollUp
<1>8. ~Calibrate /\ ~CalibrationRefused /\ ~CalibrationNotSaved /\ ~PadReboot
  BY <1>2 DEF Calibrate, CalibrationRefused, CalibrationNotSaved, PadReboot, Calibrating
<1>. QED  BY <1>1, <1>5, <1>6, <1>7, <1>8 DEF PadNext, PadPoll

(* A key that is held down is one KEY_DOWN: through contacts that bounce,    *)
(* second fingers, I2C errors, pauses of the loop and calibrations, for any  *)
(* debounce times.                                                           *)
THEOREM HeldKeyIsOneDown == PadSpec => OnePressOneDown
<1>1. [DownIsOfAnOpened]_padVars
        <=> [event'.kind = "DOWN" /\ event'.turn # event.turn => emitted' \in reopened]_padVars
  BY DEF DownIsOfAnOpened
<1>. QED  BY <1>1, PressInvInit, StepPressInv, StepDownOnce, PTL DEF PadSpec, OnePressOneDown

(* The types.  Two fingers, and an error count that starts again at the      *)
(* limit; the mapping is only in force when there is one.                    *)
PadTypes ==
  /\ IsFiniteSet(pressed) /\ errors \in Nat
  /\ PadTypeOK

(* Initially no key, no error.                                               *)
LEMMA PadTypesInit == PadInit => PadTypes
<1> SUFFICES ASSUME PadInit PROVE PadTypes
  OBVIOUS
<1>1. IsFiniteSet(pressed) /\ Cardinality(pressed) = 0
  BY FS_EmptySet DEF PadInit
<1>. QED  BY <1>1, KeypadAssumption DEF PadInit, PadFresh, PadTypes, PadTypeOK

(* A poll counts up to the number that settles a reading.                    *)
LEMMA PollTypes == ASSUME PadTypes, PadPoll PROVE PadTypes'
<1> USE KeypadAssumption DEF PadTypes, PadTypeOK, padMap, padNvs
<1>1. CASE PollError
  BY <1>1 DEF PollError
<1>2. CASE PollChanged
  <2>1. Reading \in Key \cup {Open, Many}
    <3>1. CASE pressed = {} \/ Cardinality(pressed) # 1
      BY <3>1 DEF Reading
    <3>2. CASE pressed # {} /\ Cardinality(pressed) = 1
      <4>1. \E k \in Key : pressed = {k}
        BY <3>2, FS_Singleton
      <4>. QED  BY <3>2, <4>1 DEF Reading
    <3>. QED  BY <3>1, <3>2
  <2>. QED  BY <1>2, <2>1 DEF PollChanged
<1>3. CASE PollWaits \/ PollRaw \/ PollDown \/ PollUp \/ PollSteady
  <2>1. /\ lasted' \in Later(lasted) /\ errors' = 0
        /\ UNCHANGED <<pressed, candidate, padMap, stored>>
    BY <1>3 DEF PollWaits, PollRaw, PollDown, PollUp, PollSteady, PollSame
  <2>2. lasted' \in 0..ReleasePolls
    BY <2>1 DEF Later
  <2>3. emitted' \in {emitted, candidate, Open}
    BY <1>3 DEF PollWaits, PollRaw, PollDown, PollUp, PollSteady
  <2>. QED  BY <2>1, <2>2, <2>3
<1>. QED  BY <1>1, <1>2, <1>3 DEF PadPoll

(* Every step.                                                               *)
LEMMA PadTypesStep == PadTypes /\ [PadNext]_padVars => PadTypes'
<1> SUFFICES ASSUME PadTypes, [PadNext]_padVars PROVE PadTypes'
  OBVIOUS
<1> USE KeypadAssumption DEF PadTypes, PadTypeOK
<1>1. ASSUME NEW k \in Key, Touch(k) PROVE PadTypes'
  <2>1. IsFiniteSet(pressed') /\ Cardinality(pressed') = Cardinality(pressed) + 1
    BY <1>1, FS_AddElement DEF Touch
  <2>2. Cardinality(pressed) \in Nat
    BY FS_CardinalityType
  <2>. QED  BY <1>1, <2>1, <2>2 DEF Touch, padRam, padMap, padNvs
<1>2. ASSUME NEW k \in Key, Lift(k) PROVE PadTypes'
  <2>1. IsFiniteSet(pressed') /\ Cardinality(pressed') = Cardinality(pressed) - 1
    BY <1>2, FS_RemoveElement DEF Lift
  <2>2. Cardinality(pressed) \in Nat
    BY FS_CardinalityType
  <2>. QED  BY <1>2, <2>1, <2>2 DEF Lift, padRam, padMap, padNvs
<1>3. CASE BusFails \/ GlitchPasses
  BY <1>3 DEF BusFails, GlitchPasses, padRam, padMap, padNvs
<1>4. CASE PadPoll
  BY <1>4, PollTypes
<1>5. CASE Calibrate \/ CalibrationRefused \/ CalibrationNotSaved
  <2>1. IsFiniteSet(pressed') /\ Cardinality(pressed') = 0 /\ pressed' \subseteq Key
        /\ UNCHANGED <<candidate, lasted, emitted, errors>>
    BY <1>5, FS_EmptySet DEF Calibrate, CalibrationRefused, CalibrationNotSaved, Calibrating
  <2>2. pairs' \in {"right", "wrong"} /\ stored' \in {stored, "right"}
    BY <1>5 DEF Calibrate, CalibrationRefused, CalibrationNotSaved, padNvs
  <2>. QED  BY <2>1, <2>2
<1>6. CASE PadReboot
  <2>1. /\ UNCHANGED pressed /\ candidate' = Open /\ lasted' = 0 /\ emitted' = Open /\ errors' = 0
        /\ stored' \in {stored, "right"}
    BY <1>6 DEF PadReboot
  <2>2. pairs' \in {"none", "right"} /\ (calibrated' => pairs' # "none")
    BY <1>6, <2>1 DEF PadReboot
  <2>. QED  BY <2>1, <2>2
<1>7. CASE UNCHANGED padVars
  BY <1>7 DEF padVars, padRam, padMap, padNvs
<1>. QED  BY <1>1, <1>2, <1>3, <1>4, <1>5, <1>6, <1>7 DEF PadNext

(* The debouncer, the error count and the mapping stay in their ranges; a    *)
(* keypad that counts as calibrated has a mapping, whichever put of a        *)
(* calibration failed or was cut short.                                      *)
THEOREM PadTypeCorrect == PadSpec => []PadTypeOK
<1>1. PadTypes => PadTypeOK
  BY DEF PadTypes
<1>. QED  BY <1>1, PadTypesInit, PadTypesStep, PTL DEF PadSpec

-----------------------------------------------------------------------------
(* MCDevice.  A step of the device is a step of one part as that part's own  *)
(* specification has it, and leaves the others as they are.  Wi-Fi recovery  *)
(* and bootstrap both use the link: which of the two moves is settled at the *)
(* start.                                                                    *)
LEMMA StepOfOnePart ==
  ASSUME [DeviceNext]_deviceVars
  PROVE  /\ part' = part
         /\ [Next]_vars /\ [BundleNext]_bundleVars /\ [SeqNext]_seqVars
         /\ [RecNext]_recVars /\ [RingNextStep]_ringVars /\ [PadNext]_padVars
         /\ IF part = "bootstrap"
              THEN [BootstrapNext]_bootstrapVars /\ UNCHANGED recoveryOnly
              ELSE [WifiRecoveryNext]_recoveryVars /\ UNCHANGED bootstrapOnly
<1>1. CASE InNetwork(Next /\ NamedInOrder)
  BY <1>1 DEF InNetwork, recoveryVars, bootstrapVars, recoveryOnly, bootstrapOnly
<1>2. CASE InBundle(BundleNext)
  BY <1>2 DEF InBundle, recoveryVars, bootstrapVars, recoveryOnly, bootstrapOnly
<1>3. CASE InSequence(SeqNext)
  BY <1>3 DEF InSequence, recoveryVars, bootstrapVars, recoveryOnly, bootstrapOnly
<1>4. CASE InRecovery(RecNext)
  BY <1>4 DEF InRecovery, recoveryVars, bootstrapVars, recoveryOnly, bootstrapOnly
<1>5. CASE InHistory(RingNextStep)
  BY <1>5 DEF InHistory, recoveryVars, bootstrapVars, recoveryOnly, bootstrapOnly
<1>6. CASE InKeypad(PadNext)
  BY <1>6 DEF InKeypad, recoveryVars, bootstrapVars, recoveryOnly, bootstrapOnly
<1>7. CASE InWifi(WifiRecoveryNext)
  BY <1>7 DEF InWifi, bootstrapOnly
<1>8. CASE InBootstrap(BootstrapNext)
  BY <1>8 DEF InBootstrap, recoveryOnly
<1>9. CASE UNCHANGED deviceVars
  BY <1>9 DEF deviceVars, recoveryVars, bootstrapVars, recoveryOnly, bootstrapOnly
<1>. QED  BY <1>1, <1>2, <1>3, <1>4, <1>5, <1>6, <1>7, <1>8, <1>9 DEF DeviceNext

(* Side by side, and with the fairness that the run assumes, every part is   *)
(* what it was proved about alone: nothing of one is disturbed by another.   *)
THEOREM DeviceRunsItsParts ==
  DeviceSpec => /\ Init /\ [][Next]_vars
                /\ BundleSpec /\ SeqSpec /\ RecSpec /\ RingSpec /\ PadSpec
                /\ WifiRecoverySpec \/ BootstrapSpec
<1>1. DeviceInit => /\ Init /\ BundleInit /\ SeqInit /\ RecInit /\ RingInit /\ PadInit
                    /\ WifiRecoveryInit /\ (part = "bootstrap" => BootstrapInit)
  BY DEF DeviceInit, WifiRecoveryInit, BootstrapInit
<1>2. [DeviceNext]_deviceVars =>
        /\ (part = "bootstrap" <=> (part = "bootstrap")')
        /\ [Next]_vars /\ [BundleNext]_bundleVars /\ [SeqNext]_seqVars
        /\ [RecNext]_recVars /\ [RingNextStep]_ringVars /\ [PadNext]_padVars
        /\ (part = "bootstrap" => [BootstrapNext]_bootstrapVars)
        /\ (~(part = "bootstrap") => [WifiRecoveryNext]_recoveryVars)
  BY StepOfOnePart
<1>. QED  BY <1>1, <1>2, PTL DEF DeviceSpec, BundleSpec, SeqSpec, RecSpec, RingSpec, PadSpec,
                                 WifiRecoverySpec, BootstrapSpec

(* What a part that does not move keeps from the start: with a network in    *)
(* NVS nothing of the recovery flows is up, and nobody asks for a bootstrap. *)
RecoveryRests ==
  /\ keyDown = NoKey /\ held = FALSE /\ heldFor = 0
  /\ portal = "INACTIVE" /\ cand = NoNet /\ acted = {}
LinkUsers ==
  IF part = "bootstrap" THEN RecoveryRests /\ StoreInv /\ BootInv
  ELSE OverlayInv /\ RecoveryTypes /\ TestInv /\ BootstrapStarts

(* The two users of the link, one of them at rest.                           *)
LEMMA LinkUsersInit == DeviceInit => LinkUsers
<1> SUFFICES ASSUME DeviceInit PROVE LinkUsers
  OBVIOUS
<1>1. CASE part = "bootstrap"
  <2>1. BootInv
    BY <1>1, BootInvInit DEF DeviceInit, WifiRecoveryInit, BootstrapInit
  <2>2. RecoveryRests
    <3>1. creds.name # NoNet
      BY <1>1 DEF DeviceInit, WifiRecoveryInit, LinkInit, Opens, Pair
    <3>. QED  BY <3>1 DEF DeviceInit, WifiRecoveryInit, PortalAtBoot, RecoveryRests
  <2>3. StoreInv
    BY TestInvInit DEF DeviceInit, TestInv
  <2>. QED  BY <1>1, <2>1, <2>2, <2>3 DEF LinkUsers
<1>2. CASE part # "bootstrap"
  BY <1>2, OverlayInvInit, RecoveryTypesInit, TestInvInit DEF DeviceInit, LinkUsers
<1>. QED  BY <1>1, <1>2

(* No step of the bootstrap stores a network.                                *)
LEMMA BootstrapStoresNothing ==
  ASSUME part = "bootstrap", [DeviceNext]_deviceVars
  PROVE  UNCHANGED wifiNvs /\ UNCHANGED recoveryOnly
<1>1. [BootstrapNext]_bootstrapVars /\ UNCHANGED recoveryOnly
  BY StepOfOnePart
<1> USE DEF wifiNvs, linkVars
<1>2. CASE BootstrapReboot
  BY <1>1, <1>2 DEF BootstrapReboot, LinkBegin
<1>3. CASE \/ LinkMoves(Joins) \/ LinkMoves(AirChanges) \/ LinkMoves(WmPoll)
           \/ LinkMoves(CooldownOver) \/ LinkMoves(ForceReconnect)
  BY <1>1, <1>3 DEF LinkMoves, Joins, AirChanges, WmPoll, WmConnects, WmGivesUp, WmDropped,
                    WmRetries, CooldownOver, ForceReconnect
<1>4. CASE Rearm \/ Ask \/ AskNowhere \/ RetryDue \/ Answered \/ Take
  BY <1>1, <1>4 DEF Rearm, Ask, AskNowhere, RetryDue, Answered, Take
<1>5. CASE UNCHANGED bootstrapVars
  BY <1>1, <1>5 DEF bootstrapVars
<1>. QED  BY <1>1, <1>2, <1>3, <1>4, <1>5 DEF BootstrapNext

(* A step of the one leaves the other at rest.                               *)
LEMMA LinkUsersStep == LinkUsers /\ [DeviceNext]_deviceVars => LinkUsers'
<1> SUFFICES ASSUME LinkUsers, [DeviceNext]_deviceVars PROVE LinkUsers'
  OBVIOUS
<1>1. CASE part = "bootstrap"
  <2>1. BootInv'
    BY <1>1, StepOfOnePart, BootInvStep DEF LinkUsers
  <2>2. RecoveryRests'
    BY <1>1, StepOfOnePart DEF LinkUsers, RecoveryRests, recoveryOnly, hold, flows
  <2>3. StoreInv'
    BY <1>1, BootstrapStoresNothing DEF LinkUsers, StoreInv, wifiNvs, recoveryOnly, flows
  <2>. QED  BY <1>1, <2>1, <2>2, <2>3, StepOfOnePart DEF LinkUsers
<1>2. CASE part # "bootstrap"
  <2>1. OverlayInv' /\ RecoveryTypes' /\ TestInv'
    BY <1>2, StepOfOnePart, OverlayInvStep, RecoveryTypesStep, TestInvStep DEF LinkUsers
  <2>2. BootstrapStarts'
    BY <1>2, StepOfOnePart DEF LinkUsers, BootstrapStarts, bootstrapOnly, asking
  <2>. QED  BY <1>2, <2>1, <2>2, StepOfOnePart DEF LinkUsers
<1>. QED  BY <1>1, <1>2

(* Always, then.                                                             *)
LEMMA LinkUsersAlways == DeviceSpec => []LinkUsers
BY LinkUsersInit, LinkUsersStep, PTL DEF DeviceSpec

(* What it says of both, whichever of them moves.                            *)
LEMMA LinkUsersHold ==
  LinkUsers => /\ WifiRecoveryTypeOK /\ BootstrapTypeOK
               /\ OneKeyOneAction /\ InFlightIsAnswered
<1> SUFFICES ASSUME LinkUsers
             PROVE  /\ WifiRecoveryTypeOK /\ BootstrapTypeOK
                    /\ OneKeyOneAction /\ InFlightIsAnswered
  OBVIOUS
<1>1. CASE part = "bootstrap"
  <2>1. RecoveryRests /\ BootInv /\ LinkTypes
    BY <1>1 DEF LinkUsers, BootInv
  <2>2. WifiRecoveryTypeOK
    BY <2>1, RecoveryKeysAssumption DEF RecoveryRests, LinkTypes, Nets, Pairs, WifiRecoveryTypeOK
  <2>3. OneKeyOneAction
    BY <2>1 DEF RecoveryRests, OneKeyOneAction
  <2>. QED  BY <2>1, <2>2, <2>3 DEF BootInv
<1>2. CASE part # "bootstrap"
  <2>1. OverlayInv /\ RecoveryTypes /\ BootInv
    BY <1>2, BootStarts DEF LinkUsers, RecoveryTypes
  <2>. QED  BY <2>1 DEF OverlayInv, RecoveryTypes, BootInv
<1>. QED  BY <1>1, <1>2

(* Everything every part holds is in its range, in NVS, in RAM and on the    *)
(* radio, in the specification that is run.                                  *)
THEOREM DeviceTypeCorrect == DeviceSpec => []DeviceTypeOK
<1>1. Init /\ [][Next]_vars => []TypeOK
  <2>1. TrafficInv => TypeOK
    BY DEF TrafficInv
  <2>. QED  BY <2>1, TrafficInvInit, TrafficInvStep, PTL
<1>2. TypeOK /\ BundleTypeOK /\ SeqInv /\ RecTypeOK /\ PadTypeOK /\ LinkUsers => DeviceTypeOK
  BY LinkUsersHold DEF SeqInv, DeviceTypeOK
<1>. QED  BY <1>1, <1>2, DeviceRunsItsParts, BundleTypeCorrect, SeqInvAlways, RecTypeCorrect,
             PadTypeCorrect, LinkUsersAlways, PTL

(* What the parts promise, they keep side by side: no request handled twice  *)
(* and each tier in order, a whole bundle after every power loss, a safe     *)
(* mode that is earned and not missed, the latest events, no key that acts   *)
(* twice, no bootstrap that waits for nothing.                               *)
DevicePromises ==
  /\ NothingTwice /\ TierOrder /\ OneLowAtMost
  /\ BootFindsWhole /\ NoDrift
  /\ NoFalseSafeMode /\ LoopIsCaught
  /\ HistoryIsTheLatest
  /\ OneKeyOneAction /\ InFlightIsAnswered

(* The safety invariants of all the parts, in the composition that is run.   *)
THEOREM DeviceKeepsPromises == DeviceSpec => []DevicePromises
<1>1. Init /\ [][Next]_vars => [](NothingTwice /\ TierOrder /\ OneLowAtMost)
  <2>1. TrafficInv => OneLowAtMost
    BY DEF TrafficInv, PassedOnce, OneLowAtMost
  <2>. QED
    BY <2>1, LineHasNoneTwice, LineKeepsTiers, TrafficInvInit, TrafficInvStep, PTL
<1>2. /\ NothingTwice /\ TierOrder /\ OneLowAtMost /\ BootFindsWhole /\ NoDrift
      /\ NoFalseSafeMode /\ LoopIsCaught /\ HistoryIsTheLatest /\ LinkUsers
      => DevicePromises
  BY LinkUsersHold DEF DevicePromises
<1>. QED  BY <1>1, <1>2, DeviceRunsItsParts, BootFindsWholeBundle, RamFollowsFlash,
             SafeModeIsEarned, RepeatedFaultIsCaught, HistoryReadsTheLatest, LinkUsersAlways, PTL

(* And what no step of any part may do: replace a bundle by anything but the *)
(* one it fetched and checked, hand out a number twice, publish a held key   *)
(* again, store a network that was not joined or half of one with another.   *)
THEOREM DeviceStepsAllowed ==
  DeviceSpec => ReplacedAtomically /\ NumbersIncrease /\ OnePressOneDown /\ CommitTested
<1>1. LinkUsers /\ [DeviceNext]_deviceVars => [StoresTested /\ StoresWhole]_recoveryVars
  <2> SUFFICES ASSUME LinkUsers, [DeviceNext]_deviceVars
               PROVE  [StoresTested /\ StoresWhole]_recoveryVars
    OBVIOUS
  <2>1. CASE part = "bootstrap"
    <3>1. creds' = creds /\ torn' = torn /\ portal' = portal
      BY <2>1, BootstrapStoresNothing DEF wifiNvs, recoveryOnly, flows
    <3>2. torn \/ creds.name = creds.pass
      BY <2>1 DEF LinkUsers, RecoveryRests, StoreInv
    <3>. QED  BY <3>1, <3>2 DEF StoresTested, StoresWhole
  <2>2. CASE part # "bootstrap"
    BY <2>2, StepOfOnePart, StepStores DEF LinkUsers
  <2>. QED  BY <2>1, <2>2
<1>2. DeviceSpec => CommitTested
  BY <1>1, LinkUsersAlways, PTL DEF DeviceSpec, CommitTested
<1>. QED  BY <1>2, DeviceRunsItsParts, StoreReplacesAtomically, NumbersNeverRepeat,
             HeldKeyIsOneDown, PTL
=============================================================================
