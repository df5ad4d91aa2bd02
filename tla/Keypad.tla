------------------------------- MODULE Keypad -------------------------------
(***************************************************************************)
(* hardware/keypad_pcf8574: the matrix is scanned over I2C every 12 ms, a  *)
(* reading that lasts becomes KEY_DOWN or KEY_UP on the event bus.  Which  *)
(* contact is which key is learnt once, by the guided calibration, and     *)
(* kept in NVS.                                                            *)
(*                                                                         *)
(* A contact is named by the key printed on it; of a mapping there remains *)
(* whether it names the contacts rightly.  Time is counted in polls; a     *)
(* loop that was busy sees more of it pass between two.                    *)
(***************************************************************************)
EXTENDS Naturals, FiniteSets

CONSTANTS
  Key,           \* the keys
  Open, Many,    \* readings: no contact closed, several
  StablePolls,   \* kStableMs over kPollIntervalMs
  ReleasePolls,  \* kReleaseStableMs over kPollIntervalMs
  I2cErrorLimit, \* kI2cErrorReinitThreshold
  MaxPadFaults   \* bound: power losses, calibrations that fail, broken buses

ASSUME KeypadAssumption ==
  /\ Open \notin Key /\ Many \notin Key /\ Open # Many
  /\ StablePolls \in Nat \ {0} /\ ReleasePolls \in Nat \ {0}
  /\ StablePolls <= ReleasePolls
  /\ I2cErrorLimit \in Nat \ {0} /\ MaxPadFaults \in Nat

VARIABLES
  pressed,     \* the contacts that are closed: at most two fingers
  bus,         \* "ok", "glitch", which goes by itself, or "hung", until Wire.begin()
  candidate,   \* candidate_pair_
  lasted,      \* polls since candidate_since_ms_
  emitted,     \* stable_emitted_pair_
  errors,      \* consecutive_i2c_errors_
  calibrated,  \* calibrated_
  pairs,       \* RAM: pairs_: "none", "right" or "wrong"
  stored,      \* NVS: the same, and whether the magic number is there
  magic,
  event,       \* what the last poll published
  reopened,    \* history: the keys open at some moment since their last KEY_DOWN
  padFaults    \* bound: what may still go wrong

padRam  == <<candidate, lasted, emitted, errors, event>>
padMap  == <<calibrated, pairs>>
padNvs  == <<stored, magic>>
padVars == <<pressed, bus, padRam, padMap, padNvs, reopened, padFaults>>

(* Subscribers run inside publish(); "turn" tells one publication from the   *)
(* next.                                                                     *)
Event(kind, k, turn) == [kind |-> kind, key |-> k, turn |-> turn]

PadFresh ==
  /\ candidate = Open /\ lasted = 0 /\ emitted = Open /\ errors = 0
  /\ event = Event("none", Open, FALSE)

PadInit ==
  /\ pressed = {} /\ bus = "ok"
  /\ PadFresh
  /\ calibrated \in BOOLEAN /\ magic = calibrated
  /\ stored = (IF calibrated THEN "right" ELSE "none") /\ pairs = stored
  /\ reopened = Key
  /\ padFaults = MaxPadFaults

-----------------------------------------------------------------------------
(* Fingers and contacts that bounce.                                         *)
Touch(k) ==
  /\ k \notin pressed /\ Cardinality(pressed) < 2
  /\ pressed' = pressed \cup {k}
  /\ UNCHANGED <<bus, padRam, padMap, padNvs, reopened, padFaults>>

Lift(k) ==
  /\ k \in pressed
  /\ pressed' = pressed \ {k}
  /\ reopened' = reopened \cup {k}
  /\ UNCHANGED <<bus, padRam, padMap, padNvs, padFaults>>

Silent == event' = Event("none", Open, event.turn)

PadFault == padFaults > 0 /\ padFaults' = padFaults - 1

BusFails ==
  /\ bus = "ok" /\ PadFault
  /\ bus' \in {"glitch", "hung"}
  /\ UNCHANGED <<pressed, padRam, padMap, padNvs, reopened>>

GlitchPasses ==
  /\ bus = "glitch" /\ bus' = "ok"
  /\ UNCHANGED <<pressed, padRam, padMap, padNvs, reopened, padFaults>>

-----------------------------------------------------------------------------
(* scan_pair() *)
Reading ==
  IF pressed = {} THEN Open
  ELSE IF Cardinality(pressed) = 1 THEN CHOOSE k \in Key : pressed = {k}
  ELSE Many

(* pair_to_key(): a wrong mapping may name any key, or none.                 *)
Names(contact) ==
  IF contact \notin Key THEN {Open}
  ELSE IF pairs = "right" THEN {contact} ELSE Key \cup {Open}

Debounce(r) == IF r = Open THEN ReleasePolls ELSE StablePolls

(* An I2C error leaves the reading as it was; after many in a row the bus is *)
(* started again, which frees a hung one.                                    *)
PollError ==
  /\ bus # "ok"
  /\ IF errors + 1 >= I2cErrorLimit
     THEN errors' = 0 /\ bus' = (IF bus = "hung" THEN "ok" ELSE bus)
     ELSE errors' = errors + 1 /\ UNCHANGED bus
  /\ Silent
  /\ UNCHANGED <<pressed, candidate, lasted, emitted, padMap, padNvs, reopened, padFaults>>

PollChanged ==
  /\ bus = "ok" /\ Reading # candidate
  /\ candidate' = Reading /\ lasted' = 0
  /\ errors' = 0 /\ Silent
  /\ UNCHANGED <<pressed, bus, emitted, padMap, padNvs, reopened, padFaults>>

(* 12 ms later, or after a longer pause of the loop.                         *)
Later(n) == IF n < ReleasePolls THEN {n + 1, ReleasePolls} ELSE {n}

PollSame(settles) ==
  /\ bus = "ok" /\ Reading = candidate
  /\ lasted' \in Later(lasted)
  /\ errors' = 0
  /\ settles <=> lasted' >= Debounce(candidate)
  /\ UNCHANGED <<pressed, bus, candidate, padMap, padNvs, padFaults>>

PollWaits == PollSame(FALSE) /\ Silent /\ UNCHANGED <<emitted, reopened>>

Publish(kind, k) == event' = Event(kind, k, ~event.turn)

(* Without a mapping the contact is published raw.                           *)
PollRaw ==
  /\ PollSame(TRUE) /\ ~calibrated
  /\ IF candidate \in Key /\ candidate # emitted
     THEN Publish("RAW", candidate) ELSE Silent
  /\ emitted' = candidate
  /\ UNCHANGED reopened

PollDownWrong ==                                           \* at every poll
  /\ PollSame(TRUE) /\ calibrated
  /\ candidate \in Key
  /\ \E k \in Names(candidate) :
       IF k = Open THEN Silent /\ UNCHANGED <<emitted, reopened>>
       ELSE /\ Publish("DOWN", k)
            /\ emitted' = candidate
            /\ reopened' = reopened \ {candidate}

PollDown ==
  /\ PollSame(TRUE) /\ calibrated
  /\ candidate \in Key /\ candidate # emitted
  /\ \E k \in Names(candidate) :
       IF k = Open THEN Silent /\ UNCHANGED <<emitted, reopened>>
       ELSE /\ Publish("DOWN", k)
            /\ emitted' = candidate
            /\ reopened' = reopened \ {candidate}

PollUpWrong ==                                             \* the key stays emitted
  /\ PollSame(TRUE) /\ calibrated
  /\ candidate = Open /\ emitted # Open
  /\ \E k \in Names(emitted) :
       IF k = Open THEN Silent ELSE Publish("UP", k)
  /\ UNCHANGED <<emitted, reopened>>

PollUp ==
  /\ PollSame(TRUE) /\ calibrated
  /\ candidate = Open /\ emitted # Open
  /\ emitted' = Open
  /\ \E k \in Names(emitted) :
       IF k = Open THEN Silent ELSE Publish("UP", k)
  /\ UNCHANGED reopened

PollSteady ==
  /\ PollSame(TRUE) /\ calibrated
  /\ candidate = emitted \/ candidate = Many
  /\ Silent
  /\ UNCHANGED <<emitted, reopened>>

PadPoll ==
  \/ PollError \/ PollChanged \/ PollWaits
  \/ PollRaw \/ PollDown \/ PollUp \/ PollSteady

-----------------------------------------------------------------------------
(* run_calibration() holds the loop until the last key is released; what the *)
(* poll remembers stays.                                                     *)
Calibrating == pressed' = {} /\ reopened' = Key /\ Silent
               /\ UNCHANGED <<bus, candidate, lasted, emitted, errors>>

Calibrate ==
  /\ bus = "ok" /\ ~calibrated
  /\ Calibrating
  /\ pairs' = "right" /\ stored' = "right" /\ magic' = TRUE /\ calibrated' = TRUE
  /\ UNCHANGED padFaults

(* The shape is refused, and its pairs are in force nonetheless.             *)
CalibrationRefused ==
  /\ bus = "ok" /\ PadFault
  /\ Calibrating
  /\ pairs' = "wrong"
  /\ UNCHANGED <<calibrated, padNvs>>

(* NVS does not open, or does not take the pairs, the magic, or either: each *)
(* is put whatever became of the other.                                      *)
CalibrationNotSaved ==
  /\ bus = "ok" /\ PadFault
  /\ Calibrating
  /\ pairs' = "right"
  /\ \/ UNCHANGED <<calibrated, padNvs>>
     \/ /\ calibrated' = FALSE
        /\ stored' \in {stored, "right"} /\ magic' \in {magic, TRUE}
        /\ stored' = stored \/ magic' = magic

(* Power loss, between the two puts of a calibration too; init() then loads  *)
(* what is stored.                                                           *)
PadReboot ==
  /\ PadFault
  /\ candidate' = Open /\ lasted' = 0 /\ emitted' = Open /\ errors' = 0
  /\ Silent
  /\ stored' \in {stored, "right"} /\ UNCHANGED magic
  /\ calibrated' = (magic /\ stored' # "none")
  /\ pairs' = (IF calibrated' THEN stored' ELSE "none")
  /\ bus' = "ok"
  /\ reopened' = Key
  /\ UNCHANGED pressed

PadNext ==
  \/ \E k \in Key : Touch(k) \/ Lift(k)
  \/ BusFails \/ GlitchPasses
  \/ PadPoll
  \/ Calibrate \/ CalibrationRefused \/ CalibrationNotSaved \/ PadReboot

PadSpec == PadInit /\ [][PadNext]_padVars

-----------------------------------------------------------------------------
PadTypeOK ==
  /\ pressed \subseteq Key /\ Cardinality(pressed) <= 2
  /\ candidate \in Key \cup {Open, Many} /\ emitted \in Key \cup {Open, Many}
  /\ lasted \in 0..ReleasePolls /\ errors < I2cErrorLimit
  /\ pairs \in {"none", "right", "wrong"} /\ stored \in {"none", "right"}
  /\ calibrated => pairs # "none"

(* A key that is held is one KEY_DOWN, through bouncing contacts, second     *)
(* fingers, bus errors and pauses of the loop: the contact was open since    *)
(* the KEY_DOWN before.                                                      *)
OnePressOneDown ==
  [][event'.kind = "DOWN" /\ event'.turn # event.turn => emitted' \in reopened]_padVars

(* When every key is let go and the bus works again, KEY_UP comes, and the   *)
(* next press of the same key is seen.                                       *)
LetGoIsSeen == <>[](pressed = {} /\ calibrated) => <>[](emitted = Open)
=============================================================================
