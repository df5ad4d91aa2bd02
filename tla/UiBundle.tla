------------------------------ MODULE UiBundle ------------------------------
(***************************************************************************)
(* The screens the server authors: storage/ui_bundle_store and             *)
(* runtime/ui_sync_controller.  A bootstrap tells which bundle is wanted;  *)
(* it is downloaded, checked, written to the slot that is not active (a    *)
(* file on SPIFFS, then three keys in NVS), and made active by the key     *)
(* "meta_slot".  Power may go, and a write may fail, between any two of    *)
(* these writes.                                                           *)
(*                                                                         *)
(* Of a bundle there remain its version, its kind and, standing for its    *)
(* SHA-256, the text itself.  The hash is compared only when the manifest  *)
(* declares one, and those of the repository declare none: an answer that  *)
(* is cut short behind a whole screen is as good as another to stage().    *)
(***************************************************************************)
EXTENDS Naturals

CONSTANTS
  Versions,      \* the versions the server may want
  NoBundle,      \* "" and 0: a slot or a key never written, no file
  BundleFaults,  \* what may go wrong: a subset of BundleFaultKinds
  MaxFaults,     \* bound: how often
  MaxPublished   \* bound: how often the server changes its mind

(* "power": power loss; "file": the write of the file fails; "key": the put  *)
(* of a key of a slot, or of meta_slot, fails; "lastGood": that of           *)
(* last_good_ver fails; "fetch": the download fails or brings a bad text;    *)
(* "slot": its result is overwritten before poll() takes it; "mount": a boot *)
(* at which SPIFFS.begin(true) formats the partition, or fails altogether.   *)
BundleFaultKinds == {"power", "file", "key", "lastGood", "fetch", "slot", "mount"}

Slot  == {"A", "B"}
Other(s) == IF s = "A" THEN "B" ELSE "A"
MetaKey   == {"ver", "hash", "schema"}
PutOrder == [ver |-> "hash", hash |-> "schema", schema |-> "slot"]

(* What is downloaded: "good"; "part": cut short behind a whole screen;      *)
(* "failed": no answer, or an empty one; "mismatch": its manifest declares   *)
(* another hash; "broken": does not parse; "schema": of a schema this        *)
(* firmware does not know.  What a write leaves of one that was being        *)
(* staged: "cut" and "half", without and with one whole screen in it.        *)
Text(v, k) == [ver |-> v, kind |-> k]
Accepted   == {Text(v, k) : v \in Versions, k \in {"good", "part"}}
Torn       == {Text(v, k) : v \in Versions, k \in {"cut", "half"}}
BadAnswers(v) == {Text(v, k) : k \in {"failed", "part", "mismatch", "broken", "schema"}}

ASSUME BundleAssumption ==
  /\ NoBundle \notin Versions /\ NoBundle \notin Slot /\ NoBundle \notin Accepted
  /\ BundleFaults \subseteq BundleFaultKinds
  /\ MaxFaults \in Nat /\ MaxPublished \in Nat

Parses(t)     == t.kind \notin {"broken", "cut"}
VerifiesWrong(t) == t.kind # "failed" /\ Parses(t)         \* hash and schema unchecked

Verifies(t)   == t.kind \notin {"failed", "mismatch", "schema"} /\ Parses(t)
KeyValue(k, t) == CASE k = "ver" -> t.ver [] k = "hash" -> t [] k = "schema" -> "known"

VARIABLES
  metaSlot,    \* NVS: the active slot
  meta,        \* NVS: meta[slot][key]
  lastGood,    \* NVS: last_good_ver
  file,        \* SPIFFS: the text of each slot
  active,      \* RAM: what the store loaded: has, slot, ver, hash; found: it had SPIFFS
  staged,      \* RAM: staged_slot_ and staged_version_, or NoBundle
  sync,        \* RAM: sync_state_
  inflight,    \* RAM: download_in_flight_
  fetching,    \* the request is with the network task
  pending,     \* RAM: pending_version_
  stash,       \* RAM: the result of the download, kept by the runtime
  writing,     \* the write poll() makes next; "idle" outside stage() and activate
  body,        \* the text being staged
  desired,     \* the version the server wants
  wiped,       \* history: the partition was formatted since meta_slot was put
  left         \* bounds: what the environment may still do

bundleFlash == <<metaSlot, meta, lastGood, file, wiped>>
request     == <<inflight, fetching, pending>>
serverSide  == <<desired, left>>
bundleVars  == <<bundleFlash, active, staged, sync, request, stash, writing, body, serverSide>>

-----------------------------------------------------------------------------
(* load_active_from_nvs(): what the flash makes active.  The text is parsed, *)
(* its hash is not compared again.                                           *)
Loaded(slot, m, f, was) ==
  IF slot = NoBundle THEN [was EXCEPT !.has = FALSE]
  ELSE [slot |-> slot, ver |-> m[slot].ver, hash |-> m[slot].hash, found |-> TRUE,
        has  |-> f[slot] # NoBundle /\ Parses(f[slot])]

FreshRam == [has |-> FALSE, slot |-> "A", ver |-> NoBundle, hash |-> NoBundle, found |-> TRUE]
AfterBoot == Loaded(metaSlot, meta, file, FreshRam)

BundleInit ==
  /\ metaSlot = NoBundle /\ lastGood = NoBundle
  /\ meta = [s \in Slot |-> [k \in MetaKey |-> NoBundle]]
  /\ file = [s \in Slot |-> NoBundle] /\ wiped = FALSE
  /\ active = FreshRam /\ staged = NoBundle /\ sync = "IDLE"
  /\ inflight = FALSE /\ fetching = FALSE /\ pending = NoBundle /\ stash = NoBundle
  /\ writing = "idle" /\ body = NoBundle
  /\ desired \in Versions
  /\ left = [faults |-> MaxFaults, publish |-> MaxPublished]

NeedsSyncWrong(h) ==                                       \* never back to an older one
  \/ active.ver = NoBundle
  \/ active.ver # NoBundle /\ active.ver < desired
  \/ h # NoBundle /\ active.ver = desired /\ active.hash # h

(* ui_bundle_needs_sync() for a desired version that is not 0.               *)
NeedsSync(h) ==
  \/ active.ver # desired
  \/ h # NoBundle /\ active.hash # h

(* A bootstrap's answer says what is wanted; the hash may be left out.  The  *)
(* request may find the queue full, and then nothing is in flight.           *)
CheckDesired(h, room) ==
  /\ writing = "idle" /\ ~inflight
  /\ NeedsSync(h)
  /\ pending' = desired
  /\ sync' = "DOWNLOADING"
  /\ inflight' = room /\ fetching' = room
  /\ UNCHANGED <<bundleFlash, active, staged, stash, writing, body, serverSide>>

BundleFault(kind) ==
  /\ kind \in BundleFaults
  /\ left.faults > 0
  /\ left' = [left EXCEPT !.faults = @ - 1]

Fetched ==
  /\ fetching
  /\ fetching' = FALSE /\ stash' = Text(pending, "good")
  /\ UNCHANGED <<bundleFlash, active, staged, sync, inflight, pending, writing, body, serverSide>>

FetchFails ==
  /\ fetching
  /\ BundleFault("fetch")
  /\ fetching' = FALSE /\ stash' \in BadAnswers(pending)
  /\ UNCHANGED <<bundleFlash, active, staged, sync, inflight, pending, writing, body, desired>>

(* The result is overwritten in the one slot of the network task, and        *)
(* download_in_flight_ stays set until a reboot.                             *)
ResultLost ==
  /\ fetching
  /\ BundleFault("slot")
  /\ fetching' = FALSE
  /\ UNCHANGED <<bundleFlash, active, staged, sync, inflight, pending, stash, writing, body,
                 desired>>

StageFails ==
  /\ writing' = "idle" /\ body' = NoBundle
  /\ sync' = "UPDATE_FAILED"

(* poll() collects the download; stage() starts when it verifies.            *)
PollRefuses ==
  /\ stash # NoBundle /\ writing = "idle"
  /\ ~Verifies(stash)
  /\ StageFails
  /\ stash' = NoBundle /\ inflight' = FALSE
  /\ UNCHANGED <<bundleFlash, active, staged, fetching, pending, serverSide>>

PollStages ==
  /\ stash # NoBundle /\ writing = "idle"
  /\ Verifies(stash)
  /\ writing' = "file" /\ body' = stash
  /\ sync' = "VERIFYING"
  /\ stash' = NoBundle /\ inflight' = FALSE
  /\ UNCHANGED <<bundleFlash, active, staged, fetching, pending, serverSide>>

TargetSlotWrong == active.slot                             \* the slot in use

(* The slot that is written is the one active_slot_ in RAM does not name.    *)
TargetSlot == Other(active.slot)
HalfWritten(t) == {Text(t.ver, "cut"), Text(t.ver, "half")}

WriteFile ==
  /\ writing = "file"
  /\ file' = [file EXCEPT ![TargetSlot] = body]
  /\ writing' = "ver"
  /\ UNCHANGED <<metaSlot, meta, lastGood, wiped, active, staged, sync, request, stash, body,
                 serverSide>>

(* open() fails and leaves the file, or write() comes short.  If the store   *)
(* found no SPIFFS, the journal's own begin() has mounted it since, or every *)
(* open() fails.                                                             *)
WriteFileFails ==
  /\ writing = "file"
  /\ \/ /\ BundleFault("file")
        /\ \E t \in {file[TargetSlot]} \cup HalfWritten(body) :
             file' = [file EXCEPT ![TargetSlot] = t]
     \/ ~active.found /\ UNCHANGED <<file, left>>
  /\ StageFails
  /\ UNCHANGED <<metaSlot, meta, lastGood, wiped, active, staged, request, stash, desired>>

(* The last put makes the slot staged.                                       *)
PutKey ==
  /\ writing \in MetaKey
  /\ meta' = [meta EXCEPT ![TargetSlot][writing] = KeyValue(writing, body)]
  /\ writing' = PutOrder[writing]
  /\ IF writing' = "slot"
     THEN staged' = [slot |-> TargetSlot, ver |-> body.ver] /\ sync' = "ACTIVATING"
     ELSE UNCHANGED <<staged, sync>>
  /\ UNCHANGED <<metaSlot, lastGood, file, wiped, active, request, stash, body, serverSide>>

PutKeyFails ==
  /\ writing \in MetaKey \cup {"slot"}
  /\ BundleFault("key")
  /\ StageFails
  /\ UNCHANGED <<bundleFlash, active, staged, request, stash, desired>>

(* activate_staged(): the one write that changes what is active.             *)
PutSlot ==
  /\ writing = "slot"
  /\ metaSlot' = staged.slot /\ wiped' = FALSE
  /\ writing' = "lastGood"
  /\ UNCHANGED <<meta, lastGood, file, active, staged, sync, request, stash, body, serverSide>>

PutLastGoodWrong ==                                        \* RAM is not loaded again
  /\ writing = "lastGood"
  /\ lastGood' = staged.ver
  /\ staged' = NoBundle
  /\ sync' = "ACTIVE"
  /\ writing' = "idle" /\ body' = NoBundle
  /\ UNCHANGED <<metaSlot, meta, file, wiped, active, request, stash, serverSide>>

PutLastGood ==
  /\ writing = "lastGood"
  /\ lastGood' = staged.ver
  /\ active' = Loaded(metaSlot, meta, file, active)
  /\ staged' = NoBundle
  /\ sync' = "ACTIVE"
  /\ writing' = "idle" /\ body' = NoBundle
  /\ UNCHANGED <<metaSlot, meta, file, wiped, request, stash, serverSide>>

PutLastGoodFails ==
  /\ writing = "lastGood"
  /\ BundleFault("lastGood")
  /\ StageFails
  /\ UNCHANGED <<bundleFlash, active, staged, request, stash, desired>>

(* What a power loss leaves of the files: in the write of one, a part of it, *)
(* or nothing.                                                               *)
FilesCut ==
  IF writing = "file"
    THEN \E t \in {file[TargetSlot], NoBundle} \cup HalfWritten(body) :
           file' = [file EXCEPT ![TargetSlot] = t]
    ELSE UNCHANGED file

(* Power comes back at once, or a restart ends: RAM starts afresh.           *)
StartsAfresh ==
  /\ sync' = IF active'.has THEN "ACTIVE" ELSE "IDLE"
  /\ staged' = NoBundle /\ inflight' = FALSE /\ fetching' = FALSE /\ pending' = NoBundle
  /\ stash' = NoBundle /\ writing' = "idle" /\ body' = NoBundle
  /\ UNCHANGED <<metaSlot, meta, lastGood, desired>>

(* init() loads what the flash holds.                                        *)
BundlePowerLoss ==
  /\ BundleFault("power")
  /\ FilesCut
  /\ active' = Loaded(metaSlot, meta, file', FreshRam)
  /\ StartsAfresh
  /\ UNCHANGED wiped

(* init() finds a partition that it has just formatted, with NVS as it was.  *)
BootFormats ==
  /\ BundleFault("mount")
  /\ file' = [s \in Slot |-> NoBundle]
  /\ wiped' = (metaSlot # NoBundle)
  /\ active' = Loaded(metaSlot, meta, file', FreshRam)
  /\ StartsAfresh

(* init() finds none, and loads what NVS says of a bundle it does not have.  *)
(* The begin() of the journal may yet mount or format it.                    *)
BootFindsNoFiles ==
  /\ BundleFault("mount")
  /\ \/ FilesCut /\ UNCHANGED wiped
     \/ file' = [s \in Slot |-> NoBundle] /\ wiped' = (metaSlot # NoBundle)
  /\ active' = [Loaded(metaSlot, meta, file', FreshRam) EXCEPT !.has = FALSE, !.found = FALSE]
  /\ StartsAfresh

(* Someone publishes another version, an older one included.                 *)
PublishVersion ==
  /\ left.publish > 0
  /\ left' = [left EXCEPT !.publish = @ - 1]
  /\ desired' \in Versions \ {desired}
  /\ UNCHANGED <<bundleFlash, active, staged, sync, request, stash, writing, body>>

BootstrapWants == \E h \in {NoBundle, Text(desired, "good")}, room \in BOOLEAN : CheckDesired(h, room)

SyncPoll == \/ PollRefuses \/ PollStages \/ WriteFile \/ PutKey \/ PutSlot \/ PutLastGood

BundleNext ==
  \/ BootstrapWants \/ Fetched \/ SyncPoll \/ PublishVersion
  \/ FetchFails \/ ResultLost \/ WriteFileFails \/ PutKeyFails
  \/ BundlePowerLoss \/ BootFormats \/ BootFindsNoFiles

BundleSpec == BundleInit /\ [][BundleNext]_bundleVars

(* With the one failure after which NVS and RAM name different slots; what   *)
(* the specification above promises is not kept then (ActiveSlotIntact).     *)
FailingPutSpec == BundleInit /\ [][BundleNext \/ PutLastGoodFails]_bundleVars

-----------------------------------------------------------------------------
BundleTypeOK ==
  /\ metaSlot \in Slot \cup {NoBundle}
  /\ lastGood \in Versions \cup {NoBundle}
  /\ \A s \in Slot : /\ file[s] \in Accepted \cup Torn \cup {NoBundle}
                     /\ meta[s].ver \in Versions \cup {NoBundle}
                     /\ meta[s].hash \in Accepted \cup {NoBundle}
  /\ active.slot \in Slot
  /\ staged = NoBundle \/ (staged.slot \in Slot /\ staged.ver \in Versions)
  /\ writing = "idle" <=> body = NoBundle
  /\ writing \in {"idle", "file", "slot", "lastGood"} \cup MetaKey

(* What a boot at this moment would come up with.                            *)
WouldBoot == IF AfterBoot.has THEN file[metaSlot] ELSE NoBundle

(* At every moment a power loss leaves the kiosk with a bundle that stage()  *)
(* accepted, every byte of it, under its own version and hash, once it has   *)
(* had one (ui_bundle_store.h:36-41): never with one that a write tore, nor  *)
(* with one bundle's text under another's keys.  Only the format of the      *)
(* partition at a boot loses it, and then no other text is in its place.     *)
BootFindsWhole ==
  metaSlot # NoBundle =>
    IF wiped THEN file[metaSlot] = NoBundle
    ELSE /\ file[metaSlot] \in Accepted
         /\ meta[metaSlot].hash = file[metaSlot]
         /\ meta[metaSlot].ver = file[metaSlot].ver

(* What a boot would select is never half written: "the active slot is never *)
(* touched until a single small metadata write flips which slot is active"   *)
(* (ui_bundle_store.h:36-41).                                                *)
ActiveSlotIntact == metaSlot # NoBundle => file[metaSlot] \in Accepted

(* Between calls the store shows exactly what a boot would load: "no drift   *)
(* between what we just wrote and what's actually durable" (cpp:266-269); a  *)
(* store that found no SPIFFS at boot has no bundle, and all else as a boot  *)
(* would.                                                                    *)
NoDrift ==
  writing = "idle" =>
    active = IF active.found THEN AfterBoot
             ELSE [AfterBoot EXCEPT !.has = FALSE, !.found = FALSE]

(* The store implements the atomic replacement it promises.                  *)
Promised == INSTANCE InstalledBundle WITH
  Verified <- Accepted, Nothing <- NoBundle, installed <- WouldBoot
ReplacedAtomically == Promised!Spec

(* With bootstraps that name the hash of the bundle that is wanted, and      *)
(* downloads that go on being tried, exactly that text is shown in the end,  *)
(* after every failure, power loss and answer cut short; if in the end SPIFFS*)
(* is there, no format has taken the bundle from under its keys in NVS, and  *)
(* no result has been lost on the way: needs_sync or download_in_flight_     *)
(* stops the kiosk from asking again then.                                   *)
NothingStuck == active.found /\ ~wiped /\ (inflight => fetching \/ stash # NoBundle)
UpdateLands ==
  <>[]NothingStuck => <>[](/\ active.has /\ active.ver = desired
                           /\ active.hash = Text(desired, "good"))
=============================================================================
