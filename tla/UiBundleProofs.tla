---------------------------- MODULE UiBundleProofs ----------------------------
(***************************************************************************)
(* Proofs about UiBundle, for every set of versions and of faults and      *)
(* however often they come: a boot finds a whole bundle, RAM shows what it *)
(* would find, and the store replaces what is installed in one step.       *)
(***************************************************************************)
EXTENDS UiBundle, TLAPS

Texts == {Text(v, k) : v \in Versions, k \in {"good", "part", "failed", "mismatch", "broken", "schema"}}
KeySet == [ver : Versions \cup {NoBundle}, hash : Accepted \cup {NoBundle},
           schema : {"known", NoBundle}]
Ram == [has : BOOLEAN, slot : Slot, ver : Versions \cup {NoBundle},
        hash : Accepted \cup {NoBundle}, found : BOOLEAN]

(* What the variables hold, more exactly than BundleTypeOK says it: only a   *)
(* text that verifies is ever staged.                                        *)
BundleShape ==
  /\ metaSlot \in Slot \cup {NoBundle} /\ lastGood \in Versions \cup {NoBundle}
  /\ meta \in [Slot -> KeySet]
  /\ file \in [Slot -> Accepted \cup Torn \cup {NoBundle}]
  /\ active \in Ram
  /\ staged \in [slot : Slot, ver : Versions] \cup {NoBundle}
  /\ inflight \in BOOLEAN /\ fetching \in BOOLEAN /\ pending \in Versions \cup {NoBundle}
  /\ fetching => pending \in Versions
  /\ stash \in Texts \cup {NoBundle}
  /\ writing \in {"idle", "file", "slot", "lastGood"} \cup MetaKey
  /\ IF writing = "idle" THEN body = NoBundle ELSE body \in Accepted
  /\ desired \in Versions
  /\ wiped \in BOOLEAN /\ (wiped => metaSlot # NoBundle)

(* How far the slot that is written has got when writing says what is next.  *)
Progress ==
  /\ writing \in {"ver", "hash", "schema", "slot"} => file[TargetSlot] = body
  /\ writing \in {"hash", "schema", "slot"} => meta[TargetSlot].ver = body.ver
  /\ writing \in {"schema", "slot"} => meta[TargetSlot].hash = body
  /\ writing = "slot" => staged = [slot |-> TargetSlot, ver |-> body.ver]
  /\ writing = "lastGood" => metaSlot # NoBundle /\ staged \in [slot : Slot, ver : Versions]

(* What RAM holds when it was loaded from the flash as it is, by a store     *)
(* that found SPIFFS or by one that did not.                                 *)
AsLoaded == active = IF active.found THEN AfterBoot
                     ELSE [AfterBoot EXCEPT !.has = FALSE, !.found = FALSE]

(* RAM and flash differ only between the two puts of the activation.  So the *)
(* slot that is written is not the one a boot would select, and what a boot  *)
(* would find is not disturbed until the put that selects the other slot.    *)
BundleInv ==
  /\ BundleShape
  /\ Progress
  /\ BootFindsWhole
  /\ writing # "lastGood" => AsLoaded

-----------------------------------------------------------------------------
(* A kiosk that has never had a bundle.                                      *)
LEMMA BundleInvInit == BundleInit => BundleInv
<1> SUFFICES ASSUME BundleInit PROVE BundleInv
  OBVIOUS
<1> USE BundleAssumption DEF BundleInit
<1>1. active \in Ram
  BY DEF FreshRam, Ram, Slot
<1>2. meta \in [Slot -> KeySet]
  BY DEF KeySet, MetaKey
<1>3. BundleShape
  BY <1>1, <1>2 DEF BundleShape
<1>4. Progress /\ BootFindsWhole
  BY DEF Progress, BootFindsWhole
<1>5. AsLoaded
  BY DEF AsLoaded, AfterBoot, Loaded, FreshRam
<1>. QED  BY <1>3, <1>4, <1>5 DEF BundleInv

(* What is loaded from a selected slot does not depend on what RAM held.     *)
LEMMA LoadedIsRam ==
  ASSUME BundleShape
  PROVE  /\ AfterBoot \in Ram
         /\ metaSlot # NoBundle => Loaded(metaSlot, meta, file, active) = AfterBoot
<1> USE DEF BundleShape, AfterBoot, Loaded, FreshRam, Ram, KeySet
<1>1. CASE metaSlot = NoBundle
  BY <1>1 DEF Slot
<1>2. CASE metaSlot # NoBundle
  <2>1. metaSlot \in Slot
    BY <1>2
  <2>2. meta[metaSlot] \in KeySet
    BY <2>1
  <2>. QED  BY <1>2, <2>1, <2>2
<1>. QED  BY <1>1, <1>2

(* The slot that is written is not the one a boot would select.              *)
LEMMA TargetIsOther ==
  ASSUME BundleInv, writing # "lastGood"
  PROVE  TargetSlot \in Slot /\ TargetSlot # metaSlot
<1>1. active.slot \in Slot /\ (metaSlot # NoBundle => active.slot = metaSlot)
  <2>1. active.slot = AfterBoot.slot
    BY LoadedIsRam DEF BundleInv, AsLoaded, Ram
  <2>2. active.slot \in Slot
    BY DEF BundleInv, BundleShape, Ram
  <2>. QED  BY <2>1, <2>2 DEF AfterBoot, Loaded
<1>. QED  BY <1>1, BundleAssumption DEF TargetSlot, Other, Slot

(* A write to that slot, of its file or of its keys, does not show at a      *)
(* boot.                                                                     *)
LEMMA TargetIsHidden ==
  ASSUME BundleInv, writing # "lastGood", UNCHANGED <<metaSlot, wiped>>,
         file' = file \/ \E t : file' = [file EXCEPT ![TargetSlot] = t],
         meta' = meta \/ \E k, x : meta' = [meta EXCEPT ![TargetSlot][k] = x]
  PROVE  AfterBoot' = AfterBoot /\ BootFindsWhole' /\ WouldBoot' = WouldBoot
<1>1. CASE metaSlot = NoBundle
  BY <1>1 DEF AfterBoot, Loaded, BootFindsWhole, WouldBoot, FreshRam
<1>2. CASE metaSlot # NoBundle
  <2>1. metaSlot \in Slot /\ metaSlot # TargetSlot
    BY <1>2, TargetIsOther DEF BundleInv, BundleShape
  <2>2. file'[metaSlot] = file[metaSlot]
    BY <2>1 DEF BundleInv, BundleShape
  <2>3. meta'[metaSlot] = meta[metaSlot]
    BY <2>1 DEF BundleInv, BundleShape
  <2>. QED  BY <1>2, <2>2, <2>3 DEF BundleInv, AfterBoot, Loaded, BootFindsWhole, WouldBoot
<1>. QED  BY <1>1, <1>2

-----------------------------------------------------------------------------
(* Everything but the flash and what loop() does with it: the request, the   *)
(* download and the server.                                                  *)
LEMMA BundleInvQuiet ==
  ASSUME BundleInv, BootstrapWants \/ Fetched \/ FetchFails \/ ResultLost \/ PollRefuses
                    \/ PollStages \/ PublishVersion \/ UNCHANGED bundleVars
  PROVE  BundleInv' /\ UNCHANGED <<WouldBoot, wiped>>
<1>1. UNCHANGED bundleFlash /\ UNCHANGED <<active, staged>>
  BY DEF BootstrapWants, CheckDesired, Fetched, FetchFails, ResultLost, PollRefuses, PollStages,
         PublishVersion, bundleVars, bundleFlash
<1>2. AfterBoot' = AfterBoot /\ WouldBoot' = WouldBoot /\ (BootFindsWhole <=> BootFindsWhole')
      /\ TargetSlot' = TargetSlot
  BY <1>1 DEF bundleFlash, AfterBoot, WouldBoot, BootFindsWhole, TargetSlot
<1>3. /\ desired' \in Versions /\ inflight' \in BOOLEAN /\ fetching' \in BOOLEAN
      /\ pending' \in Versions \cup {NoBundle} /\ (fetching' => pending' \in Versions)
  <2>. USE DEF BundleInv, BundleShape
  <2>1. CASE BootstrapWants
    <3>1. PICK room \in BOOLEAN : inflight' = room /\ fetching' = room /\ pending' = desired
      BY <2>1 DEF BootstrapWants, CheckDesired
    <3>2. desired' = desired
      BY <2>1 DEF BootstrapWants, CheckDesired, serverSide
    <3>. QED  BY <3>1, <3>2
  <2>2. CASE ~BootstrapWants
    <3>1. inflight' \in {FALSE, inflight} /\ fetching' \in {FALSE, fetching} /\ pending' = pending
      BY <2>2 DEF PollRefuses, PollStages, Fetched, FetchFails, ResultLost, PublishVersion,
                  bundleVars, request
    <3>2. fetching' => pending' \in Versions
      BY <3>1
    <3>3. desired' \in Versions
      BY <2>2 DEF PollRefuses, PollStages, Fetched, FetchFails, ResultLost, PublishVersion,
                  bundleVars, serverSide
    <3>. QED  BY <3>1, <3>2, <3>3
  <2>. QED  BY <2>1, <2>2
<1>4. stash' \in Texts \cup {NoBundle}
  <2>1. CASE Fetched \/ FetchFails
    BY <2>1 DEF Fetched, FetchFails, BadAnswers, Texts, Text, BundleInv, BundleShape
  <2>2. CASE BootstrapWants \/ ResultLost \/ PollRefuses \/ PollStages \/ PublishVersion
             \/ UNCHANGED bundleVars
    BY <2>2 DEF BootstrapWants, CheckDesired, ResultLost, PollRefuses, PollStages,
                PublishVersion, bundleVars, BundleInv, BundleShape
  <2>. QED  BY <2>1, <2>2
<1>5. \/ writing' = "idle" /\ body' = NoBundle
      \/ writing' = "file" /\ body' \in Accepted
      \/ UNCHANGED <<writing, body>>
  <2>1. CASE PollStages
    BY <2>1 DEF PollStages, Verifies, Parses, Texts, Text, Accepted, BundleInv, BundleShape
  <2>2. CASE BootstrapWants \/ Fetched \/ FetchFails \/ ResultLost \/ PollRefuses
             \/ PublishVersion \/ UNCHANGED bundleVars
    BY <2>2 DEF BootstrapWants, CheckDesired, Fetched, FetchFails, ResultLost, PollRefuses,
                StageFails, PublishVersion, bundleVars
  <2>. QED  BY <2>1, <2>2
<1>6. writing' # "lastGood" => AsLoaded'
  BY <1>1, <1>2, <1>5
     DEF BundleInv, AsLoaded, BootstrapWants, CheckDesired, Fetched, FetchFails, ResultLost,
         PollRefuses, PollStages, PublishVersion, bundleVars
<1>7. BundleShape'
  BY <1>1, <1>3, <1>4, <1>5 DEF BundleInv, BundleShape, bundleFlash
<1>8. Progress'
  BY <1>1, <1>2, <1>5 DEF BundleInv, Progress, bundleFlash
<1>. QED  BY <1>1, <1>2, <1>6, <1>7, <1>8 DEF BundleInv, bundleFlash

(* A step of stage() on the slot that is not selected, and a failure in it.  *)
LEMMA BundleInvWrites ==
  ASSUME BundleInv, WriteFile \/ WriteFileFails \/ PutKey \/ PutKeyFails
  PROVE  BundleInv' /\ UNCHANGED <<WouldBoot, wiped>>
<1>1. UNCHANGED <<metaSlot, lastGood, wiped, active, request, stash, desired>>
  BY DEF WriteFile, WriteFileFails, PutKey, PutKeyFails, bundleFlash, serverSide
<1>2. /\ writing \in {"file", "slot"} \cup MetaKey /\ body \in Accepted /\ TargetSlot \in Slot
      /\ TargetSlot' = TargetSlot /\ AsLoaded
  BY <1>1, TargetIsOther DEF WriteFile, WriteFileFails, PutKey, PutKeyFails, BundleInv,
     BundleShape, MetaKey, TargetSlot
<1>3. AfterBoot' = AfterBoot /\ BootFindsWhole' /\ WouldBoot' = WouldBoot /\ AsLoaded'
  BY <1>1, <1>2, TargetIsHidden
     DEF WriteFile, WriteFileFails, PutKey, PutKeyFails, bundleFlash, MetaKey, AsLoaded
<1>4. CASE WriteFile
  <2>1. file' \in [Slot -> Accepted \cup Torn \cup {NoBundle}] /\ file'[TargetSlot] = body
    BY <1>2, <1>4 DEF WriteFile, BundleInv, BundleShape
  <2>2. BundleShape'
    BY <1>1, <1>2, <1>4, <2>1 DEF WriteFile, BundleInv, BundleShape, MetaKey, request
  <2>3. Progress'
    BY <1>2, <1>4, <2>1 DEF WriteFile, Progress
  <2>. QED  BY <1>1, <1>2, <1>3, <1>4, <2>2, <2>3 DEF BundleInv, WriteFile, MetaKey
<1>5. CASE WriteFileFails
  <2>1. PICK t \in {file[TargetSlot]} \cup HalfWritten(body) :
          file' = [file EXCEPT ![TargetSlot] = t]
    BY <1>2, <1>5 DEF WriteFileFails, BundleInv, BundleShape
  <2>2. t \in Accepted \cup Torn \cup {NoBundle}
    BY <1>2, <2>1 DEF HalfWritten, Accepted, Torn, Text, BundleInv, BundleShape
  <2>3. BundleShape'
    BY <1>1, <1>2, <1>5, <2>1, <2>2 DEF WriteFileFails, StageFails, BundleInv, BundleShape, request
  <2>4. Progress'
    BY <1>5 DEF WriteFileFails, StageFails, Progress
  <2>. QED  BY <1>1, <1>2, <1>3, <1>5, <2>3, <2>4
            DEF BundleInv, WriteFileFails, StageFails, MetaKey
<1>6. CASE PutKeyFails
  <2>1. BundleShape'
    BY <1>1, <1>6 DEF PutKeyFails, StageFails, bundleFlash, BundleInv, BundleShape, request
  <2>2. Progress'
    BY <1>6 DEF PutKeyFails, StageFails, Progress
  <2>. QED  BY <1>1, <1>2, <1>3, <1>6, <2>1, <2>2
            DEF BundleInv, PutKeyFails, StageFails, MetaKey
<1>7. CASE PutKey
  <2>1. body.ver \in Versions
    BY <1>2 DEF Accepted, Text
  <2>2. meta[TargetSlot] \in KeySet /\ KeyValue(writing, body) \in
          (IF writing = "ver" THEN Versions ELSE IF writing = "hash" THEN Accepted ELSE {"known"})
    BY <1>2, <1>7, <2>1 DEF PutKey, KeyValue, MetaKey, BundleInv, BundleShape
  <2>3. [meta[TargetSlot] EXCEPT ![writing] = KeyValue(writing, body)] \in KeySet
    BY <1>7, <2>2 DEF PutKey, MetaKey, KeySet
  <2>4. meta' \in [Slot -> KeySet]
        /\ meta'[TargetSlot] = [meta[TargetSlot] EXCEPT ![writing] = KeyValue(writing, body)]
    BY <1>2, <1>7, <2>3 DEF PutKey, BundleInv, BundleShape
  <2>5. writing' \in {"hash", "schema", "slot"}
        /\ (writing = "ver" => writing' = "hash")
        /\ (writing = "hash" => writing' = "schema")
        /\ (writing = "schema" => writing' = "slot")
    BY <1>7 DEF PutKey, MetaKey, PutOrder
  <2>6. staged' \in [slot : Slot, ver : Versions] \cup {NoBundle}
    BY <1>2, <1>7, <2>1 DEF PutKey, BundleInv, BundleShape
  <2>7. BundleShape'
    BY <1>1, <1>2, <1>7, <2>4, <2>5, <2>6
       DEF PutKey, BundleInv, BundleShape, MetaKey, request
  <2>8. Progress'
    BY <1>2, <1>7, <2>2, <2>4, <2>5
       DEF PutKey, Progress, BundleInv, BundleShape, MetaKey, KeySet, KeyValue
  <2>. QED  BY <1>1, <1>2, <1>3, <1>7, <2>5, <2>7, <2>8 DEF BundleInv, MetaKey
<1>. QED  BY <1>4, <1>5, <1>6, <1>7

(* The put that selects the slot just written: what a boot would find        *)
(* becomes the text that was staged, whole and verified.                     *)
LEMMA BundleInvActivates ==
  ASSUME BundleInv, PutSlot
  PROVE  BundleInv' /\ WouldBoot' = body /\ body \in Accepted /\ ~wiped'
<1> USE DEF PutSlot
<1>1. TargetSlot \in Slot /\ body \in Accepted /\ staged = [slot |-> TargetSlot, ver |-> body.ver]
  BY TargetIsOther DEF BundleInv, BundleShape, Progress
<1>2. metaSlot' = TargetSlot /\ metaSlot' # NoBundle /\ staged \in [slot : Slot, ver : Versions]
  BY <1>1, BundleAssumption DEF Accepted, Text
<1>3. file'[metaSlot'] = body /\ meta'[metaSlot'].hash = body /\ meta'[metaSlot'].ver = body.ver
  BY <1>2 DEF BundleInv, Progress
<1>4. body # NoBundle /\ Parses(body)
  BY <1>1, BundleAssumption DEF Accepted, Text, Parses
<1>5. WouldBoot' = body
  BY <1>2, <1>3, <1>4 DEF WouldBoot, AfterBoot, Loaded
<1>6. BundleShape' /\ BootFindsWhole'
  BY <1>1, <1>2, <1>3 DEF BundleInv, BundleShape, BootFindsWhole, serverSide, request
<1>7. Progress'
  BY <1>2 DEF Progress
<1>. QED  BY <1>1, <1>5, <1>6, <1>7 DEF BundleInv

(* The second put, after which the store loads its RAM from the flash.       *)
LEMMA BundleInvReloads ==
  ASSUME BundleInv, PutLastGood
  PROVE  BundleInv' /\ UNCHANGED <<WouldBoot, wiped>>
<1> USE DEF PutLastGood
<1>1. metaSlot # NoBundle /\ staged \in [slot : Slot, ver : Versions]
  BY DEF BundleInv, Progress
<1>2. UNCHANGED <<metaSlot, meta, file, wiped>> /\ AfterBoot' = AfterBoot
      /\ WouldBoot' = WouldBoot
  BY DEF AfterBoot, WouldBoot
<1>3. active' = AfterBoot' /\ AfterBoot' \in Ram
  BY <1>1, <1>2, LoadedIsRam DEF BundleInv
<1>4. BundleShape'
  BY <1>1, <1>2, <1>3 DEF BundleInv, BundleShape, serverSide, request
<1>5. Progress' /\ BootFindsWhole'
  BY <1>2 DEF BundleInv, Progress, BootFindsWhole
<1>6. AsLoaded'
  BY <1>1, <1>2, <1>3 DEF AsLoaded, AfterBoot, Loaded
<1>. QED  BY <1>2, <1>4, <1>5, <1>6 DEF BundleInv

(* A boot loads RAM from the flash as it then is, files and all, or with no  *)
(* SPIFFS from the keys alone.                                               *)
LEMMA BundleInvBoots ==
  ASSUME BundleInv, StartsAfresh, file' \in [Slot -> Accepted \cup Torn \cup {NoBundle}],
         active'.found => active' = Loaded(metaSlot, meta, file', FreshRam),
         ~active'.found => active' = [Loaded(metaSlot, meta, file', FreshRam)
                                        EXCEPT !.has = FALSE, !.found = FALSE],
         active'.found \in BOOLEAN,
         BootFindsWhole', wiped' \in BOOLEAN, wiped' => metaSlot # NoBundle
  PROVE  BundleInv'
<1> USE DEF StartsAfresh
<1>1. AfterBoot' = Loaded(metaSlot, meta, file', FreshRam)
  BY DEF AfterBoot
<1>2. AsLoaded'
  BY <1>1 DEF AsLoaded
<1>3. AfterBoot' \in Ram
  BY DEF BundleInv, BundleShape, AfterBoot, Loaded, FreshRam, Ram, KeySet, Slot, Parses
<1>4. active' \in Ram
  BY <1>1, <1>3 DEF Ram
<1>5. BundleShape'
  BY <1>4 DEF BundleInv, BundleShape
<1>6. Progress'
  BY DEF Progress
<1>. QED  BY <1>2, <1>5, <1>6 DEF BundleInv

(* Loaded or not, a store knows whether it found SPIFFS.                     *)
LEMMA LoadedFound ==
  ASSUME BundleInv, NEW f
  PROVE  /\ Loaded(metaSlot, meta, f, FreshRam).found = TRUE
         /\ [Loaded(metaSlot, meta, f, FreshRam) EXCEPT !.has = FALSE, !.found = FALSE].found
              = FALSE
BY DEF Loaded, FreshRam

(* A write of a file that a power loss cuts short does not show.             *)
LEMMA CutIsHidden ==
  ASSUME BundleInv, FilesCut, UNCHANGED <<metaSlot, meta, wiped>>
  PROVE  /\ file' \in [Slot -> Accepted \cup Torn \cup {NoBundle}]
         /\ BootFindsWhole' /\ WouldBoot' = WouldBoot
<1>1. CASE writing = "file"
  <2>1. PICK t \in {file[TargetSlot], NoBundle} \cup HalfWritten(body) :
          file' = [file EXCEPT ![TargetSlot] = t]
    BY <1>1 DEF FilesCut
  <2>2. TargetSlot \in Slot /\ body \in Accepted
    BY <1>1, TargetIsOther DEF BundleInv, BundleShape
  <2>3. t \in Accepted \cup Torn \cup {NoBundle}
    BY <2>1, <2>2 DEF HalfWritten, Accepted, Torn, Text, BundleInv, BundleShape
  <2>4. file' \in [Slot -> Accepted \cup Torn \cup {NoBundle}]
    BY <2>1, <2>3 DEF BundleInv, BundleShape
  <2>. QED  BY <1>1, <2>1, <2>4, TargetIsHidden
<1>2. CASE writing # "file"
  <2>1. file' = file
    BY <1>2 DEF FilesCut
  <2>. QED  BY <2>1 DEF BundleInv, BundleShape, BootFindsWhole, WouldBoot, AfterBoot
<1>. QED  BY <1>1, <1>2

(* A format leaves no file, and a boot shows none.                           *)
LEMMA FormatShows ==
  ASSUME BundleInv, file' = [s \in Slot |-> NoBundle], wiped' = (metaSlot # NoBundle),
         UNCHANGED <<metaSlot, meta>>
  PROVE  /\ file' \in [Slot -> Accepted \cup Torn \cup {NoBundle}]
         /\ wiped' \in BOOLEAN /\ BootFindsWhole' /\ WouldBoot' = NoBundle
         /\ wiped' = (wiped \/ WouldBoot # NoBundle)
<1>1. metaSlot # NoBundle => metaSlot \in Slot /\ file'[metaSlot] = NoBundle
  BY DEF BundleInv, BundleShape
<1>2. WouldBoot' = NoBundle
  BY <1>1 DEF WouldBoot, AfterBoot, Loaded, FreshRam
<1>3. wiped' <=> wiped \/ WouldBoot # NoBundle
  <2>1. CASE metaSlot = NoBundle
    <3>1. ~wiped
      BY <2>1 DEF BundleInv, BundleShape
    <3>2. WouldBoot = NoBundle
      BY <2>1 DEF WouldBoot, AfterBoot, Loaded, FreshRam
    <3>. QED  BY <2>1, <3>1, <3>2
  <2>2. CASE metaSlot # NoBundle /\ ~wiped
    <3>1. file[metaSlot] \in Accepted /\ file[metaSlot] # NoBundle
      BY <2>2, BundleAssumption DEF BundleInv, BootFindsWhole
    <3>2. Parses(file[metaSlot])
      BY <3>1 DEF Accepted, Text, Parses
    <3>3. WouldBoot = file[metaSlot]
      BY <2>2, <3>1, <3>2 DEF WouldBoot, AfterBoot, Loaded
    <3>. QED  BY <2>2, <3>1, <3>3
  <2>3. CASE metaSlot # NoBundle /\ wiped
    BY <2>3
  <2>. QED  BY <2>1, <2>2, <2>3
<1>4. wiped' \in BOOLEAN /\ wiped \in BOOLEAN
  BY DEF BundleInv, BundleShape
<1>5. BootFindsWhole'
  BY <1>1 DEF BootFindsWhole
<1>6. wiped' = (wiped \/ WouldBoot # NoBundle)
  BY <1>3, <1>4
<1>. QED  BY <1>2, <1>4, <1>5, <1>6

(* Power is lost and comes back; and the boots that format the partition, or *)
(* find none.                                                                *)
LEMMA BundleInvPower ==
  ASSUME BundleInv, BundlePowerLoss \/ BootFormats \/ BootFindsNoFiles
  PROVE  /\ BundleInv'
         /\ \/ UNCHANGED <<WouldBoot, wiped>>
            \/ WouldBoot' = NoBundle /\ wiped' = (wiped \/ WouldBoot # NoBundle)
<1>0. StartsAfresh /\ UNCHANGED <<metaSlot, meta>>
  BY DEF BundlePowerLoss, BootFormats, BootFindsNoFiles, StartsAfresh
<1>1. \/ FilesCut /\ UNCHANGED wiped
      \/ file' = [s \in Slot |-> NoBundle] /\ wiped' = (metaSlot # NoBundle)
  BY DEF BundlePowerLoss, BootFormats, BootFindsNoFiles
<1>2. /\ file' \in [Slot -> Accepted \cup Torn \cup {NoBundle}] /\ BootFindsWhole'
      /\ wiped' \in BOOLEAN /\ (wiped' => metaSlot # NoBundle)
      /\ \/ UNCHANGED <<WouldBoot, wiped>>
         \/ WouldBoot' = NoBundle /\ wiped' = (wiped \/ WouldBoot # NoBundle)
  <2>1. CASE FilesCut /\ UNCHANGED wiped
    BY <1>0, <2>1, CutIsHidden DEF BundleInv, BundleShape
  <2>2. CASE file' = [s \in Slot |-> NoBundle] /\ wiped' = (metaSlot # NoBundle)
    BY <1>0, <2>2, FormatShows
  <2>. QED  BY <1>1, <2>1, <2>2
<1>3. \/ active' = Loaded(metaSlot, meta, file', FreshRam)
      \/ active' = [Loaded(metaSlot, meta, file', FreshRam) EXCEPT !.has = FALSE, !.found = FALSE]
  BY DEF BundlePowerLoss, BootFormats, BootFindsNoFiles
<1>4. /\ active'.found \in BOOLEAN
      /\ active'.found => active' = Loaded(metaSlot, meta, file', FreshRam)
      /\ ~active'.found => active' = [Loaded(metaSlot, meta, file', FreshRam)
                                        EXCEPT !.has = FALSE, !.found = FALSE]
  BY <1>3, LoadedFound
<1>5. BundleInv'
  BY <1>0, <1>2, <1>4, BundleInvBoots
<1>. QED  BY <1>2, <1>5

-----------------------------------------------------------------------------
(* Every step keeps the invariant, and leaves what a boot would find as it   *)
(* is, replaces it by a bundle that was accepted, or loses it to a format.   *)
LEMMA BundleInvStep ==
  BundleInv /\ [BundleNext]_bundleVars =>
    /\ BundleInv'
    /\ \/ UNCHANGED <<WouldBoot, wiped>>
       \/ WouldBoot' \in Accepted /\ ~wiped'
       \/ WouldBoot' = NoBundle /\ wiped' = (wiped \/ WouldBoot # NoBundle)
BY BundleInvQuiet, BundleInvWrites, BundleInvActivates, BundleInvReloads, BundleInvPower
   DEF BundleNext, SyncPoll

(* The invariant holds in every state.                                       *)
LEMMA BundleInvAlways == BundleSpec => []BundleInv
BY BundleInvInit, BundleInvStep, PTL DEF BundleSpec

(* Every slot, every key and what is being written are in their ranges: a    *)
(* slot holds a whole text, a torn one or nothing, and stage() has a body    *)
(* exactly while it or activate_staged() is at work.                         *)
THEOREM BundleTypeCorrect == BundleSpec => []BundleTypeOK
<1>1. BundleInv => BundleTypeOK
  <2> SUFFICES ASSUME BundleInv PROVE BundleTypeOK
    OBVIOUS
  <2> USE DEF BundleInv, BundleShape
  <2>1. ASSUME NEW s \in Slot
        PROVE  /\ file[s] \in Accepted \cup Torn \cup {NoBundle}
               /\ meta[s].ver \in Versions \cup {NoBundle}
               /\ meta[s].hash \in Accepted \cup {NoBundle}
    BY DEF KeySet
  <2>2. active.slot \in Slot
    BY DEF Ram
  <2>3. NoBundle \notin Accepted
    BY BundleAssumption
  <2>. QED  BY <2>1, <2>2, <2>3 DEF BundleTypeOK
<1>. QED  BY <1>1, BundleInvAlways, PTL

(* Whenever the power goes, in stage() or in activate_staged(), the boot     *)
(* finds in the slot meta_slot names every byte of a bundle that stage()     *)
(* accepted, with its own version and hash, or, after a format, no file.     *)
THEOREM BootFindsWholeBundle == BundleSpec => []BootFindsWhole
<1>1. BundleInv => BootFindsWhole
  BY DEF BundleInv
<1>. QED  BY <1>1, BundleInvAlways, PTL

(* Outside activate_staged(), what the store shows is what a boot would      *)
(* load from NVS and SPIFFS.                                                 *)
THEOREM RamFollowsFlash == BundleSpec => []NoDrift
<1>1. BundleInv => NoDrift
  BY DEF BundleInv, NoDrift, AsLoaded
<1>. QED  BY <1>1, BundleInvAlways, PTL

(* The store of two slots, three keys and a switch implements a bundle that  *)
(* is replaced in one step, by one that stage() accepted, and is lost only   *)
(* with the whole partition.                                                 *)
THEOREM StoreReplacesAtomically == BundleSpec => ReplacedAtomically
<1>1. BundleInit => Promised!Init
  BY DEF BundleInit, Promised!Init, WouldBoot, AfterBoot, Loaded, FreshRam
<1>2. BundleInv /\ [BundleNext]_bundleVars => [Promised!Next]_<<WouldBoot, wiped>>
  <2> SUFFICES ASSUME BundleInv, [BundleNext]_bundleVars, ~UNCHANGED <<WouldBoot, wiped>>
               PROVE  Promised!Next
    OBVIOUS
  <2>1. CASE WouldBoot' \in Accepted /\ ~wiped'
    <3>1. wiped' = FALSE
      BY <2>1, BundleInvStep DEF BundleInv, BundleShape
    <3>. QED  BY <2>1, <3>1 DEF Promised!Next, Promised!Install
  <2>2. CASE WouldBoot' = NoBundle /\ wiped' = (wiped \/ WouldBoot # NoBundle)
    BY <2>2 DEF Promised!Next, Promised!Format
  <2>. QED  BY <2>1, <2>2, BundleInvStep
<1>. QED  BY <1>1, <1>2, BundleInvAlways, PTL
          DEF BundleSpec, ReplacedAtomically, Promised!Spec
=============================================================================
