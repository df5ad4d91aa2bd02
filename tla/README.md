# mesflow-kiosk-runtime-v2: a TLA+ verification development

The kiosk is an ESP32 with a scanner, a keypad and a screen. An operator scans a
badge, an operation and a quantity; each scan or key becomes a *business event*,
which is written to a journal on flash, sent to the server over Wi-Fi, and
settled by the server's answer. The server owns the state; the kiosk shows a
projection of it. What must not go wrong is in `docs/RELIABILITY.md` (R1 to R10):
an accepted event is never lost, never counted twice, never settled as something
the server did not say, and the screen never goes back.

Paths below are relative to `src/`; `R/` stands for
`firmware/kiosk_runtime_v2/src/`.

## 1. Inventory

| Part | State it keeps | Operations | Talks to |
|---|---|---|---|
| Event journal: `R/storage/event_journal`, `R/protocol/event_journal_core`, `event_journal_index` | on flash `/journal.dat`, `.tmp`, `.old`; in RAM the index (records, `used_bytes_`) and the compaction job | `init`, `append_event`, `append_transition`, `compact`, `begin_compaction`, `compact_tick` | called by the runtime and by `loop()` |
| Network worker: `R/network/network_worker` | HIGH and LOW FreeRTOS queues, `executing_`, one result slot | `enqueue_*`, `poll`, `busy`, the task | filled and polled by the runtime, talks to the server |
| Kiosk runtime: `R/runtime/kiosk_runtime` | sequence, replay list, `replaying_`, `resyncing_`, the kept bootstrap result, the quantity entry, the screen | scans, keys, `poll()`, replay, resync, timeouts | journal, worker, projection, renderer |
| State projection: `R/protocol/state_projection` | the last snapshot applied | `apply` | runtime |
| Main loop: `kiosk_runtime_v2.ino` | timers, reconnect and bootstrap flags | one pass of `loop()` | everything |
| Server: `tools/mock_backend` | versioned state per device, answers by `event_id` | `/events`, `/state`, `/bootstrap`, `/heartbeat` | worker |
| Device sequence: `R/protocol/sequence_reservation.h`, `ids.cpp` | a reserved block in NVS, the next number in RAM | `next` | runtime |
| UI bundle: `R/storage/ui_bundle_store`, `R/runtime/ui_sync_controller` | two slots on SPIFFS, metadata in NVS, the download under way | `stage`, `activate_staged`, `init`, `check_desired`, `poll` | worker, loop, renderer |
| Recovery supervisor: `R/health/recovery_supervisor` | fault streak in NVS, safe mode | `init`, `mark_stable`, `request_controlled_reboot` | loop |
| Wi-Fi: `R/network/wifi_manager`, `R/runtime/wifi_recovery_controller`, `R/network/wifi_setup_portal` | connection state, `star_held_`, menu, portal, the network under test, credentials in NVS | `poll`, `retry_now`, held key, menu choices, save, test, cancel, idle stop | loop, keypad through the event bus, renderer |
| Keypad: `R/hardware/keypad_pcf8574` | the reading being debounced, the key emitted, the mapping in NVS | `poll`, calibration, recovery of the bus | publishes on the event bus |
| Screens: `R/ui/renderer` and everything that draws | the display; the error view, the finish hold | `render_current_business_state`, the menu's and portal's draws | runtime, recovery controller, loop |
| Scanner, display driver, fonts | drivers and drawing | | loop, runtime |
| Identity, configuration, time, diagnostics, codecs | settings, clock, logs, text | | everything |

What is hard in this code:

* **Power loss.** It may come between any two calls to the flash: between the two
  frames of an event and its transition, inside a frame, between the renames of
  a compaction, between a request reaching the server and the answer being written.
* **Faults of the flash.** A write or a rename may fail, and the file class's
  `flush()` reports success whatever happened. The rename of a boot fails unnoticed.
  Whoever mounts SPIFFS first may format it, under keys in NVS that stay.
* **NVS that does not open.** Most `begin()` and `put` calls have their result ignored.
* **Two threads.** The network task shares two queues, a flag and a slot with the
  main loop; the slot has room for one result.
* **One flag for many requests.** `replaying_` and `resyncing_` are cleared by
  whichever result comes, or does not come; a result is matched to its event by
  id for the journal, but not for the replay list.
* **Long sequences.** An incremental compaction is spread over passes of the
  loop that go on appending.
* **Answers that are late.** A snapshot may arrive after a newer one, and the
  answer to a bootstrap after the reconnection that asked for another.
* **Two copies of one fact.** The bundle store, the sequence and the recovery
  streak are kept in RAM and in several keys of NVS that are written one by one;
  Wi-Fi has a state in the manager and another in the radio.
* **Nobody owns the display.** Some thirty places draw, each over what the
  others drew; an overlay takes the keys but not the answers.
* **One event, two subscribers.** The runtime and the recovery controller hear
  each key one after the other, and the flag that tells whose it is changes between.

What makes each part correct:

* *journal*: what a boot recovers is every accepted event, unsynced ones as
  unsynced; the swap of a compaction installs a whole file or nothing; index,
  flash and accounted space agree;
* *worker*: each accepted request runs once, in order within its tier, HIGH
  before LOW; every result gets to the loop;
* *runtime*: nothing is sent that is not journaled; a status is the server's own
  decision; every event is settled in the end; the projection never goes back;
  resync and replay end;
* *sequence*: no number twice, over reboots, as long as the mark is really put;
  *UI bundle*: a boot finds one bundle, all that `stage()` accepted, at every moment,
  and the one the server wants in the end;
  *supervisor*: safe mode on a fault that repeats, and on no other, as far as NVS
  opens when the streak is to be read or cleared;
* *bootstrap*: after every reconnection the kiosk is through with it in the end;
* *Wi-Fi*: the portal stores only a network that was joined, by two puts, of which
  the second may not come; the portal closes, the kiosk is on again when its network is;
* *keypad*: one press is one KEY_DOWN, and letting go is seen; a key is taken once;
* *screens*: what is shown is what the kiosk holds, and an error goes away.

## 2. The modules

| Module | Models | Composed with |
|---|---|---|
| `DurableLog` | what the journal promises: a map from accepted events to statuses, from which only settled events are forgotten | the abstract specification |
| `EventJournal` | the journal, at the grain of its calls to SPIFFS | |
| `MCEventJournal` | both ways it compacts, in one run; the recovery scan as the loop over frames the code runs; the refinement of `DurableLog` | extends `EventJournal` and instantiates it |
| `EventJournalProofs` | theorems on `EventJournal`, on the recovery loop and on the refinement | extends `MCEventJournal` |
| `NetworkWorker` | the task, the queues, the slot; open, no `Next` of its own | |
| `NetworkTraffic`, `NetworkTrafficProofs` | closes it with an arbitrary caller; theorems on it | extends `NetworkWorker` |
| `KioskRuntime`, `KioskRuntimeProofs` | loop, task and server together; theorems on them | extends `NetworkWorker`; the journal is the map `DurableLog` promises |
| `MCKioskRuntime` | names the members of `Budget` for the `.cfg` files | extends `KioskRuntime` |
| `QuantityEntry` | keys, idle timeouts and the entry of the quantities, beside the server's work sessions | closed; the network at a coarser grain than `KioskRuntime` |
| `Screens` | what is on the display after every handler that draws | closed; the server's answers are arbitrary |
| `MCOperator` | `QuantityEntry` and `Screens` in one run | extends both |
| `OperatorProofs` | theorems on both and on the run | extends `MCOperator` |
| `InstalledBundle` | what the bundle store promises: replaced in one step by a bundle that was accepted, lost only with the partition | the abstract specification |
| `UiBundle`, `UiBundleProofs` | download, verification, the two slots and their keys; theorems on them | implements `InstalledBundle` |
| `DeviceSequence` | the reservation of event numbers | |
| `RecoverySupervisor` | the streak of reboots, safe mode, the low-memory and stalled-screen supervisors | |
| `RecoveryHistory` | the ring of recovery events | |
| `RecoveryProofs` | theorems on the supervisor and on the ring | extends both |
| `Keypad` | scan, debounce, calibration, the I2C bus | |
| `WifiLink` | `WifiManager` over the radio; open | |
| `WifiRecovery` | the held star, the menu, the portal and its test | extends `WifiLink` |
| `Bootstrap` | when the loop asks for a bootstrap, and what becomes of the answers | extends `WifiLink` |
| `WifiRecoveryProofs` | theorems on the two users of the link | extends `WifiRecovery` and `Bootstrap` |
| `MCDevice` | the parts of the device that share no state, in one run | extends `NetworkTraffic`, `UiBundle`, `DeviceSequence`, `RecoverySupervisor`, `RecoveryHistory`, `Keypad`, `WifiRecovery`, `Bootstrap` |
| `DeviceProofs` | theorems on the reservation, on the keypad, and on the parts side by side | extends `MCDevice` and the proof modules of the parts |

`PROJECT.json` gives for each definition the lines it translates.

### EventJournal

`dat`, `tmp` and `old` are the three files, each a sequence of frames. A frame is
an EVENT, a TRANSITION or TORN, the last standing for every frame whose length,
body, CRC or commit marker does not read back: the scan treats them alike, it
stops there. `records` and `used` are the index, `active`, `keep` and `copied`
the incremental compaction. `owed` is a history variable: the events
`append_event()` accepted and no transition has settled.

Every call to SPIFFS that changes a file is an action of its own, so that
`PowerLoss` comes between any two of them. `PowerLossInAppend` leaves part of a
frame. The faults are a constant:

* `cut`: power goes between the flushes of one frame;
* `write`: a write fails, seen (`append_journal_frame()` returns false) or unseen
  (`flush()` returned true); a frame of the temporary file may be lost unseen;
* `rename`: a rename fails; the rename back may fail too, and so may that of a boot
  (`BootRestoreFails`). The boot then has no log to scan and an empty index, and takes
  events into a new `/journal.dat`, beside which the next boot removes `.old`;
* `mount`: `SPIFFS.begin(true)` cannot mount: the partition is formatted, or the
  journal is unavailable for this boot.

A remove is taken to succeed: the code looks at none. `adrift` tells, for the
properties, that the index is that of a log which a failed swap left in `.old`.
A chunk that fails leaves `compaction_write_index_` where it is, as the code does;
the next `begin_compaction()` sets it back.

`Blocking` tells the two callers of the same code apart: with TRUE nothing else
runs between the chunks, which is `compact()`; with FALSE the main loop appends
between `begin_compaction()` and the last `compact_tick()`. `MCEventJournal` takes
one or the other for a whole behaviour. The production loop uses the second; `compact()` is kept by the code as the reference behaviour.
A compaction may begin at any moment the loop could call it, whatever the usage
percentage: a superset of the code's occasions.

Left out: the contents of a record (an id, its status and its creation uptime
remain), the size of a frame (one unit each), the four retention counts (one for
all), the order of ids in the keep list (that of random ids: any order).

### NetworkWorker and NetworkTraffic

The task is five points, one between any two accesses to something shared: look
at HIGH, wait on LOW, a request in hand with `executing_` not yet set, executing,
result not yet deposited. `xQueueSend` without a wait is `HighAfter` and
`LowAfter`: a full queue refuses. What a request yields is left to the module
that composes it, so that `NetworkTraffic` takes the request as its own result
while `KioskRuntime` asks the server.

`PromptLoop = TRUE` is an assumption on scheduling: the loop polls between any
two deposits. The code makes it likely (a pass is much shorter than a request)
but nothing enforces it. It is stated where it is used and dropped where it is not.

### KioskRuntime

One pass of `loop()` is four steps: *input* (scan, key or menu, which all end in
`send_business_event()` or `start_resync()`), *poll* (the dispatch on the result
taken from the slot), *replay* (the end of `poll()`: the 30 s fallback and
`check_offline_replay()`), *tail* (reconnection, bootstrap, heartbeat). Between
two steps the task, the server and the supervisor run. In the steps themselves
nothing else can be seen to happen: they touch the shared queues and slot once.

The server is the mock backend's `/events`: the answer given first is given
again to the same `event_id`; an event made against an older version of the state
is a conflict; any other is accepted, which makes a new version, or rejected.
`ExecuteFails` covers a request that never arrived and one whose response was lost.
`ByDeviceSeq` is `pending_in_device_seq_order()`: the numbers of a set in ascending
order, taken up one by one from the lowest.

`Budget` bounds what the environment does: failures, bootstraps, heartbeats,
manual resyncs, moves by a supervisor, reconnections, power losses.

Left out: the idle timeout and the quantity entry (in `QuantityEntry`), the finish
hold, the counter and cooldown of bootstrap attempts (in `Bootstrap`), the contents of a snapshot beyond its
version and whether the firmware knows the state; the device is provisioned and
in the environment it expects.

### QuantityEntry

The local GOOD / DEFECT / REWORK entry is kept by the kiosk alone, while the state
it belongs to is the server's and changes by answers, replays, resyncs and
bootstraps. The server has here its four states and a number per work session;
`booked` is what it accepted as the figures of a session. `entry.ses` remembers
in which session the entry was begun. Keys act on what the screen shows, which may
be older than the server's state: each event carries the version it was made
against (`Claim`).

A request is served in one step, and its answer waits in the slot. What is typed
is left out: whether a figure is zero or too large is a choice, so that every way
through the steps is taken. The order of replays is left open.

### Screens

The state is one record, `ui`, and each handler a function of it, so that a
handler with three draws in it is one step and the display ends as its last draw
left it. `display` is the name of the screen, the figures on it and which bundle
drew it. `Render` is `render_current_business_state()` with the order of its
branches: safe mode, server mismatch, identity, resync, no snapshot yet, error,
finish hold, state. `ScreensPoll` is one `poll()`: a result or none, then the error
view's timeout, the finish hold's, the idle timeout, the count and the clock, each
seeing what the one before left. The answers are any the server may give; whether
a timer has run out is a choice, but for the error view's, which counts passes.

`NamesAssumption` says that no state of the server is called what one of the other
screens is called; the renderer tells them apart by its branches, not by name.

Left out: messages, the Wi-Fi sign, the status bar, the good figure (never
compared), and the redraw after a stalled display.

### UiBundle

One action per write: the file, `ver`, `hash`, `schema`, `meta_slot`,
`last_good_ver`. A write of the file may leave the old one, none, or a part that
may even parse. The download fails or brings something that does not verify in the
ways `stage()` tells apart, or a text cut short behind a whole screen. The manifest
may leave its hash out, as every bundle of `tools/mock_backend` does, and then such a
text (`"part"`) is accepted, activated and found at boot like any other: its own hash
goes into NVS, so that the next bootstrap that names the right one replaces it. `Accepted`
is both. The result of a download may be lost in the worker's slot (`ResultLost`);
`download_in_flight_` then stays set until a reboot. At a boot `SPIFFS.begin(true)` may
format the partition (`BootFormats`) or fail (`BootFindsNoFiles`), while NVS goes on
naming the bundle that is gone; `wiped` remembers that as history. `WouldBoot` is what `init()` would load now; the
refinement maps the `installed` of `InstalledBundle` to it, so that every write and
every power loss is checked to be one atomic replacement, the format, or nothing.

`FailingPutSpec` adds the failure of the put of `last_good_ver`; the promises of
the module do not survive it, which the run `bundle_put_fails` shows, so it is
not among the faults of `BundleSpec`.

### DeviceSequence, RecoverySupervisor, RecoveryHistory

*Sequence*: the put of the new mark is a step after the ceiling has been raised in
RAM, as in `reserve_next_block()`, and nothing is handed out between the two, since
the code is straight-line. `handed` is the history of what was handed out. The put
succeeds: `sequence_reservation.h:41-43` promises no number twice "as long as `persist`
actually writes durably", and `ids.cpp` looks at no result, of the load neither.

*Supervisor*: time is checks (1 s) and diagnostics ticks (30 s). The two puts of
`request_controlled_reboot()` are two steps. `asked` and `done` count, as history,
the reboots for one code in a row that were asked for and completed, for the two
directions of the promise. NVS may not open: a boot then has no streak and is not in
safe mode (`opened` is FALSE), a stable boot forgets the streak in RAM and leaves it in
NVS (`unmarked`), so that one later reboot may enter safe mode early. Both are history
variables of the two properties. A put in an open NVS is taken to succeed, but for the
last before a restart. The serial command that forces safe mode is in.

*History*: an event is its ordinal, the ring its array and two counters.

### Keypad

Contacts close and open under two fingers; a poll reads none, one or several. Time
is counted in polls, with a loop that may have been away longer. `reopened` is the
history `OnePressOneDown` needs. Calibration holds the loop, as in the code, and may
be refused or not saved; the mapping it leaves may be wrong, and then any key, or
none, is published.

### WifiLink, WifiRecovery, Bootstrap

The radio (external) joins a network that is in the air, and drops what it is on
when told to begin or disconnect. `WifiManager` sees it only when `loop()` polls,
which it does not while the portal is open. In `WifiRecovery` a key event is one
step with both subscribers in it, `KioskRuntime` first: `BusinessTakes` looks at
the overlay before the controller has changed it. The hold is counted in seconds, a
late `tick()` jumping over some. `Save` starts the test and stores nothing;
`TestSucceeds` puts the name and `PutPassword` the password and restarts
(`set_wifi_credentials()`, `config_store.cpp:54-59`). Either put may fail, and power may go
between them: the name of one network is then stored with the password of another, which
opens none (`Mixed`), until the portal is used again; `torn` remembers it. `LoopRuns`
keeps the rest of `loop()` out of the time between the puts. Left out: the serial
command `wifi:` (`kiosk_runtime_v2.ino:566-577`), which stores whatever it is told.

`Bootstrap` keeps the loop's flags (`g_bootstrap_attempted`, `_inflight`, the
counter, the wait) and, of the network, how many requests are out and the answer
kept by the runtime. A reconnection clears the flags and recalls nothing. That no request
disappears between the two is the worker's promise: `NoResultIsLost` (section 4), under
`PromptLoop`.

### MCDevice

These parts touch none of each other's variables, so nothing is gained by
interleaving them: the initial state says which part moves in a behaviour and the
others stay. `Bootstrap` and `WifiRecovery` share `WifiLink`'s variables, never in
one behaviour. A part that stays still is given one initial state. Networks, and requests
of one tier, differ by nothing but name: the network stored at the start is always the
same one (`Home`), and requests are named in the order of the calls (`NamedInOrder`).

## 3. The runs

| Run | Shows | Bounds, and why they are enough |
|---|---|---|
| `journal` | *with `compact()`*: an owed event is on flash as unsynced at every instant, and every step implements a step of `DurableLog` or none. *With ticks and every fault*: in the loop a boot would find the index in use, `used_bytes_` is the space taken, only the swap forgets events, and only those off the keep list, it installs only a whole and complete file; a compaction ends | once: 3 events with retention 1: two settled records of one status force a choice, a third stays unsynced; logs of 5 frames, over the capacity of 4, so that FULL is reached. Ticks: 2 events, 4 frames: a keep list that drops one record, a swap that fails at each rename. One record per tick |
| `journal_evicts` (violation) | an event appended during an incremental compaction is dropped at the swap | |
| `journal_torn_tail` (violation) | an event appended after a torn frame is lost at the next boot | |
| `runtime_safety` | journaled before sent; statuses are the server's decisions while replays, live events, heartbeats and resyncs overtake each other; the projection never goes back | 2 events, queues of 2 and 1; in one set of behaviours a failure, a bootstrap, a supervisor's move and a power loss, in the other a failure, a heartbeat, a manual resync and a reconnection; no assumption on the loop: every retry path is taken and the slot is overwritten |
| `runtime_delivery` | every journaled event is settled in the end; `replaying_` is never up for a replay that is over; a recorded decision is replaced by no other one | a failure and a power loss, `PromptLoop`: a request that fails comes back as a replay, and the same event is with the server twice |
| `runtime_resync` (violation) | RESYNCING may never end | |
| `operator` | *entry*: figures are booked once, and for the session they were submitted in; no key, timeout or replay closes a session without its figures. *Screens*: a state's screen shows what the kiosk holds; an error goes away | entry: 4 events (a submission that is lost, two scans and a finish bring a second session into QUANTITY_INPUT before the replay), two of a failure, a bootstrap and a reset; a queue of one; `PromptLoop`. Screens: three states (one with an idle timeout, the quantity's, one with neither), figures 0 to 2 (equal, less, more), an error view of two passes; `MaxRare` = 2 of suspensions, new bundles, rejected bootstraps and star presses |
| `quantity_stale` (violation) | an entry of an older session is on the screen of a new one | 3 events and two bootstraps |
| `screen_waiting` (violation) | a star let go in its fourth second leaves the waiting screen on a kiosk that has a snapshot | |
| `device` | see below | see below |
| `bundle_put_fails` (violation) | after a put of `last_good_ver` that failed, the next download is written over the active slot | |
| `wifi_hold` (violation) | a star held for ten seconds does not open the portal | |

The parts of `device`:

| Part | Properties | Bounds |
|---|---|---|
| network | no request twice, order within a tier, at most one LOW request passes a waiting HIGH one, no tier starves | queues of 2 and 1 with 3 HIGH and 2 LOW requests: both overflow |
| bundle | a boot finds all of the bundle that was accepted, or none once it was formatted; RAM agrees with flash between calls, atomic replacement, the wanted bundle lands | 2 versions (the wanted one and another, newer or older), 2 changes of mind, 2 faults of any kind: a fault in the recovery from a fault |
| sequence | numbers increase over reboots | blocks of 3, numbers to 15: five blocks, power loss anywhere |
| recovery | no false safe mode, a loop of reboots is caught, a heap that stays critical ends in safe mode | threshold 3 as in the code, patience 2, a tick of 3 checks (the code's order: patience is shorter than a tick), 2 mishaps, a power loss or an NVS that does not open each |
| history | a reader sees the latest events, oldest first | ring of 3, 7 events: two rounds |
| keypad | one press is one KEY_DOWN, a release is seen | 2 keys, stable after 1 poll, released after 2, an error limit of 2, 2 faults |
| wifi | no key is taken twice, the portal stores only what was tested, name and password of one network but for a failure or power loss between the puts, the portal closes, the kiosk comes back on | 2 networks, 2 troubles, menu at 1 and portal at 2 seconds; each digit the menu uses |
| bootstrap | a bootstrap ends after every reconnection | 2 attempts, 2 troubles |

Deadlock is not checked: events, budgets and numbers are finite, and a behaviour
that has used them up may stop. Each property of a passing run has a mutant of the
code it is violated by.

**Fairness.** The task is a FreeRTOS task that never returns and the loop is the
Arduino loop: weak fairness of each. A 30 s timer fires again and again, a kept
bootstrap result is asked for on each pass with Wi-Fi up: strong fairness of
`PollEndsFallback` and `TakeStash`, since another branch of the same pass may be
taken each time. `compact_tick()` is called on every pass while a compaction is
under way: weak fairness of its steps.

In `MCDevice` fairness is stated for disjunctions over the parts: one part moves in
a behaviour, so that fairness of the disjunction is fairness of that part's
disjunct. Weakly fair are the polls of `loop()`, the timers that run out once they
run, the task's answers and the steps of straight-line code. Joining a network is
strongly fair: the radio tries again and again while the network comes and goes
with the manager's own attempts. Nothing is assumed of people, power, the heap, or
the server's decisions, with these exceptions, each a hypothesis of the property that
needs it or a bound: troubles are finitely many; `UpdateLands` is of a server that
keeps sending the download when asked, to a kiosk whose SPIFFS is there, was not formatted
under its bundle, and lost no result (`NothingStuck`), since nothing in the code makes it ask
again then; `PortalCloses` is of a page nobody uses any
more, since each use restarts its clock; `BackOnline` is of a network that stays in
the air with the portal closed.

## 4. What is proved

Every safety invariant and action property of the passing runs is a theorem about the
module's own specification, for every value of the constants that meets the module's
assumption; those of `device` also about the composition that is run. The two
refinements are theorems too, and so is the use the runtime makes of the journal. In each case the property is not inductive alone; what follows says what it had
to be strengthened by, and why.

### EventJournalProofs

For any number of events, any capacity, retention and chunk size, every set of faults,
and both ways of compacting:

* `TypeCorrect` (`TypeOK`): the scan of *any* log, torn frames included, yields
  well-formed records, so the frames that decide a record exist (`LeastExists`,
  `GreatestExists`, `ScanType`).
* `SwapInstallsKeepList` (`SwapIsValidated`). The validation only counts frames, and
  a count says nothing of which records they are. That it suffices rests on `KeepInv`
  (the keep list is a set of ids of the index, so that each chunk writes a frame for
  each of its ids) and `TmpInv` (the temporary file has at most one frame per id
  copied so far, an EVENT frame of it or a torn one). A clean file of as many frames
  as the keep list then names exactly its ids.
* `SpaceAccounted` (`SpaceIsAccounted`), `IndexIsTheLog` (`IndexMatchesFlash`) and
  `OnlySwapForgets` (`OnlyTheSwapForgets`), from `LogInv`. `SizeInv`: the file that was
  validated has one frame for each record kept, which is what the rebuilt
  `used_bytes_` counts. `IndexInv`: the index agrees with the log not only in the loop
  but at every point of the swap up to the renames that change what a boot reads, since
  a swap that fails half-way returns to the loop with the index it had. `FilesInv`:
  a file that is not there has no frames, and the swap moves files that are there.
* `LoopIsScan`: the loop of the recovery, which applies one frame after the other,
  computes `Scan`, which says of each event which frames decide it, for every sequence
  of frames. It is an induction over the log, done without the induction theorem: of
  the prefixes at which the two differ there would be a shortest one (`LeastExists`),
  and the frame that ends it is one of four cases. `RecoveryIsScan` (`ScanIsTheLoop`)
  says it of the three files in every reachable state.

For `compact()` on a flash that keeps what it is given (`Reliable == Blocking /\ Faults =
{}`, with power losses at every point), the promise R1, R2, R5 and R8 make:

* `OwedStaysOnFlash` and `OwedStaysOnFlashOnce` (`OwedIsOnFlashOnce`), from `OnceInv`:
  `StageInv` (no frame is torn, the old file is there only from the first rename to its
  removal, everything owed is on the keep list), `CopyInv` (a copy has the status of
  its record, for nothing changes a record while `compact()` runs) and `StatusInv` (the
  index has the status a scan would find).
* `JournalIsADurableLog` and `JournalIsADurableLogOnce` (`ImplementsDurableLog`):
  initial states map to initial states, and each write, rename, power loss and boot
  is one step of `DurableLog` or none.

`Reliable` is a hypothesis and not an assumption of the module. No part of it can be
dropped: without `Blocking` the promise is false by `journal_evicts`, with the fault `cut`
by `journal_torn_tail`; with `write` a frame is torn in the same way; with `rename` an owed event
is lost when both renames of a swap fail; with `mount` a partition that is formatted has
nothing left. What holds under every fault are the theorems above these.

### NetworkTrafficProofs

For any requests, depths of the queues and pace of the loop, from `TrafficInv`:

* `NoRequestTwice` (`NothingTwice`) and `TiersKeepOrder` (`TierOrder`): a request moves from
  a queue to the task, to the slot, to the loop. `CallsDistinct` and `LineInOrder` say that these
  four places, read in that order, hold each request once and in the order of the calls
  in its tier. The slot that is overwritten drops one of them and keeps the order.
* `HighWaitsForOne` (`OneLowAtMost`) needs `PassedOnce`: once a LOW request has passed
  a HIGH one, that one is still first in its queue and the task is not waiting on LOW.
* `NoResultIsLost`: with `PromptLoop`, a request that was accepted is in a queue, with the
  task, in the slot, or was polled. The slot drops nothing only since a deposit finds it
  polled; without the hypothesis it may, and `NothingTwice` and `TierOrder` are what is left.
* `WorkerTypeCorrect` (`TypeOK`).

### KioskRuntimeProofs

For any number of events, depths, pace of the loop and budget, from `RuntimeInv`:

* `SentIsJournaled` (`JournaledBeforeSent`).
* `SettledRight` (`SettledAsDecided`) needs `ResultsAreTrue`: a result in the task or the
  slot that says what the server decided of an event says what the server's answer to
  that event is. That a result is matched by its id and not by the replay it belongs
  to is why this holds while replays, live events and resyncs overtake each other.
* `DecisionsAreFinal` (`DecisionIsFinal`), a temporal property, from the same invariant: the
  server gives an event one answer and gives it again, a recorded decision is that answer,
  so any that is recorded later, after a second request has failed and put the record
  back to PENDING, is the same.
* `ReplayIsSomewhere` (`ReplayIsUnderWay`), under `PromptLoop`: `replaying_` is put up by the
  step that enqueues a replay, and taken down by the step that polls one. In
  between, the task takes it along place by place, and its result is not overwritten.
* `NeverShowsOlder` (`ProjectionNeverRegresses`) needs `SnapshotsReached`: every snapshot,
  wherever it is, is of a version the server has reached. A version the kiosk has only to
  compare with its own could otherwise be one no server ever had.
* `RuntimeTypeCorrect` (`TypeOK`) needs `ReplayIsOfTheFirst`: while a replay is out the
  list is not empty, though any answer clears the flag. The attempt to prove the types
  of `poll()` without it is what found it.
* `ReplayListsTheUnsynced`: the list is each unsynced event once, the lowest number
  first; by the least number at which the recursive function would go wrong.
* `RuntimeKeepsToTheLog`: `KioskRuntime` has the journal as a map, as `DurableLog` promises
  it. Each of its steps is one that `DurableLog` allows: an acceptance of an event that was
  not accepted before (with the change to IN_FLIGHT that follows in the same call), a change
  of the status of one that was, or nothing, a power loss included. `JournalIsADurableLog`
  is the other half: what `EventJournal` does is such a step too. It needs that no number
  still to be handed out has a record (`NumbersStayFresh`).

### OperatorProofs

For any number of events, failures, bootstraps and resets, with results lost in the
slot or not, from `EntryInv`:

* `BookedRight` (`BookedForItsSession`): figures are booked once, and for the session they
  were submitted in. The kiosk does not know the session; the server decides by the version
  an event claims. `ClaimsInv`: an event that claims the server's present version was made
  in its present session. `SnapshotsInv`: whatever snapshot is shown, under way or kept as
  an answer is of the past, and is the server's state if it is of its version;
  without that, a claim of the present version could come from another session.
  `BookedInv`: a session whose figures are booked is over.
* `SessionsAreNotDiscarded` (`NoSessionDiscarded`), from the same: a cancellation that
  claims the present version was made while no session was open.

For any states of the server and any time an error stays, from `DisplayInv`, one lemma for
each handler:

* `DisplayIsHeld` (`ShownIsHeld`): most handlers end in the redraw, and `RenderKeeps` is
  the lemma that whatever record a redraw is given, the display then shows it. The
  others draw one of the screens that stand for no state.
* `ErrorsEnd` (`ErrorGoesAway`): `Timed` says the history variable is the age of the view
  that is up, and that the view is down before its age reaches the limit.
* `OperatorTypeCorrect` (`OperatorTypeOK`), of the two in one run.

### UiBundleProofs

For any versions and faults, however often they come, from `BundleInv`:

* `BootFindsWholeBundle` (`BootFindsWhole`), `RamFollowsFlash` (`NoDrift`) and
  `StoreReplacesAtomically` (`ReplacedAtomically`: the refinement of
  `InstalledBundle`), with texts cut short, formats and boots that find no SPIFFS among the
  steps. A part that a boot cannot read is hidden from it (`CutIsHidden`), a format is the
  abstract `Format` (`FormatShows`). `Progress` says how much of the other slot is written at each
  point of `stage()`; RAM equals what a boot would load except between the two puts of
  the activation. So the slot that is written is never the one a boot selects, and the put
  that selects it comes when all of it is there. The failure of the second put breaks
  exactly this part, and is not among the faults of `BundleSpec` (`bundle_put_fails`).
* `BundleTypeCorrect` (`BundleTypeOK`).

### RecoveryProofs

For any threshold, patience and number of mishaps, from `RecInv`; and for any ring:

* `SafeModeIsEarned` (`NoFalseSafeMode`: earned, forced, or left over from a stable boot that
  could not clear the streak) needs `NoneTooMany`: the streak in NVS counts no
  reboot that was not asked for. A power loss between the two puts leaves the code of one
  run beside the streak of another; this is harmless only since a run of stalled
  screens is never longer than one, the boot that asks for it being stable.
* `RepeatedFaultIsCaught` (`LoopIsCaught`: of a boot that could open NVS) needs `NoneTooFew`:
  every reboot that was completed is counted.
* `RecTypeCorrect` (`RecTypeOK`): the checks stop counting because the one that reaches
  the patience asks for the reboot.
* `HistoryReadsTheLatest` (`HistoryIsTheLatest`), from `RingInv`, which says of each slot
  which event it holds, this round's or the one's before.

### DeviceProofs

On two parts alone:

* `MarkCovers` (`MarkCoversHanded`) and `NumbersNeverRepeat` (`NumbersIncrease`), for
  every block size, from `SeqInv`: while numbers are handed out the ceiling in RAM *is*
  the mark in NVS and the last number is at most that; while the mark is being put the
  number is at most the old one. Without the first part the mark could lag behind the
  ceiling, which is the bug the reservation is there to avoid.
* `HeldKeyIsOneDown` (`OnePressOneDown`), for any keys and times, from `PressInv`: a key
  not open since its KEY_DOWN is closed and is what the debouncer last took. A second
  finger reads as "several", and is taken only when the first has gone; and whatever
  takes the mapping away forgets or lets go of every key (`DownNeedsMapping`).
* `PadTypeCorrect` (`PadTypeOK`).

On the parts side by side, for every value of all their constants at once:

* `DeviceRunsItsParts`: `DeviceSpec` implies the specification of each part (of the network
  task, without its fairness), since a step is one part's and leaves the others as they
  are (`StepOfOnePart`). Of the two that use the link, the one whose behaviour it is.
* `DeviceKeepsPromises` and `DeviceStepsAllowed`: the safety invariants and action properties of
  the run and `InFlightIsAnswered`, from the theorems on the parts. For those of the link it needs
  `LinkUsers`: the part that does not move keeps what it started with.
* `DeviceTypeCorrect` (`DeviceTypeOK`).

### WifiRecoveryProofs

For every set of keys, networks, hold times and attempts:

* `KeysActOnce` (`OneKeyOneAction`) needs `OverlayInv`: the menu and the information
  screen are open only under the overlay flag. The flag is what the runtime looks at,
  the other two what the controller looks at; each of the ways in and out of the menu
  is a step that could set one without the other.
* `OnlyTestedCommitted` (`CommitTested`) needs `TestInv`: while the portal tests, the
  radio is on, or joining, the network under test and no other, so that "connected"
  means that network. Power losses, forced reconnections and networks that vanish are
  the steps that could break it. `StoreInv` adds what is stored between the two puts: the name
  under test, unless one of them was lost.
* `InFlightAnswered` (`InFlightIsAnswered`): `g_bootstrap_inflight` keeps the loop from asking
  only while a request is out or an answer is kept. A reconnection clears the flag and
  leaves both, so that two requests may be out and either answer takes the flag down.
* `RecoveryTypeCorrect` (`WifiRecoveryTypeOK`) and `BootstrapTypeCorrect` (`BootstrapTypeOK`). The
  second needs `AttemptIsLeft`: an attempt is left whenever the loop may ask.

### Only proved

`ScanIsTheLoop`, the type invariants of the operator's two parts and of each part of the
device, `NothingIsLost` and `InFlightIsAnswered` are in no run: the theorems say them for every
instance.

### Only model-checked

* The liveness properties, since the prover has neither ENABLED nor fairness:
  `CompactionEnds`, `EventuallySettled`, `EveryRequestRuns`, `UpdateLandsHere`,
  `CriticalEndsInSafeMode`, `LetGoIsSeen`, `PortalCloses`, `BackOnline`, `BootstrapEndsHere`.
* The counterexamples of the violation runs, each on its own instance.

## 5. Where the code and its documents disagree

Seven of these have a run that shows them (see `findings` in `PROJECT.json`):

* `journal_evicts`: `compact_tick()` swaps in the file made from the keep list
  taken by `begin_compaction()`; an event accepted meanwhile is dropped, while R8
  says PENDING is kept 100%.
* `journal_torn_tail`: `init()` leaves a torn tail in the file and appends go
  after it; the next scan stops before them, while R5 says they are resumed.
* `runtime_resync`: nothing retries a resync whose request failed, as two comments
  say something does.
* `quantity_stale`: the entry is reset only when an event's answer brings
  QUANTITY_INPUT; when the answer to a finish was lost and a bootstrap brings it,
  the entry of an older session is still there, perhaps on SUMMARY with `#` submitting it.
* `wifi_hold`: `tick()` returns while the menu is open, and the menu opens at five
  seconds; the branch for ten is reached only by a loop that was away meanwhile. The
  menu itself says to keep holding. Its option 3 opens the portal.
* `screen_waiting`: the controller draws the waiting screen when the star is let go
  after its progress was shown, not what the kiosk holds; the next redraw mends it.
* `bundle_put_fails`: `activate_staged()` reports a failure when only its second put
  failed, and does not load what the first has switched to. `active_slot_` then names
  the other slot, the next `stage()` writes over the active file, and a write cut
  short leaves a kiosk that boots without a bundle, under the version and hash the
  server wants, so that nothing asks for it again.

Others were met and reproduced while modelling, and wait for a run of their own:
the result of a second request for one event overwrites a settled status
(`kiosk_runtime.cpp:1228`; by PENDING or HUMAN_REVIEW, never by another decision: `DecisionIsFinal`); when another result overwrites a replay's in the slot
nothing clears `replaying_`, and the backlog waits (`kiosk_runtime.cpp:1143`, which
is why `runtime_delivery` needs `PromptLoop`); any answer clears the digits being
typed (`kiosk_runtime.cpp:1482`);
a status written during an incremental compaction survives in RAM alone (R9,
`event_journal.cpp:359`); retention sorts by an uptime that starts again at each
boot (`event_journal_index.cpp:122`); a log full of superseded TRANSITION frames is
never compacted when no record can be dropped (`event_journal.cpp:324`); when both
renames of a swap fail, or the one of a boot, the next append starts a new log and the boot
after that removes the old one, the only one with what was accepted before
(`event_journal.cpp:107`, `:304`); a text cut short is accepted as a bundle when its
manifest declares no hash (`ui_bundle_store.cpp:171`); after a format of SPIFFS at boot the
version and hash in NVS say that the bundle is there, and no bootstrap asks for it before another
version is published (`ui_bundle_store.cpp:110`); a download whose result is lost in the slot
leaves `download_in_flight_` set until a reboot (`network_worker.cpp:212`); a boot that cannot open
NVS is not in safe mode, and a stable one that cannot leaves its streak to the next boots
(`recovery_supervisor.cpp:73`, `:97`); a LOW request may pass a HIGH one enqueued during the
50 ms wait (`network_worker.cpp:354`); a second replay may go out beside the first
(`kiosk_runtime.cpp:1143`); an answer or a timeout draws the business screen over the
open recovery menu, while keys go on to the menu (`kiosk_runtime.cpp:1071`); the
redraw for a new count of queued events wipes the message of the event that changed
it, though the comment supposes counts to change rarely (`kiosk_runtime.cpp:1351`); a
second key pressed before the first is up leaves the first without its KEY_UP
(`keypad_pcf8574.cpp:208`), a held star included; the name of a network and its
password are put one after the other, their results ignored (`config_store.cpp:54-59`), so
that a failure or a power loss between them leaves a pair nobody tested, which the test before
the commit (`WIFI_RECOVERY.md:173`) is there to prevent (`torn` in `WifiRecovery`); with a full journal the
idle timeout of WAIT_OPERATION brings the error view back in the pass that took it
down (both last 20 s, `kiosk_runtime.cpp:982`).

## 6. Plan

1. Journal, worker, event path and quantity entry, with the journal's invariants
   proved: done.
2. UI bundle, device sequence, bootstrap, recovery supervisor, Wi-Fi and its
   recovery, keypad and screens, with the sequence and two properties of the
   recovery proved: done.
3. Proofs of the safety properties of every part and of the steps of both refinements:
   done (section 4), those of the composed module and the runtime's use of the journal
   included.
4. Left, to model: messages on the screen; retention over several boots.

## 7. Not modelled

The scanner's bytes, the display's driver, pixels, layout and fonts: drawing and
I/O with no state another part reads. Text codecs: what is decided from their outcome
is in the models. Identity, configuration and provisioning: settings read at boot. The
clock: it labels events, and causes a redraw that is in `Screens`. Logging,
diagnostics and the debug server: views of what the models already hold. `PROJECT.json`
lists every part with its status.
