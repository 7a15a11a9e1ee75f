# A verification project for nyx-modules

nyx-modules is the set of hardware abstraction modules of Open webOS: shared
libraries in C that the process of a client loads, opens (`nyx_module_open`),
calls and closes (`nyx_module_close`).  Each module hides one device behind an
API.  There is no server: a module runs in its client's process and on the
client's thread; what it waits for (an alarm, a uevent) it gets from the GLib
main loop of that thread, or the client polls a descriptor the module gives it.

This directory holds TLA+ models of the modules that keep state, the TLC runs
that check them, and TLAPS proofs about each of them.  `PROJECT.json` maps each
definition to the lines it models, and lists runs, mutants, findings, hazards
and theorems.  Paths below are relative to the root of the repository.

## 1. Inventory

| component | code | state | operations | model |
|---|---|---|---|---|
| System alarm | `src/rockhopper/system/emulator/system.c`, `src/rockhopper/system/rtc.c` | `rtc_fd`, `rtc_channel`, the static `curr_expiry`, the callback, the GLib sources, the RTC | open, close, set, clear, query, `rtc_event` | `SystemAlarm`, `AlarmClock` |
| Gesture tracking | `src/rockhopper/touchpanel/emulator/touchpanel_gestures.c` | `sFingers`, `availableFingers`, `curFingerId`, a ring of coordinates per finger | init, update, deinit; put, last, reset | `FingerTracking`, `GestureTracker`, `CoordBuffer` |
| Touchpanel | `src/rockhopper/touchpanel/emulator/touchpanel.c`, `touchpanel_common.c` | the descriptor, cached point and button, the event list with its read index, the held event | open, close, raw event, get event | `Touchpanel` |
| Charger | `src/rockhopper/charger/device/charger.c`, `../chargerlib.c` | `gChargerStatus`, `current_event`, the battery state, two callbacks, the udev monitor | open, uevent handler, query, register | `Charger` |
| Battery | `src/rockhopper/battery/device/battery.c`, `../batterylib.c`, the search in `utils/utils.c` | `battery_sysfs_path`, `curr_state`, one callback, the udev monitor | open, uevent handler, query, register | `Battery` |
| Keys | `src/rockhopper/keys/emulator/keys.c` | `raw_events`, `event_iter`, `event_count`, `current_event_ptr`, the descriptor | open, close, get event | `Keys`, `KeyQueue` |
| Key store | `src/generic/security/keystore.c`, `security.c`, `aes.c`, `rsa.c` | two tables of keys per process, `keystore.conf` | open (load), close (save), generate | `KeyStore`, `KeyVault` |
| Device id | `src/generic/device_info/emulator/device_info_generic.c.in` | the file of the id, `nduid_str` | open: read, generate, write | `DeviceNduid` |
| Cached information | `src/generic/os_info/os_info.c.in`, `device_info_generic.c.in` | the string members of the device | open, close, query | `CachedInfo` |
| Hashing | `src/generic/security/sha.c` | one running context per process | init, update, finalize | `Security` |
| Encryption | `aes.c`, `rsa.c` | none of its own | crypt | the key it looks up, in `KeyStore` |
| Battery and charger emulators | `battery/emulator/fake_battery.c`, `charger/emulator/*.c` | none that changes | queries | none, see section 5 |
| Display, power operations, time helpers, sysfs helpers, build files | `display.c`, `system.c`, `util.c`, `utils.c`, `CMakeLists.txt` | none to speak of | | none |

**How the components interact.**  The modules do not call each other; they meet
in the process: one descriptor table, one main loop, one set of statics per
library.  `rtc.c` leaves GLib sources in the main context that watch descriptor
*numbers*, which another part of the process may have by then.  `touchpanel.c`
drives the gesture tracking and reads its events from a shared list.  The hashing
and the key store of the Security module share its device, but a hash under way
belongs to the process and outlives the device.  The charger and the battery read sysfs, which the kernel changes at any time, when a
uevent comes; their callbacks call the client, which calls back into the module.
Several processes share `keystore.conf` and the file of the device id.

**What is hard.**
- *Interleaving with the kernel*: sysfs is read file by file (`charger.c:78`,
  `batterylib.c:96`); a uevent comes later than the change, a query before it.
- *Order of calls and main loop*: an alarm raised but not dispatched when a
  client sets another (`rtc.c:503`); sources left behind (`rtc.c:200`).
- *State that outlives its owner*: statics that survive a close (`rtc_channel`,
  `curr_expiry`, `raw_events`, `touchButtonState`), descriptors by number.
- *Several processes and death*: the id file is truncated before it is written,
  the key store is saved as a whole and only at the close.
- *Full queues*: the kernel drops events of a touch panel or a keypad nobody reads,
  and a release with them.
- *Failures half way*: an open that fails after its first step leaves the static
  device set; a hash that fails leaves a context behind.
- *Streams*: a batch consumed over several calls must lose nothing and wake the
  client; the gesture events must be a protocol a reader can follow.

**What makes each component correct.**  An alarm a client was promised fires, on
time, once, and nothing else of the process is harmed.  A finger goes down once,
keeps its identity and comes up once, where it was lifted.  At rest the cached
status is that of sysfs and the client knows it.  Each key event is reported
once and in order.  A key stays under its index, a digest is
that of its client's data, the device has one id for ever, and a string given out
stays valid.

The hazards behind these sentences, each at its line, are in `PROJECT.json`.

## 2. The modules and how they correspond to the code

One variable stands for one static or one field of the code, with its name where
that is possible; an action is one handler or API call with all it does.
Variables marked *history* are not in the code: they say what clients were told,
so that properties can speak of it.  Operators whose name starts with `M` and
whose comment says *Mutant* are plausible errors: each property of a passing run
is violated when one of them takes the place of the operator it mutates.

**SystemAlarm.**  An API call is one step, taken between iterations of the main
loop or from inside the callback, in any order: a close may come with the watch
attached, a set over an interrupt nobody has read, an expiry may be repeated.
`Poll` is `g_poll`, which makes every source on a readable descriptor ready;
`RtcEvent` is the dispatch of one of them, with the read, the clearing of the alarm
and the callback.  `Tick` is the RTC; `Foreign` the rest of the process opening and
closing descriptors, which get the lowest free number.  Both ioctls of a set may
fail.  Two history variables hold what the code does not: `promise` is the expiry a
client can rely on (`Promised` says when a success is no promise), and `left` the
number `nyx_module_close` gave back while the channel went on naming it.
`AlarmClock` is what a client may rely on (no call before the time promised last, no
more calls than alarms set); `ImplementsAlarm` maps `due` to the promise and `owed` to
the number of alarms that are ahead in the hardware or have their interrupt unread.

**FingerTracking** holds the matching of contacts to fingers as operators.
`GestureTracker` makes them a component with init, update and deinit;
`FingerProtocol` is what a reader may rely on and `TrackerImplementsProtocol` says
the tracker keeps to it.  `Touchpanel` uses the same operators: `HandleNewEvent` is
`handle_new_event` and `GetEvent` one call of `touchpanel_get_event`; its client
is shown the same `FingerProtocol`.  The kernel's buffer has a size: the event
that would fill it replaces all others by a `SYN_DROPPED` (`Push`), which the
module takes for an `EV_SYN` of its own.  `heard` is what the module last read of the
button; with it `Missed` says that the newest change of the button has reached neither
the module nor its queue.

**CoordBuffer** is the ring of coordinates; `CoordHistory`, the list of the last
`size` coordinates, is its abstract specification.

**Charger.**  `pc` walks through the reads of `_charger_read_status`, and sysfs
may change before each of them.  `swallowed` records that a query saw a change
before the handler of its uevent did, `skipped` that a handler did not look at a
battery that came or went (section 6).

**Battery.**  The open looks for the battery's directory, once, and the search may
stop early (`found`); the monitor may fail.  The open, the uevent handler and the
queries all read the files through the same steps: `task` says for whom, `pc` at
which file, `reading` what was read.  `unnoticed` records a change between the
reading of the open and the start of the monitor, `ahead` a client that was given a
status the module itself never read.

**Keys** and **KeyQueue.**  The queue hands each key event out once and in order;
`Keys` implements it with `waiting` mapped to the key events of the batch and of
the kernel's buffer.  A close may come at any time: what was fetched stays in
`raw_events` for the next client (`Forget` keeps a prefix).  The buffer has a size
(`Push`, as in `Touchpanel`); `Drop` takes the newest events, and only when there is
no room for one.  `touched` are the keys that moved since the open, without those
whose newest move the kernel dropped.

**KeyStore.**  A key is a number.  `Close` saves, `Lose` is a process that dies or
a save that fails.  A failed `RSA_generate_key_ex` stores a `Broken` key, as the
code does; what is written for it may or may not be readable again.  `handles` is
what clients may count on: the index each was given, and its key.  `KeyVault` is
what the store of processes that come one at a time amounts to: one table with
commit (a close) and rollback (a death or a failed save).  Its `current` is the
table of the process that has the module open, or the file when none has.

**Security** extends `KeyStore` by the context of `sha.c`, which neither an open
nor a close touches, with every failure of init, update and finalize and with
clients that give up.  Of the data only the number of pieces is kept, and of the
client (`hash`) how many it has put in since its own init.

**DeviceNduid.**  Each system call on the file is a step; any process may take its
next step or die (`Leave`) at any time, and each call may fail: a read of a good file
too, after which the code makes a new id and writes it over the old one.  Ids are
numbers, and a generated one is new.  `doubtful` is the history of what errors and
races may have cost: ids passed over by a read that failed, given out by an open
whose `fclose` wrote nothing, or given out while another process was making one.

**CachedInfo.**  The commands behind the members change what they print at any
time, print nothing, or cannot be started.

## 3. The runs

| run | what it shows | bounds | states |
|---|---|---|---|
| `alarm_clients` | Whatever clients call: a promised alarm is in the hardware (`PromiseArmed`), watched (`PromiseWatched`) and does not stay promised for ever (`PromiseKept`); nobody is called early or more often than alarms were set (`ImplementsAlarm`); no foreign descriptor is closed but on the number a close left the channel with (`ForeignSafe`) | 3 descriptors, 1 foreign, 2 expiries, 5 ticks, 2 sources per number | 112 458 |
| `alarm_rewatch` | violation: two sources on one number make `read` block the main loop (`ReadNeverBlocks`) | the same, no foreign descriptor | stops |
| `tracker_two` | The pool of fingers suffices, the reader agrees with the tracker, resting fingers are not swapped, the finger protocol is kept | 2 contacts, 4 positions (one is the origin), 2 weights, 4 identities | 432 |
| `touch_client` | No entry is overwritten unread, the protocol, a release is at the point of the release and is seen in the end unless it was missed | 4 frames, a buffer of 7, 2 values per axis | 137 524 |
| `coord_ring` | The ring is the history of the last coordinates | 3 entries, 3 coordinates, with the filter | 270 |
| `charger_client` | Both cached statuses, the bits of the event (`EventBitsRight`) and what clients know (`ClientKnows`) are right when every uevent is handled; a charger that stays in is seen | all kinds of chargers, 3 battery states, 2 pending uevents | 1 913 454 |
| `battery` | Cache and client are right when every uevent is handled, for a battery the open found | full charge 4, 2 pending uevents, with and without capacity node | 81 750 |
| `keys_client` | `KeyQueue` is implemented, the client is right about every key once all is read, a press is seen | 2 keys, batches of 3, a buffer of 7 | 27 324 |
| `keystore_alone` | The specification of `Security`: an index names its key until overwritten (`HandlesKept`), the store is a `KeyVault`, a digest is that of its client's data (`HashRight`) | 2 processes, 3 indices, 3 keys, 2 algorithms, 1 piece | 337 140 |
| `nduid` | One id, in the file and for ever, but for the ids in `doubtful` | 3 processes, 3 ids | 28 954 |
| `info_cached` | A string given out stays until the close | 2 fields, 2 texts | 416 |
| `info_empty` | violation: a command that prints nothing leaves a buffer that later counts as an answer (`AnswersValid`) | the same | stops |

**Why the bounds are enough.**  They are chosen so that each case of the code
occurs: two sources on a number, a number taken over by a foreign descriptor, an
expiry below and above the two-second floor; batches of keys that end in the
middle of a frame (a frame is two raw events, a batch three), a backlog of two
batches, and a buffer that three frames fill, so that the event which overflows it is
a key or the end of its frame; a buffer that a frame with motion and button (three events and its
`EV_SYN`) and two more frames overflow, so that one overflow drops a press, a
release or both and a fourth frame comes after it; a contact at the origin, a contact that loses half its weight, two fingers
that want one contact; a ring that wraps; two uevents pending while a third change
is being read; one free index between two occupied ones; a third process after two
ids were lost; a hash begun, fed and given up, and another begun after it in the
same context (a piece too many is seen with one piece already).  The clock bound of `alarm_clients` lets a first alarm fire and a
second be set; `MaxTime` also bounds what the driver accepts, and in `PromiseKept`
an alarm always lies within it.  In the other models a counter at its bound stops
the environment (frames, changes, ids), never the module's own steps.
Each passing run sets `CHECK_DEADLOCK FALSE` where the system may really stop: a
client need not act, and the bounded environment runs out.

**Assumptions about clients.**  One is a constant: `Alone`, one process at a time
has the Security module open; with `Alone = FALSE` the properties that need it fail,
and the failing behaviour is the code's (section 6).  The others are in the actions:
- a process opens a module once before it closes it;
- clients hash in turns, as the comment at `sha.c:47` asks;
- the touch panel is not closed, nor the tracker deinitialised, with a finger down
  (`Close`, `Deinit`): the code frees the finger and leaves `sFingers` dangling;
- the client of the battery registers its callback before a uevent is handled:
  `battery.c:282` calls it with no check for `NULL`.
The other models have none: where the code breaks its word for some of the calls, a
history variable names exactly these (`left` and `Promised` in `SystemAlarm`,
`Missed` in `Touchpanel`, `touched` in `Keys`, `doubtful` in `DeviceNduid`,
`swallowed` and `skipped` in `Charger`, `unnoticed` and `ahead` in `Battery`), the
behaviours stay in the model, and section 6 lists what happens in them.

**Fairness.**
- `SystemAlarm`: weak fairness of `Tick` (time passes), `Poll` and `RtcEvent` (the
  thread of the client returns to its main loop, which dispatches what is ready),
  `CallbackReturns` (callbacks return).  No API call is assumed to be made.
- `Touchpanel`: a client keeps calling `touchpanel_get_event` while the descriptor
  is readable: it is given the descriptor in order to poll it.
- `Charger`: weak fairness of `Module`, the handler's own steps and the main loop's
  start of it.
- `Keys`: weak fairness of `GetEvent` for a client that is reading, and of `Wake`
  while the descriptor is readable.
- The other modules state safety only and assume none.

## 4. What is proved

Every invariant, every action property and every refinement that a passing run
checks is also a theorem; what only the runs show is liveness.  All theorems hold for
every value of the constants, under the named assumptions of the modules
(`FdsAssumption`, `TimeAssumption`, `SizeAssumption`, ...); two, where it is said,
for processes that come one at a time.  Each proof module has the same form: an invariant as a
conjunction of named parts, a lemma for the initial states, one for the steps with a
case per action, and the theorems.

Two assumptions deserve a word.  `ContactAssumption`: contacts have integer
coordinates and weights that are not negative, as the driver gives them.
`ScreenAssumption`: no two points of the display have a squared distance of `INT_MAX`
or more.  `gesture_state_machine` computes that square in an `int` and takes
`INT_MAX` for "no finger" (`touchpanel_gestures.c:276`), so that the code needs it
too; a display of 32767 points in each direction has it.
`GestureTracker` does without: there a contact may be too far from every finger.

**`SystemAlarmProofs`**, for clients that make any call in any order
- `TypeCorrect`: `Spec => []TypeOK`.  Besides the shapes, `TypeOK` links the
  descriptor to the table (`FdOwned`: exactly one number is open on the RTC, the
  driver's) and the channel to both (`ChannelOwned`: a channel has a source and names
  the driver's number, or the one in `left`).
- `ForeignUntouched`: from these links, `ForeignSafe`: a step of the module closes no
  foreign descriptor except on the number in `left`.
- `AlarmArmed`: `[]PromiseArmed`.  It is not inductive: a promise could be kept in a
  state with the device closed, and the next open would drop its interrupt.  `IInv`
  adds to `TypeOK` what `Kept` names: `PromiseOpen` (what is promised has a callback,
  an open device and a channel) and `InTime` (an interrupt is unread over a promise
  only when its time has come).  `ProgramArms` is the arithmetic of the two-second
  floor.
- `AlarmWatched`: `[]PromiseWatched`, from `ChannelOwned` and `PromiseOpen`.
- `AlarmImplementsClock`: `Spec => ImplementsAlarm`.  By `InTime`, `rtc_event` calls
  nobody early, and what it reads is one of the alarms owed.

**`CoordBufferProofs`**
- `RingCorrect`: `[]RingOK`: `head`, `tail` and `numItems` agree modulo the size.
- `LastCoords`: `[]LastIsNewest`: `get_last_coords` gives what was put in last.
- `RingImplementsHistory`: `Spec => CoordHistory!Spec`, with the entries from
  `head` on as the refinement mapping; a put in a full ring drops the oldest.

**`SecurityProofs`**
- `SecurityTypeCorrect`: `SecuritySpec => []SecurityTypeOK`, whatever `Alone` is.
- `HandlesStay`: for processes that come one at a time, `[]HandlesKept`.  The
  property speaks of the stores of all processes, and one's close would write over
  another's: the invariant `KInv` adds that at most one process has the module
  open, and the types (a handle names a real key, never a `Broken` one, so that a
  key that cannot be read back is nobody's; and no free cell is a handle's).
- `HashesRight`: `[]HashRight`, with no assumption about processes; `HInv` adds that
  a hash is under way only where the module is open.
- `StoreImplementsVault`: for processes that come one at a time,
  `SecuritySpec => ImplementsVault`.  Each step of a process is a put, a commit, a
  rollback or a stutter: an open a stutter since the file is what `current` was, a
  key at an index a put into one cell.

**`TouchProofs`** is about the finger tracking and the two modules that use it.
- The operators first.  The matching, the order of new fingers and the events of an
  update are recursive functions and concatenations; that such a function exists
  (`RunExists`), and what it has at its end, is proved by induction with a set for
  the property (`Induction`).  `MatchingMatches`: two fingers never have one contact.
  `FlattenJoins` and `EventsAre`: each entry of the list belongs to the stretch of
  one finger.  `TrackUpdates` puts them together and says what an update is;
  `UpdateKeeps`, `UpdateTells` and `UpdateSwaps` say what it keeps of the tracker,
  what its events tell, and that it is a step of the protocol.
- `TrackerTypeCorrect`, `TrackerPoolSuffices`, `TrackerReaderAgrees`,
  `TrackerKeepsProtocol`: `[]TrackerTypeOK`, `[]PoolSuffices`, `[]ReaderAgrees` and
  `TrackerSpec => TrackerImplementsProtocol`, for any number of contacts.
  `PoolSuffices` is not inductive; `TrackerInv` adds that the fingers held and those
  in the pool are as many as `init_gesture_state_machine` put there, and that no
  frame leaves more fingers than it had contacts (`TrackCounts`, by counting:
  fingers with a contact have different ones).
- `TrackerStillFingersKept`: `[]StillFingersKept`.  A resting finger is at distance 0
  of its own contact and of no other; the loop of the matching has it from then on
  (`StillMatching`), and the update keeps the order of the list (`AscendingAll`).
- `TouchTypeCorrect`, `TouchNothingLost`, `TouchReleasedAtPoint`,
  `TouchKeepsProtocol`: `[]TypeOK`, `[]NothingLost`, `ReleasedAtPoint` and
  `ImplementsProtocol` of `Touchpanel`.  `TouchInv` adds to
  the list that is read the good tracker with at most one finger, the sum of fingers
  held and free, and, for the release: with the button up a finger that is still
  down is where the button was released.  `GestureDown` is the gesture with a contact,
  after which the finger is at the pointer and none is lost, `GestureUp` the one
  without; `HandledAny` says for each raw event what `handle_new_event` leaves, and
  `EventRead` adds what the client then gets.

**`ChargerProofs`**
- `ChargerTypeCorrect`: `[]TypeOK`, two opposite bits of the event included.
- `ChargerCacheCurrent`: `[]CacheCurrent`.  `CInv` says for each `pc`, while no uevent
  waits, what the reads so far are worth: a file already found offline is offline.
- `ChargerEventBitsRight`: `[]EventBitsRight`.  `CONNECTED` goes with the status the
  handler is about to replace until it has compared, and with the new one after
  (`ConnectedBitRight`), and so for `PRESENT`; `swallowed` and `skipped` are where it
  does not.
- `ChargerClientKnows`: `[]ClientKnows`.  A client with a callback knows what the
  module has, or the callback is in `fire`, or the handler has not yet compared.

**`KeysProofs`**
- `KeysTypeCorrect`: `[]TypeOK`, for any size of the batch and of the kernel's buffer.
- `KeysHeldKeysAgree`: `[]HeldKeysAgree`.  Batch and buffer are one sequence (`All`) of
  which a call takes a piece with at most one key (`GetEventFacts`, `Took`), and behind
  which a key puts its frame, or which loses all but the batch (`KeyAllFacts`).  `HInv`:
  the last raw event of a key that moved says whether it is down.
- `KeysImplementsQueue`: `Spec => ImplementsQueue`.  The reports of a sequence are those
  of its pieces (`ReportsConcat`, by induction).  That the kernel drops nothing while
  there is room needs `QInv`: but for its first two, the buffer has no two ends of
  frames in a row (`Framed`), so that half of it is reports (`FramedRoom`).

**`BatteryProofs`**
- `BatteryTypeCorrect`: `[]TypeOK`, the percentage within its range included
  (`PercentBounds`), for any full charge.
- `BatteryCacheCurrent`: `[]CacheCurrent`.  It speaks of a device at rest and is not
  inductive; `CInv` says for each `pc` what the reads so far are worth: while no
  uevent waits, at the percentage the battery is there, and at the end the reading is
  what sysfs has (`ReadingRight`).
- `BatteryClientKnows`: `[]ClientKnows`, from `CInv` and `ClientHasCopy`; the step
  that matters is a handler that finds no change, after which the module's copy is
  the old one (`NotChanged`).

**`DeviceInfoProofs`**, about `DeviceNduid` and `CachedInfo`
- `NduidTypeCorrect`: `[]TypeOK`, an id in every open device.
- `OneIdForAll`, `OneIdForEver`: `[]OneId` and `IdForEver`, however opens overlap, fail
  and die.  `NInv` says of every id given out, to a device still open (`OpenSettled`) or
  to anybody (`ToldSettled`), that it is doubtful, or in the file with nobody about to
  write another.
- `InfoTypeCorrect` and `AnswersStay`: `[]TypeOK` and `AnswersStand`, from the
  invariant that a text a client has is the one in the member.

TLC checked each of these formulas on the small instance first (section 3).

**Model-checked only.**  Liveness (`PromiseKept`, `ReleaseReported`, `PluggedSeen`,
`PressSeen`) and anything with fairness or ENABLED is out of the prover's reach.
The library's induction theorems take an operator as a parameter and could not be
used; `KeysProofs` and `TouchProofs` prove the induction they need from the least
element of a set of naturals.

## 5. What is not modelled

- Wording, logging, parsing of sysfs files, conversions of times: no state.
- Memory: frees are modelled where a pointer's absence decides something.
- `touchpanel.c`: scan rates and modes, which answer `NYX_ERROR_NOT_IMPLEMENTED`; the
  time stamps, which decide nothing; a `read` interrupted by a signal; the one
  ioctl of `init_vbox_touchpanel`; and what an update does after a close with a finger
  down, which is undefined (`touchpanel_gestures.c:204`).
- `keys.c`: a `poll` or `read` of the keypad that fails, which `keys_get_event` treats
  as if nothing waited.
- `battery.c`: a uevent before a client has registered, a call of a `NULL` pointer.
- `battery.c`: temperature, voltage, current and the rest of the status, read like
  the percentage and compared by nobody; the CTIA parameters, constants.
- The emulators: `charger/emulator` has a status and an event that never change, so
  its callbacks never run and every answer is a constant; `fake_battery.c` keeps
  nothing and reads the files of a script anew at every query.
- `system.c`: suspend, reboot, shutdown and erase run a command; `util.c` formats
  times for the log.
- `aes.c`, `rsa.c`: the ciphers themselves, which are OpenSSL's and change no state.
- `display.c`: one query of the frame buffer, no state beyond the handle.
- `nyx_module_open` after a failed one: in most modules (`chargerlib.c:47`,
  `system.c:57`) it finds the static device set and returns success without a
  handle, so that no call follows.  `Battery` has it, where the device goes on
  answering, and `Charger` has the state `failed`.
- A second open of the Security module in a process (`security.c:83`) loads the
  file over keys not saved yet; its close frees tables still in use.
- OpenSSL, GLib, udev, the kernel: modelled from how the code uses them, and marked
  external in the map.

## 6. Where the code and its comments disagree

Two disagreements have a run: `alarm_rewatch` and `info_empty` (see `findings`).
Others were met while modelling.  Each is in its model, unless it says otherwise, and
makes a property fail when the history named is taken out of it:
- `rtc.c:314`: an expiry equal to the last one asked for returns success without
  an alarm, also after it has fired, was cleared, or could not be set (`PromiseArmed`,
  when `Promised` makes a promise of every success).
- `rtc.c:503`: an alarm set while an older one is raised is cleared with it and
  its client called early (`ImplementsAlarm`, when `Promised` makes a
  promise of it).
- `system.c:104`: `nyx_module_close` closes the descriptor but not the watch.  The next
  clear shuts the old channel down (`rtc.c:200`) and with it whatever has that number by
  then, also a file of the rest of the process (`ForeignSafe` without `left`); and when
  the device is opened on another number, a set finds a channel and attaches no source
  there, so that its alarm is never noticed (`PromiseWatched`, `PromiseKept` without
  `left`).
- `touchpanel.c:469`, `touchpanel_gestures.c:204`: a close with a finger down frees it
  and leaves `sFingers` pointing at it, for the next update to walk (not in the model:
  `Close` and `Deinit` have a guard that the code has not).
- `touchpanel.c:565`: `touchButtonState` outlives a close: after a close between the
  press and its `EV_SYN`, and a release while the device is closed, the first frame
  puts a finger down that nobody holds (`ReleaseReported` without `Missed`).
- `battery.c:282`: a uevent handled before a client has registered calls a `NULL`
  pointer (not in the model).
- `charger.c:229`: a query that sees a change before its uevent is handled swallows
  the event (`EventBitsRight` without `swallowed`).
- `charger.c:242`: the `||` skips the battery's presence, and so sets no event for
  it, when the battery's status has changed in the same handler (`EventBitsRight`
  without `skipped`).
- `charger.c:231`: going from USB to a wall charger with charging going on
  notifies nobody.
- `battery.c:109`: the percentage without a capacity node is `now / full`.
- `battery.c:324`: a change between the first reading and the start of the monitor
  stays unseen until the next one (`CacheCurrent` without `unnoticed`).
- `battery.c:291`: the directory is looked for once: a battery driver that comes
  after the open is never seen (`CacheCurrent` without `found`).
- `touchpanel.c:595`: after a `SYN_DROPPED` nobody asks the kernel for the button,
  and a release it dropped leaves the finger down (`ReleaseReported` without `Missed`).
- `keystore.c:284`: of two processes the second to close replaces the first one's
  keys (`HandlesKept` with `Alone = FALSE`).
- `rsa.c:47`: a failed key generation is compared with -1, but is 0.
- `device_info_generic.c.in:79`: an error in opening or reading a good file counts as
  no id, and a new one is written over it; devices already open keep the old one, and
  clients are given another (`OneId`, `IdForEver` without `doubtful`).
- `device_info_generic.c.in:140`: the result of `fclose`, where the id is really
  written, is not looked at (the same).
- `device_info_generic.c.in:110`: two processes that open at once may make two ids
  (the same).
- `keys.c:339`: what a client left unread in the batch is given to the next one, after
  a close and an open, as if it had just happened (`Forget` in `KeyQueue`).
- `keys.c:318`: after a `SYN_DROPPED` nobody asks the kernel for the keys: a key whose
  release was dropped stays down for the client (`HeldKeysAgree`, when `touched` keeps
  such keys).
- `keys.c:354`: a call that finds no key leaves an event allocated and forgotten.
- `touchpanel.c:397`: with no display size the open succeeds with its descriptor
  closed; `touchpanel_common.c:34` copies the time stamps the wrong way round.

## 7. Plan

Done, in this order: `SystemAlarm` and its proofs; `CoordHistory`, `CoordBuffer` and
their proofs; `FingerTracking`, `FingerProtocol`, `GestureTracker`; `Touchpanel`, which
composes the tracking with the driver and the client; `Charger`; `KeyStore`;
`DeviceNduid`; `KeyQueue`, `Keys`; `Battery`; `CachedInfo`; then `AlarmClock` with its
refinement, the overflowing buffer of `Touchpanel`, the whole of `Battery`,
`KeyVault` with its refinement, `Security`, and the proofs about `Security`,
`Battery`, `DeviceNduid`, `CachedInfo` and the refinement of the alarm; then the
proofs about `Charger`, `Keys`, `GestureTracker` and `Touchpanel`, for which their
folds became recursive functions.

Then the hypotheses about clients were taken out of `SystemAlarm`, `Touchpanel`, `Keys`
and `DeviceNduid`, in models and theorems, in favour of histories that name the
behaviours in which the code breaks its word.

Next: the same for `Alone` (which key of which process a save replaces), and a process
with the charger and the battery on one main loop and one sysfs, as a composition of
the two modules.

## 8. Running it

    tlc -workers 2 -config alarm_clients.cfg SystemAlarm
    tlapm SystemAlarmProofs.tla

The module of each run is in `PROJECT.json`.  `charger_client` and `keystore_alone`
take one to two minutes, every other run seconds, and the proofs a minute or two
each, `TouchProofs` three.
