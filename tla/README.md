# A specification of the XGSail E1 firmware

The repository is the firmware of a sailing data logger (ESP32,
`src/firmware/sailframes_edge`) and the phone client that relays its files
(`src/clients/capacitor`). The logger records a sailing session to an SD card,
uploads the files over WiFi when the boat is ashore, or hands them to a phone
over Bluetooth, and exchanges positions, start-line calls and RTK corrections
with other boats over ESP-NOW. These modules specify the part in which
something can silently go wrong: data that is recorded, sent, marked as sent
and deleted by four execution contexts that share a card, a radio and a few
global flags.

## 1. Inventory

### Execution contexts

| context | code | touches |
|---|---|---|
| Core 1, `loop()` | `sailframes_edge.ino` 481-714 | sensors, row logging, button, console, telnet, BLE chunk sending, mesh sending, OCS, WiFi teardown |
| Core 0, upload task | `upload.cpp` 906-1185 | the WiFi window: connect, claim, upload walk, health snapshot, OTA |
| Core 0, diagnostics task | `upload.cpp` 826-889 | loop watchdog, boot log |
| NimBLE host task | `ble_relay.cpp`, `wind_sensor.cpp` callbacks | control commands: start/stop of a recording, start-transfer, ack-uploaded, provisioning, configuration |
| WiFi task | `mesh.cpp` 48-138 | received ESP-NOW packets: peer table, race-armed, recall, RTCM |
| phone | `clients/capacitor/src` | claim, relay of pending files |
| server | external | `session-uploads` POST / PUT / PATCH, claim, firmware |

### Components

State, operations and what makes each of them correct:

* **Recorder** (`recording.cpp`, `storage.cpp`). State: `recState`, `logging`,
  `triggerUpload`, the open files, the folders on the card. Operations:
  `startRecording`, `stopRecording` (from button, console and phone), `logNav`
  and its siblings, periodic flush, `handleLowBattery`. Correct if: one session
  at a time; what the display, the row loggers and the card call "recording"
  is the same; a closed file never changes; nothing is lost but unflushed rows
  at a power cut.
* **Session folders** (`storage.cpp` 44-185, `gnss.cpp` 237-285). State: the time,
  date and fix heard last, `/sf/session.txt`, the folders with their files,
  markers and `boat_id.txt`. Operations: naming and making a folder, the walk,
  `cleanup` and `clearmarkers`, to which `session.txt` is a file like any other.
  Correct if: a start takes nothing an earlier session has recorded, and
  inherits neither its marker nor its boat.
* **Upload protocol** (`upload.cpp` 51-542, `console.cpp` 159-404). State: the
  card's files and `.uploaded` markers, the server's records. Operations: the
  recursive walk, POST, PUT, PATCH, mark, auto-clean, the console's `upload` and
  `cleanup`. Correct if: a file leaves the pending set only when the server has
  all of it, the same file is not stored again and again, its boat and activity
  go with it, and nothing pending stays behind for good.
* **Upload task and WiFi window** (`upload.cpp` 546-1185,
  `sailframes_edge.ino` 505-543). State: pending count, retry counter, three
  time stamps, `wifiBusy`, `uploading`, `wifiConnected`,
  `wifiTeardownRequested`. Correct if: no pending session waits for ever and
  the connection is given up when it is not needed.
* **BLE relay** (`ble_relay.cpp`, `relay.ts`, `client.ts`, `backend.ts`).
  State: one transfer (`s_xferFile`, `s_xferSeq`, `s_xferActive`) shared by the
  host task and Core 1; the manifest and the chunks received on the phone.
  Correct if: what the phone uploads under a file's name is that file, and a
  file is acknowledged only then.
* **Fleet mesh** (`mesh.cpp` 48-138, 338-370). State: the peer table
  (`g_mesh_peers`, `g_mesh_peer_count`), written by the receive callback, thinned
  out and read by Core 1; whether ESP-NOW is up. Correct if: the table has one
  record per boat, each with that boat's data, and its count stays in range.
* **OCS start line** (`ocs.cpp`, `mesh.cpp` 181-230). State: on every boat
  `g_ocs` (armed, the line, the start time, over, the 2 s of clearing), on the
  race committee's unit the latch in each record. Operations: arm and disarm
  (console, radio), tick, forced recall, the committee's scan. Correct if: every
  boat over the line at the start is called and flagged, for something it did in
  this start, and a boat that is back is cleared.
* **RTCM relay** (`rtk_relay.*`). State: framer, fragment reassembly, ring to
  the receiver. Correct if: the receiver gets only whole valid frames, in order.
* **OTA** (`ota.cpp`, `upload.cpp` 1005-1068). State: the manual request, the
  manifest, the blocks read. Correct if: only an image that passed its checksum
  is booted, and no recording is cut short by it.
* **Device identity and claim** (`device_auth.cpp`, `ble_relay.cpp` 139-200,
  `client.ts` 49-71). State: `/device.txt`, the key in memory and whether it was
  read, the code of `config.txt`, the pairing window. Correct if: a redeemed
  code leaves a key on the device, and it is still there after a reset.
* **Configuration** (`config.cpp`). State: `config` and `config.txt`, read at
  boot, written by the phone; and `/wind_mac.txt`, which overrides it.
* **Wind sensor** (`wind_sensor.cpp`). State: the BLE client's link, the flags
  the loop takes its state from, the sensor to connect to. Operations: scan,
  connect, the pause for WiFi, the periodic check; a disconnect callback the
  pinned BLE library does not call.
  Correct if: it is connected again whenever it can be, keeps out of WiFi's way,
  and the next boot connects to the sensor configured now.
* **Sensors, display, console, telnet**, and what of GNSS is not named above:
  numeric code, parsing, formatting; no protocol of their own.

### How they interact

`stopRecording` sets `triggerUpload`, which wakes the upload task. `sdMutex` is
taken by starts and stops, by the upload walk for its whole length, by the
pending count, and by the BLE callbacks with a short timeout; row logging, the
console's upload, OCS and claim do without it. `logging` gates the walk file by
file. `wifiBusy` and `uploading` keep Core 1 away from the network stack while
Core 0 uses it, by test and later act. A WiFi window stops the wind sensor's BLE
link and takes ESP-NOW down with its association; nobody tells either when it is
over, the loop finds out. The peer table, `g_ocs` and `/device.txt` are written
from two tasks without any lock. `.uploaded` markers are the only record
that a file was sent, whichever way it went. Everything but the card is lost at
a reset, and the loop watchdog causes resets.

### What is hard, and tested nowhere

Interleavings at each of these shared variables; a stop that gets no mutex; a
reset between the server's answer and the marker, or between truncating a file
and writing it; a lost answer to a request that was carried out; two workers on
one card; stale flags; a record that moves while it is written; a start armed in
the middle of a tick; chunks of one transfer counted in the next; a link lost
while it is being made; retries that starve. `PROJECT.json` lists each
under `hazards` with its line and the properties that watch it. The repository
has no tests of the firmware.

## 2. Modules

| module | models | proofs |
|---|---|---|
| `SessionArchive` | abstract: what recorder and upload promise about a session | |
| `Recording` | starts, stops, row logging, battery guard, upload window by mutex and `logging`; implements `SessionArchive` | `RecordingProofs` |
| `SessionFolder` | where a session goes: names by clock or number, and what they meet on the card | `SessionFolderProofs` |
| `SessionUpload` | walk, server protocol, markers, cleaning, two walkers, resets | `SessionUploadProofs` |
| `UploadTask` | when a WiFi window opens and how the connection is given up | `DeliveryProofs` |
| `BleRelay` | manifest, transfer, chunks, upload by the phone, acknowledgement, next to the upload walk; implements `SessionArchive` | `DeliveryProofs` |
| `RtcmRelay` | corrections: numbering, fragments, two transmissions, reassembly, ring | `RtcmRelayProofs` |
| `PeerTable` | the committee's peer table: receive callback against expiry and scan, the calls made from it | `StartLineProofs` |
| `BoatOcs` | a boat at the start: arming, recall and tick on one unlocked record | `StartLineProofs` |
| `DeviceClaim` | claim by task, console and phone; `/device.txt` and the key in memory | `DeviceClaimProofs` |
| `WindLink` | the radio's users: wind sensor, WiFi window, mesh; the sensor's configuration | (through `OtaUpdate`) |
| `OtaUpdate` | EXTENDS `WindLink` with the update that ends a window, the recorder and the restart | `OtaUpdateProofs` |

`MCRecording`, `MCSessionFolder`, `MCSessionUpload`, `MCUploadTask`,
`MCBleRelay`, `MCRtcmRelay`, `MCPeerTable`, `MCBoatOcs`, `MCDeviceClaim` and
`MCOtaUpdate` are the modules TLC is started on. The four views of "upload" are
deliberate: `Recording` keeps the mutex and the rows and reduces the server to a
row count; `SessionFolder` keeps names and markers and has a file sent in one
step; `SessionUpload` keeps server, faults and file kinds and makes a recording
one step; `UploadTask` keeps clocks and flags and reduces the walk to its result. A start
is seen twice too: `PeerTable` is the committee's side, up to the call it makes,
`BoatOcs` the boat's, from the copies that reach it. `SessionArchive` is implemented twice, by the recorder
with its upload window and by the phone's relay next to it: whichever way a session
leaves, it does so once, complete, and after it was closed. The names of modules that
are proved about together are kept apart (`TaskSpec`, `OcsTypeOK`).

### Recording

Each context has a program counter; a step is what happens between two
accesses to shared state. `StartCheck` is the test of `recState` *before* the
mutex is taken, `StartTake`/`StartTimeout` the 2 s attempt, `StartOpen` is
`startLogging` (closing whatever the global file objects were open on, which is
what assigning them does), `StartSet` sets `recState` after the mutex was given
back. `StopTake`, `StopClose`, `StopLogging`, `StopSet` are the lines of
`stopRecording` in their order; `StopTimeout` is its else branch, which closes
nothing. Two history variables keep what the properties except: `astray`, the
sessions such a stop left open, and `upset`, that the last command failed or met
the other starter in mid-work (`InMidWork`); a later command that does its work
clears the one and, if it closes the file before the window has taken it, the
other (`Recovered`). `LogRowBegin` tests `logging` and `LogRowEnd` writes, without the
mutex. `UploadGate` ... `UploadEnd` are the window, with the test of `logging`
once per file. `Reboot` closes every handle and keeps what was flushed.

### SessionFolder

A file is its name: `<<"gps", t, t>>` of the second `t`, or `<<"num", n, u>>` with
the number and the uptime. `Tick` is a second, in which the receiver says the
time, the date once it has it, and whether there is a fix (`Heard`); after
`FallSilent` nothing of it changes any more, which is what `parseNMEA` leaves.
`Start` is `startLogging` with `getNextSessionNumber` in it, and `ResetInCount` the
reset between opening `session.txt` to write and writing it. `UploadFile`,
`UploadTag` and `UploadCounter` are the walk at a session's CSV, at a `boat_id.txt`
and at `session.txt`; `auto` is `auto_cleanup_uploads`, which the phone may
change. A walk begins seconds after a recording has ended (`Quiet`): it takes a
window with an association and a health snapshot. `excuse` keeps the three
reasons for which a name is given twice. Reboots that fall between a file's
removal and its marker's are in `SessionUpload`.

### SessionUpload

A session is a folder with `boat_id.txt` and one CSV; a walk visits files in
order. `Visit`, `Post`, `Put`, `Patch`, `Mark`, `Unlink`, `Unmark` are the steps
of `uploadFile` and what follows it; each has its failing form (`PostFails`,
`PutFails`, `PutAckLost`, `PatchLost`), and `Reset` may fall between any two.
The server is the sequence of `session_upload` records with what it believes of
each (`open`, `stored`, `failed`) and whether the bytes are intact, which they
are not when two workers share the static buffer. `faults` counts what went
wrong; `excuses` counts those after which a second copy is legitimate.

### UploadTask

One iteration is `Recount`, one decision (`OnTrigger`, `OnPeriodic`,
`OnHealthDue`, `OnOta`, `NotDue`) and, if it opened a window, the window's
steps up to `EndWindow`. The three time stamps are ages in ticks, capped at the
largest delay they are compared with; one tick stands for 30 s. `sinceAttempt`
runs from the beginning of the iteration because the code stores `now` of that
moment at the end of the window too. Core 1's two blocks are a test
(`LostCheck`, `TeardownCheck`) and a later act (`WiFiDisconnect`). A session in
`left` is uploadable: its folder has a GPS date. (One without a date needs a live
fix at upload time and otherwise stays, as the code's message says.)

### BleRelay

A file is a row of chunks `<<file, index>>`, so that mixtures can be told from
prefixes. `tick` is `bleRelayTick` between its test, its read under the mutex
and the numbering and sending of what it read; `host` is `startTransfer`
between closing, opening and assigning; `ph` is the phone. A notification is
delivered as it is sent, because the link keeps the order of notifications and
write responses. It is lost if the phone has not subscribed yet or, as a fault,
if the stack drops it. The server keeps the last upload of a name, which is what
`client.ts` 36-40 says of it. At the end `Phase` says which file is open, closed or
archived, and a file's chunks after the first are the rows of `SessionArchive`.
The phone may call while a session is recorded, and a transfer may be started
while chunks of the one before are on their way. `doubt` is the history of what
comes of it: a file whose own transfer was begun over another (`Overtaken`), or
whose size was not the one in the manifest or not the last one (`Unsteady`), is
in doubt until a transfer of it that is neither. `Content` sorts what was
received and puts it together, as `relay.ts` 51-56 does, gaps or no gaps.

### RtcmRelay

`Produce` is `rtcmBroadcastFrame` taking its identifier, `Lose` and `Hear` the
fate of the next fragment it broadcasts; `IgnoreTrailing`, `IgnoreInFlight`,
`Store` and `Finish` are the four ways out of `onPacket`, whose tests they share
as `TrailingDup`, `SameFrame` and `InFlightDup`. A frame carries the number it
was produced under (`n`), which no packet has, beside its identifier: this is
how frames with the same identifier are told apart. `Valid` stands for the
length and CRC test. `out` is everything the ring was ever given and `read` how
much of it was taken out; `cut` remembers frames for which there was too little
space, of which `xStreamBufferSend` takes what fits. `BaseRestart` makes the
identifiers begin again, `RoverRestart` forgets the last one. The 2 s of the
reassembler's timeout are longer than a frame is on the air and shorter than 256
frames or a boot, which is where `stale` may become TRUE.

### PeerTable

`slot` is the array, from 1, and `count` how much of it is in use. The callback
runs on the WiFi task: `Receive` is all of it, when nothing of Core 1 falls into
it; `Hear`, `AddPeer` and `WriteState` are its steps when something does (the
sender is looked up; the count incremented and the name stored; the rest
stored). Core 1 is a loop of `TickBegin`, `ExpireSwap`/`ExpireDrop` for each
expired record (last record moved, count decremented), `TickEnd`, and then
`ScanBegin`, `ScanCall`, `ScanEnd` or `ScanSkip`. Increment and decrement are a
read and a write: `\E n \in {old, current}` is the value either may have read.
How often the two meet is bounded by `MaxRaces`, and the properties that hold
only until they do say so (`races = 0`). The callback's `millis()` may be newer
than the `now` of the loop it falls into, whose unsigned difference is then
enormous: age "ahead". `id` is the record's name, `from` the boat whose position
it holds; `latch` is `rc_ocs_called`, with the boat and the start it was set for.

### BoatOcs

`g_ocs` is `armed`, `over`, `was`, `clearing`, `ends` (the line) and `time`; the last two are
the number of the start they were set for. `HearArm`, `CbLine`, `CbTime` are the
stores of `ocsArm` on the WiFi task, `OcsRaceArm`, `RaceArmLine`, `RaceArmTime` the
same typed on this unit's console; `HearCall` is `ocsForceOver`. `TickRead`,
`TickTime`, `TickLatch` are `ocsTick` between its reads: a distance read while
`ends` is another start's, or a time while `time` is, may come out as anything.
`arms` and `calls` are the copies still to be broadcast, each of which is heard
or lost.

### DeviceClaim

A key is named by the code it was issued for. `EnsureLoaded` is the head of
`deviceIsClaimed` and its like, the flag first and the key when it is read
(`LoadEnd`); `SaveOpen` truncates, `SaveWrite` writes the line and takes the key
over. `TaskBegins`/`TaskAsks` are `attemptClaimIfNeeded`,
`ConsoleClaim`/`ConsoleAsks` the console's `claim`, `Redeem` the POST both make.
`PhoneClaims`, `PhoneRedeems`, `PhoneSaves` are `claim` of `client.ts`, and
`Provision` and `Declines` what becomes of its write on the device. `Reset`
clears everything but the card, and with it a new `config.txt` may come.

### WindLink and OtaUpdate

Each context has a program counter. `pc1` follows one turn of `loop()`: `Pass` (the WiFi
block and `meshTick`), `WindCheck`, and, if it is due, `connectToCalypso` as `Scan`,
`ScanFinds`/`ScanFindsNothing`, `ScanOpens` and `ScanWrites` (`saveWindMAC`: memory,
then the truncated file, then the line in it), `Aim` (the address, and `connect()`
begins), `Connect`/`GiveUp` (it returns, any time later), `Services`, `Finish`.
`pc0` is the window: `PauseScan`, `PauseLink` (the two parts of
`pauseBLEForWiFi`), `Associate`, and `work` up to `EndWork`. `pcB` is a write of
`device_config` on the NimBLE task: `Pair`, `PhoneOpens`, `PhoneWrites`, `Enable`
or `Unpair`, `Remove`, then the two halves of `forceWindReconnect` (`Drop`, `Flag`),
and `saveConfig`, which truncates (`SaveOpens`) and then writes (`SaveConfig`).
Each of these may fail as the code lets it, and none looks whether it did. The
two `saveWindMAC`, of which only the phone's holds `sdMutex`, may fall into each
other at any step. `Torn` is a truncated file. `spoilt` is the history of what
makes memory and card differ, until a boot or a store that goes well.
The flags `connected` and `ok` are set where the code sets them and reset only
by `Flag` and `Boot`: the callback that was to do it is not called by NimBLE 2.4.0.
`Boot` is `setup()`'s reading of the two files. `OtaUpdate` fills
the window's `work` with `runOtaCheck`: `OtaManifest`, one `OtaBlock` per turn of
the download loop, `OtaVerify`, `Restart`; a manual request opens a window of its
own (`Request`, `ManualWindow`). An image that comes out of `OtaBlock` is
incomplete when the connection went, altered when a block was (`bad`).

## 3. Runs

| run | instance | shows |
|---|---|---|
| `recording` | button and phone, timeouts, failed opens, resets; 3 sessions, 1 row | `SendExcludesLogging`, `UploadNeverOpen`, `ArchivedIsComplete`, `ViewsAgree`, refinement of `SessionArchive` |
| `folders` | 2 sessions in 4 seconds, 1 fault, cards with and without `/sf` | `MarkedIsSent`, `OwnBoat`, `NeverTruncated` |
| `upload` | 2 sessions, 2 faults of 9 kinds, `cleanup` | `NothingLost`, `DuplicatesExplained`, `OverrideRecoverable`, `Delivered` |
| `upload_both` | `upload` command next to the task and `cleanup`, files kept, 2 faults | `AcceptedBeforeGone`, `OverrideRecoverable` |
| `upload_task` | 2 sessions, 4 faults, backoff after 3 failures | `KeptForFiles`, `Drained`, `Released` |
| `ble_relay` | 2 files of up to 2 chunks, 2 calls at any time, 2 faults | `NothingLost`, `Returns`, refinement of `SessionArchive` |
| `rtcm` | 4 frames of up to 3 fragments, 3 identifiers, ring of 4 | `FramesInOrder`, `HeardIsHandedOn` |
| `peers` | 2 boats, 2 records, 1 start, callback and Core 1 meet once | `TableTrue`, `RecallJustified`, `Heals`, `Noticed` |
| `boat_ocs` | 2 starts, 2 copies of an arming, 1 of a call | `FlagExplained`, `OneStart`, `Flagged`, `Cleared` |
| `auth` | 2 codes, 2 faults | `KeptOnCard`, `MemoryAgrees`, `Attempted` |
| `radio` | 2 sensors, 1 configuration write, 2 events, image of 1 block | `BootAgrees`, `SparesRecording`, `MeshBack` |
| `radio_wind` | the same, no write, 1 event | that `WindBack` is violated |

The type invariants are theorems (section 4) and not in the table. Each run
has the whole of its module switched on: both starters, every failure, every
overlap. What the code then does not keep is not excluded by a constant but
named, per session, file or store, in the property, and listed below.

**Bounds.** Every bound is a constant. Two sessions are needed for one to be
opened over another, and for a walk to meet a second folder after something
went wrong in the first; three in `recording` let one be archived while one is
closed and one open. One row tells a complete from an empty file, and, as rows are
written without the mutex and flushed later, a flushed one from one that is not. Four seconds let two sessions end up with one folder in each of the ways
there are, with an upload between them: a silent receiver, a number given again
after a reset or after `session.txt` went, the same second. Two faults allow the pair that matters in each protocol (a lost answer and
then a lost PATCH; a crash and then a failed removal). Four faults and
`MaxRetries = 3` in `upload_task` reach the backoff, with a fault left for what
happens after it; the code's constants are 5 retries and five delays, here 3
and 2, in the same order of size. Two chunks have a first and a last one; two
calls of the phone let one find what the first left. In `rtcm` the fourth frame
has the identifier of the first, three fragments again have an inner one, and a
ring of four is full after a frame and a part of the next.

Two boats and two records are a table that is full, a last record that takes an
expired one's place, and a record that is reused; a third boat would only wait
for room. One of the boats stays on the starting side (`MCSides`), so that one
may be called and one never. `MaxRaces = 1` is one callback cut in half by Core 1
or one arming that falls into a scan; each is possible at every point of either.
Two starts in `boat_ocs` let one be armed over the other, and two copies let the
second one of a start arrive late; the three of the code add nothing a second
does not. Two codes let two workers each redeem one and a phone offer another
than `config.txt`; two faults are a reset or a lost answer, and what goes wrong
after it. Two sensors are one's own and somebody else's, found by mistake; two
events are a write of the card that fails and a reset, a `windscan` and the sensor
it finds, a manual request and a recording begun after it; the one block is read,
altered, cut off or never come to. A `connect()` of the loop, a window and a
configuration write meet without any event.

`CHECK_DEADLOCK FALSE` is in the configurations whose bounds let the system
stop: sessions, uploads or calls used up.

**Fairness.** `SessionUpload`: every context keeps running (FreeRTOS schedules
both cores, no wait in the file protocol is unbounded) and a recording is
stopped some day; failures are bounded by `MaxFaults`, not by fairness.
`UploadTask`: weak fairness of the task, of time and of stopping a recording;
strong fairness of Core 1's two tests, because the task sleeps 5 s between
iterations while the loop turns many times. `BleRelay`: weak fairness of both
tasks, of the walk and of the phone, whose wait is bounded by its timeout.
`PeerTable`: weak fairness of the callback's steps and of Core 1, which alternate
on their own; strong fairness of `Receive`, because a boat sends every second and
Core 1 is in mid-work only for moments of it, and of `Age`, because silence
makes a record old though it is not silent all the time. `BoatOcs`: weak fairness
of callback, tick and clock; none of the boat, the committee or the radio, so
that all copies may be lost. `DeviceClaim`: weak fairness of what the device has
begun and of the upload task's windows. `OtaUpdate`: weak fairness of the loop,
the upload task and the BLE host; no sensor need come near and no recording end.
`Recording` and `RtcmRelay` state no liveness.

### Disagreements found

One of them has a run of its own, `radio_wind`: once the wind sensor has been
connected and the link is gone - the sensor was out of range, or
`pauseBLEForWiFi` dropped it for a WiFi window - nothing connects it again.
`wind_sensor.h:43` says "Reconnect if disconnected and enough time has passed
since the last try."; `checkWindConnection` goes by `wind.connected && windOK`
(`wind_sensor.cpp:399`), which `onDisconnect(NimBLEClient*)` (`wind_sensor.cpp:90`)
was to clear. That signature is the one of NimBLE-Arduino 1.x; in 2.4.0, which
`.github/workflows/firmware-release.yml:27` pins, the callback has a second
parameter, this one overrides nothing (it is not marked `override`) and is never
called. A write of `wind_mac` or a reset mends it.

The following show in the instances of the runs, or of the given constants; each
of the models states the property or the one the row describes, and the
counterexample is found in seconds.

| module and constants | violated | code | says otherwise |
|---|---|---|---|
| `MCRecording`: as `recording` | `UploadNeverOpen`, `ArchivedIsComplete` without their exception for `astray`: a stop that cannot get the mutex prints "closing unlocked" and closes nothing; the open file is sent, and deleted | `recording.cpp:45` | `docs/firmware-architecture.md:26-28` |
| `MCRecording`: as `recording` | `StartOnlyWhenIdle`: two starts at the same moment open two sessions | `recording.cpp:19` | `recording.h:19` |
| `MCSessionFolder`: as `folders`, `LastSecond = 2`, no faults | `BoatIsOwn`: on a new card the number is stored before `/sf` is made, so `session_001` comes twice and a session without a boat of its own is filed under the first one's | `storage.cpp:51` | `storage.cpp:117-118` |
| `MCSessionFolder`: as `folders`, `LastSecond = 3`, `AutoCleanup = {FALSE}`, `NewCard = FALSE` | `EachOnItsOwn`: a receiver that falls silent with a fix leaves it standing; the next session gets the last one's files and their markers, and is never sent | `storage.cpp:82` | `storage.h:25` |
| `MCSessionUpload`: as `upload`, no faults | `OverrideHonoured`: the boat override is deleted before the files it is meant for are posted (it is on the server by then: `OverrideRecoverable`) | `upload.cpp:522` | `storage.h:38-40` |
| `MCSessionUpload`: as `upload_both` | `NothingLost`: two walkers share the static buffer of a PUT, and a file is accepted with the other one's bytes in it | `console.cpp:197` | |
| `MCBleRelay`: as `ble_relay`, 1 file, 1 call, no faults | `NothingLost` without `doubt`: a session relayed while it is being recorded loses what is recorded afterwards | `ble_relay.cpp:122` | `relay.ts:74-75` |
| `MCBleRelay`: as `ble_relay`, 1 call, no faults, calls only between recordings | `NothingLost` without `doubt`: a transfer started after a timeout may take a chunk of the old file as its first | `ble_relay.cpp:749` | `client.ts:32-33` |
| `MCPeerTable`: as `peers`, 2 starts, `MaxRaces = 0` | `LatchMeansCalled`: a record reused for another boat keeps `rc_ocs_called` of the one that had it, and that boat is not called by radio although it is over; hence "latched", not "called", in `Noticed` | `mesh.cpp:78` | `mesh.h:161`, `ocs.cpp:37-38` |
| `MCUploadTask`: as `upload_task`, `RootFile` | `Released`: a file in `/sf` itself that cannot be uploaded keeps the WiFi connection for ever | `upload.cpp:400` | |
| `MCDeviceClaim`: as `auth` | `ReportedReached`: a key written outside the pairing window is dropped, and one whose save fails is not on the card; the app reports the claim as made and the code is spent | `ble_relay.cpp:167` | `docs/ble-config.md:30-33`, `client.ts:21-25` |
| `MCOtaUpdate`: as `radio` | `pc0 = "work" => ~scanning /\ link = None`: a `connect()` begun before the window is not stopped, as `isConnected()` is not true yet, nor is one begun before `wifiConnected` is set; BLE comes up under WiFi | `wind_sensor.cpp:355` | `wind_sensor.cpp:343`, `wind_sensor.h:36-38` |

Others are in the models as they are in the code, and the properties are stated
around them:

* *Corrections.* One that meets a full ring is cut, although the receiver is said
  to get whole frames (`rtk_relay.h`): `FramesInOrder` allows it by `cut`. A frame
  whose identifier is that of the frame completed last, because the base
  restarted or 256 frames were missed, is dropped as a duplicate: the exception
  in `HeardIsHandedOn`.
* *Start line.* An arming that falls into a tick has the new start judged by the
  old line or the old time (`torn` in `FlagExplained`). A boat that is over and
  goes back over the line before its 2 s are up goes on with the same 2 s when it
  next comes back, where `docs/firmware-architecture.md:68-72` asks for a
  continuous interval (`LatchOver` keeps `clearing`).
* *Claim.* `s_credsLoaded` is set before the key is read
  (`device_auth.cpp:29`), so that another context may find a claimed device
  unclaimed. The status characteristic reads the card without the mutex that the
  comment at `ble_relay.cpp:531-533` keeps it from needing. Either file,
  `/device.txt` and `config.txt`, is truncated before it is written, and a reset
  in between leaves nothing (`cut`, `Torn`).
* *Wind sensor.* A link lost while `connectToCalypso` works on it is taken for a
  good one (`wind_sensor.cpp:289`). While WiFi is up or a trigger waits for the
  end of a recording nothing reconnects. After a failed connection the MAC in
  memory is dropped "will scan next time" (`wind_sensor.cpp:223`), but the next
  attempt goes to the address of the last scan if there was one, so another
  sensor is never found: hence `Target \in near` in `WindBack`. The connection
  that fails may be one begun before a write of `wind_mac`: it takes the new MAC
  with it, and one that succeeds stays with the old sensor, where
  `docs/ble-config.md:217` has the device reconnect to the new one. A scan that
  stores its sensor while a `wind_mac` write stores another leaves memory and
  `/wind_mac.txt` with different ones; a file that could not be removed enables
  wind again at the next boot, and so does a `windscan` while wind is disabled:
  these, and a write that failed, are `spoilt` in `BootAgrees`.
* *Update.* A recording begun after the last block was asked for is cut by the
  restart (`ota.cpp:9-12`): `since` in `SparesRecording`. A manual request opens a
  window although a recording has begun since it was made. An image published
  without a checksum is not verified.

## 4. Proofs

TLC checks the instances above; the eight modules `...Proofs` hold for every
value of the constants, under the assumptions the modules name
(`SwitchAssumption`, `BoundsAssumption`, ...: types only).

`RecordingProofs`:

* `TypeCorrect`: `TypeOK` is inductive as it stands.
* `NoPutWhileLogging`: the strengthening of `SendExcludesLogging` is `MutexInv` (a
  context is inside its critical labels exactly if it holds `sdMutex`): `logging`
  becomes TRUE only inside `startLogging`, under the mutex, and a PUT is in
  progress only under it too, having tested `logging` after taking it.
* `NeverSendsOpen`, `ArchivedComplete`, `ThreeViewsAgree` and
  `RecorderImplementsArchive` hold for both starters, stops that time out and
  opens that fail, without a hypothesis. The invariants behind them tie what is
  open, closed and sent to the mutex rather than to one starter's position, and say
  of a session in `astray` only that it exists; `upset` is what lets the views
  differ between commands. A closed file is flushed, and an archived one has the
  server's row count. Each step of `Recording` is a step of `SessionArchive` or a
  stutter under the mapping at the end of `Recording`, where a session in
  `astray` is "doubtful": a phase the abstract machine has for a track that was
  lost, of which it promises nothing more.

`SessionFolderProofs`, all from `NamesInv`: the time in use is the present one
while the receiver speaks; a file named by the clock, and its folder's boat, are
of the second in the name, and one that is marked is of an earlier second; no
number on the card is beyond the one in `session.txt`. `Fresh` draws from it what
a start finds under its name, for each excuse it does not have.

* `TypeCorrect`: inductive as it stands.
* `NamesSpared` (`NeverTruncated`) and `MarkersTrue` (`MarkedIsSent`) follow from
  `Fresh`; a marker is set only on what was just sent.
* `BoatsOwn` (`OwnBoat`): `BoatInv` has, while there is no excuse, the boat of a
  folder be that of what is in it; two files do not share a folder then.

`SessionUploadProofs`:

* `TypeCorrect`, from `IInv`: a worker's upload number has to exist for the
  steps that update it, so types need `CustodyInv`.
* `AcceptedFirst`: `CustodyInv` says who is responsible for each upload record.
  A worker past its PUT owns a record of its own file, no two workers own the
  same record, and a file outside the pending set has an accepted record that no
  worker owns, so that no later report can take it back. This is for any mix of
  walkers and faults.
* `NoUnexplainedDuplicates`, with the task as the only uploader: `BudgetInv` counts, for
  each file, the complete copies on the server and the claims to a further one (it
  is pending or being worked on; a cleanup that left it is about to take its
  marker), and keeps the sum at one more than `excuses`; each step keeps it because
  a claim that arises is paid for by an excuse and a copy that arises uses one
  up (`NoGain` and the lemmas after it). `ScopeInv` keeps everything within the
  files that were recorded.
* `OverrideNeverLost` (`OverrideRecoverable`), for any walkers, cleaning and faults:
  while a folder's `boat_id.txt` is pending it is on the card, where every request
  finds it; it leaves the pending set only with an accepted record no worker
  owns (`CustodyInv`).
* `NoLoss`: with the task as the only uploader (`~ConsoleUploads`), `SoloInv`
  adds that no PUT overlaps another, so that what is accepted is whole.

`RtcmRelayProofs`:

* `TypeCorrect`, with `OwnInv`: a partial frame that is not stale consists of
  fragments of one frame, is incomplete, and is the frame on the air if the
  identifiers agree. Hence what completes is the frame on the air and is valid
  (`FinishPushes`), which is what bounds `done` and `out`.
* `InOrder`: `OrderInv` adds that everything handed on was numbered before the
  frame on the air, unless that frame is itself the one completed last, when
  all that can still come of it is a trailing duplicate. `PushKeepsOrder` is the
  step that appends the fragments that fit.
* `HandsOnWhatItHears`: `HeardInv` says where the fragments heard of the frame
  on the air are: in the partial frame, handed on with it, or mistaken for a
  duplicate.

`StartLineProofs`, of `PeerTable`:

* `TypeCorrect`: `TypeOK` says itself what keeps the array from being left (the
  count below the callback's index while it adds, not below Core 1's while it
  takes out); `HeldInv` adds that the count Core 1 read is never more than there
  are.
* `TableStaysTrue`: `ApartInv` has, while the two have not met, distinct records
  of one boat each, and Core 1 at work on the count as it is. Between `ExpireSwap`
  and `ExpireDrop` a boat has two records, of which the last is about to go.
  `FirstFacts` gives the record `First` chooses, by the least element of a
  nonempty set of numbers (`Least`).
* `CallsJustified`: the action property, from the same two.

and of `BoatOcs`:

* `OcsTypeCorrect`: inductive as it stands.
* `StartsWhole` (`OneStart`): `NoneAhead` keeps every stored number at or below
  the start announced; `MetInv` says that callback and Core 1 under way together
  are `torn`, and `StoreInv` that otherwise line and time agree but between the
  two stores of an arming.
* `FlagsExplained`: `NowInv` says that where the bow is now is in `seen`, once the
  current start is stored or about to be, and `TickInv` that what a tick has in
  hand is in `seen` too.

`DeliveryProofs`, of `UploadTask`:

* `TaskTypeCorrect`: with the bound on the retry counter, which is counted up only
  below `MaxRetries` or when the backoff is over.
* `NoIdleConnection` (`KeptForFiles`), on any card: `CountInv` keeps the pending
  count at or below what is left, but between the walk and the recount after it,
  so that a window opens only for files there are; `LinkInv` follows the
  connection through the window to the request for its release. A file in `/sf`
  itself counts, so a connection kept for it is within the theorem, and refutes
  `Released` (section 3).

and of `BleRelay`:

* `RelayTypeCorrect`: with `CardInv` (the recorded files are the first `n`, the
  open one the last of them) and `WorkInv` (what walk, host and phone have in hand exists),
  preserved part by part (`CardStep`, `ServerStep`, ... `KeptStep`).
* `RelayLosesNothing` (`NothingLost`), with calls at any time and transfers that
  overtake each other. Everything is said of the entry in work unless its file
  is in `doubt`: that its size stands, that what Core 1 reads and numbers
  belongs to it though the three advance one after the other, and so that the
  phone has chunks of the right file, each in its place. `WholeFile` is the last step:
  a map of as many chunks as the file has, each in its place, is the whole
  file; it counts a set of numbers within `0..(n - 1)`.
* `RelayImplementsArchive`, in the same generality, files in `doubt` being "doubtful": a step of recorder, walk or
  phone starts, appends to, closes or archives one file, or changes nothing
  the abstraction sees (`SameArchive`). A second upload of an archived file, by the
  walk or by the phone, is of the same chunks and so a stutter.

`DeviceClaimProofs`:

* `TypeCorrect`: with `HandInv`, that whoever is about to redeem or to save has
  something in hand, since that is what ends up on the card.
* `StaysClaimed` (`KeptOnCard`): `SpentInv` has every key that is in
  somebody's hand or was saved be a redeemed one, `AloneInv` has at
  most one worker at the file as long as `~met`.
* `MemoryOnCard` (`MemoryAgrees`): `LoadInv` adds that a worker that loads holds
  what the card has.

`OtaUpdateProofs`, each invariant from a strengthening of its own:

* `TypeCorrect`: inductive, proved by places, image and flags.
* `RecordingSpared` from `GateInv`: a check under way with a recording on has
  `since`, since each block asks the recorder.
* `NextBootAgrees` from `CardInv`, with the types of what is known (`KnownOK`):
  a store under way, by scan or phone, meets no other while `~spoilt`, and has put
  its sensor into memory; between stores `/wind_mac.txt` agrees with memory if
  there is a sensor in it, and else `config.txt` does once it is written.

**Only model-checked**: liveness (`Delivered`, `Drained`, `Released`, `Returns`,
`Heals`, `Noticed`, `Flagged`, `Cleared`, `Attempted`, `MeshBack`) is
beyond the prover, as is anything by induction over data or with `ENABLED`. Every
safety property of a run is a theorem, under the run's assumptions or weaker ones.

## 5. Not modelled

Row contents, formats, JSON, HTTP headers and URL handling; sensors, GNSS
parsing, display, telnet; the server beyond its answers; the BLE library's
limits. Of the modelled components these parts are left out:

* `putFileBytes` (`upload.cpp`): a chunk that is written short always ends in
  an abort, which `SessionUpload` has as a failed PUT; the loop itself is
  sequential.
* Midnight, when the time of a GGA meets the date of the RMC before it, and a
  start on the NimBLE task that reads the two while they are written
  (`storage.cpp:82-96`). Only `SessionFolder` names folders; `Recording` numbers
  sessions, and so never opens one twice.
* `activity_id.txt`, which the code treats as it does `boat_id.txt`.
* The geometry of the line and the boat classes (`ocs.cpp`): a bow is before,
  between or beyond the thresholds.
* Console commands that print or set one value (`fleetwatch`, `calibrate`), and
  `bleconnect`, `bledeinit`, `bleinit` and `blescan`, which drive the BLE library by hand.
* The base's byte framer (`rtk_relay.cpp`), which finds frames in the receiver's
  output.
* When the loop watchdog fires; a reset is a step that may fall anywhere.
* A window whose access point is there but whose server is not is never torn
  down while sessions are pending; `WindBack` assumes `~wifi`.
* Two tasks that write the MAC string in memory at the same instant: one of the two
  is taken to win, while the bytes could be mixed; `spoilt` covers it.

Components with status `not_modelled` in `PROJECT.json` say why.

## 6. Plan

The start line, the claim, the wind sensor, the update and the session folders,
planned after the core, are done. What is left, in order:

1. Proofs: a refinement of `SessionArchive` by `SessionUpload`, the third way to see a
   session leave, as far as no marker is taken from a file that stays; and
   shorter proofs where two invariants overlap.
2. `LoopWatchdog`: the hang limit against the long commands of Core 1 and the
   low-battery halt.
3. The base's byte framer: whatever precedes a frame, it is found, or lost to a
   false preamble.
4. `PutBytes`: a PUT that reports success sent the whole file.
