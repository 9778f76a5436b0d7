----------------------------- MODULE OtaUpdate -----------------------------
(***************************************************************************)
(* The firmware update that a WiFi window of the upload task may end with, *)
(* and the manual one that opens a window of its own, together with what   *)
(* else uses the radio (WindLink) and with the recorder, which a restart   *)
(* into a new image must not cut short.  A restart is a reset like any     *)
(* other for the wind sensor, the mesh and the recorder.                   *)
(*                                                                         *)
(* An image is Blocks blocks; it is good when each block is the one the    *)
(* manifest's checksum was computed from.                                  *)
(***************************************************************************)
EXTENDS WindLink

CONSTANTS
  OptIn,  \* config.ota_auto_update
  Blocks  \* blocks of an image

ASSUME OtaAssumption == OptIn \in BOOLEAN /\ Blocks \in Nat \ {0}

(* What of a manifest matters: is its version newer than FW_VERSION, has it a
   checksum. *)
Manifest == [newer : BOOLEAN, hashed : BOOLEAN]
Nothing  == [newer |-> FALSE, hashed |-> FALSE]

VARIABLES
  requested,  \* otaManualRequested
  manual,     \* this window is the manual one
  pcO,        \* where runOtaCheck is
  want,       \* the manifest it works from
  got, bad,   \* blocks read; has one of them been altered
  since       \* has a recording begun since the last block was asked for

download == <<want, got, bad>>
vars     == <<windVars, requested, manual, pcO, download, since>>

OtaInit ==
  /\ Init
  /\ requested = FALSE /\ manual = FALSE
  /\ pcO = "none" /\ want = Nothing /\ got = 0 /\ bad = FALSE /\ since = FALSE

(* No check is under way any more. *)
OtaEnds ==
  /\ pcO' = "none" /\ want' = Nothing /\ got' = 0 /\ bad' = FALSE /\ since' = FALSE
  /\ manual' = FALSE

-----------------------------------------------------------------------------
(* ota-update from the phone: not during a recording. *)
Request ==
  /\ ~logging /\ ~requested /\ Event
  /\ requested' = TRUE
  /\ UNCHANGED <<card, known, flags, ble, calls, near, pcs, net, mesh, rest, spoilt,
                 manual, pcO, download, since>>

(* The task takes it up at its next pass, whatever is recorded by then. *)
ManualWindow ==
  /\ pc0 = "idle" /\ requested
  /\ requested' = FALSE /\ manual' = TRUE
  /\ Open
  /\ UNCHANGED <<card, known, flags, ble, calls, near, net, mesh, rest, events, spoilt,
                 pcO, download, since>>

(* What no step of the check touches. *)
Windlike == UNCHANGED <<card, known, flags, ble, calls, near, wifi, trigger, mesh, rest, spoilt>>

(* Of a manual window whose connection failed only the request to release the
   radio is left. *)
ManualFailed ==
  /\ pc0 = "idle" /\ manual
  /\ manual' = FALSE /\ teardown' = TRUE
  /\ Windlike /\ UNCHANGED <<pcs, events, requested, pcO, download, since>>

(* The check is over, and so is the window: the radio is to be released. *)
OtaOver ==
  /\ OtaEnds /\ teardown' = TRUE /\ Goto0("idle")
  /\ Windlike /\ UNCHANGED requested

OtaGoes(l) ==
  /\ pcO' = l
  /\ Windlike /\ UNCHANGED <<pcs, teardown, requested, manual>>

(* runOtaCheck up to the download: not during a recording, and only for a newer
   build.  The feed (external) publishes what it likes, or cannot be reached. *)
OtaManifest ==
  /\ pc0 = "work" /\ pcO = "none" /\ (manual \/ OptIn)
  /\ \/ ~logging /\ want' \in {m \in Manifest : m.newer}
        /\ OtaGoes("download") /\ UNCHANGED <<got, bad, since, events>>
     \/ OtaOver /\ NoEvent

(* Mutant of OtaBlock: the recorder is only asked when the download begins. *)
OtaBlockUnasked ==
  /\ pcO = "download"
  /\ \/ got < Blocks /\ since' = FALSE /\ got' = got + 1
        /\ (UNCHANGED <<bad, events>> \/ (bad' = TRUE /\ Event))
        /\ OtaGoes("download") /\ UNCHANGED want
     \/ got = Blocks /\ OtaGoes("verify") /\ UNCHANGED <<download, since, events>>
     \/ OtaOver /\ Event

(* A turn of the download loop.  It is left when a recording has begun; with
   everything; with what there is, when the connection is gone; and, the update
   given up, when no data comes for 30 s, after 10 min or when the flash fails. *)
OtaBlock ==
  /\ pcO = "download"
  /\ \/ got < Blocks /\ ~logging /\ since' = FALSE /\ got' = got + 1
        /\ (UNCHANGED <<bad, events>> \/ (bad' = TRUE /\ Event))
        /\ OtaGoes("download") /\ UNCHANGED want
     \/ got < Blocks /\ logging /\ OtaOver /\ NoEvent
     \/ got = Blocks /\ OtaGoes("verify") /\ UNCHANGED <<download, since, events>>
     \/ got < Blocks /\ Event /\ OtaGoes("verify") /\ UNCHANGED <<download, since>>
     \/ OtaOver /\ Event

(* Is what was read what the manifest's checksum says - if it says anything? *)
Verified == want.hashed => got = Blocks /\ ~bad

(* The checksum; then Update.end, after which the new slot is booted next. *)
OtaVerify ==
  /\ pcO = "verify"
  /\ \/ Verified /\ OtaGoes("restart") /\ UNCHANGED <<download, since, events>>
     \/ ~Verified /\ OtaOver /\ NoEvent
     \/ OtaOver /\ Event

(* ESP.restart, and any other reset. *)
Restart ==
  /\ pcO = "restart" /\ UNCHANGED events
  /\ Boot /\ OtaEnds /\ requested' = FALSE

OtherReset ==
  /\ Event
  /\ Boot /\ OtaEnds /\ requested' = FALSE

RecordingBegins ==
  /\ StartLogging /\ since' = (pcO # "none")
  /\ UNCHANGED <<requested, manual, pcO, download>>

-----------------------------------------------------------------------------
(* A window that leaves files over, or that of a device no one has claimed,
   ends without a check. *)
Window ==
  \/ ~requested /\ ~manual /\ Triggered
  \/ PauseScan \/ PauseLink \/ Associate
  \/ pcO = "none" /\ ~manual /\ EndWork

Elsewhere == UNCHANGED <<requested, manual, pcO, download, since>>

Core1  == Loop /\ Elsewhere
Core0  == \/ Window /\ Elsewhere
          \/ ManualWindow \/ ManualFailed
          \/ OtaManifest \/ OtaBlock \/ OtaVerify \/ Restart
Nimble == Writes /\ Elsewhere

Next ==
  \/ Core1 \/ Core0 \/ Nimble
  \/ (Outside \/ Write \/ (Periodic /\ ~requested /\ ~manual)) /\ Elsewhere
  \/ RecordingBegins \/ Request \/ OtherReset

(* The loop, the upload task and the BLE host are scheduled; nothing else is
   owed: no recording need end, no sensor come near. *)
Fairness == WF_vars(Core1) /\ WF_vars(Core0) /\ WF_vars(Nimble)

Spec == OtaInit /\ [][Next]_vars /\ Fairness

-----------------------------------------------------------------------------
(* Type invariant. *)
TypeOK ==
  /\ WindTypeOK
  /\ want \in Manifest /\ got \in 0..Blocks
  /\ {requested, manual, bad, since} \subseteq BOOLEAN
  /\ pcO \in {"none", "download", "verify", "restart"}

(* The next boot finds the wind sensor as it is configured now, over scans,
   failed connections and the phone's writes, step by step, once no store of
   either is under way.  Excused, until the next boot or the next store that
   goes well: a write of the card that failed, a scan and a wind_mac write that
   met - saveWindMAC takes no lock - and a scan with wind disabled. *)
BootAgrees ==
  ~spoilt /\ pcB = "idle" /\ ~ScanStores =>
    enabled = BootEnabled /\ mac \in {None, BootMac}

(* The device is restarted in the middle of a recording only if that began
   after the last block was asked for. *)
SparesRecording == pcO = "restart" /\ logging => since

(* What wind_sensor.h says of checkWindConnection: it reconnects if
   disconnected.  When in the end the sensor is enabled, in range and the one to
   connect to, WiFi stays down and no trigger waits for a recording to end,
   there is a link.  The build violates it: see README. *)
WindBack ==
  <>[](enabled /\ ~wifi /\ ~trigger /\ Target \in near) => []<>(link # None)

(* The mesh comes back after every association. *)
MeshBack == ~radio ~> radio
=============================================================================
