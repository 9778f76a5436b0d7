------------------------------ MODULE WindLink ------------------------------
(***************************************************************************)
(* The one radio of the device and its three users: the BLE link to the    *)
(* wind sensor, which Core 1's loop brings up again whenever it is gone;   *)
(* the WiFi windows of the upload task on Core 0, which stop BLE before    *)
(* they associate; and the ESP-NOW mesh, which an association tears down   *)
(* and the loop's meshTick has to notice.  With it goes the configuration  *)
(* of the sensor: RAM, /wind_mac.txt and config.txt, written by a scan on  *)
(* Core 1 and by the phone's device_config writes on the NimBLE task, each *)
(* store of either a step of its own.                                      *)
(*                                                                         *)
(* connect() blocks: the link comes up, or not, some time after it began,  *)
(* whatever Core 0 has done to BLE meanwhile.  NimBLE 2.4.0, which the     *)
(* build pins, never calls the client's onDisconnect - its signature is    *)
(* that of 1.x - so only forceWindReconnect and a boot take the flags back.*)
(*                                                                         *)
(* Timers have no clock: that the loop tries again only after 30 s is in   *)
(* the interleaving of its steps.  uploading holds only within a window    *)
(* that has wifi, and every test of it stands beside one of wifi or busy.  *)
(***************************************************************************)
EXTENDS Naturals

CONSTANTS
  Sensors,    \* Calypso sensors around, one's own and others'
  Own,        \* the boat's own
  None,       \* no sensor
  Torn,       \* what a file that is being written holds
  MaxWrites,  \* bound: device_config writes
  MaxEvents   \* bound: whatever else the outside does, and what goes wrong

ASSUME RadioAssumption ==
  Own \in Sensors /\ None \notin Sensors
  /\ Torn \notin Sensors \cup {None} \cup [mac : Sensors \cup {None}, enabled : BOOLEAN]
  /\ {MaxWrites, MaxEvents} \subseteq Nat

VARIABLES
  enabled, mac,    \* config.wind_enabled, config.wind_mac
  addr,            \* wind.deviceAddr, what the last scan found
  file, conf,      \* /wind_mac.txt; wind_enabled and wind_mac of config.txt
  near,            \* sensors in range
  link,            \* the sensor the BLE client is linked to
  aim,             \* the sensor a connect() under way is for
  prompt,          \* is the scan the one of windscan
  asked,           \* the wind_mac of the device_config write under way
  connected, ok,   \* wind.connected, windOK
  scanning,        \* NimBLEScan::isScanning
  pc1,             \* where Core 1's loop is
  pc0,             \* where the upload task is; wifiBusy is pc0 # "idle"
  pcB,             \* where a device_config write is
  wifi, trigger, teardown, \* wifiConnected, triggerUpload, wifiTeardownRequested
  radio, meshOn,   \* ESP-NOW is up; g_mesh_enabled
  logging,
  writes, events,
  spoilt    \* since the last boot or good store: a write of the card failed,
            \* a scan and a wind_mac write stored their sensors at the same
            \* time, or a scan paired a sensor while wind was disabled

card  == <<file, conf>>
known == <<enabled, mac, addr>>
flags == <<connected, ok>>
ble   == <<link, scanning>>
calls == <<aim, prompt, asked>>
pcs   == <<pc0, pc1, pcB>>
net   == <<wifi, trigger, teardown>>
mesh  == <<radio, meshOn>>
rest  == <<logging, writes>>
windVars == <<card, known, flags, ble, calls, near, pcs, net, mesh, rest, events, spoilt>>

Event   == events < MaxEvents /\ events' = events + 1
NoEvent == UNCHANGED events

Busy   == pc0 # "idle"
Target == IF mac # None THEN mac ELSE addr

(* saveWindMAC on Core 1; a wind_mac write on the NimBLE task up to its flag. *)
ScanStores == pc1 \in {"macOpen", "macWrite"}
PhoneStores == pcB \in {"macOpen", "macWrite", "enable", "remove"}

(* setup(): config.txt, then /wind_mac.txt, which enables wind by being there
   with a MAC in it; then the first attempt. *)
BootEnabled == file \in Sensors \/ (conf # Torn /\ conf.enabled)
BootMac ==
  IF file \in Sensors THEN file ELSE IF conf = Torn THEN None ELSE conf.mac

(* A card without a sensor, or paired with one's own, which is in range. *)
Init ==
  /\ file \in {None, Own}
  /\ conf = [mac |-> file, enabled |-> file # None]
  /\ enabled = BootEnabled /\ mac = BootMac /\ addr = None
  /\ near = {Own} /\ link = None
  /\ aim = None /\ prompt = FALSE /\ asked = None
  /\ connected = FALSE /\ ok = FALSE /\ scanning = FALSE
  /\ pc0 = "idle" /\ pc1 = (IF enabled THEN "attempt" ELSE "loop") /\ pcB = "idle"
  /\ wifi = FALSE /\ trigger = FALSE /\ teardown = FALSE
  /\ radio = FALSE /\ meshOn = FALSE /\ logging = FALSE
  /\ writes = 0 /\ events = 0 /\ spoilt = FALSE

-----------------------------------------------------------------------------
(* The boat or the sensor moves, or the link just drops: no flag hears of it. *)
Move(n) ==
  /\ Event /\ near' = n
  /\ link' \in {link, None} /\ (link' # None => link' \in n)
  /\ UNCHANGED <<card, known, flags, scanning, calls, pcs, net, mesh, rest, spoilt>>

-----------------------------------------------------------------------------
(* Core 1's loop: the state of WiFi, the mesh, the wind sensor.            *)

Goto1(l) == pc1' = l /\ UNCHANGED <<pc0, pcB>>

(* The access point may be gone; or a teardown was asked for. *)
Sync ==
  \/ wifi /\ ~Busy /\ wifi' = FALSE /\ teardown' = FALSE
  \/ ~(teardown /\ ~trigger /\ ~Busy /\ wifi) /\ UNCHANGED <<wifi, teardown>>

(* Mutant of MeshTick: a failing send is only counted. *)
MeshTickCounts ==
  IF Busy \/ meshOn THEN UNCHANGED <<mesh, events>>
  ELSE radio' = TRUE /\ meshOn' = TRUE /\ NoEvent

(* meshTick: a send fails and the mesh is marked down; or it is set up again,
   which may fail. *)
MeshTick ==
  \/ Busy /\ UNCHANGED <<mesh, events>>
  \/ ~Busy /\ meshOn /\ meshOn' = radio /\ UNCHANGED <<radio, events>>
  \/ ~Busy /\ ~meshOn /\ radio' = TRUE /\ meshOn' = TRUE /\ NoEvent
  \/ ~Busy /\ ~meshOn /\ Event /\ UNCHANGED mesh

(* A pass of the loop up to the wind sensor. *)
Pass ==
  /\ pc1 = "loop" /\ Goto1("wind")
  /\ Sync /\ MeshTick
  /\ UNCHANGED <<card, known, flags, ble, calls, near, trigger, rest, spoilt>>

(* checkWindConnection. *)
WindDue == enabled /\ ~wifi /\ ~trigger /\ ~(connected /\ ok)

WindCheck ==
  /\ pc1 = "wind" /\ Goto1(IF WindDue THEN "attempt" ELSE "loop")
  /\ UNCHANGED <<card, known, flags, ble, calls, near, net, mesh, rest, events, spoilt>>

(* windscan at the prompt, which asks for nothing. *)
ConsoleScan ==
  /\ pc1 = "wind" /\ Event /\ Goto1("scan") /\ prompt' = TRUE
  /\ UNCHANGED <<card, known, flags, ble, aim, asked, near, net, mesh, rest, spoilt>>

(* connectToCalypso, with no address to go to; scanForCalypso.  It may not
   start. *)
Scan ==
  /\ pc1 = "scan" \/ (pc1 = "attempt" /\ Target = None)
  /\ \/ scanning' = TRUE /\ Goto1("scanning") /\ UNCHANGED <<prompt, events>>
     \/ UNCHANGED scanning /\ Event /\ prompt' = FALSE /\ Goto1("loop")
  /\ UNCHANGED <<card, known, flags, link, aim, asked, near, net, mesh, rest, spoilt>>

(* A sensor was found: saveWindMAC makes it the one from now on, in memory
   first. *)
ScanFinds(s) ==
  /\ pc1 = "scanning" /\ s \in near
  /\ addr' = s /\ mac' = s
  /\ spoilt' = (~enabled \/ PhoneStores)
  /\ scanning' = FALSE /\ Goto1("macOpen")
  /\ UNCHANGED <<card, enabled, flags, link, calls, near, net, mesh, rest, events>>

(* None in range, none heard, or stopped by Core 0 before one was. *)
ScanFindsNothing ==
  /\ pc1 = "scanning"
  /\ \/ (near = {} \/ ~scanning) /\ NoEvent
     \/ Event
  /\ scanning' = FALSE /\ prompt' = FALSE /\ Goto1("loop")
  /\ UNCHANGED <<card, known, flags, link, aim, asked, near, net, mesh, rest, spoilt>>

(* saveWindMAC, without sdMutex, opens /wind_mac.txt and so empties it; or it
   cannot, and leaves it at that. *)
ScanOpens ==
  /\ pc1 = "macOpen"
  /\ \/ file' = Torn /\ Goto1("macWrite") /\ UNCHANGED <<events, spoilt>>
     \/ UNCHANGED file /\ Goto1("found") /\ Event /\ spoilt' = TRUE
  /\ UNCHANGED <<conf, known, flags, ble, calls, near, net, mesh, rest>>

(* What a write of m leaves in the file: m; nothing of use, when it fails or
   the other task is writing too. *)
Written(m, alone) ==
  \/ file' = m /\ UNCHANGED <<events, spoilt>>
  \/ file' = Torn /\ ~alone /\ UNCHANGED <<events, spoilt>>
  \/ file' = Torn /\ Event /\ spoilt' = TRUE

ScanWrites ==
  /\ pc1 = "macWrite" /\ Goto1("found")
  /\ Written(addr, pcB # "macWrite")
  /\ UNCHANGED <<conf, known, flags, ble, calls, near, net, mesh, rest>>

(* connectToCalypso picks the sensor and calls connect(): the one of its own
   scan, or, after that of windscan too, the one that is known. *)
Aim ==
  /\ pc1 = "found" \/ (pc1 = "attempt" /\ Target # None)
  /\ aim' = IF pc1 = "found" /\ ~prompt THEN addr ELSE Target
  /\ prompt' = FALSE /\ Goto1("connecting")
  /\ UNCHANGED <<card, known, flags, ble, asked, near, net, mesh, rest, events, spoilt>>

(* connect() is through: onConnect, on the NimBLE task. *)
Connect ==
  /\ pc1 = "connecting" /\ aim \in near /\ link = None
  /\ link' = aim /\ connected' = TRUE /\ aim' = None /\ Goto1("services")
  /\ UNCHANGED <<card, known, ok, scanning, prompt, asked, near, net, mesh, rest, events,
                 spoilt>>

(* It failed - there was a link already, the sensor is out of range, or it just
   did - and takes the MAC in memory with it. *)
GiveUp ==
  /\ pc1 = "connecting"
  /\ IF aim \notin near \/ link # None THEN NoEvent ELSE Event
  /\ mac' = None /\ aim' = None /\ Goto1("loop")
  /\ UNCHANGED <<card, enabled, addr, flags, ble, prompt, asked, near, net, mesh, rest, spoilt>>

(* getService on the fresh link: nothing there, or not a wind sensor. *)
Services ==
  /\ pc1 = "services"
  /\ \/ link # None /\ Goto1("finish") /\ UNCHANGED <<link, events>>
     \/ link = None /\ Goto1("loop") /\ UNCHANGED <<link, events>>
     \/ link # None /\ Event /\ Goto1("loop") /\ link' = None
  /\ UNCHANGED <<card, known, flags, scanning, calls, near, net, mesh, rest, spoilt>>

(* Several exchanges with the sensor later, whatever became of the link. *)
Finish ==
  /\ pc1 = "finish" /\ connected' = TRUE /\ ok' = TRUE /\ Goto1("loop")
  /\ UNCHANGED <<card, known, ble, calls, near, net, mesh, rest, events, spoilt>>

-----------------------------------------------------------------------------
(* The upload task: a window from triggerUpload or its periodic check.     *)

Goto0(l) == pc0' = l /\ UNCHANGED <<pc1, pcB>>

Open == Goto0(IF wifi THEN "work" ELSE "pauseScan")

(* The trigger is taken only while nothing is recorded. *)
Triggered ==
  /\ pc0 = "idle" /\ trigger /\ ~logging
  /\ trigger' = FALSE
  /\ Open \/ UNCHANGED pcs
  /\ UNCHANGED <<card, known, flags, ble, calls, near, wifi, teardown, mesh, rest, events,
                 spoilt>>

Periodic ==
  /\ pc0 = "idle" /\ ~trigger /\ ~logging /\ Event
  /\ Open
  /\ UNCHANGED <<card, known, flags, ble, calls, near, net, mesh, rest, spoilt>>

(* pauseBLEForWiFi, which stops a scan and drops a link but not a connect()
   that is under way. *)
PauseScan ==
  /\ pc0 = "pauseScan" /\ scanning' = FALSE /\ Goto0("pauseLink")
  /\ UNCHANGED <<card, known, flags, link, calls, near, net, mesh, rest, events, spoilt>>

PauseLink ==
  /\ pc0 = "pauseLink" /\ link' = None /\ Goto0("associate")
  /\ UNCHANGED <<card, known, flags, scanning, calls, near, net, mesh, rest, events, spoilt>>

(* The rest of connectWiFi: no known network is there; or WiFi.disconnect(true)
   takes ESP-NOW down, and the association fails or not. *)
Associate ==
  /\ pc0 = "associate"
  /\ \/ Goto0("idle") /\ UNCHANGED <<wifi, radio>>
     \/ radio' = FALSE /\ Goto0("idle") /\ UNCHANGED wifi
     \/ radio' = FALSE /\ wifi' = TRUE /\ Goto0("work")
  /\ UNCHANGED <<card, known, flags, ble, calls, near, trigger, teardown, meshOn, rest, events, spoilt>>

(* Everything is uploaded and the radio is to be released; or it is not. *)
EndWork ==
  /\ pc0 = "work" /\ teardown' \in {teardown, TRUE} /\ Goto0("idle")
  /\ UNCHANGED <<card, known, flags, ble, calls, near, wifi, trigger, mesh, rest, events, spoilt>>

(* The recorder. *)
StartLogging ==
  /\ ~logging /\ Event /\ logging' = TRUE
  /\ UNCHANGED <<card, known, flags, ble, calls, near, pcs, net, mesh, writes, spoilt>>

StopLogging ==
  /\ logging /\ logging' = FALSE /\ trigger' = TRUE
  /\ UNCHANGED <<card, known, flags, ble, calls, near, pcs, wifi, teardown, mesh, writes, events, spoilt>>

-----------------------------------------------------------------------------
(* device_config writes, on the NimBLE task with sdMutex.                  *)

GotoB(l) == pcB' = l /\ UNCHANGED <<pc0, pc1>>

WriteBegins == pcB = "idle" /\ writes < MaxWrites /\ writes' = writes + 1

(* wind_mac with a sensor: saveWindMAC, in memory first. *)
Pair(s) ==
  /\ WriteBegins /\ GotoB("macOpen")
  /\ mac' = s /\ asked' = s /\ spoilt' = ScanStores
  /\ UNCHANGED <<card, enabled, addr, flags, ble, aim, prompt, near, net, mesh, logging, events>>

PhoneOpens ==
  /\ pcB = "macOpen"
  /\ \/ file' = Torn /\ GotoB("macWrite") /\ UNCHANGED <<events, spoilt>>
     \/ UNCHANGED file /\ GotoB("enable") /\ Event /\ spoilt' = TRUE
  /\ UNCHANGED <<conf, known, flags, ble, calls, near, net, mesh, rest>>

PhoneWrites ==
  /\ pcB = "macWrite" /\ GotoB("enable")
  /\ Written(asked, pc1 # "macWrite")
  /\ UNCHANGED <<conf, known, flags, ble, calls, near, net, mesh, rest>>

Enable ==
  /\ pcB = "enable" /\ enabled' = TRUE /\ asked' = None /\ GotoB("drop")
  /\ UNCHANGED <<card, mac, addr, flags, ble, aim, prompt, near, net, mesh, rest, events, spoilt>>

(* wind_mac empty: the sensor is forgotten, first in memory, then - no one asks
   whether it worked - on the card. *)
Unpair ==
  /\ WriteBegins /\ GotoB("remove")
  /\ mac' = None /\ enabled' = FALSE /\ spoilt' = ScanStores
  /\ UNCHANGED <<card, addr, flags, ble, calls, near, net, mesh, logging, events>>

(* Mutant of Remove: /wind_mac.txt stays. *)
RemoveForgotten ==
  /\ pcB = "remove" /\ GotoB("drop")
  /\ UNCHANGED <<card, known, flags, ble, calls, near, net, mesh, rest, events, spoilt>>

Remove ==
  /\ pcB = "remove" /\ GotoB("drop")
  /\ \/ file' = None /\ UNCHANGED <<events, spoilt>>
     \/ UNCHANGED file /\ Event /\ spoilt' = TRUE
  /\ UNCHANGED <<conf, known, flags, ble, calls, near, net, mesh, rest>>

(* forceWindReconnect, its two halves. *)
Drop ==
  /\ pcB = "drop" /\ link' = None /\ GotoB("flag")
  /\ UNCHANGED <<card, known, flags, scanning, calls, near, net, mesh, rest, events, spoilt>>

Flag ==
  /\ pcB = "flag" /\ connected' = FALSE /\ GotoB("save")
  /\ UNCHANGED <<card, known, ok, ble, calls, near, net, mesh, rest, events, spoilt>>

(* The write of any other field. *)
OtherWrite ==
  /\ WriteBegins /\ GotoB("save")
  /\ UNCHANGED <<card, known, flags, ble, calls, near, net, mesh, logging, events, spoilt>>

(* saveConfig opens and truncates config.txt, or leaves it and says no more. *)
SaveOpens ==
  /\ pcB = "save"
  /\ \/ conf' = Torn /\ GotoB("saving") /\ UNCHANGED <<events, spoilt>>
     \/ UNCHANGED conf /\ GotoB("idle") /\ Event /\ spoilt' = TRUE
  /\ UNCHANGED <<file, known, flags, ble, calls, near, net, mesh, rest>>

SaveConfig ==
  /\ pcB = "saving" /\ GotoB("idle")
  /\ \/ conf' = [mac |-> mac, enabled |-> enabled] /\ UNCHANGED <<events, spoilt>>
     \/ UNCHANGED conf /\ Event /\ spoilt' = TRUE
  /\ UNCHANGED <<file, known, flags, ble, calls, near, net, mesh, rest>>

(* What a reset, of whatever kind, leaves: the card. *)
Boot ==
  /\ enabled' = BootEnabled /\ mac' = BootMac /\ addr' = None
  /\ link' = None /\ scanning' = FALSE
  /\ aim' = None /\ prompt' = FALSE /\ asked' = None
  /\ connected' = FALSE /\ ok' = FALSE
  /\ pc0' = "idle" /\ pc1' = (IF BootEnabled THEN "attempt" ELSE "loop") /\ pcB' = "idle"
  /\ wifi' = FALSE /\ trigger' = FALSE /\ teardown' = FALSE
  /\ radio' = FALSE /\ meshOn' = FALSE /\ logging' = FALSE
  /\ spoilt' = FALSE
  /\ UNCHANGED <<card, near, writes>>

-----------------------------------------------------------------------------
Loop == \/ Pass \/ WindCheck \/ Scan \/ ScanFindsNothing \/ ScanOpens \/ ScanWrites
        \/ Aim \/ Connect \/ GiveUp \/ Services \/ Finish
        \/ \E s \in Sensors : ScanFinds(s)

(* A device_config write begins; goes on. *)
Write  == OtherWrite \/ Unpair \/ \E s \in Sensors : Pair(s)
Writes == \/ PhoneOpens \/ PhoneWrites \/ Enable \/ Remove \/ Drop \/ Flag
          \/ SaveOpens \/ SaveConfig

Outside ==
  \/ \E n \in SUBSET Sensors : Move(n)
  \/ ConsoleScan \/ StopLogging

(* The type of the state. *)
WindTypeOK ==
  /\ {enabled, connected, ok, scanning, prompt, wifi, trigger, teardown, radio, meshOn,
      logging, spoilt} \subseteq BOOLEAN
  /\ {mac, addr, link, aim, asked} \subseteq Sensors \cup {None}
  /\ file \in Sensors \cup {None, Torn}
  /\ conf \in [mac : Sensors \cup {None}, enabled : BOOLEAN] \cup {Torn}
  /\ near \subseteq Sensors
  /\ pc1 \in {"loop", "wind", "scan", "attempt", "scanning", "macOpen", "macWrite", "found",
              "connecting", "services", "finish"}
  /\ pc0 \in {"idle", "pauseScan", "pauseLink", "associate", "work"}
  /\ pcB \in {"idle", "macOpen", "macWrite", "enable", "remove", "drop", "flag", "save",
              "saving"}
  /\ writes \in 0..MaxWrites /\ events \in 0..MaxEvents
=============================================================================
