--------------------------- MODULE OtaUpdateProofs ---------------------------
(***************************************************************************)
(* Proofs about OtaUpdate and the WindLink it extends, for any sensors,    *)
(* any number of writes and events and any image.                          *)
(*                                                                         *)
(* The invariants are proved one by one, each from a strengthening    *)
(* that speaks of its own variables only; the steps that leave those       *)
(* alone are taken together.                                               *)
(***************************************************************************)
EXTENDS OtaUpdate, TLAPS

(* What the wind sensor, the mesh and the windows do, the update left alone. *)
Radio ==
  \/ Pass \/ WindCheck \/ ConsoleScan \/ Scan \/ ScanFindsNothing \/ ScanOpens \/ ScanWrites
  \/ Aim \/ Connect \/ GiveUp \/ Services \/ Finish
  \/ Triggered \/ Periodic \/ PauseScan \/ PauseLink \/ Associate \/ EndWork
  \/ StopLogging \/ OtherWrite \/ Unpair
  \/ PhoneOpens \/ PhoneWrites \/ Enable \/ Remove \/ Drop \/ Flag \/ SaveOpens \/ SaveConfig
  \/ \E s \in Sensors : ScanFinds(s) \/ Pair(s)
  \/ \E n \in SUBSET Sensors : Move(n)

(* The steps of the update that do not reset the device. *)
Check == Request \/ ManualFailed \/ OtaManifest \/ OtaBlock \/ OtaVerify \/ RecordingBegins

LEMMA Actions ==
  ASSUME [Next]_vars
  PROVE  \/ Radio /\ Elsewhere
         \/ Check \/ ManualWindow
         \/ Restart \/ OtherReset \/ UNCHANGED vars
BY DEF Next, Core1, Core0, Nimble, Loop, Window, Outside, Write, Writes, Radio, Check

(* What those leave alone: all of the radio but the task's place. *)
LEMMA Bystanders ==
  ASSUME Check
  PROVE  /\ UNCHANGED <<card, known, flags, ble, calls, near, pc1, pcB, wifi, mesh, spoilt>>
         /\ pc0' \in {pc0, "idle"}
<1> USE DEF card, known, flags, ble, calls, mesh, pcs, Windlike, Goto0
<1>1. CASE Request \/ RecordingBegins
  BY <1>1 DEF Request, RecordingBegins, StartLogging, net
<1>2. CASE ManualFailed
  BY <1>2 DEF ManualFailed
<1>3. ASSUME OtaOver \/ \E l : OtaGoes(l)
      PROVE  /\ UNCHANGED <<card, known, flags, ble, calls, near, pc1, pcB, wifi, mesh, spoilt>>
             /\ pc0' \in {pc0, "idle"}
  BY <1>3 DEF OtaOver, OtaGoes
<1>4. CASE OtaManifest \/ OtaBlock \/ OtaVerify
  <2>1. OtaOver \/ \E l : OtaGoes(l)
    BY <1>4 DEF OtaManifest, OtaBlock, OtaVerify
  <2> QED BY <1>3, <2>1
<1> QED BY <1>1, <1>2, <1>4 DEF Check

-----------------------------------------------------------------------------
(* Types.                                                                  *)

(* The sensor as it is known, and as the card has it. *)
KnownOK ==
  /\ enabled \in BOOLEAN /\ {mac, addr, link, aim, asked} \subseteq Sensors \cup {None}
  /\ file \in Sensors \cup {None, Torn}
  /\ near \subseteq Sensors
  /\ conf \in [mac : Sensors \cup {None}, enabled : BOOLEAN] \cup {Torn}

LEMMA BootKnown ==
  ASSUME KnownOK
  PROVE  BootEnabled \in BOOLEAN /\ BootMac \in Sensors \cup {None}
<1>1. CASE conf = Torn
  BY <1>1 DEF KnownOK, BootEnabled, BootMac
<1>2. CASE conf # Torn
  BY <1>2 DEF KnownOK, BootEnabled, BootMac
<1> QED BY <1>1, <1>2

LEMMA KnownStep == KnownOK /\ [Next]_vars => KnownOK'
<1> SUFFICES ASSUME KnownOK, [Next]_vars PROVE KnownOK'
  OBVIOUS
<1> USE RadioAssumption DEF KnownOK, card, known, ble, calls
<1>1. CASE Pass \/ WindCheck \/ ConsoleScan \/ Scan \/ ScanFindsNothing \/ ScanOpens \/ Finish
  BY <1>1 DEF Pass, WindCheck, ConsoleScan, Scan, ScanFindsNothing, ScanOpens, Finish
<1>2. CASE ScanWrites \/ PhoneOpens \/ PhoneWrites \/ Enable \/ Remove
  BY <1>2 DEF ScanWrites, PhoneOpens, PhoneWrites, Written, Enable, Remove
<1>3. ASSUME NEW s \in Sensors, ScanFinds(s) \/ Pair(s) PROVE KnownOK'
  BY <1>3 DEF ScanFinds, Pair
<1>4. CASE Aim \/ Connect \/ GiveUp \/ Services
  BY <1>4 DEF Aim, Target, Connect, GiveUp, Services
<1>5. CASE Unpair \/ OtherWrite \/ Drop \/ Flag \/ SaveOpens
  BY <1>5 DEF Unpair, OtherWrite, Drop, Flag, SaveOpens
<1>12. CASE SaveConfig
  <2>1. conf' \in [mac : Sensors \cup {None}, enabled : BOOLEAN] \cup {Torn}
    BY <1>12 DEF SaveConfig
  <2> QED BY <1>12, <2>1 DEF SaveConfig
<1>6. ASSUME NEW n \in SUBSET Sensors, Move(n) PROVE KnownOK'
  BY <1>6 DEF Move
<1>7. CASE Triggered \/ Periodic \/ PauseScan \/ Associate \/ EndWork \/ StopLogging
  BY <1>7 DEF Triggered, Periodic, PauseScan, Associate, EndWork, StopLogging
<1>8. CASE PauseLink \/ ManualWindow
  BY <1>8 DEF PauseLink, ManualWindow
<1>9. CASE Check
  BY <1>9, Bystanders
<1>10. CASE Restart \/ OtherReset
  BY <1>10, BootKnown DEF Restart, OtherReset, Boot
<1>11. CASE UNCHANGED vars
  BY <1>11 DEF vars, windVars
<1> QED
  BY Actions, <1>1, <1>2, <1>3, <1>4, <1>5, <1>6, <1>7, <1>8, <1>9, <1>10, <1>11, <1>12
     DEF Radio

LEMMA KnownInit == OtaInit => KnownOK
BY RadioAssumption DEF OtaInit, Init, BootEnabled, BootMac, KnownOK

-----------------------------------------------------------------------------
(* The recorder and the image.                                             *)

(* A recording that runs during a check began after the last block was asked
   for. *)
GateInv == pcO # "none" /\ logging => since

LEMMA GateStep == GateInv /\ [Next]_vars => GateInv'
<1> SUFFICES ASSUME GateInv, [Next]_vars PROVE GateInv'
  OBVIOUS
<1> USE DEF GateInv, download
<1>1. CASE Radio /\ Elsewhere
  <2>1. logging' => logging
    BY <1>1 DEF Radio, Pass, WindCheck, ConsoleScan, Scan, ScanFindsNothing, ScanOpens,
                ScanWrites, Aim, Connect, GiveUp, Services, Finish, Triggered, Periodic,
                PauseScan, PauseLink, Associate, EndWork, StopLogging, OtherWrite, Unpair,
                PhoneOpens, PhoneWrites, Enable, Remove, Drop, Flag, SaveOpens, SaveConfig,
                ScanFinds, Pair, Move, rest
  <2> QED BY <1>1, <2>1 DEF Elsewhere
<1>2. CASE OtaVerify
  BY <1>2 DEF OtaVerify, OtaGoes, OtaOver, OtaEnds, Windlike, rest
<1>3. CASE OtaManifest
  BY <1>3 DEF OtaManifest, OtaGoes, OtaOver, OtaEnds, Windlike, rest
<1>4. CASE OtaBlock
  BY <1>4 DEF OtaBlock, OtaGoes, OtaOver, OtaEnds, Windlike, rest
<1>5. CASE Request \/ ManualFailed \/ ManualWindow
  BY <1>5 DEF Request, ManualFailed, ManualWindow, Windlike, rest
<1>6. CASE RecordingBegins
  BY <1>6 DEF RecordingBegins
<1>7. CASE Restart \/ OtherReset
  BY <1>7 DEF Restart, OtherReset, OtaEnds
<1>8. CASE UNCHANGED vars
  BY <1>8 DEF vars, windVars, rest
<1> QED BY Actions, <1>1, <1>2, <1>3, <1>4, <1>5, <1>6, <1>7, <1>8 DEF Check

(* The device is never restarted into a new image across a recording that was
   under way when a block was read. *)
THEOREM RecordingSpared == Spec => []SparesRecording
<1>1. OtaInit => GateInv
  BY DEF OtaInit, GateInv
<1>2. GateInv => SparesRecording
  BY DEF GateInv, SparesRecording
<1> QED BY <1>1, <1>2, GateStep, PTL DEF Spec

-----------------------------------------------------------------------------
(* What the next boot finds.                                               *)

(* No store is under way that BootAgrees would have to wait for. *)
Resting == ~ScanStores /\ ~PhoneStores

(* /wind_mac.txt decides when there is a sensor in it; else config.txt does,
   once it is written.  A store under way meets no other, and has put its sensor
   into memory. *)
CardInv == ~spoilt =>
  /\ ScanStores => ~PhoneStores /\ enabled = TRUE /\ mac = addr /\ addr \in Sensors
  /\ pcB \in {"macOpen", "macWrite", "enable"} => mac \in {None, asked} /\ asked \in Sensors
  /\ pcB = "enable" => file = asked
  /\ pcB = "remove" => enabled = FALSE /\ mac = None
  /\ Resting /\ file \in Sensors => enabled = TRUE /\ mac \in {None, file}
  /\ pcB = "idle" /\ ~ScanStores /\ file \notin Sensors
       => enabled = BootEnabled /\ mac \in {None, BootMac}

(* Where neither task's store nor memory nor card is touched nothing is lost. *)
LEMMA CardKept ==
  ASSUME CardInv, UNCHANGED <<card, enabled, addr, asked, pcB, spoilt>>,
         mac' \in {mac, None}, ScanStores' = ScanStores, ScanStores => mac' = mac
  PROVE  CardInv'
BY DEF CardInv, card, Resting, PhoneStores, BootEnabled, BootMac

LEMMA CardStep == KnownOK /\ CardInv /\ [Next]_vars => CardInv'
<1> SUFFICES ASSUME KnownOK, CardInv, [Next]_vars PROVE CardInv'
  OBVIOUS
<1> USE RadioAssumption DEF card, known, flags, ble, calls, pcs, net, mesh, Goto1, Goto0, GotoB
<1>1. CASE Pass \/ WindCheck \/ ConsoleScan \/ Scan \/ ScanFindsNothing \/ Aim \/ Connect
           \/ GiveUp \/ Services \/ Finish
  BY <1>1, CardKept DEF Pass, WindCheck, ConsoleScan, Scan, ScanFindsNothing, Aim, Connect,
                        GiveUp, Services, Finish, ScanStores
<1>2. ASSUME NEW s \in Sensors, ScanFinds(s) PROVE CardInv'
  BY <1>2 DEF ScanFinds, CardInv, ScanStores, PhoneStores, Resting
<1>3. CASE ScanOpens
  BY <1>3 DEF ScanOpens, CardInv, ScanStores, PhoneStores, Resting
<1>4. CASE ScanWrites
  <2>1. CASE file' = addr /\ UNCHANGED spoilt
    BY <1>4, <2>1 DEF ScanWrites, CardInv, ScanStores, PhoneStores, Resting
  <2>2. CASE pcB = "macWrite" /\ UNCHANGED spoilt
    BY <1>4, <2>2 DEF ScanWrites, CardInv, ScanStores, PhoneStores
  <2>3. CASE spoilt' = TRUE
    BY <2>3 DEF CardInv
  <2> QED BY <1>4, <2>1, <2>2, <2>3 DEF ScanWrites, Written
<1>5. ASSUME NEW s \in Sensors, Pair(s) PROVE CardInv'
  BY <1>5 DEF Pair, WriteBegins, CardInv, ScanStores, PhoneStores, Resting
<1>6. CASE PhoneOpens
  BY <1>6 DEF PhoneOpens, CardInv, ScanStores, PhoneStores, Resting
<1>7. CASE PhoneWrites
  BY <1>7 DEF PhoneWrites, Written, CardInv, ScanStores, PhoneStores, Resting
<1>8. CASE Enable
  BY <1>8 DEF Enable, CardInv, ScanStores, PhoneStores, Resting
<1>9. CASE Unpair
  BY <1>9 DEF Unpair, WriteBegins, CardInv, ScanStores, PhoneStores, Resting
<1>10. CASE Remove
  BY <1>10 DEF Remove, CardInv, ScanStores, PhoneStores, Resting
<1>11. CASE Drop \/ Flag \/ OtherWrite
  BY <1>11 DEF Drop, Flag, OtherWrite, WriteBegins, CardInv, ScanStores, PhoneStores, Resting
<1>12. CASE SaveOpens
  BY <1>12 DEF SaveOpens, CardInv, ScanStores, PhoneStores, Resting
<1>13. CASE SaveConfig
  <2>1. CASE conf' = [mac |-> mac, enabled |-> enabled]
    <3>1. conf' # Torn /\ conf'.mac = mac /\ conf'.enabled = enabled
      BY <2>1 DEF KnownOK
    <3>2. file' \notin Sensors => BootMac' = mac /\ BootEnabled' = enabled
      BY <1>13, <3>1 DEF SaveConfig, BootEnabled, BootMac, KnownOK
    <3> QED BY <1>13, <3>2 DEF SaveConfig, CardInv, ScanStores, PhoneStores, Resting
  <2>2. CASE spoilt' = TRUE
    BY <2>2 DEF CardInv
  <2> QED BY <1>13, <2>1, <2>2 DEF SaveConfig
<1>14. ASSUME NEW n \in SUBSET Sensors, Move(n) PROVE CardInv'
  BY <1>14, CardKept DEF Move, ScanStores
<1>15. CASE Triggered \/ Periodic \/ ManualWindow
  BY <1>15, CardKept DEF Triggered, Periodic, ManualWindow, Open, ScanStores
<1>16. CASE PauseScan \/ PauseLink \/ Associate \/ EndWork \/ StopLogging
  BY <1>16, CardKept DEF PauseScan, PauseLink, Associate, EndWork, StopLogging, ScanStores
<1>17. CASE Check
  BY <1>17, CardKept, Bystanders DEF ScanStores
<1>18. CASE Restart \/ OtherReset
  <2>1. /\ enabled' = BootEnabled /\ mac' = BootMac /\ UNCHANGED <<file, conf>>
        /\ pcB' = "idle" /\ ~ScanStores'
    BY <1>18 DEF Restart, OtherReset, Boot, ScanStores
  <2>2. file \in Sensors => BootEnabled = TRUE /\ BootMac = file
    BY DEF BootEnabled, BootMac
  <2>3. BootEnabled' = BootEnabled /\ BootMac' = BootMac
    BY <2>1 DEF BootEnabled, BootMac
  <2> QED BY <2>1, <2>2, <2>3 DEF CardInv, PhoneStores
<1>19. CASE UNCHANGED vars
  BY <1>19, CardKept DEF vars, windVars, ScanStores
<1> QED
  BY Actions, <1>1, <1>2, <1>3, <1>4, <1>5, <1>6, <1>7, <1>8, <1>9, <1>10, <1>11, <1>12,
     <1>13, <1>14, <1>15, <1>16, <1>17, <1>18, <1>19 DEF Radio

(* The next boot finds the wind sensor as it is configured, once no store is
   under way, whatever steps of the scan, the phone's writes, failed connections
   and resets came before.  Excused is what spoilt records, until a boot or a
   store that goes well: a write of the card that failed, a scan and a wind_mac
   write that met, a scan with wind disabled. *)
THEOREM NextBootAgrees == Spec => []BootAgrees
<1>1. OtaInit => KnownOK /\ CardInv
  <2> SUFFICES ASSUME OtaInit PROVE CardInv
    BY KnownInit
  <2>1. enabled = BootEnabled /\ mac = BootMac /\ ~ScanStores /\ ~PhoneStores /\ pcB = "idle"
    BY DEF OtaInit, Init, ScanStores, PhoneStores
  <2>2. file \in Sensors => BootEnabled = TRUE /\ BootMac = file
    BY DEF BootEnabled, BootMac
  <2> QED BY <2>1, <2>2 DEF CardInv, PhoneStores
<1>2. KnownOK /\ CardInv => BootAgrees
  <2> SUFFICES ASSUME KnownOK, CardInv, ~spoilt, pcB = "idle", ~ScanStores
               PROVE  enabled = BootEnabled /\ mac \in {None, BootMac}
    BY DEF BootAgrees
  <2>1. CASE file \in Sensors
    BY <2>1 DEF CardInv, Resting, PhoneStores, BootEnabled, BootMac
  <2>2. CASE file \notin Sensors
    BY <2>2 DEF CardInv
  <2> QED BY <2>1, <2>2
<1>3. KnownOK /\ CardInv /\ [Next]_vars => KnownOK' /\ CardInv'
  BY KnownStep, CardStep
<1> QED BY <1>1, <1>2, <1>3, PTL DEF Spec

-----------------------------------------------------------------------------
(* All of the types: besides what is known of the sensor, the places of the
   tasks, the update, and the rest.                                        *)

PlacesOK ==
  /\ pc1 \in {"loop", "wind", "scan", "attempt", "scanning", "macOpen", "macWrite", "found",
              "connecting", "services", "finish"}
  /\ pc0 \in {"idle", "pauseScan", "pauseLink", "associate", "work"}
  /\ pcB \in {"idle", "macOpen", "macWrite", "enable", "remove", "drop", "flag", "save",
              "saving"}
  /\ writes \in 0..MaxWrites /\ events \in 0..MaxEvents

ImageOK ==
  /\ want \in Manifest /\ got \in 0..Blocks /\ {requested, manual, bad, since} \subseteq BOOLEAN
  /\ pcO \in {"none", "download", "verify", "restart"}

FlagsOK ==
  {connected, ok, scanning, prompt, wifi, trigger, teardown, radio, meshOn, logging, spoilt}
    \subseteq BOOLEAN

LEMMA PlacesStep == PlacesOK /\ [Next]_vars => PlacesOK'
<1> SUFFICES ASSUME PlacesOK, [Next]_vars PROVE PlacesOK'
  OBVIOUS
<1> USE RadioAssumption DEF PlacesOK, pcs, rest, Goto1, Goto0, GotoB, Event, NoEvent, WriteBegins
<1>1. CASE Pass \/ WindCheck \/ ConsoleScan \/ Scan \/ ScanFindsNothing \/ ScanOpens
           \/ ScanWrites \/ Finish
  BY <1>1 DEF Pass, MeshTick, WindCheck, ConsoleScan, Scan, ScanFindsNothing, ScanOpens,
              ScanWrites, Written, Finish
<1>2. CASE Aim \/ Connect \/ GiveUp \/ Services
  BY <1>2 DEF Aim, Connect, GiveUp, Services
<1>3. ASSUME NEW s \in Sensors, ScanFinds(s) \/ Pair(s) PROVE PlacesOK'
  BY <1>3 DEF ScanFinds, Pair
<1>4. CASE Unpair \/ OtherWrite \/ PhoneOpens \/ PhoneWrites \/ Enable \/ Remove
  BY <1>4 DEF Unpair, OtherWrite, PhoneOpens, PhoneWrites, Written, Enable, Remove
<1>12. CASE Drop \/ Flag \/ SaveOpens \/ SaveConfig
  BY <1>12 DEF Drop, Flag, SaveOpens, SaveConfig
<1>5. ASSUME NEW n \in SUBSET Sensors, Move(n) PROVE PlacesOK'
  BY <1>5 DEF Move
<1>6. CASE Triggered \/ Periodic \/ ManualWindow
  BY <1>6 DEF Triggered, Periodic, ManualWindow, Open
<1>7. CASE PauseScan \/ PauseLink \/ Associate \/ EndWork \/ StopLogging
  BY <1>7 DEF PauseScan, PauseLink, Associate, EndWork, StopLogging
<1>8. CASE Request \/ ManualFailed \/ RecordingBegins
  BY <1>8 DEF Request, ManualFailed, Windlike, RecordingBegins, StartLogging
<1>9. CASE OtaManifest \/ OtaBlock \/ OtaVerify
  BY <1>9 DEF OtaManifest, OtaBlock, OtaVerify, OtaGoes, OtaOver, Windlike
<1>10. CASE Restart \/ OtherReset
  BY <1>10 DEF Restart, OtherReset, Boot
<1>11. CASE UNCHANGED vars
  BY <1>11 DEF vars, windVars
<1> QED
  BY Actions, <1>1, <1>2, <1>3, <1>4, <1>5, <1>6, <1>7, <1>8, <1>9, <1>10, <1>11, <1>12
     DEF Radio, Check

LEMMA ImageStep == ImageOK /\ [Next]_vars => ImageOK'
<1> SUFFICES ASSUME ImageOK, [Next]_vars PROVE ImageOK'
  OBVIOUS
<1> USE OtaAssumption DEF ImageOK, download
<1>1. CASE Elsewhere
  BY <1>1 DEF Elsewhere
<1>2. CASE Request \/ ManualWindow \/ ManualFailed \/ RecordingBegins
  BY <1>2 DEF Request, ManualWindow, ManualFailed, RecordingBegins
<1>3. CASE OtaOver \/ Restart \/ OtherReset
  <2>1. Nothing \in Manifest
    BY DEF Nothing, Manifest
  <2>2. OtaEnds /\ requested' \in BOOLEAN
    BY <1>3 DEF OtaOver, Restart, OtherReset
  <2>3. want' \in Manifest
    BY <2>1, <2>2 DEF OtaEnds
  <2>4. got' \in 0..Blocks
    BY <2>2 DEF OtaEnds
  <2>5. pcO' = "none" /\ {requested', manual', bad', since'} \subseteq BOOLEAN
    BY <2>2 DEF OtaEnds
  <2> QED BY <2>3, <2>4, <2>5
<1>4. CASE (OtaManifest \/ OtaBlock \/ OtaVerify) /\ ~OtaOver
  <2>1. UNCHANGED <<requested, manual>> /\ pcO' \in {"download", "verify", "restart"}
    BY <1>4 DEF OtaManifest, OtaBlock, OtaVerify, OtaGoes
  <2>2. want' \in Manifest
    BY <1>4 DEF OtaManifest, OtaBlock, OtaVerify
  <2>3. got' \in 0..Blocks
    BY <1>4 DEF OtaManifest, OtaBlock, OtaVerify
  <2>4. {bad', since'} \subseteq BOOLEAN
    BY <1>4 DEF OtaManifest, OtaBlock, OtaVerify
  <2> QED BY <2>1, <2>2, <2>3, <2>4
<1>5. CASE UNCHANGED vars
  BY <1>5 DEF vars
<1> QED BY Actions, <1>1, <1>2, <1>3, <1>4, <1>5 DEF Check

LEMMA FlagsStep == KnownOK /\ FlagsOK /\ [Next]_vars => FlagsOK'
<1> SUFFICES ASSUME KnownOK, FlagsOK, [Next]_vars PROVE FlagsOK'
  OBVIOUS
<1> USE RadioAssumption DEF FlagsOK, card, known, flags, ble, calls, net, mesh, rest
<1>1. CASE Pass \/ WindCheck \/ ConsoleScan \/ Scan \/ ScanFindsNothing \/ ScanOpens
           \/ ScanWrites \/ Finish
  BY <1>1 DEF Pass, Sync, MeshTick, WindCheck, ConsoleScan, Scan, ScanFindsNothing, ScanOpens,
              ScanWrites, Written, Finish
<1>2. CASE Aim \/ Connect \/ GiveUp \/ Services
  BY <1>2 DEF Aim, Connect, GiveUp, Services
<1>3. ASSUME NEW s \in Sensors, ScanFinds(s) \/ Pair(s) PROVE FlagsOK'
  <2>1. spoilt' \in BOOLEAN
    <3>1. CASE ScanFinds(s)
      BY <3>1 DEF ScanFinds, PhoneStores
    <3>2. CASE Pair(s)
      BY <3>2 DEF Pair, ScanStores
    <3> QED BY <1>3, <3>1, <3>2
  <2> QED BY <1>3, <2>1 DEF ScanFinds, Pair
<1>4. CASE OtherWrite \/ PhoneOpens \/ PhoneWrites \/ Enable \/ Remove
  BY <1>4 DEF OtherWrite, PhoneOpens, PhoneWrites, Written, Enable, Remove
<1>13. CASE Unpair
  <2>1. spoilt' \in BOOLEAN
    BY <1>13 DEF Unpair, ScanStores
  <2> QED BY <1>13, <2>1 DEF Unpair
<1>12. CASE Drop \/ Flag \/ SaveOpens \/ SaveConfig
  BY <1>12 DEF Drop, Flag, SaveOpens, SaveConfig
<1>5. ASSUME NEW n \in SUBSET Sensors, Move(n) PROVE FlagsOK'
  BY <1>5 DEF Move
<1>6. CASE Triggered \/ Periodic \/ ManualWindow
  BY <1>6 DEF Triggered, Periodic, ManualWindow, Open
<1>7. CASE PauseScan \/ PauseLink \/ Associate \/ EndWork \/ StopLogging
  BY <1>7 DEF PauseScan, PauseLink, Associate, EndWork, StopLogging
<1>8. CASE Request \/ ManualFailed \/ RecordingBegins
  BY <1>8 DEF Request, ManualFailed, Windlike, RecordingBegins, StartLogging
<1>9. CASE OtaManifest \/ OtaBlock \/ OtaVerify
  BY <1>9 DEF OtaManifest, OtaBlock, OtaVerify, OtaGoes, OtaOver, Windlike
<1>10. CASE Restart \/ OtherReset
  BY <1>10 DEF Restart, OtherReset, Boot
<1>11. CASE UNCHANGED vars
  BY <1>11 DEF vars, windVars
<1> QED
  BY Actions, <1>1, <1>2, <1>3, <1>4, <1>5, <1>6, <1>7, <1>8, <1>9, <1>10, <1>11, <1>12, <1>13
     DEF Radio, Check

(* Types: no event, write or block beyond the bounds, and every task at one of
   its places, over resets too. *)
THEOREM TypeCorrect == Spec => []TypeOK
<1>1. OtaInit => PlacesOK /\ ImageOK /\ FlagsOK
  <2> SUFFICES ASSUME OtaInit PROVE PlacesOK /\ ImageOK /\ FlagsOK
    OBVIOUS
  <2>1. PlacesOK
    BY RadioAssumption DEF OtaInit, Init, PlacesOK
  <2>2. Nothing \in Manifest
    BY DEF Nothing, Manifest
  <2>3. ImageOK
    <3>1. want \in Manifest
      BY <2>2 DEF OtaInit
    <3>2. got \in 0..Blocks
      BY OtaAssumption DEF OtaInit
    <3>3. pcO = "none" /\ {requested, manual, bad, since} \subseteq BOOLEAN
      BY DEF OtaInit
    <3> QED BY <3>1, <3>2, <3>3 DEF ImageOK
  <2>4. FlagsOK
    BY DEF OtaInit, Init, FlagsOK
  <2> QED BY <2>1, <2>3, <2>4
<1>2. KnownOK /\ PlacesOK /\ ImageOK /\ FlagsOK => TypeOK
  BY DEF KnownOK, PlacesOK, ImageOK, FlagsOK, TypeOK, WindTypeOK
<1>3. KnownOK /\ PlacesOK /\ ImageOK /\ FlagsOK /\ [Next]_vars
        => KnownOK' /\ PlacesOK' /\ ImageOK' /\ FlagsOK'
  BY KnownStep, PlacesStep, ImageStep, FlagsStep
<1> QED BY KnownInit, <1>1, <1>2, <1>3, PTL DEF Spec
=============================================================================
