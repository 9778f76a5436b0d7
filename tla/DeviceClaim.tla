----------------------------- MODULE DeviceClaim -----------------------------
(***************************************************************************)
(* How the device comes by its key, and keeps it: a claim code is redeemed *)
(* once, by the upload task (config.txt's claim_code, once per boot), by   *)
(* the console's `claim`, or by the phone, which then writes the key to    *)
(* the device's provisioning characteristic; and the key is kept in        *)
(* /device.txt, which is truncated and then written, and read lazily by    *)
(* whoever asks first, with nothing that keeps the three contexts apart.   *)
(*                                                                         *)
(* A key is named by the code it was issued for.  The server (external)    *)
(* takes each code once.  sdMutex is held by the NimBLE task only while it *)
(* saves, and a wait for it that fails is one of the faults.               *)
(***************************************************************************)
EXTENDS Naturals

CONSTANTS
  MaxCodes,  \* bound: claim codes issued
  MaxFaults  \* bound: how often something goes wrong

ASSUME SizesAssumption == {MaxCodes, MaxFaults} \subseteq Nat

Codes   == 1..MaxCodes
NoKey   == 0
Torn    == MaxCodes + 1
Workers == {"task", "console", "ble"}

VARIABLES
  fresh,    \* codes the server has not redeemed
  cfgCode,  \* claim_code of config.txt, or NoKey
  card,     \* what /device.txt holds: NoKey (no file), Torn, or a key
  key,      \* s_deviceApiKey; s_claimed is key # NoKey
  loaded,   \* s_credsLoaded
  tried,    \* g_claimAttemptedThisBoot
  pc,       \* where each worker is
  code,     \* the code, then the key, each worker has in hand
  read,     \* what a loading worker found on the card
  window, bonded,  \* pairing window open?  the phone's bond
  ph, phCode,      \* the app's claim()
  stored,          \* the key in the app's key store
  faults,
  reported, saved,  \* codes claim() resolved for, keys written to the card
  cut, met          \* has a reset cut a save; have a save and another access met

server  == <<fresh, cfgCode>>
device  == <<card, key, loaded>>
work    == <<pc, code, read>>
pairing == <<window, bonded>>
phone   == <<ph, phCode, stored>>
past    == <<reported, saved, cut, met>>
vars    == <<server, device, tried, work, pairing, phone, faults, past>>

Fault   == faults < MaxFaults /\ faults' = faults + 1
NoFault == UNCHANGED faults

Goto(w, l) == pc' = [pc EXCEPT ![w] = l]
Isclaimed  == key # NoKey

Init ==
  /\ fresh = Codes /\ cfgCode \in {NoKey} \cup Codes
  /\ card = NoKey /\ key = NoKey /\ loaded = FALSE /\ tried = FALSE
  /\ pc = [w \in Workers |-> "idle"]
  /\ code = [w \in Workers |-> NoKey] /\ read = [w \in Workers |-> NoKey]
  /\ window = FALSE /\ bonded = FALSE
  /\ ph = "idle" /\ phCode = NoKey /\ stored = NoKey
  /\ faults = 0
  /\ reported = {} /\ saved = {}
  /\ cut = FALSE /\ met = FALSE

-----------------------------------------------------------------------------
(* /device.txt.                                                            *)

(* Someone else is at the file. *)
Saving(w)   == pc[w] = "write"
Crowded(w)  == \E v \in Workers \ {w} : pc[v] \in {"write", "loadAsk", "loadSave", "loadEnd"}

(* The key a line of the file gives, if one does. *)
Key(c) == IF c = Torn THEN NoKey ELSE c

(* The first to ask loads: the flag is set first, the key when it is read. *)
EnsureLoaded(w, then, loading) ==
  IF loaded
  THEN Goto(w, then) /\ UNCHANGED <<loaded, read, met>>
  ELSE /\ loaded' = TRUE
       /\ read' = [read EXCEPT ![w] = Key(card)]
       /\ met' = (met \/ Crowded(w))
       /\ Goto(w, loading)

After(l) == CASE l = "loadAsk" -> "ask" [] l = "loadSave" -> "open" [] l = "loadEnd" -> "idle"

LoadEnd(w) ==
  /\ pc[w] \in {"loadAsk", "loadSave", "loadEnd"}
  /\ key' = IF read[w] = NoKey THEN key ELSE read[w]
  /\ read' = [read EXCEPT ![w] = NoKey]
  /\ Goto(w, After(pc[w]))
  /\ UNCHANGED <<server, card, loaded, tried, code, pairing, phone, faults, past>>

(* What the phone learns of a provisioning write: that it is over. *)
Answer(w) == ph' = IF w = "ble" /\ ph = "wait" THEN "save" ELSE ph

(* saveDeviceCredentials: FILE_WRITE truncates. *)
SaveOpen(w) ==
  /\ pc[w] = "open"
  /\ card' = Torn /\ met' = (met \/ Crowded(w))
  /\ Goto(w, "write")
  /\ UNCHANGED <<server, key, loaded, tried, code, read, pairing, phone, faults,
                 reported, saved, cut>>

(* Mutant of SaveFails: the file is truncated all the same. *)
SaveFailsTorn(w) ==
  /\ pc[w] = "open" /\ Fault
  /\ card' = Torn
  /\ Goto(w, "idle") /\ Answer(w)
  /\ code' = [code EXCEPT ![w] = NoKey]
  /\ UNCHANGED <<server, key, loaded, tried, read, pairing, phCode, stored, reported, saved,
                 cut, met>>

(* The card will not open the file: nothing is changed, the key is gone. *)
SaveFails(w) ==
  /\ pc[w] = "open" /\ Fault
  /\ Goto(w, "idle") /\ Answer(w)
  /\ code' = [code EXCEPT ![w] = NoKey]
  /\ UNCHANGED <<server, device, tried, read, pairing, phCode, stored, reported, saved, cut, met>>

(* Mutant of SaveWrite: the key in memory is left to the next boot. *)
SaveWriteCardOnly(w) ==
  /\ pc[w] = "write"
  /\ card' \in {code[w]} \cup (IF \E v \in Workers \ {w} : Saving(v) THEN {Torn} ELSE {})
  /\ saved' = saved \cup {code[w]}
  /\ Goto(w, "idle") /\ Answer(w)
  /\ code' = [code EXCEPT ![w] = NoKey]
  /\ UNCHANGED <<server, key, loaded, tried, read, pairing, phCode, stored, faults,
                 reported, cut, met>>

(* The key written and closed, and taken over into memory.  Two that write at
   once leave either's line or a mixture. *)
SaveWrite(w) ==
  /\ pc[w] = "write"
  /\ card' \in {code[w]} \cup (IF \E v \in Workers \ {w} : Saving(v) THEN {Torn} ELSE {})
  /\ key' = code[w]
  /\ saved' = saved \cup {code[w]}
  /\ Goto(w, "idle") /\ Answer(w)
  /\ code' = [code EXCEPT ![w] = NoKey]
  /\ UNCHANGED <<server, loaded, tried, read, pairing, phCode, stored, faults,
                 reported, cut, met>>

-----------------------------------------------------------------------------
(* The device redeems a code itself.                                       *)

(* A WiFi window of the upload task: attemptClaimIfNeeded. *)
TaskBegins ==
  /\ pc["task"] = "idle" /\ ~tried /\ ~(loaded /\ Isclaimed)
  /\ EnsureLoaded("task", "ask", "loadAsk")
  /\ UNCHANGED <<server, card, key, tried, code, pairing, phone, faults,
                 reported, saved, cut>>

(* Mutant of TaskAsks: the flag is set before it is tested. *)
TaskAsksTooLate ==
  /\ pc["task"] = "ask"
  /\ tried' = (tried \/ ~Isclaimed)
  /\ Goto("task", "idle")
  /\ UNCHANGED <<server, device, code, read, pairing, phone, faults, past>>

TaskAsks ==
  /\ pc["task"] = "ask"
  /\ tried' = (tried \/ ~Isclaimed)
  /\ IF Isclaimed \/ cfgCode = NoKey
     THEN Goto("task", "idle") /\ UNCHANGED code
     ELSE Goto("task", "redeem") /\ code' = [code EXCEPT !["task"] = cfgCode]
  /\ UNCHANGED <<server, device, read, pairing, phone, faults, past>>

(* claim <CODE> at the prompt. *)
ConsoleClaim(c) ==
  /\ pc["console"] = "idle"
  /\ code' = [code EXCEPT !["console"] = c]
  /\ EnsureLoaded("console", "ask", "loadAsk")
  /\ UNCHANGED <<server, card, key, tried, pairing, phone, faults,
                 reported, saved, cut>>

ConsoleAsks ==
  /\ pc["console"] = "ask"
  /\ IF Isclaimed
     THEN Goto("console", "idle") /\ code' = [code EXCEPT !["console"] = NoKey]
     ELSE Goto("console", "redeem") /\ UNCHANGED code
  /\ UNCHANGED <<server, device, tried, read, pairing, phone, faults, past>>

(* claimDevice: 200 with the key; 404, 409, 429; no connection; or 200 and the
   answer lost or unreadable.  Only the first goes on to save. *)
Redeem(w) ==
  /\ pc[w] = "redeem" /\ w # "ble"
  /\ \/ /\ code[w] \in fresh /\ NoFault
        /\ fresh' = fresh \ {code[w]}
        /\ Goto(w, "open") /\ UNCHANGED code
     \/ /\ code[w] \notin fresh /\ NoFault /\ UNCHANGED fresh
        /\ Goto(w, "idle") /\ code' = [code EXCEPT ![w] = NoKey]
     \/ /\ Fault /\ fresh' \in {fresh, fresh \ {code[w]}}
        /\ Goto(w, "idle") /\ code' = [code EXCEPT ![w] = NoKey]
  /\ UNCHANGED <<cfgCode, device, tried, read, pairing, phone, past>>

-----------------------------------------------------------------------------
(* The phone: claim() of client.ts, and the device's answer to its write.  *)

PhoneClaims(c) ==
  /\ ph = "idle"
  /\ ph' = "redeem" /\ phCode' = c
  /\ UNCHANGED <<server, device, tried, work, pairing, stored, faults, past>>

(* confirmClaim. *)
PhoneRedeems ==
  /\ ph = "redeem"
  /\ \/ phCode \in fresh /\ NoFault /\ fresh' = fresh \ {phCode} /\ ph' = "write"
     \/ phCode \notin fresh /\ NoFault /\ ph' = "idle" /\ UNCHANGED fresh
     \/ Fault /\ fresh' \in {fresh, fresh \ {phCode}} /\ ph' = "idle"
  /\ UNCHANGED <<cfgCode, device, tried, work, pairing, phCode, stored, past>>

(* ProvisioningCallbacks::onWrite, with the mutex; persistDeviceApiKey loads
   first so as not to clobber a known device_id. *)
Provision ==
  /\ ph = "write" /\ pc["ble"] = "idle" /\ (bonded \/ window)
  /\ ph' = "wait" /\ bonded' = TRUE
  /\ code' = [code EXCEPT !["ble"] = phCode]
  /\ EnsureLoaded("ble", "open", "loadSave")
  /\ UNCHANGED <<server, card, key, tried, window, phCode, stored, faults,
                 reported, saved, cut>>

(* Outside the pairing window without a bond, or with the card busy for 500 ms:
   a line on the serial port.  The write itself succeeds. *)
Declines ==
  /\ ph = "write" /\ pc["ble"] = "idle"
  /\ (~bonded /\ ~window /\ NoFault) \/ Fault
  /\ ph' = "save"
  /\ UNCHANGED <<server, device, tried, work, pairing, phCode, stored, reported, saved, cut, met>>

(* The write rejects; what the device is doing it finishes. *)
LinkLost ==
  /\ ph \in {"write", "wait"} /\ Fault
  /\ ph' = "idle"
  /\ UNCHANGED <<server, device, tried, work, pairing, phCode, stored, past>>

(* keyStore.save, after which claim() resolves. *)
PhoneSaves ==
  /\ ph = "save"
  /\ \/ stored' = phCode /\ reported' = reported \cup {phCode} /\ NoFault
     \/ UNCHANGED <<stored, reported>> /\ Fault
  /\ ph' = "idle"
  /\ UNCHANGED <<server, device, tried, work, pairing, phCode, saved, cut, met>>

(* A read of the status characteristic asks isClaimed too. *)
StatusRead ==
  /\ pc["ble"] = "idle" /\ ~loaded
  /\ EnsureLoaded("ble", "idle", "loadEnd")
  /\ UNCHANGED <<server, card, key, tried, code, pairing, phone, faults,
                 reported, saved, cut>>

(* Long press; bleRelayTick on Core 1 after 60 s. *)
LongPress ==
  /\ ~window /\ window' = TRUE
  /\ UNCHANGED <<server, device, tried, work, bonded, phone, faults, past>>

WindowCloses ==
  /\ window /\ window' = FALSE
  /\ UNCHANGED <<server, device, tried, work, bonded, phone, faults, past>>

-----------------------------------------------------------------------------
(* A reset, at which config.txt may have been given another code.          *)

Reset ==
  /\ Fault
  /\ cfgCode' \in {cfgCode} \cup Codes
  /\ key' = NoKey /\ loaded' = FALSE /\ tried' = FALSE
  /\ pc' = [w \in Workers |-> "idle"]
  /\ code' = [w \in Workers |-> NoKey] /\ read' = [w \in Workers |-> NoKey]
  /\ window' = FALSE
  /\ ph' = IF ph \in {"write", "wait"} THEN "idle" ELSE ph
  /\ cut' = (cut \/ \E w \in Workers : Saving(w))
  /\ UNCHANGED <<fresh, card, bonded, phCode, stored, reported, saved, met>>

Step(w) == LoadEnd(w) \/ SaveOpen(w) \/ SaveFails(w) \/ SaveWrite(w) \/ Redeem(w)
Task    == TaskBegins \/ TaskAsks \/ Step("task")
Console == ConsoleAsks \/ Step("console")
Ble     == Step("ble")
Phone   == PhoneRedeems \/ PhoneSaves

Next ==
  \/ Task \/ Console \/ Ble \/ Phone
  \/ \E c \in Codes : ConsoleClaim(c) \/ PhoneClaims(c)
  \/ Provision \/ Declines \/ LinkLost \/ StatusRead
  \/ LongPress \/ WindowCloses \/ Reset

(* The upload task gets its windows, and what has begun goes on. *)
Fairness == WF_vars(Task) /\ WF_vars(Console) /\ WF_vars(Ble)

Spec == Init /\ [][Next]_vars /\ Fairness

-----------------------------------------------------------------------------
(* Type invariant. *)
TypeOK ==
  /\ fresh \subseteq Codes /\ cfgCode \in {NoKey} \cup Codes
  /\ card \in {NoKey, Torn} \cup Codes
  /\ key \in {NoKey} \cup Codes /\ {loaded, tried, window, bonded, cut, met} \subseteq BOOLEAN
  /\ pc \in [Workers -> {"idle", "loadAsk", "loadSave", "loadEnd", "ask", "redeem",
                         "open", "write"}]
  /\ code \in [Workers -> {NoKey} \cup Codes] /\ read \in [Workers -> {NoKey} \cup Codes]
  /\ ph \in {"idle", "redeem", "write", "wait", "save"}
  /\ phCode \in {NoKey} \cup Codes /\ stored \in {NoKey} \cup Codes
  /\ faults \in 0..MaxFaults
  /\ reported \subseteq Codes /\ saved \subseteq Codes

(* Once claimed a device stays claimed, over resets too: with no save under
   way, a card that was given a key has one, and it is a key the server issued.
   The exceptions are a reset in the middle of a save, which leaves the
   truncated file, and two contexts at the file at once. *)
KeptOnCard ==
  ~cut /\ ~met /\ (\A w \in Workers : ~Saving(w)) =>
    card \in (IF saved = {} THEN {NoKey} ELSE saved \ fresh)

(* The key in memory is the one on the card: what authenticates the uploads
   today does so after the next reset. *)
MemoryAgrees ==
  ~cut /\ ~met /\ loaded /\ (\A w \in Workers : pc[w] \in {"idle", "ask", "redeem", "open"})
    => key = card

(* docs/ble-config.md: a write outside the pairing window "is rejected with"
   an error, so that what claim() reports to the app's user has reached the card.
   It is not (Declines), nor is a save that fails (SaveFails): README.md lists it
   with the statements that do not hold, and no run checks it. *)
ReportedReached == reported \subseteq saved

(* A code put into config.txt is used up at the first window after the boot,
   whatever the console, the phone and the status reads do meanwhile, unless
   the device is claimed before or a request is lost. *)
Attempted == cfgCode \in fresh /\ ~tried
               ~> cfgCode \notin fresh \/ Isclaimed \/ faults > 0
=============================================================================
