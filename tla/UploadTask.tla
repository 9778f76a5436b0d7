------------------------------ MODULE UploadTask ------------------------------
(***************************************************************************)
(* When the upload task of Core 0 opens its WiFi window, and how the radio *)
(* is given back: the pending count, the stop-of-recording trigger, the    *)
(* periodic check with its retry counter and backoff, the health-only wake *)
(* and the manual OTA request; and the steps of Core 1's loop that clear a *)
(* lost connection or honour a teardown request.                           *)
(*                                                                         *)
(* Core 1 tests wifiBusy and the other flags first and acts later; Core 0  *)
(* may open a window in between.  Time is counted in ticks since each of   *)
(* the three time stamps was taken, capped at the largest delay compared   *)
(* with it.  What the walk does to single files is in SessionUpload.       *)
(***************************************************************************)
EXTENDS Naturals

CONSTANTS
  CheckInterval,  \* UPLOAD_CHECK_INTERVAL_MS in ticks; the recount's too
  RetryDelay,     \* UPLOAD_RETRY_DELAY_MS in ticks
  BackoffFactor,  \* how many retry delays the backoff lasts (5)
  MaxRetries,     \* MAX_UPLOAD_RETRIES
  MaxSessions,    \* bound: sessions recorded
  MaxTaskFaults,      \* bound: how often something goes wrong
  RootFile        \* is there a file in /sf itself that cannot be uploaded?

ASSUME DelaysAssumption ==
  {CheckInterval, RetryDelay, BackoffFactor, MaxRetries} \subseteq Nat \ {0}
ASSUME BoundsAssumption == {MaxSessions, MaxTaskFaults} \subseteq Nat
ASSUME RootAssumption   == RootFile \in BOOLEAN

VARIABLES
  logging, trigger, uploading, wifiBusy, wifiConnected, teardown,
  otaRequested,   \* otaManualRequested
  health,         \* healthCheckedThisBoot
  pending,        \* pendingUploads, as last counted
  retries,        \* uploadRetryCount
  sinceCheck, sinceCount, sinceAttempt,
  link,           \* is the station associated?
  left,           \* sessions on the card with files still to upload
  recorded,       \* sessions recorded so far
  taskFaults,         \* faults so far
  pc0, pc1        \* positions of the upload task and of Core 1's loop

clock  == <<sinceCheck, sinceCount, sinceAttempt>>
card   == <<logging, left, recorded>>
radio  == <<wifiConnected, link, teardown>>
flags  == <<trigger, uploading, wifiBusy, otaRequested, health>>
counts == <<pending, retries>>
taskVars   == <<clock, card, radio, flags, counts, taskFaults, pc0, pc1>>

Backoff == BackoffFactor * RetryDelay
Cap(n, top) == IF n < top THEN n + 1 ELSE n
TaskFault   == taskFaults < MaxTaskFaults /\ taskFaults' = taskFaults + 1
NoTaskFault == UNCHANGED taskFaults

(* countFilesToUpload sees every directory, /sf itself included. *)
Remaining == left + (IF RootFile THEN 1 ELSE 0)

TaskInit ==
  /\ logging = FALSE /\ trigger = FALSE /\ uploading = FALSE /\ wifiBusy = FALSE
  /\ wifiConnected = FALSE /\ teardown = FALSE /\ link = FALSE
  /\ otaRequested = FALSE /\ health = FALSE
  /\ pending = 0 /\ retries = 0
  /\ sinceCheck = 0 /\ sinceCount = 0 /\ sinceAttempt = 0
  /\ left = 0 /\ recorded = 0 /\ taskFaults = 0
  /\ pc0 = "top" /\ pc1 = "top"

-----------------------------------------------------------------------------
(* Around the task: recordings, the OTA request, the radio, time.          *)

(* startRecording needs the mutex, which a walk holds. *)
StartRecording ==
  /\ ~logging /\ recorded < MaxSessions /\ pc0 # "walk"
  /\ logging' = TRUE /\ recorded' = recorded + 1 /\ left' = left + 1
  /\ UNCHANGED <<clock, radio, flags, counts, taskFaults, pc0, pc1>>

StopRecording ==
  /\ logging /\ pc0 # "walk"
  /\ logging' = FALSE /\ trigger' = TRUE
  /\ UNCHANGED <<clock, left, recorded, radio, uploading, wifiBusy, otaRequested, health,
                 counts, taskFaults, pc0, pc1>>

RequestOta ==
  /\ ~otaRequested /\ TaskFault
  /\ otaRequested' = TRUE
  /\ UNCHANGED <<clock, card, radio, trigger, uploading, wifiBusy, health, counts, pc0, pc1>>

LoseLink ==
  /\ link /\ TaskFault
  /\ link' = FALSE
  /\ UNCHANGED <<clock, card, wifiConnected, teardown, flags, counts, pc0, pc1>>

ClockTick ==
  /\ sinceCheck' = Cap(sinceCheck, CheckInterval)
  /\ sinceCount' = Cap(sinceCount, CheckInterval)
  /\ sinceAttempt' = Cap(sinceAttempt, Backoff)
  /\ clock' # clock
  /\ UNCHANGED <<card, radio, flags, counts, taskFaults, pc0, pc1>>

-----------------------------------------------------------------------------
(* One iteration of uploadTaskFunc: the recount, then the decision.        *)

(* countPendingUploads counts session folders only, and keeps the last value
   while logging or if the mutex is not free within 100 ms. *)
CountPending ==
  IF logging THEN UNCHANGED pending /\ NoTaskFault
  ELSE \/ pending' = left /\ NoTaskFault
       \/ UNCHANGED pending /\ TaskFault

(* Mutant of Recount: the count of the last cycle is never looked at again. *)
RecountSkipped ==
  /\ pc0 = "top" /\ pc0' = "decide"
  /\ UNCHANGED <<clock, card, radio, flags, counts, taskFaults, pc1>>

Recount ==
  /\ pc0 = "top"
  /\ IF sinceCount = CheckInterval
     THEN sinceCount' = 0 /\ CountPending
     ELSE UNCHANGED <<sinceCount, pending, taskFaults>>
  /\ pc0' = "decide"
  /\ UNCHANGED <<sinceCheck, sinceAttempt, card, radio, flags, retries, pc1>>

(* A window begins: time stamp, wifiBusy, and connectWiFi unless connected. *)
Open == /\ sinceAttempt' = 0 /\ wifiBusy' = TRUE
        /\ pc0' = IF wifiConnected THEN "claim" ELSE "connect"

Skip == UNCHANGED <<sinceAttempt, wifiBusy>> /\ pc0' = "top"

Deciding == pc0 = "decide" /\ ~otaRequested
Triggered == trigger /\ ~logging

(* A recording has stopped.  The trigger is consumed even if the task then
   finds that it is backing off. *)
OnTrigger ==
  /\ Deciding /\ Triggered
  /\ trigger' = FALSE
  /\ CountPending
  /\ IF pending' = 0 \/ (retries >= MaxRetries /\ sinceAttempt < RetryDelay)
     THEN Skip /\ UNCHANGED retries
     ELSE Open /\ retries' = 0
  /\ UNCHANGED <<sinceCheck, sinceCount, card, radio, uploading, otaRequested, health, pc1>>

(* Nothing to decide: recording, or a check that is not due, or moving; with
   nothing pending also a health snapshot that was sent, or a boat that has
   stood still for less than 30 s. *)
NotDue ==
  /\ Deciding /\ ~Triggered
  /\ \/ (logging \/ uploading \/ sinceCheck < CheckInterval) /\ NoTaskFault
     \/ pending = 0 /\ NoTaskFault
     \/ pending > 0 /\ TaskFault
  /\ pc0' = "top"
  /\ UNCHANGED <<clock, card, radio, flags, counts, pc1>>

PeriodicDue == Deciding /\ ~Triggered /\ ~logging /\ ~uploading /\ sinceCheck = CheckInterval

OnPeriodic ==
  /\ PeriodicDue /\ pending > 0
  /\ sinceCheck' = 0
  /\ IF \/ retries > 0 /\ sinceAttempt < RetryDelay
        \/ retries >= MaxRetries /\ sinceAttempt < Backoff
     THEN Skip /\ UNCHANGED retries
     ELSE Open /\ retries' = IF retries >= MaxRetries THEN 0 ELSE retries
  /\ UNCHANGED <<sinceCount, card, radio, trigger, uploading, otaRequested, health,
                 pending, taskFaults, pc1>>

(* Caught up, but no health snapshot since boot. *)
OnHealthDue ==
  /\ PeriodicDue /\ pending = 0 /\ ~health
  /\ sinceCheck' = 0 /\ wifiBusy' = TRUE
  /\ pc0' = IF wifiConnected THEN "healthRun" ELSE "healthConnect"
  /\ UNCHANGED <<sinceCount, sinceAttempt, card, radio, trigger, uploading, otaRequested,
                 health, counts, taskFaults, pc1>>

OnOta ==
  /\ pc0 = "decide" /\ otaRequested
  /\ otaRequested' = FALSE /\ wifiBusy' = TRUE
  /\ pc0' = IF wifiConnected THEN "otaRun" ELSE "otaConnect"
  /\ UNCHANGED <<clock, card, radio, trigger, uploading, health, counts, taskFaults, pc1>>

-----------------------------------------------------------------------------
(* The window.                                                             *)

(* connectWiFi.  On success it zeroes lastUploadCheck (the next check is due
   at once) and the retry counter; only the upload window counts a failure. *)
Connected(next) ==
  /\ link' = TRUE /\ wifiConnected' = TRUE
  /\ sinceCheck' = CheckInterval /\ retries' = 0
  /\ pc0' = next /\ NoTaskFault

NotConnected(next) ==
  /\ TaskFault /\ pc0' = next
  /\ UNCHANGED <<link, wifiConnected, sinceCheck>>

ConnectWiFi ==
  /\ pc0 = "connect"
  /\ \/ Connected("claim")
     \/ NotConnected("end") /\ retries' = retries + 1
  /\ UNCHANGED <<sinceCount, sinceAttempt, card, teardown, flags, pending, pc1>>

HealthConnect ==
  /\ pc0 = "healthConnect"
  /\ Connected("healthRun") \/ (NotConnected("end") /\ UNCHANGED retries)
  /\ UNCHANGED <<sinceCount, sinceAttempt, card, teardown, flags, pending, pc1>>

OtaConnect ==
  /\ pc0 = "otaConnect"
  /\ Connected("otaRun") \/ (NotConnected("otaRun") /\ UNCHANGED retries)
  /\ UNCHANGED <<sinceCount, sinceAttempt, card, teardown, flags, pending, pc1>>

(* Not claimed: the cycle is skipped and the radio released. *)
Unclaimed ==
  /\ pc0 = "claim" /\ TaskFault
  /\ teardown' = TRUE /\ pc0' = "end"
  /\ UNCHANGED <<clock, card, wifiConnected, link, flags, counts, pc1>>

(* testApiConnectivity, which the third and later retries leave out. *)
Test ==
  /\ pc0 = "claim"
  /\ \/ /\ (link \/ retries >= 2) /\ NoTaskFault
        /\ uploading' = TRUE /\ pc0' = "walk" /\ UNCHANGED retries
     \/ /\ retries < 2 /\ (TaskFault \/ (~link /\ NoTaskFault))
        /\ retries' = retries + 1 /\ pc0' = "end" /\ UNCHANGED uploading
  /\ UNCHANGED <<clock, card, radio, trigger, wifiBusy, otaRequested, health, pending, pc1>>

(* Under the mutex: every session, or as many as the link, the server and a
   recording begun meanwhile allow; none if the mutex is busy for 5 s.  The
   retry counter is zeroed whatever came of it. *)
UploadWalk ==
  /\ pc0 = "walk"
  /\ \/ link /\ ~logging /\ left' = 0 /\ NoTaskFault
     \/ (~link \/ logging) /\ UNCHANGED left /\ NoTaskFault
     \/ link /\ ~logging /\ left' \in 0..left /\ TaskFault
  /\ uploading' = FALSE /\ retries' = 0 /\ pc0' = "recount"
  /\ UNCHANGED <<clock, logging, recorded, radio, trigger, wifiBusy, otaRequested, health,
                 pending, pc1>>

(* The recount after the cycle.  Without the mutex it assumes 0. *)
AfterWalk ==
  /\ pc0 = "recount"
  /\ \E n \in {Remaining, 0} :
       /\ IF n = Remaining THEN NoTaskFault ELSE TaskFault
       /\ pending' = n
       /\ teardown' = (teardown \/ n = 0)
       /\ health' \in IF n = 0 THEN {health, link \/ health} ELSE {health}
  /\ pc0' = "end"
  /\ UNCHANGED <<clock, card, wifiConnected, link, trigger, uploading, wifiBusy,
                 otaRequested, retries, pc1>>

EndWindow ==
  /\ pc0 = "end"
  /\ wifiBusy' = FALSE /\ pc0' = "top"
  /\ UNCHANGED <<clock, card, radio, trigger, uploading, otaRequested, health, counts,
                 taskFaults, pc1>>

(* Mutant of HealthRun: the radio is released after uploads only. *)
HealthRunKeepsLink ==
  /\ pc0 = "healthRun"
  /\ \/ health' = (health \/ link) /\ NoTaskFault
     \/ UNCHANGED health /\ TaskFault
  /\ pc0' = "end"
  /\ UNCHANGED <<clock, card, radio, trigger, uploading, wifiBusy, otaRequested, counts, pc1>>

(* Health snapshot and OTA check, then the radio is to be released. *)
HealthRun ==
  /\ pc0 = "healthRun"
  /\ \/ health' = (health \/ link) /\ NoTaskFault
     \/ UNCHANGED health /\ TaskFault
  /\ teardown' = TRUE /\ pc0' = "end"
  /\ UNCHANGED <<clock, card, wifiConnected, link, trigger, uploading, wifiBusy,
                 otaRequested, counts, pc1>>

(* Released either way, also if there is nothing to release. *)
OtaRun ==
  /\ pc0 = "otaRun"
  /\ teardown' = TRUE /\ pc0' = "end"
  /\ UNCHANGED <<clock, card, wifiConnected, link, flags, counts, taskFaults, pc1>>

-----------------------------------------------------------------------------
(* Core 1's loop: each of the two blocks tests first and acts later.       *)

LostCheck ==
  /\ pc1 = "top" /\ ~wifiBusy /\ wifiConnected /\ ~link
  /\ pc1' = "lost"
  /\ UNCHANGED <<clock, card, radio, flags, counts, taskFaults, pc0>>

TeardownCheck ==
  /\ pc1 = "top"
  /\ teardown /\ ~uploading /\ ~trigger /\ ~wifiBusy /\ wifiConnected
  /\ pc1' = "teardown"
  /\ UNCHANGED <<clock, card, radio, flags, counts, taskFaults, pc0>>

(* WiFi.disconnect, whatever Core 0 has begun since the check. *)
WiFiDisconnect ==
  /\ pc1 \in {"lost", "teardown"}
  /\ link' = FALSE /\ wifiConnected' = FALSE /\ teardown' = FALSE
  /\ pc1' = "top"
  /\ UNCHANGED <<clock, card, flags, counts, taskFaults, pc0>>

Core0 ==
  \/ Recount \/ OnTrigger \/ NotDue \/ OnPeriodic \/ OnHealthDue \/ OnOta
  \/ ConnectWiFi \/ HealthConnect \/ OtaConnect \/ Unclaimed \/ Test \/ UploadWalk
  \/ AfterWalk \/ EndWindow \/ HealthRun \/ OtaRun

Core1 == LostCheck \/ TeardownCheck \/ WiFiDisconnect

TaskNext ==
  \/ StartRecording \/ StopRecording \/ RequestOta \/ LoseLink \/ ClockTick
  \/ Core0 \/ Core1

(* Both cores keep running, time passes, and a recording is stopped some day.
   The task sleeps 5 s between two iterations, in which the loop passes its
   two checks many times: they are not missed for ever (strong fairness).
   Which outcome a step has is not up to fairness: MaxFaults bounds the bad
   ones. *)
TaskFairness ==
  /\ WF_taskVars(Core0) /\ WF_taskVars(WiFiDisconnect)
  /\ WF_taskVars(ClockTick) /\ WF_taskVars(StopRecording)
  /\ SF_taskVars(LostCheck) /\ SF_taskVars(TeardownCheck)

TaskSpec == TaskInit /\ [][TaskNext]_taskVars /\ TaskFairness

-----------------------------------------------------------------------------
(* Type invariant: flags, counters, ages and positions.  The retry counter is
   bounded although the code increments it without a test: a window is never
   opened with the counter at MaxRetries. *)
TaskTypeOK ==
  /\ {logging, trigger, uploading, wifiBusy, wifiConnected, teardown, otaRequested,
      health, link} \subseteq BOOLEAN
  /\ pending \in 0..(MaxSessions + 1) /\ retries \in 0..MaxRetries
  /\ sinceCheck \in 0..CheckInterval /\ sinceCount \in 0..CheckInterval
  /\ sinceAttempt \in 0..Backoff
  /\ left \in 0..MaxSessions /\ recorded \in 0..MaxSessions /\ taskFaults \in 0..MaxTaskFaults
  /\ pc0 \in {"top", "decide", "connect", "claim", "walk", "recount", "end",
              "healthConnect", "healthRun", "otaConnect", "otaRun"}
  /\ pc1 \in {"top", "lost", "teardown"}

(* upload.cpp: the task releases the radio "either way", after uploads because
   "the iPhone hotspot frees a client slot" by it.  A connection that outlives
   its window is kept for files the recount still sees on the card, or its
   release has been asked for and not been lost: whatever failed in the window,
   and whatever Core 1 took down in the middle of it.  A file in /sf itself,
   which no window can send, counts as one; see README.md. *)
KeptForFiles ==
  wifiConnected /\ pc0 \in {"top", "decide"} /\ ~teardown => Remaining > 0

(* Sessions do not wait for ever: neither the retry counter, the backoff, a
   trigger consumed while backing off, a recount that assumed 0 nor a teardown
   in the middle of a window keeps the task from trying again. *)
Drained == left > 0 ~> left = 0

(* upload.cpp: "Releasing WiFi is also required so the iPhone hotspot frees a
   client slot for any boat that hasn't uploaded yet".  Every connection is
   given up some day. *)
Released == link ~> ~link
=============================================================================
