------------------------------ MODULE Recording ------------------------------
(***************************************************************************)
(* One recording session from start to archive, as the contexts that share *)
(* the SD card see it:                                                     *)
(*                                                                         *)
(*   "loop"    Core 1: button and console, row logging, battery guard      *)
(*   "ble"     the NimBLE host task: start-rec and stop-rec commands       *)
(*   "upload"  Core 0: the upload window, which holds sdMutex throughout   *)
(*                                                                         *)
(* The contexts interleave between any two accesses to shared state.       *)
(* recState is tested before sdMutex is taken and set after it is given    *)
(* back; logging is cleared after the files are closed; rows are written   *)
(* without the mutex.  All of that is kept.  A session stands for its nav  *)
(* file; the other CSVs are opened and closed with it.                     *)
(***************************************************************************)
EXTENDS Naturals, FiniteSets

CONSTANTS
  MaxSessions,     \* bound: sessions started over the life of the card
  MaxRows,         \* bound: rows logged into one session
  AutoCleanup      \* config.auto_cleanup_uploads

ASSUME BoundsAssumption  == MaxSessions \in Nat /\ MaxRows \in Nat
ASSUME SwitchAssumption  == AutoCleanup \in BOOLEAN

Contexts == {"loop", "ble", "upload"}
Starters == {"loop", "ble"}  \* the contexts that start and stop recordings
Sessions == 1..MaxSessions
NoFile   == 0
Free     == "free"

VARIABLES
  recState,       \* "IDLE" | "REC"
  logging,        \* the global that gates row logging and the upload window
  triggerUpload,  \* set by stopRecording, consumed by the upload task
  handle,         \* session navFile is open on, or NoFile
  sdMutex,        \* holder, or Free
  pc,             \* where each context is
  created,        \* number of session files ever created
  rows,           \* rows handed to the file of each session
  synced,         \* of those, rows that are on the card
  present,        \* session files in the directory tree
  marked,         \* session files with a .uploaded marker
  visited,        \* files the current directory walk has passed
  sending,        \* [file, size] of the PUT in progress
  archived,       \* rows the server holds of each session
  astray,         \* history: sessions left open by a stop, see StopLogging
  upset           \* history: the last command failed or met another, see InMidWork

recVars  == <<recState, logging, triggerUpload>>
cardVars == <<handle, created, rows, synced, present, marked>>
upVars   == <<visited, sending, archived>>
doubts   == <<astray, upset>>
vars     == <<recVars, sdMutex, pc, cardVars, upVars, doubts>>

NotSending == [file |-> NoFile, size |-> 0]
Goto(c, l) == pc' = [pc EXCEPT ![c] = l]
At(c, l)   == pc[c] = l

(* Not yet uploaded: the file is there and its marker is not. *)
Pending == present \ marked

(* A starter whose command has touched the files and not yet all of the
   variables that go with them. *)
InMidWork(c) == pc[c] \in {"startSet", "stopLog", "stopSet"}

(* A session that went astray is an ordinary one again if its file is closed
   before the upload window has taken it. *)
Recovered == astray \ ({handle} \intersect Pending)

(* Mutant of Closed: the buffered rows are dropped. *)
ClosedUnflushed(h) == synced

(* File::close flushes: what was buffered reaches the card. *)
Closed(h) == IF h = NoFile THEN synced ELSE [synced EXCEPT ![h] = rows[h]]

StarterLabels == {"idle", "startWait", "startOpen", "startSet",
                  "stopWait", "stopClose", "stopLog", "stopSet"}
Labels == [loop |-> StarterLabels \union {"row", "halted"},
           ble  |-> StarterLabels,
           upload |-> {"idle", "connect", "walk", "send"}]
AllLabels == StarterLabels \union {"row", "halted", "connect", "walk", "send"}

Init ==
  /\ recState = "IDLE" /\ logging = FALSE /\ triggerUpload = FALSE
  /\ handle = NoFile /\ sdMutex = Free
  /\ pc = [c \in Contexts |-> "idle"]
  /\ created = 0
  /\ rows = [s \in Sessions |-> 0] /\ synced = [s \in Sessions |-> 0]
  /\ present = {} /\ marked = {}
  /\ visited = {} /\ sending = NotSending
  /\ archived = [s \in Sessions |-> 0]
  /\ astray = {} /\ upset = FALSE

-----------------------------------------------------------------------------
(* startRecording: the state test, the mutex, startLogging, the state.     *)

StartCheck(c) ==
  /\ At(c, "idle") /\ recState = "IDLE"
  /\ created < MaxSessions
  /\ Goto(c, "startWait")
  /\ UNCHANGED <<doubts, recVars, sdMutex, cardVars, upVars>>

(* Mutant of StartTake: the files are opened without waiting for the mutex. *)
StartTakeUnlocked(c) ==
  /\ At(c, "startWait") /\ created < MaxSessions
  /\ Goto(c, "startOpen")
  /\ UNCHANGED <<doubts, recVars, sdMutex, cardVars, upVars>>

StartTake(c) ==
  /\ At(c, "startWait") /\ sdMutex = Free
  /\ created < MaxSessions
  /\ sdMutex' = c /\ Goto(c, "startOpen")
  /\ UNCHANGED <<doubts, recVars, cardVars, upVars>>

(* "SD busy, try again": false is returned and nothing has changed. *)
StartTimeout(c) ==
  /\ At(c, "startWait") /\ sdMutex # Free
  /\ Goto(c, "idle")
  /\ UNCHANGED <<doubts, recVars, sdMutex, cardVars, upVars>>

(* startLogging reassigns the global File, which closes what it held, and
   raises logging only if the nav file opened.  The mutex is given back. *)
StartOpen(c) ==
  /\ At(c, "startOpen")
  /\ synced' = Closed(handle)
  /\ \/ /\ created < MaxSessions
        /\ created' = created + 1 /\ handle' = created + 1
        /\ present' = present \union {created + 1}
        /\ logging' = TRUE
        /\ upset' = (\E d \in Starters \ {c} : InMidWork(d))
     \/ /\ handle' = NoFile /\ upset' = TRUE
        /\ UNCHANGED <<created, present, logging>>
  /\ astray' = Recovered
  /\ sdMutex' = Free /\ Goto(c, "startSet")
  /\ UNCHANGED <<recState, triggerUpload, rows, marked, upVars>>

StartSet(c) ==
  /\ At(c, "startSet")
  /\ recState' = "REC" /\ Goto(c, "idle")
  /\ UNCHANGED <<doubts, logging, triggerUpload, sdMutex, cardVars, upVars>>

-----------------------------------------------------------------------------
(* stopRecording: the state test, the mutex, close, then the three writes. *)

StopCheck(c) ==
  /\ At(c, "idle") /\ recState = "REC"
  /\ Goto(c, "stopWait")
  /\ UNCHANGED <<doubts, recVars, sdMutex, cardVars, upVars>>

StopTake(c) ==
  /\ At(c, "stopWait") /\ sdMutex = Free
  /\ sdMutex' = c /\ Goto(c, "stopClose")
  /\ UNCHANGED <<doubts, recVars, cardVars, upVars>>

(* The else branch only prints; the files stay open. *)
StopTimeout(c) ==
  /\ At(c, "stopWait") /\ sdMutex # Free
  /\ Goto(c, "stopLog") /\ upset' = TRUE
  /\ UNCHANGED <<astray, recVars, sdMutex, cardVars, upVars>>

(* Mutant of StopClose: the files are flushed and left open. *)
StopCloseFlushes(c) ==
  /\ At(c, "stopClose")
  /\ synced' = Closed(handle)
  /\ astray' = Recovered /\ upset' = (\E d \in Starters \ {c} : InMidWork(d))
  /\ sdMutex' = Free /\ Goto(c, "stopLog")
  /\ UNCHANGED <<recVars, handle, created, rows, present, marked, upVars>>

StopClose(c) ==
  /\ At(c, "stopClose")
  /\ synced' = Closed(handle) /\ handle' = NoFile
  /\ astray' = Recovered /\ upset' = (\E d \in Starters \ {c} : InMidWork(d))
  /\ sdMutex' = Free /\ Goto(c, "stopLog")
  /\ UNCHANGED <<recVars, created, rows, present, marked, upVars>>

(* Mutant of StopLogging: logging is not cleared. *)
StopLoggingForgets(c) ==
  /\ At(c, "stopLog") /\ Goto(c, "stopSet")
  /\ UNCHANGED <<doubts, recVars, sdMutex, cardVars, upVars>>

(* If a file is open by now (the stop timed out, or a start came in between)
   it stays open and the upload window may take it: that session is astray. *)
StopLogging(c) ==
  /\ At(c, "stopLog")
  /\ logging' = FALSE /\ Goto(c, "stopSet")
  /\ astray' = astray \union ({handle} \ {NoFile})
  /\ UNCHANGED <<upset, recState, triggerUpload, sdMutex, cardVars, upVars>>

StopSet(c) ==
  /\ At(c, "stopSet")
  /\ recState' = "IDLE" /\ triggerUpload' = TRUE /\ Goto(c, "idle")
  /\ UNCHANGED <<doubts, logging, sdMutex, cardVars, upVars>>

-----------------------------------------------------------------------------
(* Core 1 between commands: rows, the periodic flush, the battery guard.   *)
(* None of these takes sdMutex.                                            *)

LogRowBegin ==
  /\ At("loop", "idle") /\ logging /\ handle # NoFile
  /\ rows[handle] < MaxRows
  /\ Goto("loop", "row")
  /\ UNCHANGED <<doubts, recVars, sdMutex, cardVars, upVars>>

(* printf on the File: a no-op if another context has closed it meanwhile. *)
LogRowEnd ==
  /\ At("loop", "row")
  /\ rows' = IF handle = NoFile \/ rows[handle] = MaxRows THEN rows
             ELSE [rows EXCEPT ![handle] = @ + 1]
  /\ Goto("loop", "idle")
  /\ UNCHANGED <<doubts, recVars, sdMutex, handle, created, synced, present, marked, upVars>>

Flush ==
  /\ At("loop", "idle") /\ logging /\ handle # NoFile
  /\ synced' = [synced EXCEPT ![handle] = rows[handle]]
  /\ UNCHANGED <<doubts, recVars, sdMutex, pc, handle, created, rows, present, marked, upVars>>

(* handleLowBattery closes the files if logging and never returns. *)
LowBattery ==
  /\ At("loop", "idle")
  /\ IF logging
     THEN synced' = Closed(handle) /\ handle' = NoFile
     ELSE UNCHANGED <<synced, handle>>
  /\ logging' = FALSE /\ Goto("loop", "halted")
  /\ UNCHANGED <<doubts, recState, triggerUpload, sdMutex, created, rows, present, marked, upVars>>

-----------------------------------------------------------------------------
(* The upload window of Core 0.  The gate tests logging; connecting to     *)
(* WiFi takes seconds; then the mutex is held for the whole directory walk.*)

UploadGate ==
  /\ At("upload", "idle") /\ ~logging
  /\ triggerUpload \/ Pending # {}
  /\ triggerUpload' = FALSE
  /\ Goto("upload", "connect")
  /\ UNCHANGED <<doubts, recState, logging, sdMutex, cardVars, upVars>>

(* WiFi unreachable, device unclaimed, or sdMutex busy for 5 s. *)
UploadGiveUp ==
  /\ At("upload", "connect")
  /\ Goto("upload", "idle")
  /\ UNCHANGED <<doubts, recVars, sdMutex, cardVars, upVars>>

UploadTake ==
  /\ At("upload", "connect") /\ sdMutex = Free
  /\ sdMutex' = "upload" /\ visited' = {}
  /\ Goto("upload", "walk")
  /\ UNCHANGED <<doubts, recVars, cardVars, sending, archived>>

(* Moving or recording leaves this directory only; the walk goes on with the
   parent's next entry.  The same step stands for the reasons uploadFile has
   to give up before the PUT. *)
UploadSkip(s) ==
  /\ At("upload", "walk") /\ s \in Pending \ visited
  /\ visited' = visited \union {s}
  /\ UNCHANGED <<doubts, recVars, sdMutex, pc, cardVars, sending, archived>>

(* Mutant of UploadSend: logging is tested by the gate only. *)
UploadSendUngated(s) ==
  /\ At("upload", "walk") /\ s \in Pending \ visited
  /\ visited' = visited \union {s}
  /\ sending' = [file |-> s, size |-> synced[s]]
  /\ Goto("upload", "send")
  /\ UNCHANGED <<doubts, recVars, sdMutex, cardVars, archived>>

UploadSend(s) ==
  /\ At("upload", "walk") /\ s \in Pending \ visited
  /\ ~logging
  /\ visited' = visited \union {s}
  /\ sending' = [file |-> s, size |-> synced[s]]
  /\ Goto("upload", "send")
  /\ UNCHANGED <<doubts, recVars, sdMutex, cardVars, archived>>

(* 2xx: markUploaded, then cleanupIfAutoDelete, which removes both. *)
UploadSent ==
  /\ At("upload", "send")
  /\ archived' = [archived EXCEPT ![sending.file] = sending.size]
  /\ IF AutoCleanup
     THEN present' = present \ {sending.file} /\ UNCHANGED marked
     ELSE marked' = marked \union {sending.file} /\ UNCHANGED present
  /\ sending' = NotSending /\ Goto("upload", "walk")
  /\ UNCHANGED <<doubts, recVars, sdMutex, handle, created, rows, synced, visited>>

UploadFailed ==
  /\ At("upload", "send")
  /\ sending' = NotSending /\ Goto("upload", "walk")
  /\ UNCHANGED <<doubts, recVars, sdMutex, cardVars, visited, archived>>

UploadEnd ==
  /\ At("upload", "walk") /\ Pending \subseteq visited
  /\ sdMutex' = Free /\ Goto("upload", "idle")
  /\ UNCHANGED <<doubts, recVars, cardVars, upVars>>

-----------------------------------------------------------------------------
(* Power loss, panic or watchdog restart: RAM is gone, buffered rows too.  *)

Reboot ==
  /\ recState' = "IDLE" /\ logging' = FALSE /\ triggerUpload' = FALSE
  /\ handle' = NoFile /\ sdMutex' = Free
  /\ pc' = [c \in Contexts |-> "idle"]
  /\ rows' = synced
  /\ visited' = {} /\ sending' = NotSending
  /\ astray' = Recovered /\ upset' = FALSE
  /\ UNCHANGED <<created, synced, present, marked, archived>>

StarterStep(c) ==
  \/ StartCheck(c) \/ StartTake(c) \/ StartTimeout(c) \/ StartOpen(c) \/ StartSet(c)
  \/ StopCheck(c) \/ StopTake(c) \/ StopTimeout(c) \/ StopClose(c)
  \/ StopLogging(c) \/ StopSet(c)

LoopStep == LogRowBegin \/ LogRowEnd \/ Flush \/ LowBattery

UploadStep ==
  \/ UploadGate \/ UploadGiveUp \/ UploadTake \/ UploadSent \/ UploadFailed \/ UploadEnd
  \/ \E s \in Sessions : UploadSkip(s) \/ UploadSend(s)

Next == (\E c \in Starters : StarterStep(c)) \/ LoopStep \/ UploadStep \/ Reboot

Spec == Init /\ [][Next]_vars

-----------------------------------------------------------------------------
(* Type invariant: the ranges of the globals of recording.cpp and
   storage.cpp, of the card and of each context's position. *)
TypeOK ==
  /\ recState \in {"IDLE", "REC"} /\ logging \in BOOLEAN /\ triggerUpload \in BOOLEAN
  /\ handle \in Sessions \union {NoFile}
  /\ sdMutex \in Contexts \union {Free}
  /\ pc \in [Contexts -> AllLabels]
  /\ \A c \in Contexts : pc[c] \in Labels[c]
  /\ created \in 0..MaxSessions
  /\ rows \in [Sessions -> 0..MaxRows] /\ synced \in [Sessions -> 0..MaxRows]
  /\ present \subseteq Sessions /\ marked \subseteq Sessions /\ visited \subseteq Sessions
  /\ sending \in [file : Sessions \union {NoFile}, size : 0..MaxRows]
  /\ sending.file \in Sessions <=> At("upload", "send")
  /\ archived \in [Sessions -> 0..MaxRows]
  /\ astray \subseteq Sessions /\ upset \in BOOLEAN

(* While Core 0 has a PUT in progress nothing is being recorded, whichever
   contexts start and stop and whoever times out: uploadDirectory tests
   logging once per file, under the mutex startLogging also needs. *)
SendExcludesLogging == At("upload", "send") => ~logging

(* docs/firmware-architecture.md: "the upload task only ever touches files
   after logging has already closed them, never the actively-written session".
   It holds of every session a stop did not leave open, however many contexts
   start and stop, whoever gives up on the mutex and whichever open fails. *)
UploadNeverOpen ==
  At("upload", "send") => handle # sending.file \/ handle \in astray

(* A session that has left the pending set (marked, or marked and deleted)
   is on the server with every row that was ever logged into it and not lost
   to a power cut: no row arrives after markUploaded.  The only sessions this
   cannot be said of are those the window took while a stop had left them open. *)
ArchivedIsComplete ==
  \A s \in (1..created) \ (Pending \union astray) : archived[s] = rows[s]

Quiet == \A c \in Starters : pc[c] \in {"idle", "row"}

(* One start or stop that does its work and meets no other command in mid-work
   brings the three views of "recording" together, whatever state failed and
   racing commands had left them in: the state the display and the button go
   by, the flag that gates rows and uploads, and the open file. *)
ViewsAgree ==
  Quiet /\ ~upset
    => /\ (recState = "REC") = logging
       /\ logging = (handle # NoFile)

(* recording.h: "Starts a new session (SD-mutex guarded) if not already
   recording."  Two starters that pass the test of startRecording before
   either has the mutex break it; see README.md. *)
StartOnlyWhenIdle ==
  [][created' # created => recState = "IDLE" /\ ~logging]_vars

-----------------------------------------------------------------------------
(* What the recorder promises the rest of the system: SessionArchive.      *)

Phase(s) == IF s > created THEN "none"
            ELSE IF s \in astray THEN "doubtful"
            ELSE IF handle = s THEN "open"
            ELSE IF s \in Pending THEN "closed" ELSE "archived"

Archive == INSTANCE SessionArchive
             WITH Losable <- {"open"},
                  phase <- [s \in Sessions |-> Phase(s)],
                  content <- rows,
                  archive <- [s \in Sessions |-> IF s \in astray THEN 0 ELSE archived[s]]

(* One session open at a time, frozen when closed, archived whole, once; of a
   session a stop left open, only that closing it in time makes it an ordinary
   one again. *)
ImplementsArchive == Archive!Spec
=============================================================================
