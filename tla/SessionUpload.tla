---------------------------- MODULE SessionUpload ----------------------------
(***************************************************************************)
(* How the files of recorded sessions reach the server over WiFi: the walk *)
(* over the card, the session-uploads protocol for each file (POST, PUT    *)
(* and, after a failed PUT, PATCH), the .uploaded marker, and the cleanup. *)
(*                                                                         *)
(* Two contexts walk the card: "task", the upload task of Core 0, which    *)
(* holds sdMutex for the walk, and "console", Core 1 executing the         *)
(* `upload` command, which does not.  `cleanup` runs on Core 1 too.        *)
(*                                                                         *)
(* A session is a folder with two files, in directory order: boat_id.txt   *)
(* (the override chosen at start) and the nav CSV.  File 2s-1 is the boat  *)
(* tag of session s, file 2s its CSV.  Every session has an override.      *)
(***************************************************************************)
EXTENDS Naturals, FiniteSets, Sequences

CONSTANTS
  NumSessions,     \* bound: sessions ever recorded
  MaxUploads,      \* bound: session_upload records the server ever opens
  MaxFaults,       \* bound: how often something goes wrong
  Faults,          \* what can go wrong (FaultKinds)
  AutoCleanup,     \* config.auto_cleanup_uploads
  ConsoleUploads,  \* is the `upload` command used?
  ConsoleTidies    \* is the `cleanup` command used?

FaultKinds == {"wifi", "moving", "post", "put", "ack", "patch",
               "marker", "remove", "crash"}

ASSUME BoundsAssumption == NumSessions \in Nat /\ MaxUploads \in Nat /\ MaxFaults \in Nat
ASSUME FaultsAssumption == Faults \subseteq FaultKinds
ASSUME SwitchesAssumption == {AutoCleanup, ConsoleUploads, ConsoleTidies} \subseteq BOOLEAN

Workers == {"task", "console"}
Files   == 1..(2 * NumSessions)
NoFile  == 0
Free    == "free"

BoatTag(s) == 2 * s - 1
Csv(s)     == 2 * s
Session(f) == (f + 1) \div 2

VARIABLES
  recorded,   \* sessions recorded so far
  logging,    \* is the latest one still being recorded?
  trigger,    \* triggerUpload
  uploading,  \* the flag both walkers raise and lower
  sdMutex,    \* "task" or Free (starts hold it only within one step here)
  card,       \* files on the card
  empty,      \* of those, the ones of size 0
  marked,     \* files with a .uploaded marker
  st,         \* where each worker is
  cur,        \* the file each worker is at, or NoFile
  walking,    \* workers inside uploadDirectory
  uid,        \* the upload each worker's current file was given, or 0
  mixed,      \* workers whose PUT overlapped another's: one static buffer
  uploads,    \* the server's records, in the order opened
  faults,     \* faults so far
  excuses     \* of those, the ones nothing in the protocol makes up for

recVars    == <<recorded, logging, trigger>>
cardVars   == <<card, empty, marked>>
workVars   == <<uploading, sdMutex, st, cur, walking, uid, mixed>>
luck       == <<faults, excuses>>
vars       == <<recVars, cardVars, workVars, uploads, luck>>

Goto(w, l)  == st' = [st EXCEPT ![w] = l]
At(w, l)    == st[w] = l
MoveTo(w, f) == cur' = [cur EXCEPT ![w] = f]

(* A failed PUT is made up for by the PATCH, a lost one by the next walk.  A
   reset after the answer, a card that will not take or give up a marker, and
   a PATCH that does not arrive are not. *)
Uncompensated == {"crash", "marker", "remove", "patch"}
Fault(k) == /\ k \in Faults /\ faults < MaxFaults
            /\ faults' = faults + 1
            /\ excuses' = IF k \in Uncompensated THEN excuses + 1 ELSE excuses
NoFault  == UNCHANGED luck

Pending == card \ marked

(* The file openNextFile reaches next that has no marker. *)
IsNext(f, w) == /\ f \in Pending /\ f > cur[w]
                /\ \A g \in Pending : g > cur[w] => f <= g

WalkOver(w) == \A g \in Pending : g <= cur[w]

(* The other worker is sending a body as well. *)
Overlaps(w) == \E v \in Workers : v # w /\ At(v, "put")

(* Where uploadFile and the cleanup return to: the walk, or the prompt. *)
Resume(w) == Goto(w, IF w \in walking THEN "walk" ELSE "idle")

Labels == {"idle", "connect", "walk", "post", "put", "patch",
           "mark", "unlink", "unmark"}

Init ==
  /\ recorded = 0 /\ logging = FALSE /\ trigger = FALSE
  /\ uploading = FALSE /\ sdMutex = Free
  /\ card = {} /\ empty = {} /\ marked = {}
  /\ st = [w \in Workers |-> "idle"] /\ cur = [w \in Workers |-> NoFile]
  /\ walking = {} /\ uid = [w \in Workers |-> 0] /\ mixed = {}
  /\ uploads = <<>> /\ faults = 0 /\ excuses = 0

-----------------------------------------------------------------------------
(* Recording, as far as uploads see it (module Recording has the detail):  *)
(* startLogging needs the mutex and writes the markers before the CSVs.    *)

StartRecording ==
  /\ ~logging /\ recorded < NumSessions /\ sdMutex = Free
  /\ recorded' = recorded + 1 /\ logging' = TRUE
  /\ card' = card \union {BoatTag(recorded + 1), Csv(recorded + 1)}
  /\ UNCHANGED <<trigger, empty, marked, workVars, uploads, luck>>

StopRecording ==
  /\ logging
  /\ logging' = FALSE /\ trigger' = TRUE
  /\ UNCHANGED <<recorded, cardVars, workVars, uploads, luck>>

-----------------------------------------------------------------------------
(* Entering and leaving a walk.                                            *)

(* The trigger branch does not look at uploading; the periodic branch does. *)
TaskGate ==
  /\ At("task", "idle") /\ ~logging /\ Pending # {}
  /\ trigger \/ ~uploading
  /\ trigger' = FALSE /\ Goto("task", "connect")
  /\ UNCHANGED <<recorded, logging, cardVars, uploading, sdMutex, cur, walking,
                 uid, mixed, uploads, luck>>

TaskGiveUp ==
  /\ At("task", "connect") /\ Fault("wifi")
  /\ Goto("task", "idle")
  /\ UNCHANGED <<recVars, cardVars, uploading, sdMutex, cur, walking, uid, mixed, uploads>>

TaskStart ==
  /\ At("task", "connect") /\ sdMutex = Free
  /\ uploading' = TRUE /\ sdMutex' = "task"
  /\ walking' = walking \union {"task"} /\ Goto("task", "walk")
  /\ UNCHANGED <<recVars, cardVars, cur, uid, mixed, uploads, luck>>

(* The `upload` command: uploading is raised, the mutex is not taken. *)
ConsoleStart ==
  /\ ConsoleUploads /\ At("console", "idle") /\ Pending # {}
  /\ uploading' = TRUE
  /\ walking' = walking \union {"console"} /\ Goto("console", "walk")
  /\ UNCHANGED <<recVars, cardVars, sdMutex, cur, uid, mixed, uploads, luck>>

(* Mutant of EndWalk: the mutex is not given back. *)
EndWalkKeepsMutex(w) ==
  /\ At(w, "walk") /\ WalkOver(w)
  /\ uploading' = FALSE
  /\ walking' = walking \ {w} /\ MoveTo(w, NoFile) /\ Goto(w, "idle")
  /\ UNCHANGED <<recVars, cardVars, sdMutex, uid, mixed, uploads, luck>>

EndWalk(w) ==
  /\ At(w, "walk") /\ WalkOver(w)
  /\ uploading' = FALSE
  /\ sdMutex' = IF w = "task" THEN Free ELSE sdMutex
  /\ walking' = walking \ {w} /\ MoveTo(w, NoFile) /\ Goto(w, "idle")
  /\ UNCHANGED <<recVars, cardVars, uid, mixed, uploads, luck>>

-----------------------------------------------------------------------------
(* One entry of a directory.                                               *)

(* A file of size 0 counts as uploaded; any other is opened. *)
Visit(w, f) ==
  /\ At(w, "walk") /\ IsNext(f, w) /\ ~logging
  /\ MoveTo(w, f) /\ uid' = [uid EXCEPT ![w] = 0]
  /\ Goto(w, IF f \in empty THEN "mark" ELSE "post")
  /\ UNCHANGED <<recVars, cardVars, uploading, sdMutex, walking, mixed, uploads, luck>>

(* WiFi gone, or no started_at for the file. *)
SkipFile(w, f) ==
  /\ At(w, "walk") /\ IsNext(f, w) /\ ~logging /\ Fault("wifi")
  /\ MoveTo(w, f)
  /\ UNCHANGED <<recVars, cardVars, uploading, sdMutex, st, walking, uid, mixed, uploads>>

(* Moving or recording: the rest of this directory is skipped, no more. *)
LeaveDirectory(w, f) ==
  /\ At(w, "walk") /\ IsNext(f, w)
  /\ (logging /\ NoFault) \/ Fault("moving")
  /\ MoveTo(w, Csv(Session(f)))
  /\ UNCHANGED <<recVars, cardVars, uploading, sdMutex, st, walking, uid, mixed, uploads>>

-----------------------------------------------------------------------------
(* uploadFile: POST session-uploads, PUT the bytes, PATCH a failure.       *)

NewUpload(w) ==
  [file |-> cur[w], tagged |-> BoatTag(Session(cur[w])) \in card,
   status |-> "open", intact |-> FALSE]

(* 201: the override is read back from the folder for the request body. *)
Post(w) ==
  /\ At(w, "post") /\ Len(uploads) < MaxUploads
  /\ uploads' = Append(uploads, NewUpload(w))
  /\ uid' = [uid EXCEPT ![w] = Len(uploads) + 1]
  /\ mixed' = IF Overlaps(w) THEN Workers ELSE mixed \ {w}
  /\ Goto(w, "put")
  /\ UNCHANGED <<recVars, cardVars, uploading, sdMutex, cur, walking, luck>>

(* Refused, or accepted with the answer lost: no PUT follows, no PATCH. *)
PostFails(w) ==
  /\ At(w, "post") /\ Fault("post")
  /\ \/ UNCHANGED uploads
     \/ Len(uploads) < MaxUploads /\ uploads' = Append(uploads, NewUpload(w))
  /\ Resume(w)
  /\ UNCHANGED <<recVars, cardVars, uploading, sdMutex, cur, walking, uid, mixed>>

(* The object is stored whole, unless the shared buffer was overwritten. *)
Stored(w) ==
  \E i \in IF w \in mixed THEN BOOLEAN ELSE {TRUE} :
    uploads' = [uploads EXCEPT ![uid[w]] = [@ EXCEPT !.status = "stored", !.intact = i]]

Put(w) ==
  /\ At(w, "put") /\ Stored(w)
  /\ Goto(w, "mark")
  /\ UNCHANGED <<recVars, cardVars, uploading, sdMutex, cur, walking, uid, mixed, luck>>

(* Mutant of PutFails: the result of putFileBytes is not tested. *)
PutFailsIgnored(w) ==
  /\ At(w, "put") /\ Fault("put")
  /\ Goto(w, "mark")
  /\ UNCHANGED <<recVars, cardVars, uploading, sdMutex, cur, walking, uid, mixed, uploads>>

(* Stall, ceiling, peer closed, card read error, an error status. *)
PutFails(w) ==
  /\ At(w, "put") /\ Fault("put")
  /\ Goto(w, "patch")
  /\ UNCHANGED <<recVars, cardVars, uploading, sdMutex, cur, walking, uid, mixed, uploads>>

(* The store has the bytes but its answer does not arrive within 60 s. *)
PutAckLost(w) ==
  /\ At(w, "put") /\ Fault("ack") /\ Stored(w)
  /\ Goto(w, "patch")
  /\ UNCHANGED <<recVars, cardVars, uploading, sdMutex, cur, walking, uid, mixed>>

(* Mutant of Patch: the failure is not reported. *)
PatchForgotten(w) ==
  /\ At(w, "patch") /\ Resume(w)
  /\ UNCHANGED <<recVars, cardVars, uploading, sdMutex, cur, walking, uid, mixed,
                 uploads, luck>>

(* Mutant of Patch: the latest upload is reported, whoever opened it. *)
PatchLatest(w) ==
  /\ At(w, "patch")
  /\ uploads' = [uploads EXCEPT ![Len(uploads)].status = "failed"]
  /\ Resume(w)
  /\ UNCHANGED <<recVars, cardVars, uploading, sdMutex, cur, walking, uid, mixed, luck>>

Patch(w) ==
  /\ At(w, "patch")
  /\ uploads' = [uploads EXCEPT ![uid[w]].status = "failed"]
  /\ Resume(w)
  /\ UNCHANGED <<recVars, cardVars, uploading, sdMutex, cur, walking, uid, mixed, luck>>

(* The outcome of the PATCH is not looked at. *)
PatchLost(w) ==
  /\ At(w, "patch") /\ Fault("patch")
  /\ Resume(w)
  /\ UNCHANGED <<recVars, cardVars, uploading, sdMutex, cur, walking, uid, mixed, uploads>>

-----------------------------------------------------------------------------
(* markUploaded and cleanupIfAutoDelete: three accesses to the card, each  *)
(* of which may fail, none of which is checked by the caller.              *)

AfterMark(w) == IF AutoCleanup THEN Goto(w, "unlink") ELSE Resume(w)

Mark(w) ==
  /\ At(w, "mark")
  /\ \/ marked' = marked \union {cur[w]} /\ NoFault
     \/ Fault("marker") /\ UNCHANGED marked
  /\ AfterMark(w)
  /\ UNCHANGED <<recVars, card, empty, uploading, sdMutex, cur, walking, uid, mixed, uploads>>

(* The console's `cleanup`: any marked file, then its marker. *)
Tidy(f) ==
  /\ ConsoleTidies /\ At("console", "idle") /\ f \in marked
  /\ MoveTo("console", f) /\ Goto("console", "unlink")
  /\ UNCHANGED <<recVars, cardVars, uploading, sdMutex, walking, uid, mixed, uploads, luck>>

Unlink(w) ==
  /\ At(w, "unlink")
  /\ \/ card' = card \ {cur[w]} /\ NoFault
     \/ Fault("remove") /\ UNCHANGED card
  /\ Goto(w, "unmark")
  /\ UNCHANGED <<recVars, empty, marked, uploading, sdMutex, cur, walking, uid, mixed, uploads>>

(* The marker goes whether or not the file did. *)
Unmark(w) ==
  /\ At(w, "unmark")
  /\ \/ marked' = marked \ {cur[w]} /\ NoFault
     \/ Fault("remove") /\ UNCHANGED marked
  /\ Resume(w)
  /\ cur' = IF w \in walking THEN cur ELSE [cur EXCEPT ![w] = NoFile]
  /\ UNCHANGED <<recVars, card, empty, uploading, sdMutex, walking, uid, mixed, uploads>>

-----------------------------------------------------------------------------
(* A reset between any two steps.  A recording cut off right after SD.open *)
(* leaves an empty CSV.                                                    *)

Reset ==
  /\ Fault("crash")
  /\ logging' = FALSE /\ trigger' = FALSE
  /\ uploading' = FALSE /\ sdMutex' = Free
  /\ empty' \in {empty} \union (IF logging THEN {empty \union {Csv(recorded)}} ELSE {})
  /\ st' = [w \in Workers |-> "idle"] /\ cur' = [w \in Workers |-> NoFile]
  /\ walking' = {} /\ uid' = [w \in Workers |-> 0] /\ mixed' = {}
  /\ UNCHANGED <<recorded, card, marked, uploads>>

FileStep(w) ==
  \/ Post(w) \/ PostFails(w)
  \/ Put(w) \/ PutFails(w) \/ PutAckLost(w)
  \/ Patch(w) \/ PatchLost(w)
  \/ Mark(w) \/ Unlink(w) \/ Unmark(w)

WalkStep(w) ==
  \/ EndWalk(w)
  \/ \E f \in Files : Visit(w, f) \/ SkipFile(w, f) \/ LeaveDirectory(w, f)

TaskStep == TaskGate \/ TaskGiveUp \/ TaskStart

Next ==
  \/ StartRecording \/ StopRecording
  \/ TaskStep \/ ConsoleStart \/ (\E f \in Files : Tidy(f))
  \/ \E w \in Workers : WalkStep(w) \/ FileStep(w)
  \/ Reset

Spec == Init /\ [][Next]_vars

(* Every context keeps running: FreeRTOS schedules both cores, no wait in the
   file protocol is unbounded, and a recording is stopped some day. *)
Fairness ==
  /\ WF_vars(StopRecording) /\ WF_vars(TaskStep)
  /\ \A w \in Workers : WF_vars(WalkStep(w)) /\ WF_vars(FileStep(w))

FairSpec == Spec /\ Fairness

-----------------------------------------------------------------------------
(* Type invariant: the card, the server's records, and the workers. *)
TypeOK ==
  /\ recorded \in 0..NumSessions
  /\ {logging, trigger, uploading} \subseteq BOOLEAN
  /\ sdMutex \in {"task", Free}
  /\ card \subseteq Files /\ empty \subseteq Files /\ marked \subseteq Files
  /\ st \in [Workers -> Labels] /\ cur \in [Workers -> Files \union {NoFile}]
  /\ walking \subseteq Workers /\ mixed \subseteq Workers
  /\ uploads \in Seq([file : Files, tagged : BOOLEAN,
                      status : {"open", "stored", "failed"}, intact : BOOLEAN])
  /\ uid \in [Workers -> 0..Len(uploads)]
  /\ faults \in 0..MaxFaults /\ excuses \in Nat

(* The server has the whole of f under an upload it takes as complete. *)
Safe(f) == \E i \in DOMAIN uploads :
             uploads[i].file = f /\ uploads[i].status = "stored" /\ uploads[i].intact

(* No sailing data is lost: a file that has left the card, or that no walk will
   visit again, is whole on the server, wherever a reset, a refused request, a
   lost answer or a card error fell. *)
NothingLost ==
  \A f \in 1..(2 * recorded) : f \notin Pending => Safe(f) \/ f \in empty

(* The same but for the contents, with both walkers at work: whatever one worker
   reports as failed, a file the other has marked stays accepted. *)
AcceptedBeforeGone ==
  \A f \in 1..(2 * recorded) : f \notin Pending /\ f \notin empty
    => \E i \in DOMAIN uploads : uploads[i].file = f /\ uploads[i].status = "stored"

(* storage.h: boat_id.txt is written "so upload.cpp's uploadFile() can include
   them on the session-uploads POST".  Where uploaded files are removed,
   boat_id.txt, which comes first in its folder, is gone when the CSV is
   posted, and the code does not keep this; see README.md. *)
OverrideHonoured == \A i \in DOMAIN uploads : uploads[i].tagged

(* What it does keep: the boat a session was recorded for is never lost.  When
   a file is posted without it, the session's boat_id.txt is on the server,
   accepted and never again reported as failed, whichever walker sent it and
   whichever of the two cleanups removed it. *)
OverrideRecoverable ==
  \A i \in DOMAIN uploads : ~uploads[i].tagged =>
    \E j \in DOMAIN uploads : /\ uploads[j].file = BoatTag(Session(uploads[i].file))
                              /\ uploads[j].status = "stored"

(* upload.h: the .uploaded sentinel is there "so a session's files upload
   exactly once".  Each further complete copy of a file is owed to a fault of
   its own that the protocol does not make up for; without any there is one. *)
Copies(f) == {i \in DOMAIN uploads :
                uploads[i].file = f /\ uploads[i].status = "stored"}
DuplicatesExplained == \A f \in Files : Cardinality(Copies(f)) <= 1 + excuses

(* console.cpp: "Set uploading flag so Core 0 task doesn't interfere". *)
OneWalk == Cardinality(walking) <= 1

(* Every recorded file gets to the server once things stop going wrong: no
   marker, failure or abandoned walk leaves it behind for good. *)
Delivered ==
  \A f \in Files : f \in card ~> (Safe(f) \/ f \in empty)
=============================================================================
