---------------------------- MODULE SessionFolder ----------------------------
(***************************************************************************)
(* Where a session goes on the card: startLogging names its folder and     *)
(* files by the GPS clock, to the second, or, without a fix, by the number *)
(* in /sf/session.txt and the seconds since boot.  Nothing asks whether    *)
(* the name is taken: an existing file is truncated, its .uploaded marker  *)
(* and the boat_id.txt of its folder stay.  session.txt lies among the     *)
(* sessions, and is uploaded and cleaned away like them.                   *)
(*                                                                         *)
(* A session is its nav CSV; the others are named alike.  A boat is named  *)
(* by the session it was chosen for.  All of startLogging is one step, but *)
(* for a reset while the number is written; Recording has the rest.        *)
(***************************************************************************)
EXTENDS Naturals, FiniteSets

CONSTANTS
  MaxSessions,  \* bound: sessions started
  LastSecond,   \* bound: seconds the model runs
  MaxFaults,    \* bound: resets, and receivers that fall silent
  AutoCleanup,  \* values config.auto_cleanup_uploads has, which the phone may change
  NewCard,      \* may the card come without /sf?
  None          \* no session.txt

ASSUME NamesAssumption ==
  /\ {MaxSessions, MaxFaults} \subseteq Nat /\ LastSecond \in Nat \ {0}
  /\ AutoCleanup \subseteq BOOLEAN /\ NewCard \in BOOLEAN /\ None \notin Nat

Sessions == 1..MaxSessions
NoOne    == 0

(* A nav file: how it is named, the folder's second or number, the file's
   second or uptime. *)
Files   == ({"gps"} \X (0..LastSecond) \X (0..LastSecond))
           \cup ({"num"} \X (1..(MaxSessions + 1)) \X (0..LastSecond))

(* Mutant of Folder: named by the day alone. *)
FolderByDay(f) == IF f[1] = "gps" THEN <<"gps", 0>> ELSE <<f[1], f[2]>>

Folder(f) == <<f[1], f[2]>>
Folders   == {Folder(f) : f \in Files}

VARIABLES
  clock, boot,      \* the second it is, and that of the last boot
  silent,           \* the receiver sends nothing any more
  utc, dated, fix,  \* gps.utc_time; has gps.date a year; gps.valid
  sf,               \* is there /sf
  counter, counted, \* what session.txt holds; has it a marker
  holds,            \* whose data each file has, or NoOne
  marked,           \* files with a .uploaded marker
  tag, tagged,      \* boat_id.txt of each folder, or NoOne; which have a marker
  started, current, \* sessions started; the one being recorded, or NoOne
  opened,           \* second each was started in
  chosen,           \* those with a boat of their own
  got, filed,       \* sessions the server has; the boats it has each under
  faults,
  excuse            \* what names were taken twice for: "second", "silence", "count"

time     == <<clock, boot, faults>>
receiver == <<silent, utc, dated, fix>>
count    == <<sf, counter, counted>>
card     == <<count, holds, marked, tag, tagged>>
session  == <<started, current, opened, chosen>>
server   == <<got, filed>>
vars     == <<time, receiver, card, session, server, excuse>>

Init ==
  /\ clock = 1 /\ boot = 1 /\ faults = 0
  /\ silent = FALSE /\ utc = 0 /\ dated = FALSE /\ fix = FALSE
  /\ sf \in {TRUE, ~NewCard} /\ counter = None /\ counted = FALSE
  /\ holds = [f \in Files |-> NoOne] /\ marked = {}
  /\ tag = [d \in Folders |-> NoOne] /\ tagged = {}
  /\ started = 0 /\ current = NoOne
  /\ opened = [s \in Sessions |-> 0] /\ chosen = {}
  /\ got = {} /\ filed = [s \in Sessions |-> {}]
  /\ excuse = {}

Fault == faults < MaxFaults /\ faults' = faults + 1

-----------------------------------------------------------------------------
(* The clock and the receiver.                                             *)

(* Mutant of Heard: a time that is there is kept. *)
HeardOnce(t, d, v) == utc' = (IF utc = 0 THEN t ELSE utc) /\ dated' = d /\ fix' = v

(* GGA and RMC of a second: the time, the date once the receiver has it, and
   whether there is a fix, without which the time is not used. *)
Heard(t, d, v) == utc' = t /\ dated' = d /\ fix' = v

(* A silent receiver leaves everything as it was heard last, the fix too. *)
Tick ==
  /\ clock < LastSecond /\ clock' = clock + 1
  /\ IF silent THEN UNCHANGED <<utc, dated, fix>>
     ELSE \E d, v \in BOOLEAN : (dated => d) /\ Heard(clock', d, v)
  /\ UNCHANGED <<boot, faults, silent, card, session, server, excuse>>

FallSilent ==
  /\ ~silent /\ Fault /\ silent' = TRUE
  /\ UNCHANGED <<clock, boot, utc, dated, fix, card, session, server, excuse>>

-----------------------------------------------------------------------------
(* startLogging.                                                           *)

(* Mutant of NextNumber: the number in the file is the one to use. *)
NextNumberSame == IF counter = None THEN 1 ELSE counter

(* getNextSessionNumber; an empty file counts as 0. *)
NextNumber == IF counter = None THEN 1 ELSE counter + 1

ByClock == dated /\ fix

Name == IF ByClock THEN <<"gps", utc, utc>> ELSE <<"num", NextNumber, clock - boot>>

(* Why a later session may get the same name. *)
Causes ==
  IF ByClock THEN {c \in {"second", "silence"} :
                     IF c = "silence" THEN silent ELSE \E s \in 1..started : opened[s] = clock}
  ELSE IF sf THEN {} ELSE {"count"}

(* The number is stored before /sf is made.  boat_id.txt is written if a boat
   was chosen. *)
Start(own) ==
  /\ current = NoOne /\ started < MaxSessions
  /\ LET s == started + 1 IN
     /\ started' = s /\ current' = s /\ opened' = [opened EXCEPT ![s] = clock]
     /\ chosen' = IF own THEN chosen \cup {s} ELSE chosen
     /\ holds' = [holds EXCEPT ![Name] = s]
     /\ tag' = IF own THEN [tag EXCEPT ![Folder(Name)] = s] ELSE tag
  /\ counter' = IF ~ByClock /\ sf THEN NextNumber ELSE counter
  /\ sf' = TRUE
  /\ excuse' = excuse \cup Causes
  /\ UNCHANGED <<time, receiver, counted, marked, tagged, server>>

(* stopRecording; or whatever else closes the files. *)
Stop ==
  /\ current # NoOne /\ current' = NoOne
  /\ UNCHANGED <<time, receiver, card, started, opened, chosen, server, excuse>>

Boot ==
  /\ boot' = clock /\ current' = NoOne
  /\ utc' = 0 /\ dated' = FALSE /\ fix' = FALSE
  /\ UNCHANGED <<clock, silent, sf, counted, holds, marked, tag, tagged, started, opened, chosen,
                 server>>

Reset == Fault /\ Boot /\ UNCHANGED <<counter, excuse>>

(* A reset between truncating session.txt and writing it. *)
ResetInCount ==
  /\ current = NoOne /\ ~ByClock /\ sf /\ Fault
  /\ counter' = 0 /\ excuse' = excuse \cup {"count"}
  /\ Boot

-----------------------------------------------------------------------------
(* The upload walk, between recordings, seconds after the last one; and the *)
(* console's cleanup and clearmarkers.                                     *)

Quiet == current = NoOne /\ \A s \in 1..started : opened[s] # clock

(* The CSV, with the boat that the folder says.  A folder with a number has no
   start time, so that the GPS clock must have a date. *)
UploadFile(f, auto) ==
  /\ Quiet /\ holds[f] # NoOne /\ f \notin marked
  /\ f[1] = "gps" \/ dated
  /\ got' = got \cup {holds[f]}
  /\ filed' = [filed EXCEPT ![holds[f]] = @ \cup {tag[Folder(f)]}]
  /\ holds' = IF auto THEN [holds EXCEPT ![f] = NoOne] ELSE holds
  /\ marked' = IF auto THEN marked ELSE marked \cup {f}
  /\ UNCHANGED <<time, receiver, count, tag, tagged, session, excuse>>

(* boat_id.txt is a file like any other. *)
UploadTag(d, auto) ==
  /\ Quiet /\ tag[d] # NoOne /\ d \notin tagged
  /\ d[1] = "gps" \/ dated
  /\ tag' = IF auto THEN [tag EXCEPT ![d] = NoOne] ELSE tag
  /\ tagged' = IF auto THEN tagged ELSE tagged \cup {d}
  /\ UNCHANGED <<time, receiver, count, holds, marked, session, server, excuse>>

(* So is session.txt; empty it is marked without a request. *)
UploadCounter(auto) ==
  /\ Quiet /\ counter # None /\ ~counted
  /\ counter = 0 \/ dated
  /\ counter' = IF auto THEN None ELSE counter
  /\ counted' = ~auto
  /\ excuse' = IF auto THEN excuse \cup {"count"} ELSE excuse
  /\ UNCHANGED <<time, receiver, sf, holds, marked, tag, tagged, session, server>>

(* deleteUploadedFiles, which asks neither whether anything is recorded nor
   whether the file has changed since it was marked. *)
Cleanup ==
  /\ holds' = [f \in Files |-> IF f \in marked THEN NoOne ELSE holds[f]]
  /\ tag' = [d \in Folders |-> IF d \in tagged THEN NoOne ELSE tag[d]]
  /\ counter' = IF counted THEN None ELSE counter
  /\ excuse' = IF counted THEN excuse \cup {"count"} ELSE excuse
  /\ marked' = {} /\ tagged' = {} /\ counted' = FALSE
  /\ UNCHANGED <<time, receiver, sf, session, server>>

ClearMarkers ==
  /\ marked' = {} /\ tagged' = {} /\ counted' = FALSE
  /\ UNCHANGED <<time, receiver, sf, counter, holds, tag, session, server, excuse>>

Next ==
  \/ Tick \/ FallSilent
  \/ \E own \in BOOLEAN : Start(own)
  \/ Stop \/ Reset \/ ResetInCount
  \/ \E auto \in AutoCleanup :
       \/ \E f \in Files : UploadFile(f, auto)
       \/ \E d \in Folders : UploadTag(d, auto)
       \/ UploadCounter(auto)
  \/ Cleanup \/ ClearMarkers

Spec == Init /\ [][Next]_vars

-----------------------------------------------------------------------------
(* Type invariant. *)
TypeOK ==
  /\ {clock, boot, utc} \subseteq 0..LastSecond /\ boot <= clock
  /\ {silent, dated, fix, sf, counted} \subseteq BOOLEAN
  /\ faults \in 0..MaxFaults
  /\ counter \in {None} \cup (0..started)
  /\ holds \in [Files -> 0..started] /\ marked \subseteq Files
  /\ tag \in [Folders -> 0..started] /\ tagged \subseteq Folders
  /\ started \in 0..MaxSessions /\ current \in 0..started
  /\ opened \in [Sessions -> 0..clock] /\ chosen \subseteq Sessions
  /\ got \subseteq Sessions /\ filed \in [Sessions -> SUBSET (0..MaxSessions)]
  /\ excuse \subseteq {"second", "silence", "count"}

(* What may have given a file its name twice. *)
Excused(f) == IF f[1] = "gps" THEN {"second", "silence"} \cap excuse # {} ELSE "count" \in excuse

(* A start never truncates what another session has recorded, over resets,
   lost fixes, cleaning and whatever is in between, except: a second start
   within the same second, a receiver that fell silent with a fix, a number
   that was not kept - because the card had no /sf, because session.txt was
   uploaded and cleaned away, or because a reset caught it empty. *)
NeverTruncated ==
  [][\A f \in Files : holds[f] # NoOne /\ holds'[f] \notin {NoOne, holds[f]} => Excused(f)']_vars

(* A marker means that the server has what is in the file: else it is never
   uploaded, and cleaned away.  The exceptions are the last two of these. *)
MarkedIsSent == \A f \in marked :
  holds[f] \in got \/ IF f[1] = "gps" THEN "silence" \in excuse ELSE "count" \in excuse

(* No session is filed under the boat chosen for another, but for names that
   were taken twice. *)
OwnBoat == excuse = {} => \A s \in Sessions : filed[s] \subseteq {NoOne, s}

(* startLogging on boat_id.txt: "No marker at all means device's defaults". *)
BoatIsOwn == \A s \in Sessions : filed[s] \subseteq {NoOne} \cup ({s} \cap chosen)

(* storage.h: "Every session becomes its own xgsail session server-side", that
   is, one named by the clock is not passed over as sent already. *)
EachOnItsOwn == \A f \in marked : f[1] = "gps" => holds[f] \in got
=============================================================================
