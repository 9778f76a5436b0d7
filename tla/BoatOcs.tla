------------------------------- MODULE BoatOcs -------------------------------
(***************************************************************************)
(* A boat at the start: g_ocs, which the WiFi task's callback arms         *)
(* (MSG_RACE_ARMED) and forces (MSG_INDIVIDUAL_RECALL) while ocsTick on    *)
(* Core 1 latches and clears it, and the console arms and disarms it, all  *)
(* without a lock; and the copies of each of the two messages, any of      *)
(* which may be lost.                                                      *)
(*                                                                         *)
(* A start is a number; "ends" and "time" are the starts g_ocs has its end *)
(* points and its start_time_ms from.  The position is where the bow is    *)
(* with respect to the line of the current start, and the clock where now  *)
(* is with respect to its T+0: read through another start's line or time   *)
(* they may come out as anything.                                          *)
(***************************************************************************)
EXTENDS Naturals

CONSTANTS
  MaxAnnounced,  \* bound: starts announced
  ArmCopies,     \* how often RACE_ARMED is sent (3)
  CallCopies     \* how often a recall is sent (3)

ASSUME OcsSizesAssumption == {MaxAnnounced, ArmCopies, CallCopies} \subseteq Nat

VARIABLES
  armed, over, was,  \* g_ocs.armed, over_line, was_over_at_start
  clearing,          \* g_ocs.cleared_at_ms: "no", or how long ago, "new" or "long"
  ends, time,        \* starts the end points and start_time_ms belong to
  announced, phase,  \* the start announced last, and the time to it
  bow,               \* "pre", "mid" (between the thresholds) or "course"
  arms, calls,       \* copies of RACE_ARMED and of a recall still to be sent
  ocsCb, ocsCore,    \* the callback and Core 1, with what they have read
  seen, told, torn   \* since the arming: phases in which the bow was on the
                     \* course side; a recall taken; callback and Core 1 met

ocs   == <<armed, over, was, clearing, ends, time>>
world == <<announced, phase, bow>>
sent  == <<arms, calls>>
pcs   == <<ocsCb, ocsCore>>
past  == <<seen, told, torn>>
ocsVars == <<ocs, world, sent, pcs, past>>

Bows   == {"pre", "mid", "course"}
Phases == {"before", "near", "after", "past"}  \* T+0 is between near and after

CbIdle == [at |-> "idle", start |-> 0]
CoreTop == [at |-> "top", start |-> 0, bow |-> "mid", phase |-> "before"]

OcsInit ==
  /\ armed = FALSE /\ over = FALSE /\ was = FALSE /\ clearing = "no"
  /\ ends = 0 /\ time = 0
  /\ announced = 0 /\ phase = "before" /\ bow = "pre"
  /\ arms = 0 /\ calls = 0
  /\ ocsCb = CbIdle /\ ocsCore = CoreTop
  /\ seen = {} /\ told = FALSE /\ torn = FALSE

(* The phase in which the bow is on the course side, if it is and T+0 is near
   or over. *)
Seen(b, p) == IF b = "course" THEN {p} \ {"before"} ELSE {}

-----------------------------------------------------------------------------
(* The boat, the clock, the committee.                                     *)

Sail ==
  /\ bow' \in Bows \ {bow}
  /\ seen' = seen \cup Seen(bow', phase)
  /\ UNCHANGED <<ocs, announced, phase, sent, pcs, told, torn>>

After(p) == CASE p = "before" -> "near" [] p = "near" -> "after" [] OTHER -> "past"

Clock ==
  /\ announced > 0 /\ phase # "past"
  /\ phase' = After(phase)
  /\ seen' = seen \cup Seen(bow, phase')
  /\ UNCHANGED <<ocs, announced, bow, sent, pcs, told, torn>>

(* "race arm" on the committee's unit: "negative = race already underway". *)
Announce ==
  /\ announced < MaxAnnounced /\ arms = 0 /\ calls = 0
  /\ announced' = announced + 1 /\ phase' \in {"before", "past"}
  /\ bow' \in Bows
  /\ arms' = ArmCopies
  /\ UNCHANGED <<ocs, calls, pcs, past>>

(* The committee sees the boat over and latches its call. *)
Call ==
  /\ announced > 0 /\ arms = 0 /\ calls = 0 /\ phase # "before" /\ ~told
  /\ calls' = CallCopies
  /\ UNCHANGED <<ocs, world, arms, pcs, past>>

LoseArm ==
  /\ arms > 0
  /\ arms' = arms - 1
  /\ UNCHANGED <<ocs, world, calls, pcs, past>>

LoseCall ==
  /\ calls > 0
  /\ calls' = calls - 1
  /\ UNCHANGED <<ocs, world, arms, pcs, past>>

-----------------------------------------------------------------------------
(* ocsArm, in the callback or in the console's race arm, cut between its   *)
(* stores; the latches of other boats are PeerTable's.  A call that comes  *)
(* between the disarming it begins with and armed finds the same as one    *)
(* before both.                                                            *)

(* What ocsDisarm clears besides armed. *)
Forget == over' = FALSE /\ was' = FALSE /\ clearing' = "no"

HearArm ==
  /\ arms > 0 /\ ocsCb.at = "idle"
  /\ arms' = arms - 1
  /\ Forget /\ armed' = TRUE
  /\ ocsCb' = [at |-> "line", start |-> announced]
  /\ seen' = Seen(bow, phase) /\ told' = FALSE /\ torn' = (ocsCore.at # "top")
  /\ UNCHANGED <<ends, time, world, calls, ocsCore>>

CbLine ==
  /\ ocsCb.at = "line"
  /\ ends' = ocsCb.start
  /\ ocsCb' = [ocsCb EXCEPT !.at = "time"]
  /\ torn' = (torn \/ ocsCore.at # "top")
  /\ UNCHANGED <<armed, over, was, clearing, time, world, sent, ocsCore, seen, told>>

(* Mutant of CbTime: a start time that is set is not replaced. *)
CbTimeOnce ==
  /\ ocsCb.at = "time"
  /\ time' = IF time = 0 THEN ocsCb.start ELSE time
  /\ ocsCb' = CbIdle
  /\ torn' = (torn \/ ocsCore.at # "top")
  /\ UNCHANGED <<armed, over, was, clearing, ends, world, sent, ocsCore, seen, told>>

CbTime ==
  /\ ocsCb.at = "time"
  /\ time' = ocsCb.start
  /\ ocsCb' = CbIdle
  /\ torn' = (torn \/ ocsCore.at # "top")
  /\ UNCHANGED <<armed, over, was, clearing, ends, world, sent, ocsCore, seen, told>>

(* ocsForceOver: a boat that is not armed, or over already, is left as it is. *)
HearCall ==
  /\ calls > 0 /\ ocsCb.at = "idle"
  /\ calls' = calls - 1
  /\ IF armed /\ ~over THEN over' = TRUE /\ clearing' = "no" ELSE UNCHANGED <<over, clearing>>
  /\ told' = (told \/ armed)
  /\ UNCHANGED <<armed, was, ends, time, world, arms, pcs, seen, torn>>

-----------------------------------------------------------------------------
(* Core 1: the console, ocsTick.                                           *)

(* race arm typed on this unit, with the data of the current start. *)
OcsRaceArm ==
  /\ ocsCore.at = "top" /\ announced > 0 /\ (ends # announced \/ ~armed)
  /\ Forget /\ armed' = TRUE
  /\ ocsCore' = [CoreTop EXCEPT !.at = "armLine", !.start = announced]
  /\ seen' = Seen(bow, phase) /\ told' = FALSE /\ torn' = (ocsCb.at # "idle")
  /\ UNCHANGED <<ends, time, world, sent, ocsCb>>

RaceArmLine ==
  /\ ocsCore.at = "armLine"
  /\ ends' = ocsCore.start
  /\ ocsCore' = [ocsCore EXCEPT !.at = "armTime"]
  /\ UNCHANGED <<armed, over, was, clearing, time, world, sent, ocsCb, past>>

RaceArmTime ==
  /\ ocsCore.at = "armTime"
  /\ time' = ocsCore.start
  /\ ocsCore' = CoreTop
  /\ UNCHANGED <<armed, over, was, clearing, ends, world, sent, ocsCb, past>>

OcsRaceDisarm ==
  /\ ocsCore.at = "top" /\ armed
  /\ Forget /\ armed' = FALSE
  /\ torn' = (torn \/ ocsCb.at # "idle")
  /\ UNCHANGED <<ends, time, world, sent, pcs, seen, told>>

(* Armed and a valid fix: the distance from the line as it stands now. *)
TickRead ==
  /\ ocsCore.at = "top" /\ armed
  /\ \E b \in IF ends = announced THEN {bow} ELSE Bows :
       ocsCore' = [CoreTop EXCEPT !.at = "time", !.bow = b, !.phase = phase]
  /\ torn' = (torn \/ ocsCb.at # "idle" \/ ends # announced)
  /\ UNCHANGED <<ocs, world, sent, ocsCb, seen, told>>

(* The time to the start, and the snapshot of the half seconds around T+0. *)
TickTime ==
  /\ ocsCore.at = "time"
  /\ \E p \in IF time = announced THEN {ocsCore.phase} ELSE Phases :
       /\ ocsCore' = [ocsCore EXCEPT !.at = "latch", !.phase = p]
       /\ was' = (was \/ (p \in {"near", "after"} /\ ocsCore.bow = "course"))
  /\ torn' = (torn \/ time # announced)
  /\ UNCHANGED <<armed, over, clearing, ends, time, world, sent, ocsCb, seen, told>>

(* Mutant of ClearOrWait: every tick on the pre-start side begins the 2 s. *)
WaitAgain(b) ==
  /\ clearing' = (IF over /\ b = "pre" THEN "new" ELSE "no")
  /\ UNCHANGED over

(* What a tick makes of a bow that is not on the course side: back, beyond
   the threshold, for 2 s clears the flag; in between the 2 s begin again. *)
ClearOrWait(b) ==
  IF over /\ b = "pre"
  THEN CASE clearing = "no"   -> clearing' = "new" /\ UNCHANGED over
         [] clearing = "new"  -> clearing' = "long" /\ UNCHANGED over
         [] clearing = "long" -> over' = FALSE /\ clearing' = "no"
  ELSE clearing' = "no" /\ UNCHANGED over

LatchOver == over' = TRUE /\ clearing' = IF over THEN clearing ELSE "no"

(* Mutant of Latch: the time to the start is not tested. *)
LatchEarly(b, p) == IF b = "course" THEN LatchOver ELSE ClearOrWait(b)

(* Mutant of Latch: only around T+0. *)
LatchWindow(b, p) ==
  IF p # "after" THEN UNCHANGED <<over, clearing>>
  ELSE IF b = "course" THEN LatchOver ELSE ClearOrWait(b)

(* From T+0 on. *)
Latch(b, p) ==
  IF p \in {"before", "near"} THEN UNCHANGED <<over, clearing>>
  ELSE IF b = "course" THEN LatchOver ELSE ClearOrWait(b)

TickLatch ==
  /\ ocsCore.at = "latch"
  /\ Latch(ocsCore.bow, ocsCore.phase)
  /\ ocsCore' = CoreTop
  /\ UNCHANGED <<armed, was, ends, time, world, sent, ocsCb, past>>

OcsCallback == CbLine \/ CbTime
Tick     == TickRead \/ TickTime \/ TickLatch \/ RaceArmLine \/ RaceArmTime

OcsNext ==
  \/ Sail \/ Clock \/ Announce \/ Call \/ LoseArm \/ LoseCall
  \/ HearArm \/ HearCall \/ OcsCallback
  \/ OcsRaceArm \/ OcsRaceDisarm \/ Tick

(* Both cores run and time passes. *)
OcsFairness == WF_ocsVars(OcsCallback) /\ WF_ocsVars(Tick) /\ WF_ocsVars(Clock)

OcsSpec == OcsInit /\ [][OcsNext]_ocsVars /\ OcsFairness

-----------------------------------------------------------------------------
(* Type invariant. *)
OcsTypeOK ==
  /\ {armed, over, was, told, torn} \subseteq BOOLEAN
  /\ clearing \in {"no", "new", "long"}
  /\ {ends, time, announced} \subseteq 0..MaxAnnounced
  /\ phase \in Phases /\ bow \in Bows
  /\ arms \in 0..ArmCopies /\ calls \in 0..CallCopies
  /\ ocsCb \in [at : {"idle", "line", "time"}, start : 0..MaxAnnounced]
  /\ ocsCore \in [at : {"top", "time", "latch", "armLine", "armTime"},
              start : 0..MaxAnnounced, bow : Bows, phase : Phases]
  /\ seen \subseteq Phases

(* A boat is flagged only for what happened in this start: its bow was on the
   course side at or after T+0, or it heard the committee's call; and its
   snapshot says so only if the bow was there around T+0.  Everything of the
   last start is forgotten at the first copy of RACE_ARMED.  The exception is
   an arming that fell into a tick, which may judge the new start by the old
   line or the old time. *)
FlagExplained == ~torn =>
  /\ over => told \/ seen \cap {"after", "past"} # {}
  /\ was => seen \cap {"near", "after"} # {}

(* Line and time are those of one start, whichever copies were lost, unless two
   armings met. *)
OneStart == ocsCb.at = "idle" /\ ocsCore.at = "top" /\ ~torn => ends = time

(* A boat that is over and stays there is flagged. *)
Flagged == armed /\ phase = "past" /\ bow = "course" /\ ends = announced /\ time = announced
             ~> over \/ ~armed \/ bow # "course" \/ ends # announced \/ time # announced

(* ... and one that is back and stays there is cleared, forced or not, and even
   if it was flagged by mistake before the start. *)
Cleared == armed /\ over /\ bow = "pre" /\ ends = announced /\ time = announced
             ~> ~over \/ ~armed \/ bow # "pre" \/ ends # announced \/ time # announced
=============================================================================
