------------------------------ MODULE PeerTable ------------------------------
(***************************************************************************)
(* The race committee's view of the fleet: g_mesh_peers, filled by the     *)
(* ESP-NOW receive callback on the WiFi task, thinned out by meshTick and  *)
(* read by rcComputeFleetOCS on Core 1, without a lock; and the recalls    *)
(* made from it.                                                           *)
(*                                                                         *)
(* Both sides are cut where they touch shared state.  A record's position  *)
(* is the boat that sent it and whether its bow was on the course side;    *)
(* rc_ocs_called is "latch # NoCall", and the value says which boat was    *)
(* called in which start.  Ages are classes of now - last_seen_ms; "ahead" *)
(* is a stamp newer than the now of the function that is running, whose    *)
(* difference wraps around.  What becomes of a call is in BoatOcs.         *)
(***************************************************************************)
EXTENDS Naturals

CONSTANTS
  Boats,       \* the other units in range, by sender_id
  Sides,       \* of each, the sides of the line it may be on
  MaxPeers,    \* MESH_PEER_MAX
  MaxStarts,   \* bound: start sequences
  MaxRaces,    \* bound: how often callback and Core 1 meet in mid-work
  None         \* no sender: an unused record

ASSUME BoatsAssumption ==
  None \notin Boats /\ Sides \in [Boats -> SUBSET {"clear", "over"}]
ASSUME SizesAssumption == {MaxPeers, MaxStarts, MaxRaces} \subseteq Nat

VARIABLES
  count, slot,     \* g_mesh_peer_count and g_mesh_peers (here from 1)
  race, start,     \* g_ocs: "off", "armed" or "due" (T+0 is near); which start
  boat,            \* of each boat: "away" (not heard), "clear" or "over"
  cb, core,        \* the callback and Core 1, each with what it holds
  races            \* how often the two have met so far

line == <<race, start>>
vars == <<count, slot, line, boat, cb, core, races>>

NoCall == <<>>
Idle   == [at |-> "idle", id |-> None, over |-> FALSE, idx |-> 0]
Top    == [at |-> "tick", i |-> 0, held |-> 0]

Blank == [id |-> None, from |-> None, over |-> FALSE, age |-> "expired", latch |-> NoCall]

Live == 1..count

(* Mutant of Known: the search ends one record early. *)
KnownBeforeLast(b) == \E i \in 1..(count - 1) : slot[i].id = b

(* The sender's record: the first that has its name. *)
Known(b) == \E i \in Live : slot[i].id = b
First(b) == CHOOSE i \in Live : slot[i].id = b /\ \A j \in 1..(i - 1) : slot[j].id # b

Init ==
  /\ count = 0 /\ slot = [i \in 1..MaxPeers |-> Blank]
  /\ race = "off" /\ start = 0
  /\ boat = [b \in Boats |-> "away"]
  /\ cb = Idle /\ core = Top /\ races = 0

(* Core 1 is inside one of its two functions. *)
Working == core.at \notin {"tick", "rc"}

-----------------------------------------------------------------------------
(* The fleet, the radio, time.                                             *)

Move(b) ==
  /\ \E s \in {"away"} \cup Sides[b] : s # boat[b] /\ boat' = [boat EXCEPT ![b] = s]
  /\ UNCHANGED <<count, slot, line, cb, core, races>>

(* A record which the packets now arriving do not refresh. *)
Fading(i) ==
  \A b \in Boats : boat[b] # "away" /\ slot[i].id = b => First(b) # i

Age(i) ==
  /\ i \in Live /\ Fading(i) /\ slot[i].age \in {"fresh", "stale"}
  /\ slot' = [slot EXCEPT ![i].age = IF @ = "fresh" THEN "stale" ELSE "expired"]
  /\ UNCHANGED <<count, line, boat, cb, core, races>>

StartComes ==
  /\ race = "armed"
  /\ race' = "due"
  /\ UNCHANGED <<count, slot, start, boat, cb, core, races>>

-----------------------------------------------------------------------------
(* meshOnReceive, on the WiFi task.                                        *)

(* A packet of a boat in the table, or for which there is room; any other
   changes nothing. *)
Heard(b) == cb.at = "idle" /\ boat[b] # "away" /\ (Known(b) \/ count < MaxPeers)

Stated(i, b, age) == [slot[i] EXCEPT !.id = b, !.from = b, !.over = (boat[b] = "over"), !.age = age]

(* The whole callback, when nothing of Core 1 falls into it and it falls
   between two of its steps. *)
Receive(b) ==
  /\ Heard(b) /\ core.at # "drop"
  /\ IF Known(b)
     THEN slot' = [slot EXCEPT ![First(b)] = Stated(First(b), b, "fresh")] /\ UNCHANGED count
     ELSE slot' = [slot EXCEPT ![count + 1] = Stated(count + 1, b, "fresh")] /\ count' = count + 1
  /\ UNCHANGED <<line, boat, cb, core, races>>

(* The callback in steps: the sender is looked up, or the place where it is to
   be added. *)
Hear(b) ==
  /\ Heard(b) /\ races < MaxRaces /\ races' = races + 1
  /\ cb' = [at |-> IF Known(b) THEN "write" ELSE "add", id |-> b, over |-> boat[b] = "over",
            idx |-> IF Known(b) THEN First(b) ELSE count + 1]
  /\ UNCHANGED <<count, slot, line, boat, core>>

(* g_mesh_peer_count++, of a value read before or after Core 1 took a record
   out, and the name.  Only sender_id
   and msg_count are new: the rest of the record, the latch included, is that
   of whoever had it before. *)
AddPeer ==
  /\ cb.at = "add"
  /\ \E n \in {cb.idx, count + 1} :
       /\ count' = n /\ slot' = [slot EXCEPT ![n].id = cb.id]
       /\ cb' = [cb EXCEPT !.at = "write", !.idx = n]
  /\ UNCHANGED <<line, boat, core, races>>

WriteState ==
  /\ cb.at = "write"
  /\ \E age \in {"fresh"} \cup (IF Working THEN {"ahead"} ELSE {}) :
       slot' = [slot EXCEPT ![cb.idx].from = cb.id, ![cb.idx].over = cb.over,
                            ![cb.idx].age = age]
  /\ cb' = Idle
  /\ UNCHANGED <<count, line, boat, core, races>>

(* ocsArm: the latches of the records in use are cleared, those of the others
   are not. *)
Armed ==
  /\ start < MaxStarts
  /\ race' = "armed" /\ start' = start + 1
  /\ slot' = [i \in DOMAIN slot |-> IF i \in Live THEN [slot[i] EXCEPT !.latch = NoCall]
                                                  ELSE slot[i]]

(* MSG_RACE_ARMED of another unit; each of its copies that arrives counts as a
   start of its own. *)
RemoteArm ==
  /\ cb.at = "idle"
  /\ IF Working THEN races < MaxRaces /\ races' = races + 1 ELSE UNCHANGED races
  /\ Armed
  /\ UNCHANGED <<count, boat, cb, core>>

-----------------------------------------------------------------------------
(* Core 1: console, meshTick, rcComputeFleetOCS, in the order of loop().   *)

RaceArm ==
  /\ core.at = "tick"
  /\ Armed
  /\ UNCHANGED <<count, boat, cb, core, races>>

RaceDisarm ==
  /\ core.at = "tick" /\ race # "off"
  /\ race' = "off"
  /\ UNCHANGED <<count, slot, start, boat, cb, core, races>>

(* What was ahead of one function's now is fresh for the next one. *)
Settled(s) == [i \in DOMAIN s |-> IF s[i].age = "ahead" THEN [s[i] EXCEPT !.age = "fresh"] ELSE s[i]]

TickBegin ==
  /\ core.at = "tick"
  /\ core' = [Top EXCEPT !.at = "expire", !.i = count]
  /\ UNCHANGED <<count, slot, line, boat, cb, races>>

(* The loop runs from the end; a stamp ahead of now counts as long ago. *)
Expired(i) == slot[i].age \in {"expired", "ahead"}
NextExpired(i) == Expired(i) /\ i <= core.i /\ \A j \in (i + 1)..core.i : ~Expired(j)

(* The last record takes the place of the expired one. *)
ExpireSwap ==
  /\ core.at = "expire"
  /\ \E i \in 1..core.i :
       /\ NextExpired(i)
       /\ slot' = [slot EXCEPT ![i] = slot[count]]
       /\ core' = [at |-> "drop", i |-> i, held |-> count]
  /\ UNCHANGED <<count, line, boat, cb, races>>

(* Mutant of ExpireDrop: the count changes only if a record was moved. *)
ExpireDropMoved ==
  /\ core.at = "drop"
  /\ \E n \in {core.held, count} : count' = IF core.i = core.held THEN count ELSE n - 1
  /\ core' = [core EXCEPT !.at = "expire", !.i = @ - 1, !.held = 0]
  /\ UNCHANGED <<slot, line, boat, cb, races>>

(* g_mesh_peer_count--, of a value read before or after the callback's. *)
ExpireDrop ==
  /\ core.at = "drop"
  /\ \E n \in {core.held, count} : count' = n - 1
  /\ core' = [core EXCEPT !.at = "expire", !.i = @ - 1, !.held = 0]
  /\ UNCHANGED <<slot, line, boat, cb, races>>

TickEnd ==
  /\ core.at = "expire" /\ \A i \in 1..core.i : ~Expired(i)
  /\ core' = [Top EXCEPT !.at = "rc"] /\ slot' = Settled(slot)
  /\ UNCHANGED <<count, line, boat, cb, races>>

(* Mutant of ScanBegin: the time to the start is not looked at. *)
ScanBeginEarly ==
  /\ core.at = "rc" /\ race # "off"
  /\ core' = [Top EXCEPT !.at = "scan", !.i = 1]
  /\ UNCHANGED <<count, slot, line, boat, cb, races>>

(* Mutant of ScanBegin: the first record is left out. *)
ScanBeginSecond ==
  /\ core.at = "rc" /\ race = "due"
  /\ core' = [Top EXCEPT !.at = "scan", !.i = 2]
  /\ UNCHANGED <<count, slot, line, boat, cb, races>>

ScanBegin ==
  /\ core.at = "rc" /\ race = "due"
  /\ core' = [Top EXCEPT !.at = "scan", !.i = 1]
  /\ UNCHANGED <<count, slot, line, boat, cb, races>>

(* Nothing to be called yet. *)
ScanSkip ==
  /\ core.at = "rc" /\ race # "due"
  /\ core' = Top
  /\ UNCHANGED <<count, slot, line, boat, cb, races>>

Callable(i) == slot[i].over /\ slot[i].age = "fresh" /\ slot[i].latch = NoCall

NextCallable(i) == Callable(i) /\ core.i <= i /\ \A j \in core.i..(i - 1) : ~Callable(j)

(* Latched first, then sent three times, if ESP-NOW is up.  The scan goes on
   100 ms later. *)
ScanCall ==
  /\ core.at = "scan"
  /\ \E i \in Live :
       /\ NextCallable(i)
       /\ slot' = [slot EXCEPT ![i].latch = <<slot[i].id, start>>]
       /\ core' = [core EXCEPT !.i = i + 1]
  /\ UNCHANGED <<count, line, boat, cb, races>>

ScanEnd ==
  /\ core.at = "scan" /\ \A i \in core.i..count : ~Callable(i)
  /\ core' = Top /\ slot' = Settled(slot)
  /\ UNCHANGED <<count, line, boat, cb, races>>

Callback == AddPeer \/ WriteState

Core1 ==
  \/ TickBegin \/ ExpireSwap \/ ExpireDrop \/ TickEnd
  \/ ScanSkip \/ ScanBegin \/ ScanCall \/ ScanEnd

Next ==
  \/ \E b \in Boats : Move(b) \/ Receive(b) \/ Hear(b)
  \/ \E i \in 1..MaxPeers : Age(i)
  \/ StartComes \/ RemoteArm \/ RaceArm \/ RaceDisarm
  \/ Callback \/ Core1

(* Both tasks run; every boat in range is heard (the WiFi task takes packets
   in turn); upload windows end and intervals pass, so meshTick and the scan
   get through again and again; silence makes records old. *)
Fairness ==
  /\ WF_vars(Callback) /\ WF_vars(Core1)
  /\ \A b \in Boats : SF_vars(Receive(b))
  /\ \A i \in 1..MaxPeers : SF_vars(Age(i))

Spec == Init /\ [][Next]_vars /\ Fairness

-----------------------------------------------------------------------------
Records ==
  [id : Boats \cup {None}, from : Boats \cup {None}, over : BOOLEAN,
   age : {"fresh", "stale", "expired", "ahead"},
   latch : {NoCall} \cup ((Boats \cup {None}) \X (0..MaxStarts))]

(* Type invariant.  The array is never left, however the increment of the
   WiFi task and the decrement of Core 1 fall: the count stays in range, and
   the loop that takes records out of the table never meets an empty one. *)
TypeOK ==
  /\ count \in 0..MaxPeers /\ slot \in [1..MaxPeers -> Records]
  /\ race \in {"off", "armed", "due"} /\ start \in 0..MaxStarts
  /\ boat \in [Boats -> {"away", "clear", "over"}]
  /\ cb \in [at : {"idle", "add", "write"}, id : Boats \cup {None}, over : BOOLEAN,
             idx : 0..MaxPeers]
  /\ (cb.at # "idle" => cb.idx > 0) /\ (cb.at = "add" => count < cb.idx)
  /\ core \in [at : {"tick", "rc", "expire", "drop", "scan"}, i : 0..(MaxPeers + 1),
               held : 0..MaxPeers]
  /\ (core.at = "expire" => core.i <= count)
  /\ (core.at = "drop" => core.i > 0 /\ core.i <= count /\ core.i <= core.held)
  /\ races \in 0..MaxRaces

Twice == \E i, j \in Live : i # j /\ slot[i].id = slot[j].id
Mixed == \E i \in Live : slot[i].id # slot[i].from

(* As long as callback and Core 1 have not met in mid-work, the table has one
   record per boat and every record holds what its boat sent: taking the last
   record for an expired one, and reusing a record, mix nothing up. *)
TableTrue == races = 0 /\ cb.at \in {"idle", "write"} /\ core.at # "drop" =>
  /\ ~Twice
  /\ \A i \in Live : slot[i].id # slot[i].from => cb.at = "write" /\ cb.idx = i

(* A call goes out in a start that has come, to the boat whose position it was
   computed from, unless callback and Core 1 have met: then the record may
   have been given to another boat, or the start put off, in the middle of
   the scan. *)
RecallJustified ==
  [][\A i \in 1..MaxPeers :
       /\ slot'[i].latch # slot[i].latch /\ slot'[i].latch # NoCall
       /\ slot'[i].id = slot[i].id /\ races = 0
       => /\ race = "due"
          /\ slot'[i].latch[1] = slot[i].from]_vars

(* What the two leave behind when they do meet goes away by itself: of two
   records of a boat one is not refreshed, and a mixed one is written over by
   the next packet or grows old. *)
Heals == Twice \/ Mixed ~> ~Twice /\ ~Mixed

Latched(b) == \E i \in Live : slot[i].id = b /\ slot[i].latch # NoCall

(* A boat that is over the line once the start has come, and is heard, ends up
   latched as called, whatever happens to the records around it. *)
Noticed == \A b \in Boats :
  race = "due" /\ boat[b] = "over"
    ~> Latched(b) \/ race # "due" \/ boat[b] # "over"

(* mesh.h on rc_ocs_called: "RC has broadcast MSG_INDIVIDUAL_RECALL for this
   boat", and ocsArm: "Clear any prior RC-side OCS latches on every peer".  A
   record in use that is latched belongs to a boat called in this start. *)
LatchMeansCalled ==
  \A i \in Live : slot[i].latch # NoCall /\ cb.at = "idle"
    => slot[i].latch = <<slot[i].id, start>>
=============================================================================
