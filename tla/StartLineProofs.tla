--------------------------- MODULE StartLineProofs ---------------------------
(***************************************************************************)
(* Proofs about the start line: PeerTable, for any boats, any size of the  *)
(* table and any number of starts and meetings; and BoatOcs, for any       *)
(* number of starts and copies of each message.                            *)
(*                                                                         *)
(* PeerTable: that the array is never left needs only that a count Core 1  *)
(* holds while it takes a record out is not above the table's (HeldInv).   *)
(* That nothing is mixed up while the two have not met rests on the        *)
(* records' names being distinct, but for the two copies of the last one   *)
(* between the move and the new count (ApartInv).                          *)
(*                                                                         *)
(* BoatOcs: callback and Core 1 are both in mid-work only when torn says   *)
(* so (MetInv); otherwise each arming writes line and time as one          *)
(* (StoreInv), and a tick carries a position and a time that were seen in  *)
(* this start (TickInv).                                                   *)
(***************************************************************************)
EXTENDS PeerTable, BoatOcs, WellFoundedInduction, TLAPS

-----------------------------------------------------------------------------
(* THE TABLE OF THE OTHER BOATS                                            *)

Names == Boats \cup {None}
Ages  == {"fresh", "stale", "expired", "ahead"}

LEMMA Bounds ==
  /\ MaxPeers \in Nat /\ MaxStarts \in Nat /\ MaxRaces \in Nat
  /\ None \notin Boats /\ \A b \in Boats : Sides[b] \subseteq {"clear", "over"}
BY SizesAssumption, BoatsAssumption

LEMMA NextCases ==
  ASSUME [Next]_vars
  PROVE  \/ \E b \in Boats : Move(b) \/ Receive(b) \/ Hear(b)
         \/ \E i \in 1..MaxPeers : Age(i)
         \/ StartComes \/ RemoteArm \/ RaceArm \/ RaceDisarm \/ AddPeer \/ WriteState
         \/ TickBegin \/ ExpireSwap \/ ExpireDrop \/ TickEnd
         \/ ScanSkip \/ ScanBegin \/ ScanCall \/ ScanEnd \/ UNCHANGED vars
BY DEF Next, Callback, Core1

-----------------------------------------------------------------------------
(* The array is never left.                                                *)

HeldInv == core.at = "drop" => core.held <= count

TypeInv == TypeOK /\ HeldInv

LEMMA TypeInit == Init => TypeInv
BY Bounds DEF Init, TypeInv, TypeOK, HeldInv, Records, Blank, NoCall, Idle, Top

(* A set of numbers that is not empty has a least one. *)
LEMMA Least ==
  ASSUME NEW S, S \subseteq Nat, S # {}
  PROVE  \E n \in S : \A m \in S : n <= m
<1> DEFINE Below == {ss \in Nat \X Nat : ss[1] < ss[2]}
<1>1. IsWellFoundedOn(Below, Nat)
  BY NatLessThanWellFounded DEF OpToRel
<1> HIDE DEF Below
<1>2. PICK n \in S : \A m \in S : ~ (<<m, n>> \in Below)
  BY <1>1, WFMin
<1>3. \A m \in S : ~ (m < n)
  BY <1>2 DEF Below
<1> QED BY <1>3

(* The record of a boat that is known is one of those in use. *)
LEMMA FirstFacts ==
  ASSUME count \in Nat, NEW b, Known(b)
  PROVE  First(b) \in Live /\ slot[First(b)].id = b
<1> DEFINE S == {i \in Live : slot[i].id = b}
<1>1. S \subseteq Nat /\ S # {}
  BY DEF Known, Live
<1>2. PICK n \in S : \A m \in S : n <= m
  BY <1>1, Least
<1>3. n \in Live /\ slot[n].id = b /\ \A j \in 1..(n - 1) : slot[j].id # b
  BY <1>2 DEF Live
<1> QED BY <1>3 DEF First

(* Records, field by field. *)
LEMMA RecordFacts ==
  ASSUME TypeOK, NEW i \in 1..MaxPeers
  PROVE  /\ slot[i] \in Records /\ slot[i].id \in Names /\ slot[i].from \in Names
         /\ slot[i].over \in BOOLEAN /\ slot[i].age \in Ages
         /\ \A b \in Boats, age \in Ages : Stated(i, b, age) \in Records
         /\ [slot[i] EXCEPT !.latch = NoCall] \in Records
         /\ [slot[i] EXCEPT !.latch = <<slot[i].id, start>>] \in Records
         /\ \A age \in Ages : [slot[i] EXCEPT !.age = age] \in Records
<1>1. slot[i] \in Records
  BY DEF TypeOK
<1>2. slot[i].id \in Names /\ <<slot[i].id, start>> \in Names \X (0..MaxStarts)
  BY <1>1 DEF TypeOK, Records, Names
<1> QED BY <1>1, <1>2 DEF Records, Names, Ages, Stated

LEMMA TypeStep == TypeInv /\ [Next]_vars => TypeInv'
<1> SUFFICES ASSUME TypeInv, [Next]_vars PROVE TypeInv'
  OBVIOUS
<1> USE Bounds DEF TypeInv, HeldInv, line
<1>0. count \in 0..MaxPeers /\ count \in Nat
  BY DEF TypeOK
<1>1. ASSUME NEW b \in Boats, Move(b) PROVE TypeInv'
  BY <1>1 DEF Move, TypeOK
<1>2. ASSUME NEW b \in Boats, Receive(b) PROVE TypeInv'
  <2>1. CASE Known(b)
    <3>1. First(b) \in 1..MaxPeers
      BY <1>0, <2>1, FirstFacts DEF Live
    <3>2. Stated(First(b), b, "fresh") \in Records
      BY <3>1, RecordFacts DEF Ages
    <3> QED BY <1>2, <2>1, <3>1, <3>2 DEF Receive, TypeOK
  <2>2. CASE ~Known(b)
    <3>1. count + 1 \in 1..MaxPeers
      BY <1>0, <1>2, <2>2 DEF Receive, Heard
    <3>2. Stated(count + 1, b, "fresh") \in Records
      BY <3>1, RecordFacts DEF Ages
    <3>3. slot' = [slot EXCEPT ![count + 1] = Stated(count + 1, b, "fresh")] /\ count' = count + 1
      BY <1>2, <2>2 DEF Receive
    <3>4. cb.at = "idle" /\ core.at # "drop" /\ UNCHANGED <<line, boat, cb, core, races>>
      BY <1>2 DEF Receive, Heard
    <3>5. slot' \in [1..MaxPeers -> Records]
      BY <3>1, <3>2, <3>3 DEF TypeOK
    <3> QED BY <1>0, <3>1, <3>3, <3>4, <3>5 DEF TypeOK
  <2> QED BY <2>1, <2>2
<1>3. ASSUME NEW b \in Boats, Hear(b) PROVE TypeInv'
  <2>1. CASE Known(b)
    <3>1. First(b) \in 1..MaxPeers
      BY <1>0, <2>1, FirstFacts DEF Live
    <3> QED BY <1>3, <2>1, <3>1 DEF Hear, TypeOK
  <2>2. CASE ~Known(b)
    BY <1>0, <1>3, <2>2 DEF Hear, Heard, TypeOK
  <2> QED BY <2>1, <2>2
<1>4. ASSUME NEW i \in 1..MaxPeers, Age(i) PROVE TypeInv'
  <2>1. PICK age \in Ages : slot' = [slot EXCEPT ![i] = [slot[i] EXCEPT !.age = age]]
    BY <1>4 DEF Age, Ages
  <2>2. slot' \in [1..MaxPeers -> Records]
    BY <2>1, RecordFacts DEF TypeOK
  <2> QED BY <1>4, <2>2 DEF Age, TypeOK
<1>5. ASSUME Armed PROVE slot' \in [1..MaxPeers -> Records] /\ race' = "armed"
                         /\ start' \in 0..MaxStarts
  <2>1. \A i \in 1..MaxPeers : slot[i] \in Records /\ [slot[i] EXCEPT !.latch = NoCall] \in Records
    BY RecordFacts
  <2>2. DOMAIN slot = 1..MaxPeers
    BY DEF TypeOK
  <2> QED BY <1>5, <2>1, <2>2 DEF Armed, TypeOK
<1>6. CASE RemoteArm
  BY <1>5, <1>6 DEF RemoteArm, TypeOK
<1>7. CASE RaceArm
  BY <1>5, <1>7 DEF RaceArm, TypeOK
<1>8. CASE StartComes \/ RaceDisarm
  BY <1>8 DEF StartComes, RaceDisarm, TypeOK
<1>16. CASE TickBegin
  <2>1. core' = [at |-> "expire", i |-> count, held |-> 0]
    BY <1>16 DEF TickBegin, Top
  <2> QED BY <1>0, <1>16, <2>1 DEF TickBegin, TypeOK
<1>17. CASE ScanSkip
  BY <1>17 DEF ScanSkip, Top, TypeOK
<1>18. CASE ScanBegin
  <2>1. core' = [at |-> "scan", i |-> 1, held |-> 0]
    BY <1>18 DEF ScanBegin, Top
  <2> QED BY <1>18, <2>1 DEF ScanBegin, TypeOK
<1>9. CASE AddPeer
  <2>1. PICK n \in {cb.idx, count + 1} :
          /\ count' = n /\ slot' = [slot EXCEPT ![n].id = cb.id]
          /\ cb' = [cb EXCEPT !.at = "write", !.idx = n]
    BY <1>9 DEF AddPeer
  <2>2. n \in 1..MaxPeers /\ count < n /\ cb.id \in Names
    BY <1>0, <1>9 DEF AddPeer, TypeOK, Names
  <2>9. slot[n] \in Records
    BY <2>2, RecordFacts
  <2>3. [slot[n] EXCEPT !.id = cb.id] \in Records
    BY <2>2, <2>9 DEF Records, Names
  <2>4. slot' \in [1..MaxPeers -> Records]
    BY <2>1, <2>2, <2>3 DEF TypeOK
  <2>5. cb' \in [at : {"write"}, id : Names, over : BOOLEAN, idx : 1..MaxPeers]
    BY <2>1, <2>2 DEF TypeOK, Names
  <2>6. core.at = "expire" => core.i <= count'
    BY <1>0, <2>1, <2>2 DEF TypeOK
  <2>7. core.at = "drop" => core.i <= count' /\ core.held <= count'
    BY <1>0, <2>1, <2>2 DEF TypeOK
  <2>8. UNCHANGED <<line, boat, core, races>> /\ count' \in 0..MaxPeers
    BY <1>9, <2>1, <2>2 DEF AddPeer
  <2> QED BY <2>4, <2>5, <2>6, <2>7, <2>8 DEF TypeOK, Names
<1>10. CASE WriteState
  <2>1. PICK age \in Ages :
          slot' = [slot EXCEPT ![cb.idx].from = cb.id, ![cb.idx].over = cb.over,
                               ![cb.idx].age = age]
    BY <1>10 DEF WriteState, Ages
  <2> DEFINE r == [slot[cb.idx] EXCEPT !.from = cb.id, !.over = cb.over, !.age = age]
  <2>3. cb.idx \in 1..MaxPeers /\ cb.id \in Names /\ cb.over \in BOOLEAN
    BY <1>10 DEF WriteState, TypeOK, Names
  <2>4. slot' = [slot EXCEPT ![cb.idx] = r]
    BY <2>1, <2>3 DEF TypeOK
  <2>5. slot[cb.idx] \in Records
    BY <2>3, RecordFacts
  <2>6. r \in Records
    BY <2>3, <2>5 DEF Records, Names, Ages
  <2>2. slot' \in [1..MaxPeers -> Records]
    BY <2>3, <2>4, <2>6 DEF TypeOK
  <2> QED BY <1>10, <2>2 DEF WriteState, Idle, TypeOK
<1>11. CASE ExpireSwap
  <2>1. PICK i \in 1..core.i : /\ slot' = [slot EXCEPT ![i] = slot[count]]
                               /\ core' = [at |-> "drop", i |-> i, held |-> count]
    BY <1>11 DEF ExpireSwap
  <2>2. i \in 1..MaxPeers /\ count \in 1..MaxPeers /\ i <= count
    BY <1>0, <1>11, <2>1 DEF ExpireSwap, TypeOK
  <2> QED BY <1>11, <2>1, <2>2 DEF ExpireSwap, TypeOK
<1>12. CASE ExpireDrop
  <2>1. PICK n \in {core.held, count} : count' = n - 1
    BY <1>12 DEF ExpireDrop
  <2>2. /\ n \in 1..count /\ core.i \in 1..n
        /\ core' = [core EXCEPT !.at = "expire", !.i = core.i - 1, !.held = 0]
    BY <1>0, <1>12, <2>1 DEF ExpireDrop, TypeOK
  <2>3. count' \in 0..MaxPeers /\ core.i - 1 \in 0..count' /\ count' < count
    BY <1>0, <2>1, <2>2
  <2>4. core' \in [at : {"expire"}, i : 0..count', held : {0}]
    BY <2>2, <2>3 DEF TypeOK
  <2>5. UNCHANGED <<slot, line, boat, cb, races>>
    BY <1>12 DEF ExpireDrop
  <2>6. cb.at = "add" => count' < cb.idx
    BY <1>0, <2>3 DEF TypeOK
  <2> QED BY <1>0, <2>3, <2>4, <2>5, <2>6 DEF TypeOK
<1>13. CASE TickEnd \/ ScanEnd
  <2>1. slot' = Settled(slot) /\ DOMAIN slot = 1..MaxPeers
    BY <1>13 DEF TickEnd, ScanEnd, TypeOK
  <2>2. slot' \in [1..MaxPeers -> Records]
    BY <2>1, RecordFacts DEF Settled, TypeOK, Ages
  <2> QED BY <1>13, <2>2 DEF TickEnd, ScanEnd, Top, TypeOK
<1>14. CASE ScanCall
  <2>1. PICK i \in Live :
          /\ slot' = [slot EXCEPT ![i] = [slot[i] EXCEPT !.latch = <<slot[i].id, start>>]]
          /\ core' = [core EXCEPT !.i = i + 1]
    BY <1>14 DEF ScanCall
  <2>2. i \in 1..MaxPeers
    BY <1>0 DEF Live
  <2>3. slot' \in [1..MaxPeers -> Records]
    BY <2>1, <2>2, RecordFacts DEF TypeOK
  <2>4. core.at = "scan" /\ UNCHANGED <<count, line, boat, cb, races>>
    BY <1>14 DEF ScanCall
  <2>5. i + 1 \in 0..(MaxPeers + 1)
    BY <2>2
  <2>6. core.held \in 0..MaxPeers /\ core' = [at |-> "scan", i |-> i + 1, held |-> core.held]
    BY <2>1, <2>4 DEF TypeOK
  <2> QED BY <2>3, <2>4, <2>5, <2>6 DEF TypeOK
<1>15. CASE UNCHANGED vars
  BY <1>15 DEF vars, TypeOK
<1> QED
  BY NextCases, <1>1, <1>2, <1>3, <1>4, <1>6, <1>7, <1>8, <1>9, <1>10, <1>11, <1>12, <1>13,
     <1>14, <1>15, <1>16, <1>17, <1>18

(* The peer table's count stays within the array and the loop that takes
   records out never runs past it, wherever callback and Core 1 meet. *)
THEOREM TypeCorrect == Spec => []TypeOK
<1>1. TypeInv => TypeOK
  BY DEF TypeInv
<1> QED BY <1>1, TypeInit, TypeStep, PTL DEF Spec

-----------------------------------------------------------------------------
(* Nothing is mixed up.                                                    *)

Distinct(k) == \A i, j \in 1..k : slot[i].id = slot[j].id => i = j
Sound       == \A i \in Live : slot[i].id = slot[i].from

ApartInv == races = 0 =>
  /\ cb.at = "idle" /\ Sound
  /\ core.at = "scan" => race = "due"
  /\ core.at # "drop" => Distinct(count)
  /\ core.at = "drop" => core.held = count /\ Distinct(count - 1)

LEMMA ApartInit == Init => ApartInv
BY DEF Init, ApartInv, Sound, Distinct, Live, Idle, Top

(* As far as names go, these change nothing. *)
NamesKept ==
  /\ count' = count
  /\ \A i \in 1..MaxPeers : slot'[i].id = slot[i].id /\ slot'[i].from = slot[i].from

LEMMA KeptFacts ==
  ASSUME TypeOK, NamesKept, NEW k \in 0..MaxPeers
  PROVE  (Distinct(k) => Distinct(k)') /\ (Sound => Sound')
<1>1. k \in Nat /\ 1..k \subseteq 1..MaxPeers /\ Live \subseteq 1..MaxPeers /\ Live' = Live
  BY Bounds DEF TypeOK, NamesKept, Live
<1> QED BY <1>1 DEF NamesKept, Distinct, Sound

LEMMA ApartStep == TypeInv /\ ApartInv /\ [Next]_vars => ApartInv'
<1> SUFFICES ASSUME TypeInv, ApartInv, [Next]_vars, races' = 0 PROVE ApartInv'
  BY DEF ApartInv
<1> USE Bounds DEF TypeInv, HeldInv, line
<1>0. /\ count \in 0..MaxPeers /\ count \in Nat /\ races \in Nat /\ DOMAIN slot = 1..MaxPeers
      /\ \A i \in 1..MaxPeers : slot[i] \in Records
  BY DEF TypeOK
<1>00. ASSUME NamesKept, races = 0, cb' = cb, core.at # "drop", core'.at # "drop",
              core'.at = "scan" => race' = "due"
       PROVE  ApartInv'
  BY <1>0, <1>00, KeptFacts DEF ApartInv, NamesKept
<1>1. ASSUME NEW b \in Boats, Move(b) PROVE ApartInv'
  BY <1>1 DEF Move, ApartInv, Sound, Distinct, Live
<1>2. ASSUME NEW b \in Boats, Receive(b) PROVE ApartInv'
  <2>0. races = 0 /\ core.at # "drop" /\ UNCHANGED <<line, boat, cb, core, races>>
    BY <1>2 DEF Receive
  <2>1. CASE Known(b)
    <3>1. First(b) \in Live /\ First(b) \in 1..MaxPeers /\ slot[First(b)].id = b
      BY <1>0, <2>1, FirstFacts DEF Live
    <3>2. slot' = [slot EXCEPT ![First(b)] = Stated(First(b), b, "fresh")] /\ count' = count
      BY <1>2, <2>1 DEF Receive
    <3>3. /\ Stated(First(b), b, "fresh").id = b
          /\ Stated(First(b), b, "fresh").from = b
      BY <1>0, <3>1 DEF Stated, Records
    <3>4. Distinct(count)' /\ Sound'
      BY <1>0, <2>0, <3>1, <3>2, <3>3 DEF ApartInv, Distinct, Sound, Live
    <3> QED BY <2>0, <3>4 DEF ApartInv
  <2>2. CASE ~Known(b)
    <3>1. count + 1 \in 1..MaxPeers
      BY <1>0, <1>2, <2>2 DEF Receive, Heard
    <3>2. slot' = [slot EXCEPT ![count + 1] = Stated(count + 1, b, "fresh")] /\ count' = count + 1
      BY <1>2, <2>2 DEF Receive
    <3>3. /\ Stated(count + 1, b, "fresh").id = b
          /\ Stated(count + 1, b, "fresh").from = b
      BY <1>0, <3>1 DEF Stated, Records
    <3>4. \A i \in 1..count : slot'[i] = slot[i] /\ slot[i].id # b
      BY <1>0, <2>2, <3>2 DEF Known, Live
    <3>5. slot'[count + 1].id = b /\ slot'[count + 1].from = b
      BY <1>0, <3>1, <3>2, <3>3
    <3>6. 1..count' = 1..count \cup {count + 1}
      BY <1>0, <3>2
    <3>7. Distinct(count)' /\ Sound'
      BY <2>0, <3>4, <3>5, <3>6 DEF ApartInv, Distinct, Sound, Live
    <3> QED BY <2>0, <3>7 DEF ApartInv
  <2> QED BY <2>1, <2>2
<1>3. ASSUME NEW b \in Boats, Hear(b) PROVE ApartInv'
  BY <1>0, <1>3 DEF Hear
<1>4. CASE AddPeer \/ WriteState
  BY <1>4 DEF AddPeer, WriteState, ApartInv
<1>5. ASSUME NEW i \in 1..MaxPeers, Age(i) PROVE ApartInv'
  <2>1. PICK age \in Ages : slot' = [slot EXCEPT ![i] = [slot[i] EXCEPT !.age = age]]
    BY <1>5 DEF Age, Ages
  <2>2. NamesKept
    BY <1>0, <1>5, <2>1 DEF Age, NamesKept, Records
  <2>3. UNCHANGED <<line, cb, core, races>>
    BY <1>5 DEF Age
  <2>4. count - 1 \in 0..MaxPeers \/ count = 0
    BY <1>0
  <2>5. core.at = "drop" => count # 0
    BY <1>0 DEF TypeOK
  <2> QED BY <1>0, <2>2, <2>3, <2>4, <2>5, KeptFacts DEF ApartInv, NamesKept
<1>6. ASSUME Armed, count' = count PROVE NamesKept
  BY <1>0, <1>6 DEF Armed, NamesKept, Records
<1>7. CASE RemoteArm \/ RaceArm
  <2>1. NamesKept /\ UNCHANGED <<cb, core>>
    BY <1>6, <1>7 DEF RemoteArm, RaceArm
  <2>2. races = 0 /\ core.at \in {"tick", "rc"}
    BY <1>0, <1>7 DEF RemoteArm, RaceArm, Working
  <2> QED BY <1>00, <2>1, <2>2
<1>8. CASE StartComes
  BY <1>8 DEF StartComes, ApartInv, Sound, Distinct, Live
<1>9. CASE RaceDisarm
  BY <1>00, <1>9 DEF RaceDisarm, NamesKept
<1>10. CASE TickBegin
  BY <1>00, <1>10 DEF TickBegin, NamesKept, Top
<1>16. CASE ScanSkip
  BY <1>00, <1>16 DEF ScanSkip, NamesKept, Top
<1>17. CASE ScanBegin
  <2>1. core'.at = "scan" /\ core.at = "rc" /\ race' = "due"
    BY <1>17 DEF ScanBegin, Top
  <2> QED BY <1>00, <1>17, <2>1 DEF ScanBegin, NamesKept
<1>11. CASE ExpireSwap
  <2>1. PICK i \in 1..core.i : /\ slot' = [slot EXCEPT ![i] = slot[count]]
                               /\ core' = [at |-> "drop", i |-> i, held |-> count]
    BY <1>11 DEF ExpireSwap
  <2>2. i \in 1..MaxPeers /\ count \in 1..MaxPeers /\ i <= count
    BY <1>0, <1>11, <2>1 DEF ExpireSwap, TypeOK
  <2>3. races = 0 /\ core.at = "expire" /\ UNCHANGED <<count, line, boat, cb, races>>
    BY <1>11 DEF ExpireSwap
  <2>4. \A j \in Live : slot'[j] = IF j = i THEN slot[count] ELSE slot[j]
    BY <1>0, <2>1, <2>2 DEF Live
  <2>5. Distinct(count) /\ Sound
    BY <2>3 DEF ApartInv
  <2>6. Sound'
    BY <2>2, <2>3, <2>4, <2>5 DEF Sound, Live
  <2>7. Distinct(count - 1)'
    BY <2>2, <2>3, <2>4, <2>5 DEF Distinct, Live
  <2> QED BY <2>1, <2>3, <2>6, <2>7 DEF ApartInv
<1>12. CASE ExpireDrop
  <2>1. races = 0 /\ core.at = "drop" /\ UNCHANGED <<slot, line, boat, cb, races>>
    BY <1>12 DEF ExpireDrop
  <2>2. count' = count - 1 /\ core'.at = "expire"
    BY <1>12, <2>1 DEF ExpireDrop, ApartInv, TypeOK
  <2>3. Live' \subseteq Live
    BY <1>0, <2>2 DEF Live
  <2> QED BY <2>1, <2>2, <2>3 DEF ApartInv, Sound, Distinct
<1>13. CASE TickEnd \/ ScanEnd
  <2>1. slot' = Settled(slot) /\ count' = count /\ UNCHANGED <<line, cb, races>>
    BY <1>13 DEF TickEnd, ScanEnd
  <2>2. NamesKept
    BY <1>0, <2>1 DEF Settled, NamesKept, Records
  <2>3. core.at # "drop" /\ core'.at \notin {"drop", "scan"}
    BY <1>13 DEF TickEnd, ScanEnd, Top
  <2> QED BY <1>00, <2>1, <2>2, <2>3
<1>14. CASE ScanCall
  <2>1. PICK i \in Live :
          slot' = [slot EXCEPT ![i] = [slot[i] EXCEPT !.latch = <<slot[i].id, start>>]]
    BY <1>14 DEF ScanCall
  <2>2. NamesKept
    BY <1>0, <1>14, <2>1 DEF ScanCall, NamesKept, Records
  <2>3. races = 0 /\ cb' = cb /\ race' = race /\ core.at = "scan" /\ core'.at = "scan"
    BY <1>14 DEF ScanCall, TypeOK
  <2> QED BY <1>00, <2>2, <2>3 DEF ApartInv
<1>15. CASE UNCHANGED vars
  BY <1>15 DEF vars, ApartInv, Sound, Distinct, Live
<1> QED
  BY NextCases, <1>1, <1>2, <1>3, <1>4, <1>5, <1>7, <1>8, <1>9, <1>10, <1>11, <1>12, <1>13,
     <1>14, <1>15, <1>16, <1>17

(* While callback and Core 1 have not met in mid-work, every boat has one
   record and every record holds what its boat sent, over any number of
   records added, moved and taken out. *)
THEOREM TableStaysTrue == Spec => []TableTrue
<1>1. Init => TypeInv /\ ApartInv
  BY TypeInit, ApartInit
<1>2. TypeInv /\ ApartInv /\ [Next]_vars => TypeInv' /\ ApartInv'
  BY TypeStep, ApartStep
<1>3. ApartInv => TableTrue
  BY DEF ApartInv, TableTrue, Twice, Sound, Distinct, Live
<1> QED BY <1>1, <1>2, <1>3, PTL DEF Spec

(* Of the steps that change a latch only the scan sets one; the move of a
   record brings another boat's along with its name. *)
LEMMA RecallStep ==
  ASSUME TypeInv, ApartInv, [Next]_vars, NEW i \in 1..MaxPeers,
         slot'[i].latch # slot[i].latch, slot'[i].latch # NoCall,
         slot'[i].id = slot[i].id, races = 0
  PROVE  race = "due" /\ slot'[i].latch[1] = slot[i].from
<1> USE Bounds DEF TypeInv, HeldInv, line
<1>0. /\ count \in 0..MaxPeers /\ count \in Nat /\ DOMAIN slot = 1..MaxPeers
      /\ \A j \in 1..MaxPeers : slot[j] \in Records
  BY DEF TypeOK
<1>1. ASSUME NEW b \in Boats, Move(b) \/ Hear(b) PROVE FALSE
  BY <1>1 DEF Move, Hear
<1>2. ASSUME NEW b \in Boats, Receive(b) PROVE FALSE
  <2>1. \E n \in 1..MaxPeers : slot' = [slot EXCEPT ![n] = Stated(n, b, "fresh")]
    <3>1. CASE Known(b)
      BY <1>0, <1>2, <3>1, FirstFacts DEF Receive, Live
    <3>2. CASE ~Known(b)
      BY <1>0, <1>2, <3>2 DEF Receive, Heard
    <3> QED BY <3>1, <3>2
  <2>2. \A n \in 1..MaxPeers : Stated(n, b, "fresh").latch = slot[n].latch
    BY <1>0 DEF Stated, Records
  <2> QED BY <1>0, <2>1, <2>2
<1>3. CASE AddPeer \/ WriteState
  BY <1>3 DEF AddPeer, WriteState, ApartInv
<1>4. ASSUME NEW j \in 1..MaxPeers, Age(j) PROVE FALSE
  <2>1. PICK age \in Ages : slot' = [slot EXCEPT ![j] = [slot[j] EXCEPT !.age = age]]
    BY <1>4 DEF Age, Ages
  <2> QED BY <1>0, <2>1 DEF Records
<1>5. CASE RemoteArm \/ RaceArm
  <2>1. Armed
    BY <1>5 DEF RemoteArm, RaceArm
  <2> QED BY <1>0, <2>1 DEF Armed, Records
<1>6. CASE ExpireSwap
  <2>1. PICK k \in 1..core.i : slot' = [slot EXCEPT ![k] = slot[count]]
    BY <1>6 DEF ExpireSwap
  <2>2. k \in 1..count /\ count \in 1..count /\ count \in 1..MaxPeers /\ k \in 1..MaxPeers
    BY <1>0, <1>6, <2>1 DEF ExpireSwap, TypeOK
  <2>3. Distinct(count)
    BY <1>6 DEF ExpireSwap, ApartInv
  <2>4. i = k
    BY <1>0, <2>1, <2>2
  <2>5. slot[count].id = slot[k].id
    BY <1>0, <2>1, <2>2, <2>4
  <2>6. k = count
    BY <2>2, <2>3, <2>5 DEF Distinct
  <2> QED BY <1>0, <2>1, <2>2, <2>4, <2>6
<1>7. CASE TickEnd \/ ScanEnd
  <2>1. slot' = Settled(slot)
    BY <1>7 DEF TickEnd, ScanEnd
  <2> QED BY <1>0, <2>1 DEF Settled, Records
<1>8. CASE ScanCall
  <2>1. PICK k \in Live :
          slot' = [slot EXCEPT ![k] = [slot[k] EXCEPT !.latch = <<slot[k].id, start>>]]
    BY <1>8 DEF ScanCall
  <2>2. i = k
    BY <1>0, <2>1 DEF Live
  <2>3. slot'[i].latch = <<slot[i].id, start>>
    BY <1>0, <2>1, <2>2 DEF Records
  <2>4. slot[i].id = slot[i].from
    BY <2>1, <2>2 DEF ApartInv, Sound
  <2>5. race = "due"
    BY <1>8 DEF ScanCall, ApartInv
  <2> QED BY <2>3, <2>4, <2>5
<1>9. CASE \/ StartComes \/ RaceDisarm \/ TickBegin \/ ExpireDrop \/ ScanSkip \/ ScanBegin
           \/ UNCHANGED vars
  BY <1>9 DEF StartComes, RaceDisarm, TickBegin, ExpireDrop, ScanSkip, ScanBegin, vars
<1> QED
  BY NextCases, <1>1, <1>2, <1>3, <1>4, <1>5, <1>6, <1>7, <1>8, <1>9

(* While the two have not met, a call goes out only in a start that has come
   and to the boat whose position it was computed from. *)
THEOREM CallsJustified == Spec => RecallJustified
<1>1. Init => TypeInv /\ ApartInv
  BY TypeInit, ApartInit
<1>2. TypeInv /\ ApartInv /\ [Next]_vars => TypeInv' /\ ApartInv'
  BY TypeStep, ApartStep
<1>3. TypeInv /\ ApartInv /\ [Next]_vars =>
      [\A i \in 1..MaxPeers :
         /\ slot'[i].latch # slot[i].latch /\ slot'[i].latch # NoCall
         /\ slot'[i].id = slot[i].id /\ races = 0
         => /\ race = "due"
            /\ slot'[i].latch[1] = slot[i].from]_vars
  BY RecallStep
<1> QED BY <1>1, <1>2, <1>3, PTL DEF Spec, RecallJustified
-----------------------------------------------------------------------------
(* THE BOAT'S OWN FLAG                                                     *)

LEMMA OcsBounds == MaxAnnounced \in Nat /\ ArmCopies \in Nat /\ CallCopies \in Nat
BY OcsSizesAssumption

(* No start is ahead of the one announced last. *)
NoneAhead ==
  /\ {ends, time} \subseteq 0..announced
  /\ ocsCb.start \in 0..announced /\ ocsCore.start \in 0..announced

OcsTypeInv == OcsTypeOK /\ NoneAhead

Booleans == {armed, over, was, told, torn} \subseteq BOOLEAN

LEMMA OcsTypeInit == OcsInit => OcsTypeInv
<1> SUFFICES ASSUME OcsInit PROVE OcsTypeInv
  OBVIOUS
<1>1. Booleans
  BY DEF OcsInit, Booleans
<1>2. NoneAhead
  BY DEF OcsInit, NoneAhead, CbIdle, CoreTop
<1>3. /\ clearing \in {"no", "new", "long"} /\ phase \in Phases /\ bow \in Bows
      /\ seen \subseteq Phases /\ ocsCb = CbIdle /\ ocsCore = CoreTop
      /\ {ends, time, announced} \subseteq 0..MaxAnnounced
      /\ arms \in 0..ArmCopies /\ calls \in 0..CallCopies
  BY OcsBounds DEF OcsInit, Phases, Bows
<1> QED
  BY OcsBounds, <1>1, <1>2, <1>3
     DEF OcsTypeInv, OcsTypeOK, Booleans, CbIdle, CoreTop, Bows, Phases

LEMMA TopFacts ==
  /\ CoreTop.at = "top" /\ CoreTop.start = 0
  /\ CoreTop.bow \in Bows /\ CoreTop.phase \in Phases
  /\ CoreTop \in [at : {"top"}, start : {0}, bow : Bows, phase : Phases]
BY DEF CoreTop, Bows, Phases

LEMMA SeenPhases == \A b \in Bows, p \in Phases : Seen(b, p) \subseteq Phases
BY DEF Seen

LEMMA OcsTypeStep == OcsTypeInv /\ [OcsNext]_ocsVars => OcsTypeInv'
<1> SUFFICES ASSUME OcsTypeInv, [OcsNext]_ocsVars PROVE OcsTypeInv'
  OBVIOUS
<1> USE OcsBounds, SeenPhases
        DEF OcsTypeInv, OcsTypeOK, NoneAhead, ocs, world, sent, pcs, past, Forget
<1>1. CASE Sail
  BY <1>1 DEF Sail
<1>2. CASE Clock
  <2>1. phase' \in Phases
    BY <1>2 DEF Clock, After, Phases
  <2> QED BY <1>2, <2>1 DEF Clock
<1>3. CASE Announce
  BY <1>3 DEF Announce, Phases
<1>4. CASE Call \/ LoseArm \/ LoseCall
  BY <1>4 DEF Call, LoseArm, LoseCall
<1>5. CASE HearArm
  <2>1. Booleans'
    BY <1>5 DEF HearArm, Booleans
  <2>2. (OcsTypeOK /\ NoneAhead)'
    BY <1>5, <2>1 DEF HearArm, Booleans
  <2> QED BY <2>2
<1>6. CASE HearCall
  <2>1. Booleans'
    BY <1>6 DEF HearCall, Booleans
  <2>2. (OcsTypeOK /\ NoneAhead)'
    BY <1>6, <2>1 DEF HearCall, Booleans
  <2> QED BY <2>2
<1>7. CASE CbLine
  BY <1>7 DEF CbLine
<1>8. CASE CbTime
  BY <1>8 DEF CbTime, CbIdle
<1>9. CASE OcsRaceArm
  <2>1. Booleans'
    BY <1>9 DEF OcsRaceArm, Booleans
  <2>2. ocsCore' = [CoreTop EXCEPT !.at = "armLine", !.start = announced]
        /\ clearing' = "no" /\ seen' = Seen(bow, phase)
        /\ UNCHANGED <<ends, time, world, sent, ocsCb>>
    BY <1>9 DEF OcsRaceArm
  <2>3. /\ ocsCore' \in [at : {"armLine"}, start : 0..MaxAnnounced, bow : Bows, phase : Phases]
        /\ ocsCore'.start = announced
    BY <2>2, TopFacts
  <2>4. OcsTypeOK'
    BY <2>1, <2>2, <2>3 DEF Booleans
  <2> QED BY <2>2, <2>3, <2>4
<1>10. CASE OcsRaceDisarm
  BY <1>10 DEF OcsRaceDisarm
<1>11. CASE TickRead
  <2>1. Booleans'
    BY <1>11 DEF TickRead, Booleans
  <2>2. PICK b \in Bows : ocsCore' = [at |-> "time", start |-> 0, bow |-> b, phase |-> phase]
    BY <1>11 DEF TickRead, CoreTop
  <2>3. /\ ocsCore' \in [at : {"time"}, start : 0..MaxAnnounced, bow : Bows, phase : Phases]
        /\ ocsCore'.start = 0
    BY <2>2
  <2>4. UNCHANGED <<clearing, ends, time, announced, phase, bow, arms, calls, ocsCb, seen>>
    BY <1>11 DEF TickRead
  <2>5. OcsTypeOK'
    BY <2>1, <2>3, <2>4 DEF Booleans
  <2> QED BY <2>3, <2>4, <2>5
<1>12. CASE TickTime
  BY <1>12 DEF TickTime
<1>13. CASE TickLatch
  <2>1. over' \in BOOLEAN /\ clearing' \in {"no", "new", "long"}
    BY <1>13 DEF TickLatch, Latch, LatchOver, ClearOrWait
  <2> QED BY <1>13, <2>1 DEF TickLatch, CoreTop, Bows, Phases
<1>14. CASE RaceArmLine
  BY <1>14 DEF RaceArmLine
<1>15. CASE RaceArmTime
  BY <1>15 DEF RaceArmTime, CoreTop, Bows, Phases
<1>16. CASE UNCHANGED ocsVars
  BY <1>16 DEF ocsVars
<1> QED
  BY <1>1, <1>2, <1>3, <1>4, <1>5, <1>6, <1>7, <1>8, <1>9, <1>10, <1>11, <1>12, <1>13,
     <1>14, <1>15, <1>16 DEF OcsNext, OcsCallback, Tick

(* g_ocs and what callback and Core 1 hold keep their ranges. *)
THEOREM OcsTypeCorrect == OcsSpec => []OcsTypeOK
<1>1. OcsTypeInv => OcsTypeOK
  BY DEF OcsTypeInv
<1> QED BY <1>1, OcsTypeInit, OcsTypeStep, PTL DEF OcsSpec

-----------------------------------------------------------------------------
(* One start.                                                              *)

MetInv == ocsCb.at # "idle" /\ ocsCore.at # "top" => torn

StoreInv == ~torn =>
  /\ ocsCb.at = "time" => ends = ocsCb.start
  /\ ocsCore.at = "armTime" => ends = ocsCore.start
  /\ ocsCb.at = "idle" /\ ocsCore.at \notin {"armLine", "armTime"} => ends = time

StartInv == MetInv /\ StoreInv

LEMMA StartStep == OcsTypeInv /\ StartInv /\ [OcsNext]_ocsVars => StartInv'
<1> SUFFICES ASSUME OcsTypeInv, StartInv, [OcsNext]_ocsVars PROVE StartInv'
  OBVIOUS
<1> USE DEF OcsTypeInv, OcsTypeOK, StartInv, MetInv, StoreInv, ocs, world, sent, pcs, past
<1>1. CASE Sail \/ Clock \/ Announce \/ Call \/ LoseArm \/ LoseCall \/ HearCall
  BY <1>1 DEF Sail, Clock, Announce, Call, LoseArm, LoseCall, HearCall
<1>2. CASE HearArm
  BY <1>2 DEF HearArm
<1>3. CASE CbLine
  BY <1>3 DEF CbLine
<1>4. CASE CbTime
  BY <1>4 DEF CbTime, CbIdle
<1>5. CASE OcsRaceArm
  BY <1>5 DEF OcsRaceArm, CoreTop
<1>6. CASE OcsRaceDisarm
  BY <1>6 DEF OcsRaceDisarm
<1>7. CASE TickRead
  BY <1>7 DEF TickRead, CoreTop
<1>8. CASE TickTime
  BY <1>8 DEF TickTime
<1>9. CASE TickLatch
  BY <1>9 DEF TickLatch, CoreTop
<1>10. CASE RaceArmLine
  BY <1>10 DEF RaceArmLine
<1>11. CASE RaceArmTime
  BY <1>11 DEF RaceArmTime, CoreTop
<1>12. CASE UNCHANGED ocsVars
  BY <1>12 DEF ocsVars
<1> QED
  BY <1>1, <1>2, <1>3, <1>4, <1>5, <1>6, <1>7, <1>8, <1>9, <1>10, <1>11, <1>12
     DEF OcsNext, OcsCallback, Tick

(* Line and time are those of one start, whichever copies arrive and whenever,
   unless an arming met the other core in mid-work. *)
THEOREM StartsWhole == OcsSpec => []OneStart
<1>1. OcsInit => OcsTypeInv /\ StartInv
  BY OcsTypeInit DEF OcsInit, StartInv, MetInv, StoreInv, CbIdle, CoreTop
<1>2. OcsTypeInv /\ StartInv /\ [OcsNext]_ocsVars => OcsTypeInv' /\ StartInv'
  BY OcsTypeStep, StartStep
<1>3. StartInv => OneStart
  BY DEF StartInv, StoreInv, OneStart
<1> QED BY <1>1, <1>2, <1>3, PTL DEF OcsSpec

-----------------------------------------------------------------------------
(* Why a boat is flagged.                                                  *)

(* Once a store of this start's line is due or done, where the bow is now has
   been seen. *)
Current ==
  \/ ends = announced
  \/ ocsCb.at = "line" /\ ocsCb.start = announced
  \/ ocsCore.at = "armLine" /\ ocsCore.start = announced

NowInv == Current => Seen(bow, phase) \subseteq seen

TickInv == ~torn /\ ocsCore.at \in {"time", "latch"} =>
  Seen(ocsCore.bow, ocsCore.phase) \subseteq seen

SeenInv == NowInv /\ TickInv /\ FlagExplained

LEMMA SeenFacts ==
  \A b, p : (p \in Seen(b, p) <=> b = "course" /\ p # "before") /\ (b # "course" => Seen(b, p) = {})
BY DEF Seen

(* What a tick makes of the flag. *)
LEMMA LatchFacts ==
  ASSUME NEW b, NEW p \in Phases, Latch(b, p), over', ~over
  PROVE  b = "course" /\ p \in {"after", "past"}
<1>1. p \notin {"before", "near"}
  BY DEF Latch
<1>2. b = "course"
  BY <1>1 DEF Latch, ClearOrWait
<1> QED BY <1>1, <1>2 DEF Phases

LEMMA SeenStep == OcsTypeInv /\ StartInv /\ SeenInv /\ [OcsNext]_ocsVars => SeenInv'
<1> SUFFICES ASSUME OcsTypeInv, StartInv, SeenInv, [OcsNext]_ocsVars PROVE SeenInv'
  OBVIOUS
<1> USE OcsBounds DEF OcsTypeInv, OcsTypeOK, NoneAhead, SeenInv, ocs, world, sent, pcs, past, Forget
<1>1. CASE Sail
  BY <1>1 DEF Sail, NowInv, Current, TickInv, FlagExplained
<1>2. CASE Clock
  BY <1>2 DEF Clock, NowInv, Current, TickInv, FlagExplained
<1>3. CASE Announce
  <2>1. ~Current'
    BY <1>3 DEF Announce, Current
  <2> QED BY <1>3, <2>1 DEF Announce, NowInv, TickInv, FlagExplained
<1>4. CASE Call \/ LoseArm \/ LoseCall
  BY <1>4 DEF Call, LoseArm, LoseCall, NowInv, Current, TickInv, FlagExplained
<1>5. CASE HearArm
  BY <1>5 DEF HearArm, NowInv, Current, TickInv, FlagExplained
<1>6. CASE HearCall
  <2>1. NowInv' /\ TickInv'
    BY <1>6 DEF HearCall, NowInv, Current, TickInv
  <2>2. FlagExplained'
    <3>1. CASE armed /\ ~over
      BY <1>6, <3>1 DEF HearCall, FlagExplained
    <3>2. CASE ~(armed /\ ~over)
      BY <1>6, <3>2 DEF HearCall, FlagExplained
    <3> QED BY <3>1, <3>2
  <2> QED BY <2>1, <2>2
<1>7. CASE CbLine
  BY <1>7 DEF CbLine, NowInv, Current, TickInv, FlagExplained
<1>8. CASE CbTime
  BY <1>8 DEF CbTime, CbIdle, NowInv, Current, TickInv, FlagExplained
<1>9. CASE OcsRaceArm
  BY <1>9 DEF OcsRaceArm, CoreTop, NowInv, TickInv, FlagExplained
<1>10. CASE OcsRaceDisarm
  BY <1>10 DEF OcsRaceDisarm, NowInv, Current, TickInv, FlagExplained
<1>11. CASE TickRead
  <2>1. ocsCore'.at = "time" /\ UNCHANGED <<ends, announced, bow, phase, ocsCb, seen>>
    BY <1>11 DEF TickRead, CoreTop
  <2>2. NowInv' /\ FlagExplained'
    BY <1>11, <2>1 DEF TickRead, NowInv, Current, FlagExplained
  <2>3. ~torn' => ends = announced /\ ocsCore'.bow = bow /\ ocsCore'.phase = phase
    BY <1>11 DEF TickRead, CoreTop
  <2> QED BY <2>1, <2>2, <2>3 DEF NowInv, Current, TickInv
<1>12. CASE TickTime
  <2> PICK p \in IF time = announced THEN {ocsCore.phase} ELSE Phases :
        /\ ocsCore' = [ocsCore EXCEPT !.at = "latch", !.phase = p]
        /\ was' = (was \/ (p \in {"near", "after"} /\ ocsCore.bow = "course"))
    BY <1>12 DEF TickTime
  <2>1. /\ ocsCore'.at = "latch" /\ ocsCore'.bow = ocsCore.bow /\ ocsCore'.phase = p
        /\ ~torn' => ~torn /\ p = ocsCore.phase
        /\ UNCHANGED <<over, ends, announced, bow, phase, ocsCb, seen, told>>
    BY <1>12 DEF TickTime
  <2>2. NowInv' /\ TickInv'
    BY <1>12, <2>1 DEF TickTime, NowInv, Current, TickInv
  <2>3. ~torn' /\ p \in {"near", "after"} /\ ocsCore.bow = "course" => p \in seen
    BY <1>12, <2>1, SeenFacts DEF TickTime, TickInv
  <2>4. FlagExplained'
    BY <2>1, <2>3 DEF FlagExplained
  <2> QED BY <2>2, <2>4
<1>13. CASE TickLatch
  <2>1. /\ ocsCore'.at = "top"
        /\ UNCHANGED <<was, ends, announced, bow, phase, ocsCb, seen, told, torn>>
    BY <1>13 DEF TickLatch, CoreTop
  <2>2. NowInv' /\ TickInv'
    BY <1>13, <2>1 DEF TickLatch, NowInv, Current, TickInv
  <2>3. over' /\ ~over => ocsCore.bow = "course" /\ ocsCore.phase \in {"after", "past"}
    BY <1>13, LatchFacts DEF TickLatch
  <2>4. ~torn /\ over' /\ ~over => ocsCore.phase \in seen
    BY <1>13, <2>3, SeenFacts DEF TickLatch, TickInv
  <2>5. FlagExplained'
    BY <2>1, <2>3, <2>4 DEF FlagExplained
  <2> QED BY <2>2, <2>5
<1>14. CASE RaceArmLine
  BY <1>14 DEF RaceArmLine, NowInv, Current, TickInv, FlagExplained
<1>15. CASE RaceArmTime
  BY <1>15 DEF RaceArmTime, CoreTop, NowInv, Current, TickInv, FlagExplained
<1>16. CASE UNCHANGED ocsVars
  BY <1>16 DEF ocsVars, NowInv, Current, TickInv, FlagExplained
<1> QED
  BY <1>1, <1>2, <1>3, <1>4, <1>5, <1>6, <1>7, <1>8, <1>9, <1>10, <1>11, <1>12, <1>13,
     <1>14, <1>15, <1>16 DEF OcsNext, OcsCallback, Tick

(* A boat is flagged only for what its bow did, or what it was told, in this
   start. *)
THEOREM FlagsExplained == OcsSpec => []FlagExplained
<1>1. OcsInit => OcsTypeInv /\ StartInv /\ SeenInv
  BY OcsTypeInit DEF OcsInit, StartInv, MetInv, StoreInv, CbIdle, CoreTop, SeenInv, NowInv, Seen,
                  TickInv, FlagExplained
<1>2. OcsTypeInv /\ StartInv /\ SeenInv /\ [OcsNext]_ocsVars => OcsTypeInv' /\ StartInv' /\ SeenInv'
  BY OcsTypeStep, StartStep, SeenStep
<1>3. SeenInv => FlagExplained
  BY DEF SeenInv
<1> QED BY <1>1, <1>2, <1>3, PTL DEF OcsSpec
=============================================================================
