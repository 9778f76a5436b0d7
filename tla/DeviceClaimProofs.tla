-------------------------- MODULE DeviceClaimProofs --------------------------
(***************************************************************************)
(* Proofs about DeviceClaim, for any number of codes and faults.           *)
(*                                                                         *)
(* What a worker has in hand on its way to the card is a key that was      *)
(* redeemed (HandInv, SpentInv); unless two have met, at most one is at    *)
(* the file (AloneInv), and whoever loads it loads what it holds before    *)
(* anything else is in memory (LoadInv); the app waits for the one write   *)
(* it has made (WaitInv).                                                  *)
(***************************************************************************)
EXTENDS DeviceClaim, TLAPS

Loading == {"loadAsk", "loadSave", "loadEnd"}
ToCard  == {"loadSave", "open", "write"}

LEMMA Numbers ==
  /\ MaxCodes \in Nat /\ MaxFaults \in Nat
  /\ NoKey \notin Codes /\ Torn \notin Codes /\ Torn # NoKey
BY SizesAssumption DEF Codes, NoKey, Torn

(* The actions, by worker. *)
LEMMA Actions ==
  ASSUME [Next]_vars
  PROVE  \/ \E w \in Workers : \/ LoadEnd(w) \/ SaveOpen(w) \/ SaveFails(w)
                               \/ SaveWrite(w) \/ Redeem(w)
         \/ TaskBegins \/ TaskAsks \/ ConsoleAsks \/ PhoneRedeems \/ PhoneSaves
         \/ \E c \in Codes : ConsoleClaim(c) \/ PhoneClaims(c)
         \/ Provision \/ Declines \/ LinkLost \/ StatusRead
         \/ LongPress \/ WindowCloses \/ Reset \/ UNCHANGED vars
BY DEF Next, Task, Console, Ble, Step, Phone, Workers

-----------------------------------------------------------------------------
(* Types, and what is in hand.                                             *)

HandInv ==
  /\ \A w \in Workers : pc[w] \in ToCard \cup {"redeem"} => code[w] \in Codes
  /\ pc["console"] \in {"loadAsk", "ask"} => code["console"] \in Codes
  /\ ph # "idle" => phCode \in Codes

TypeInv == TypeOK /\ HandInv

LEMMA TypeInit == Init => TypeInv
<1> SUFFICES ASSUME Init PROVE TypeInv
  OBVIOUS
<1>1. {loaded, tried, window, bonded, cut, met} \subseteq BOOLEAN
  BY DEF Init
<1>2. /\ pc = [w \in Workers |-> "idle"] /\ faults \in 0..MaxFaults
      /\ code \in [Workers -> {NoKey}] /\ read \in [Workers -> {NoKey}]
  BY Numbers DEF Init
<1>3. HandInv
  BY <1>2 DEF Init, HandInv, ToCard, Workers
<1> QED BY <1>1, <1>2, <1>3 DEF Init, TypeInv, TypeOK

LEMMA TypeStep == TypeInv /\ [Next]_vars => TypeInv'
<1> SUFFICES ASSUME TypeInv, [Next]_vars PROVE TypeInv'
  OBVIOUS
<1> USE Numbers DEF TypeInv, TypeOK, HandInv, ToCard, Workers, Goto,
                    server, device, work, pairing, phone, past, Fault, NoFault
<1>1. ASSUME NEW w \in Workers, LoadEnd(w) PROVE TypeInv'
  BY <1>1 DEF LoadEnd, After
<1>2. ASSUME NEW w \in Workers, SaveOpen(w) PROVE TypeInv'
  BY <1>2 DEF SaveOpen, Crowded
<1>3. ASSUME NEW w \in Workers, SaveFails(w) PROVE TypeInv'
  BY <1>3 DEF SaveFails, Answer
<1>4. ASSUME NEW w \in Workers, SaveWrite(w) PROVE TypeInv'
  BY <1>4 DEF SaveWrite, Answer
<1>5. ASSUME NEW w \in Workers, Redeem(w) PROVE TypeInv'
  BY <1>5 DEF Redeem
<1>6. CASE TaskBegins
  BY <1>6 DEF TaskBegins, EnsureLoaded, Key, Crowded
<1>7. CASE TaskAsks
  BY <1>7 DEF TaskAsks
<1>8. CASE ConsoleAsks
  BY <1>8 DEF ConsoleAsks
<1>9. CASE PhoneRedeems
  BY <1>9 DEF PhoneRedeems
<1>10. CASE PhoneSaves
  BY <1>10 DEF PhoneSaves
<1>11. ASSUME NEW c \in Codes, ConsoleClaim(c) PROVE TypeInv'
  BY <1>11 DEF ConsoleClaim, EnsureLoaded, Key, Crowded
<1>12. ASSUME NEW c \in Codes, PhoneClaims(c) PROVE TypeInv'
  BY <1>12 DEF PhoneClaims
<1>13. CASE Provision
  BY <1>13 DEF Provision, EnsureLoaded, Key, Crowded
<1>14. CASE Declines
  BY <1>14 DEF Declines
<1>15. CASE LinkLost
  BY <1>15 DEF LinkLost
<1>16. CASE StatusRead
  BY <1>16 DEF StatusRead, EnsureLoaded, Key, Crowded
<1>17. CASE LongPress \/ WindowCloses
  BY <1>17 DEF LongPress, WindowCloses
<1>18. CASE Reset
  <2>1. /\ {loaded', tried', window', bonded', cut', met'} \subseteq BOOLEAN
        /\ key' = NoKey /\ card' = card /\ cfgCode' \in {NoKey} \cup Codes
    BY <1>18 DEF Reset
  <2>2. /\ pc' = [w \in Workers |-> "idle"] /\ faults' \in 0..MaxFaults
        /\ code' \in [Workers -> {NoKey}] /\ read' \in [Workers -> {NoKey}]
    BY <1>18 DEF Reset
  <2>3. ph' \in {"idle", "redeem", "save"} /\ phCode' = phCode /\ (ph' # "idle" => ph # "idle")
    BY <1>18 DEF Reset
  <2>4. fresh' = fresh /\ stored' = stored /\ UNCHANGED <<reported, saved>>
    BY <1>18 DEF Reset
  <2> QED BY <2>1, <2>2, <2>3, <2>4
<1>19. CASE UNCHANGED vars
  BY <1>19 DEF vars
<1> QED
  BY Actions, <1>1, <1>2, <1>3, <1>4, <1>5, <1>6, <1>7, <1>8, <1>9, <1>10, <1>11, <1>12,
     <1>13, <1>14, <1>15, <1>16, <1>17, <1>18, <1>19

(* Every global of the claim keeps its range, and what a worker or the app has
   in hand on its way to the card is a code. *)
THEOREM TypeCorrect == Spec => []TypeOK
<1>1. TypeInv => TypeOK
  BY DEF TypeInv
<1> QED BY <1>1, TypeInit, TypeStep, PTL DEF Spec

-----------------------------------------------------------------------------
(* A key that goes to the card is a redeemed one, and only one goes.       *)

SpentInv ==
  /\ \A w \in Workers : pc[w] \in ToCard => code[w] \notin fresh
  /\ ph = "write" => phCode \notin fresh
  /\ saved \cap fresh = {}

AloneInv ==
  ~met => \A v, w \in Workers :
    pc[v] \in Loading \cup {"write"} /\ pc[w] \in Loading \cup {"write"} => v = w

CardInv == SpentInv /\ AloneInv /\ KeptOnCard

LEMMA CardInit == Init => CardInv
BY Numbers DEF Init, CardInv, SpentInv, AloneInv, KeptOnCard, Saving, ToCard, Loading, Workers

(* Whoever asks whether the device is claimed may have to load first. *)
LEMMA Asks ==
  ASSUME TypeInv, AloneInv, NEW w \in Workers, pc[w] = "idle",
         NEW then \in {"ask", "open", "idle"}, NEW loading \in Loading,
         EnsureLoaded(w, then, loading), then = "open" <=> loading = "loadSave"
  PROVE  /\ AloneInv' /\ (met => met')
         /\ \A v \in Workers \ {w} : pc'[v] = pc[v]
         /\ pc'[w] \in {then, loading} /\ pc'[w] # "write"
         /\ \A v \in Workers : Saving(v)' <=> Saving(v)
<1> USE DEF TypeInv, TypeOK, Goto, Loading, Saving
<1>1. CASE loaded
  BY <1>1 DEF EnsureLoaded, AloneInv
<1>2. CASE ~loaded
  BY <1>2 DEF EnsureLoaded, AloneInv, Crowded
<1> QED BY <1>1, <1>2

LEMMA CardStep == TypeInv /\ CardInv /\ [Next]_vars => CardInv'
<1> SUFFICES ASSUME TypeInv, CardInv, [Next]_vars PROVE CardInv'
  OBVIOUS
<1> USE Numbers DEF TypeInv, TypeOK, HandInv, CardInv, ToCard, Loading, Goto, Saving,
                    server, device, work, pairing, phone, past, Fault, NoFault
<1>1. ASSUME NEW w \in Workers, LoadEnd(w) PROVE CardInv'
  BY <1>1 DEF LoadEnd, After, SpentInv, AloneInv, KeptOnCard
<1>2. ASSUME NEW w \in Workers, SaveOpen(w) PROVE CardInv'
  BY <1>2 DEF SaveOpen, Crowded, SpentInv, AloneInv, KeptOnCard
<1>3. ASSUME NEW w \in Workers, SaveFails(w) PROVE CardInv'
  BY <1>3 DEF SaveFails, SpentInv, AloneInv, KeptOnCard, Answer
<1>4. ASSUME NEW w \in Workers, SaveWrite(w) PROVE CardInv'
  <2>1. SpentInv' /\ AloneInv'
    BY <1>4 DEF SaveWrite, SpentInv, AloneInv, Answer
  <2>2. KeptOnCard'
    <3>1. ASSUME ~met PROVE card' = code[w]
      BY <1>4, <3>1 DEF SaveWrite, AloneInv
    <3> QED BY <1>4, <3>1 DEF SaveWrite, SpentInv, KeptOnCard
  <2> QED BY <2>1, <2>2
<1>5. ASSUME NEW w \in Workers, Redeem(w) PROVE CardInv'
  <2>1. fresh' \subseteq fresh /\ (pc'[w] = "open" => code'[w] \notin fresh')
    BY <1>5 DEF Redeem
  <2>2. /\ pc'[w] \in {"open", "idle"} /\ pc[w] = "redeem"
        /\ \A v \in Workers \ {w} : pc'[v] = pc[v] /\ code'[v] = code[v]
        /\ UNCHANGED <<card, ph, phCode, saved, cut, met>>
    BY <1>5 DEF Redeem
  <2>3. SpentInv'
    BY <2>1, <2>2 DEF SpentInv
  <2>4. AloneInv'
    BY <2>2 DEF AloneInv
  <2>5. KeptOnCard'
    BY <2>1, <2>2, <2>3 DEF KeptOnCard, SpentInv
  <2> QED BY <2>3, <2>4, <2>5
<1>6. CASE TaskBegins
  <2>1. "task" \in Workers
    BY DEF Workers
  <2>2. AloneInv' /\ \A v \in Workers : Saving(v)' <=> Saving(v)
    BY <1>6, <2>1, Asks DEF TaskBegins
  <2>3. pc'["task"] \in {"ask", "loadAsk"} /\ (met => met')
        /\ \A v \in Workers \ {"task"} : pc'[v] = pc[v]
    BY <1>6, <2>1, Asks DEF TaskBegins
  <2> QED BY <1>6, <2>2, <2>3 DEF TaskBegins, SpentInv, KeptOnCard
<1>7. CASE TaskAsks
  BY <1>7 DEF TaskAsks, SpentInv, AloneInv, KeptOnCard, Workers
<1>8. CASE ConsoleAsks
  BY <1>8 DEF ConsoleAsks, SpentInv, AloneInv, KeptOnCard, Workers
<1>9. CASE PhoneRedeems
  BY <1>9 DEF PhoneRedeems, SpentInv, AloneInv, KeptOnCard
<1>10. CASE PhoneSaves
  BY <1>10 DEF PhoneSaves, SpentInv, AloneInv, KeptOnCard
<1>11. ASSUME NEW c \in Codes, ConsoleClaim(c) PROVE CardInv'
  <2>1. "console" \in Workers
    BY DEF Workers
  <2>2. AloneInv' /\ \A v \in Workers : Saving(v)' <=> Saving(v)
    BY <1>11, <2>1, Asks DEF ConsoleClaim
  <2>3. pc'["console"] \in {"ask", "loadAsk"} /\ (met => met')
        /\ \A v \in Workers \ {"console"} : pc'[v] = pc[v] /\ code'[v] = code[v]
    BY <1>11, <2>1, Asks DEF ConsoleClaim
  <2> QED BY <1>11, <2>2, <2>3 DEF ConsoleClaim, SpentInv, KeptOnCard
<1>12. ASSUME NEW c \in Codes, PhoneClaims(c) PROVE CardInv'
  BY <1>12 DEF PhoneClaims, SpentInv, AloneInv, KeptOnCard
<1>13. CASE Provision
  <2>1. "ble" \in Workers
    BY DEF Workers
  <2>2. AloneInv' /\ \A v \in Workers : Saving(v)' <=> Saving(v)
    BY <1>13, <2>1, Asks DEF Provision
  <2>3. code'["ble"] = phCode /\ phCode \notin fresh /\ (met => met')
        /\ \A v \in Workers \ {"ble"} : pc'[v] = pc[v] /\ code'[v] = code[v]
    BY <1>13, <2>1, Asks DEF Provision, SpentInv
  <2> QED BY <1>13, <2>2, <2>3 DEF Provision, SpentInv, KeptOnCard
<1>14. CASE Declines
  BY <1>14 DEF Declines, SpentInv, AloneInv, KeptOnCard
<1>15. CASE LinkLost
  BY <1>15 DEF LinkLost, SpentInv, AloneInv, KeptOnCard
<1>16. CASE StatusRead
  <2>1. "ble" \in Workers
    BY DEF Workers
  <2>2. AloneInv' /\ \A v \in Workers : Saving(v)' <=> Saving(v)
    BY <1>16, <2>1, Asks DEF StatusRead
  <2>3. pc'["ble"] \in {"idle", "loadEnd"} /\ (met => met')
        /\ \A v \in Workers \ {"ble"} : pc'[v] = pc[v]
    BY <1>16, <2>1, Asks DEF StatusRead
  <2> QED BY <1>16, <2>2, <2>3 DEF StatusRead, SpentInv, KeptOnCard
<1>17. CASE LongPress \/ WindowCloses
  BY <1>17 DEF LongPress, WindowCloses, SpentInv, AloneInv, KeptOnCard
<1>18. CASE Reset
  <2>1. /\ \A w \in Workers : pc'[w] = "idle"
        /\ ph' # "write" /\ UNCHANGED <<fresh, card, saved, met>>
        /\ (~cut' => ~cut /\ \A w \in Workers : ~Saving(w))
    BY <1>18 DEF Reset
  <2> QED BY <2>1 DEF SpentInv, AloneInv, KeptOnCard
<1>19. CASE UNCHANGED vars
  BY <1>19 DEF vars, SpentInv, AloneInv, KeptOnCard
<1> QED
  BY Actions, <1>1, <1>2, <1>3, <1>4, <1>5, <1>6, <1>7, <1>8, <1>9, <1>10, <1>11, <1>12,
     <1>13, <1>14, <1>15, <1>16, <1>17, <1>18, <1>19

(* A device that was given a key has one the server issued on its card, over
   any number of claims and resets, unless a reset cut a save or two were at
   the file at once. *)
THEOREM StaysClaimed == Spec => []KeptOnCard
<1>1. Init => TypeInv /\ CardInv
  BY TypeInit, CardInit
<1>2. TypeInv /\ CardInv /\ [Next]_vars => TypeInv' /\ CardInv'
  BY TypeStep, CardStep
<1>3. CardInv => KeptOnCard
  BY DEF CardInv
<1> QED BY <1>1, <1>2, <1>3, PTL DEF Spec

-----------------------------------------------------------------------------
(* Memory and card.                                                        *)

LoadInv ==
  /\ ~loaded => key = NoKey /\ \A w \in Workers : pc[w] = "idle"
  /\ ~cut /\ ~met => \A w \in Workers :
       pc[w] \in Loading => key = NoKey /\ read[w] = card /\ card # Torn

MemInv == LoadInv /\ MemoryAgrees

LEMMA MemInit == Init => MemInv
BY DEF Init, MemInv, LoadInv, MemoryAgrees, Loading, Workers

(* A load that begins finds nothing in memory and an intact card. *)
LEMMA AsksFinds ==
  ASSUME TypeInv, CardInv, MemInv, NEW w \in Workers, pc[w] = "idle",
         NEW then \in {"ask", "open", "idle"}, NEW loading \in Loading,
         EnsureLoaded(w, then, loading), UNCHANGED <<card, key, saved, cut>>
  PROVE  MemInv'
<1> USE Numbers DEF TypeInv, TypeOK, Goto, Loading, MemInv
<1>1. CASE loaded
  BY <1>1 DEF EnsureLoaded, LoadInv, MemoryAgrees
<1>2. CASE ~loaded
  <2>1. key = NoKey /\ \A v \in Workers : pc[v] = "idle"
    BY <1>2 DEF LoadInv
  <2>2. ~cut /\ ~met => card # Torn
    BY <2>1 DEF CardInv, KeptOnCard, Saving
  <2>3. /\ loaded' = TRUE /\ pc' = [pc EXCEPT ![w] = loading]
        /\ read' = [read EXCEPT ![w] = Key(card)] /\ (met => met')
    BY <1>2 DEF EnsureLoaded
  <2>4. LoadInv'
    BY <2>1, <2>2, <2>3 DEF LoadInv, Key
  <2>5. MemoryAgrees'
    BY <2>3 DEF MemoryAgrees
  <2> QED BY <2>4, <2>5
<1> QED BY <1>1, <1>2

LEMMA MemStep == TypeInv /\ CardInv /\ MemInv /\ [Next]_vars => MemInv'
<1> SUFFICES ASSUME TypeInv, CardInv, MemInv, [Next]_vars PROVE MemInv'
  OBVIOUS
<1>a. "task" \in Workers /\ "console" \in Workers /\ "ble" \in Workers
  BY DEF Workers
<1> USE Numbers DEF TypeInv, TypeOK, MemInv, ToCard, Loading, Goto,
                    server, device, work, pairing, phone, past, Fault, NoFault
<1>1. ASSUME NEW w \in Workers, LoadEnd(w) PROVE MemInv'
  <2>1. /\ pc[w] \in Loading /\ pc'[w] \in {"ask", "open", "idle"}
        /\ \A v \in Workers \ {w} : pc'[v] = pc[v] /\ read'[v] = read[v]
        /\ UNCHANGED <<card, loaded, cut, met>>
        /\ key' = IF read[w] = NoKey THEN key ELSE read[w]
    BY <1>1 DEF LoadEnd, After
  <2>2. ~cut /\ ~met => key' = card
    BY <2>1 DEF LoadInv
  <2>3. ~met => \A v \in Workers : pc'[v] \notin Loading
    BY <2>1 DEF CardInv, AloneInv
  <2> QED BY <2>1, <2>2, <2>3 DEF LoadInv, MemoryAgrees
<1>2. ASSUME NEW w \in Workers, SaveOpen(w) PROVE MemInv'
  <2>1. /\ pc[w] = "open" /\ pc' = [pc EXCEPT ![w] = "write"]
        /\ UNCHANGED <<key, loaded, cut>>
        /\ met' = (met \/ Crowded(w))
    BY <1>2 DEF SaveOpen
  <2>2. ~met' => \A v \in Workers : pc'[v] \notin Loading
    BY <2>1 DEF Crowded
  <2> QED BY <2>1, <2>2 DEF LoadInv, MemoryAgrees
<1>3. ASSUME NEW w \in Workers, SaveFails(w) PROVE MemInv'
  BY <1>3 DEF SaveFails, LoadInv, MemoryAgrees
<1>4. ASSUME NEW w \in Workers, SaveWrite(w) PROVE MemInv'
  <2>1. /\ pc[w] = "write" /\ pc' = [pc EXCEPT ![w] = "idle"]
        /\ key' = code[w] /\ UNCHANGED <<read, loaded, cut, met>>
    BY <1>4 DEF SaveWrite
  <2>2. ~met => card' = code[w] /\ \A v \in Workers : pc'[v] \notin Loading
    BY <1>4, <2>1 DEF SaveWrite, Saving, CardInv, AloneInv
  <2> QED BY <2>1, <2>2 DEF LoadInv, MemoryAgrees
<1>5. ASSUME NEW w \in Workers, Redeem(w) PROVE MemInv'
  <2>1. /\ pc'[w] \in {"open", "idle"} /\ pc[w] = "redeem"
        /\ \A v \in Workers \ {w} : pc'[v] = pc[v]
        /\ UNCHANGED <<card, key, loaded, read, cut, met>>
    BY <1>5 DEF Redeem
  <2> QED BY <2>1 DEF LoadInv, MemoryAgrees
<1>6. CASE TaskBegins
  BY <1>6, <1>a, AsksFinds DEF TaskBegins
<1>7. CASE TaskAsks
  BY <1>7 DEF TaskAsks, LoadInv, MemoryAgrees, Workers
<1>8. CASE ConsoleAsks
  BY <1>8 DEF ConsoleAsks, LoadInv, MemoryAgrees, Workers
<1>9. CASE PhoneRedeems \/ PhoneSaves \/ Declines \/ LinkLost \/ LongPress \/ WindowCloses
  BY <1>9 DEF PhoneRedeems, PhoneSaves, Declines, LinkLost, LongPress, WindowCloses,
              LoadInv, MemoryAgrees
<1>10. ASSUME NEW c \in Codes, ConsoleClaim(c) PROVE MemInv'
  BY <1>10, <1>a, AsksFinds DEF ConsoleClaim
<1>11. ASSUME NEW c \in Codes, PhoneClaims(c) PROVE MemInv'
  BY <1>11 DEF PhoneClaims, LoadInv, MemoryAgrees
<1>12. CASE Provision
  BY <1>12, <1>a, AsksFinds DEF Provision
<1>13. CASE StatusRead
  BY <1>13, <1>a, AsksFinds DEF StatusRead
<1>14. CASE Reset
  <2>1. /\ \A w \in Workers : pc'[w] = "idle"
        /\ key' = NoKey /\ ~loaded'
    BY <1>14 DEF Reset
  <2> QED BY <2>1 DEF LoadInv, MemoryAgrees
<1>15. CASE UNCHANGED vars
  BY <1>15 DEF vars, LoadInv, MemoryAgrees
<1> QED
  BY Actions, <1>1, <1>2, <1>3, <1>4, <1>5, <1>6, <1>7, <1>8, <1>9, <1>10, <1>11, <1>12,
     <1>13, <1>14, <1>15

(* What authenticates the uploads is what the next boot will find, under the
   same exceptions. *)
THEOREM MemoryOnCard == Spec => []MemoryAgrees
<1>1. Init => TypeInv /\ CardInv /\ MemInv
  BY TypeInit, CardInit, MemInit
<1>2. TypeInv /\ CardInv /\ MemInv /\ [Next]_vars => TypeInv' /\ CardInv' /\ MemInv'
  BY TypeStep, CardStep, MemStep
<1>3. MemInv => MemoryAgrees
  BY DEF MemInv
<1> QED BY <1>1, <1>2, <1>3, PTL DEF Spec

=============================================================================
