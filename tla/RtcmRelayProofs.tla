--------------------------- MODULE RtcmRelayProofs ---------------------------
(***************************************************************************)
(* Proofs about RtcmRelay, for every number of frames, fragments and       *)
(* identifiers and every ring.                                             *)
(*                                                                         *)
(* A partial frame that has not gone stale belongs to one frame (OwnInv):  *)
(* the one on the air if their identifiers agree.  What completes is       *)
(* therefore always the frame on the air, valid, and new.                  *)
(***************************************************************************)
EXTENDS RtcmRelay, SequenceTheorems, TLAPS

LEMMA Bounds ==
  NumFrames \in Nat /\ MaxFrags \in Nat /\ RingSize \in Nat /\ IdMod \in Nat /\ IdMod > 0
BY SizesAssumption, IdAssumption

LEMMA FrameFacts ==
  /\ \A f \in Frames : /\ f.n \in 1..NumFrames /\ f.id \in Ids /\ f.count \in 1..MaxFrags
                       /\ f # NoFrame
  /\ NoFrame.n = 0 /\ NoFrame.count = 0
BY DEF Frames, NoFrame

LEMMA FragFacts ==
  /\ \A f, i : Frag(f, i).frame = f /\ Frag(f, i).index = i
  /\ \A f \in Frames : \A i \in 0..(f.count - 1) : Frag(f, i) \in Frags
  /\ \A x \in Frags : x.frame \in Frames /\ x.index \in Indexes
  /\ NoFrag.frame = NoFrame
BY Bounds, FrameFacts DEF Frag, Frags, NoFrag, Indexes

(* What a send into the ring adds: the first k fragments of the frame. *)
LEMMA PrefixFacts ==
  ASSUME NEW f \in Frames, NEW k \in 0..f.count
  PROVE  /\ SubSeq(Whole(f), 1, k) \in Seq(Frags)
         /\ Len(SubSeq(Whole(f), 1, k)) = k
         /\ \A i \in 1..k : SubSeq(Whole(f), 1, k)[i] = Frag(f, i - 1)
<1>1. f.count \in Nat
  BY Bounds, FrameFacts
<1>2. \A i \in 1..f.count : Whole(f)[i] = Frag(f, i - 1) /\ Frag(f, i - 1) \in Frags
  BY <1>1, FragFacts DEF Whole
<1>3. Whole(f) \in Seq(Frags) /\ Len(Whole(f)) = f.count
  <2>1. Whole(f) \in [1..f.count -> Frags]
    BY <1>1, <1>2 DEF Whole
  <2> QED BY <1>1, <2>1, SeqDef, LenProperties
<1> QED BY <1>1, <1>2, <1>3

(* Appending to a sequence, entry by entry. *)
LEMMA AppendFacts ==
  ASSUME NEW S, NEW s \in Seq(S), NEW t \in Seq(S)
  PROVE  /\ s \o t \in Seq(S) /\ Len(s \o t) = Len(s) + Len(t)
         /\ \A i \in 1..Len(s) : (s \o t)[i] = s[i]
         /\ \A i \in 1..Len(t) : (s \o t)[Len(s) + i] = t[i]
OBVIOUS

-----------------------------------------------------------------------------
(* Which frame a partial one is.                                           *)

Owned(f) ==
  /\ f \in Frames /\ cur = f.id /\ count = f.count
  /\ mask \subseteq 0..(f.count - 1) /\ mask # 0..(f.count - 1)
  /\ \A j \in mask : buf[j] = Frag(f, j)
  /\ total = IF f.count - 1 \in mask THEN f.count ELSE 0
  /\ tx # NoFrame /\ tx.id = f.id => tx = f

OwnInv == Partial => \E f : Owned(f)

(* A fragment that is kept joins those of its own frame. *)
LEMMA KeptOwned ==
  ASSUME TypeOK, OwnInv, tx # NoFrame, Kept
  PROVE  /\ tx \in Frames /\ idx \in 0..(tx.count - 1)
         /\ cur' = tx.id /\ count' = tx.count
         /\ HeldMask \subseteq 0..(tx.count - 1)
         /\ mask' = HeldMask \union {idx} /\ mask' \subseteq 0..(tx.count - 1)
         /\ \A j \in mask' : buf'[j] = Frag(tx, j)
         /\ total' = IF tx.count - 1 \in mask' THEN tx.count ELSE 0
         /\ buf' \in [Indexes -> Frags \union {NoFrag}]
<1>1. tx \in Frames /\ idx \in 0..(tx.count - 1) /\ tx.count \in 1..MaxFrags
  BY FrameFacts DEF TypeOK
<1>2. idx \in Indexes /\ 0..(tx.count - 1) \subseteq Indexes
  BY <1>1, Bounds DEF Indexes
<1>3. buf' = [buf EXCEPT ![idx] = Frag(tx, idx)] /\ Frag(tx, idx) \in Frags
  BY <1>1, FragFacts DEF Kept
<1>4. buf' \in [Indexes -> Frags \union {NoFrag}]
  BY <1>3 DEF TypeOK
<1>5. CASE SameFrame
  <2>1. Owned(tx)
    BY <1>5 DEF OwnInv, SameFrame, Owned
  <2>2. count' = tx.count /\ HeldMask = mask /\ mask \subseteq 0..(tx.count - 1)
    BY <1>5, <2>1 DEF Kept, Owned, HeldMask
  <2>3. \A j \in mask' : buf'[j] = Frag(tx, j)
    BY <1>2, <1>3, <2>1, <2>2 DEF Kept, Owned, TypeOK
  <2>4. total' = IF tx.count - 1 \in mask' THEN tx.count ELSE 0
    BY <1>1, <1>5, <2>1, <2>2 DEF Kept, Owned
  <2> QED BY <1>1, <1>4, <2>2, <2>3, <2>4 DEF Kept
<1>6. CASE ~SameFrame
  <2>1. count' = tx.count /\ HeldMask = {} /\ mask' = {idx}
    BY <1>6 DEF Kept, HeldMask
  <2>2. \A j \in mask' : buf'[j] = Frag(tx, j)
    BY <1>2, <1>3, <2>1 DEF TypeOK
  <2>3. total' = IF tx.count - 1 \in mask' THEN tx.count ELSE 0
    BY <1>1, <1>6, <2>1 DEF Kept
  <2> QED BY <1>1, <1>4, <2>1, <2>2, <2>3 DEF Kept
<1> QED BY <1>5, <1>6

(* What completes is the frame on the air, and its bytes are valid. *)
LEMMA FinishPushes ==
  ASSUME TypeOK, OwnInv, Finish
  PROVE  tx \in Frames /\ mask' = 0..(tx.count - 1) /\ Push(tx)
<1>1. tx # NoFrame /\ Kept /\ Complete(mask', count', total')
  BY DEF Finish, Hear
<1>2. /\ tx \in Frames /\ count' = tx.count /\ mask' = 0..(tx.count - 1)
      /\ \A j \in mask' : buf'[j] = Frag(tx, j)
      /\ total' = IF tx.count - 1 \in mask' THEN tx.count ELSE 0
  BY <1>1, KeptOwned DEF Complete
<1>3. tx.count \in Nat /\ tx.count >= 1
  BY <1>2, Bounds, FrameFacts
<1>4. total' = tx.count /\ 0 \in mask'
  BY <1>2, <1>3
<1>5. buf'[0].frame = tx
  BY <1>2, <1>4, FragFacts
<1>6. Valid(buf', total')
  BY <1>2, <1>4, <1>5 DEF Valid
<1> QED BY <1>2, <1>5, <1>6 DEF Finish

(* The ring takes what fits. *)
LEMMA PushFacts ==
  ASSUME TypeOK, NEW f \in Frames, Push(f)
  PROVE  \E k \in 0..f.count :
           /\ out' = out \o SubSeq(Whole(f), 1, k)
           /\ out' \in Seq(Frags) /\ Len(out') = Len(out) + k
           /\ \A i \in 1..Len(out) : out'[i] = out[i]
           /\ \A i \in 1..k : out'[Len(out) + i] = Frag(f, i - 1)
           /\ cut' = IF k < f.count THEN cut \union {f.n} ELSE cut
           /\ read' = read /\ Len(out') - read' <= RingSize
<1> DEFINE k == IF f.count > Space THEN Space ELSE f.count
<1>1. f.count \in Nat /\ Space \in Nat
  BY Bounds, FrameFacts DEF TypeOK, Space
<1>2. k \in 0..f.count /\ k <= Space
  BY <1>1
<1>3. out' = out \o SubSeq(Whole(f), 1, k)
  BY DEF Push
<1>4. /\ SubSeq(Whole(f), 1, k) \in Seq(Frags) /\ Len(SubSeq(Whole(f), 1, k)) = k
      /\ \A i \in 1..k : SubSeq(Whole(f), 1, k)[i] = Frag(f, i - 1)
  BY <1>2, PrefixFacts
<1>5. cut' = IF k < f.count THEN cut \union {f.n} ELSE cut
  BY <1>1 DEF Push
<1>6. read' = read
  BY DEF Push
<1> HIDE DEF k
<1>7. out \in Seq(Frags)
  BY DEF TypeOK
<1>8. /\ out' \in Seq(Frags) /\ Len(out') = Len(out) + k
      /\ \A i \in 1..Len(out) : out'[i] = out[i]
      /\ \A i \in 1..k : out'[Len(out) + i] = Frag(f, i - 1)
  BY <1>3, <1>4, <1>7, AppendFacts
<1>9. Len(out') - read' <= RingSize
  BY <1>1, <1>2, <1>6, <1>7, <1>8, Bounds DEF TypeOK, Space
<1> QED BY <1>2, <1>3, <1>5, <1>6, <1>8, <1>9

(* The base's position stays in range. *)
LEMMA AdvanceType ==
  ASSUME TypeOK, tx # NoFrame, Advance
  PROVE  /\ tx' \in Frames \union {NoFrame} /\ rep' \in {0, 1}
         /\ idx' \in IF tx' = NoFrame THEN {0} ELSE 0..(tx'.count - 1)
         /\ tx' \in {tx, NoFrame}
<1>1. tx \in Frames /\ tx.count \in Nat /\ tx.count >= 1 /\ idx \in 0..(tx.count - 1)
  BY Bounds, FrameFacts DEF TypeOK
<1>2. rep' \in {0, 1}
  BY DEF Advance, TypeOK
<1>3. CASE idx + 1 < tx.count
  BY <1>1, <1>2, <1>3 DEF Advance
<1>4. CASE ~(idx + 1 < tx.count)
  BY <1>1, <1>2, <1>4 DEF Advance
<1> QED BY <1>3, <1>4

-----------------------------------------------------------------------------
LEMMA TypeStep ==
  ASSUME TypeOK, OwnInv, [Next]_vars
  PROVE  TypeOK'
<1> USE Bounds DEF baseVars, roverVars, ringVars
<1>1. ASSUME NEW c \in 1..MaxFrags, Produce(c) PROVE TypeOK'
  <2>1. (msgId + 1) % IdMod \in Ids
    BY DEF TypeOK, Ids
  <2>2. [n |-> produced + 1, id |-> msgId, count |-> c] \in Frames
    BY <1>1 DEF Produce, TypeOK, Frames
  <2>3. tx' \in Frames /\ tx'.count >= 1 /\ tx'.count \in Nat /\ idx' = 0
    BY <1>1, <2>2, FrameFacts DEF Produce
  <2>4. idx' \in IF tx' = NoFrame THEN {0} ELSE 0..(tx'.count - 1)
    BY <2>3
  <2> QED BY <1>1, <2>1, <2>3, <2>4 DEF Produce, TypeOK
<1>2. CASE Lose
  BY <1>2, AdvanceType DEF Lose, Advance, TypeOK
<1>3. ASSUME Hear
      PROVE  /\ produced' \in 0..NumFrames /\ msgId' \in Ids
             /\ tx' \in Frames \union {NoFrame} /\ rep' \in {0, 1}
             /\ idx' \in IF tx' = NoFrame THEN {0} ELSE 0..(tx'.count - 1)
             /\ heard' \subseteq Indexes
  <2>1. tx \in Frames /\ tx.count \in 1..MaxFrags /\ idx \in 0..(tx.count - 1)
    BY <1>3, FrameFacts DEF Hear, TypeOK
  <2>2. idx \in Indexes
    BY <2>1 DEF Indexes
  <2> QED BY <1>3, <2>2, AdvanceType DEF Hear, Advance, TypeOK
<1>4. CASE IgnoreTrailing
  BY <1>3, <1>4 DEF IgnoreTrailing, TypeOK, Partial
<1>5. CASE IgnoreInFlight
  BY <1>3, <1>5 DEF IgnoreInFlight, TypeOK
<1>6. ASSUME Hear, Kept
      PROVE  /\ cur' \in Ids /\ count' \in 0..MaxFrags /\ mask' \subseteq Indexes
             /\ total' \in 0..MaxFrags /\ buf' \in [Indexes -> Frags \union {NoFrag}]
  <2>1. tx # NoFrame
    BY <1>6 DEF Hear
  <2>2. tx \in Frames /\ tx.id \in Ids /\ tx.count \in 1..MaxFrags
    BY <2>1, FrameFacts DEF TypeOK
  <2>3. /\ cur' = tx.id /\ count' = tx.count /\ mask' \subseteq 0..(tx.count - 1)
        /\ total' = IF tx.count - 1 \in mask' THEN tx.count ELSE 0
        /\ buf' \in [Indexes -> Frags \union {NoFrag}]
    BY <1>6, <2>1, KeptOwned
  <2> QED BY <2>2, <2>3 DEF Indexes
<1>7. CASE Store
  BY <1>3, <1>6, <1>7 DEF Store, TypeOK
<1>8. CASE Finish
  <2>1. tx \in Frames /\ Push(tx)
    BY <1>8, FinishPushes
  <2>2. PICK k \in 0..tx.count :
          /\ out' \in Seq(Frags) /\ Len(out') = Len(out) + k
          /\ cut' = IF k < tx.count THEN cut \union {tx.n} ELSE cut
          /\ read' = read /\ Len(out') - read' <= RingSize
    BY <2>1, PushFacts
  <2>3. read' \in 0..Len(out') /\ cut' \subseteq 1..NumFrames
    <3>1. tx.n \in 1..NumFrames /\ tx.count \in Nat
      BY <2>1, FrameFacts
    <3>2. cut' \subseteq 1..NumFrames
      BY <2>2, <3>1 DEF TypeOK
    <3>3. read \in 0..Len(out) /\ Len(out) \in Nat
      BY DEF TypeOK
    <3> QED BY <2>2, <3>1, <3>2, <3>3
  <2>4. /\ Hear /\ Kept /\ active' = FALSE /\ stale' = FALSE /\ done' = tx
    BY <1>8 DEF Finish
  <2> QED BY <1>3, <1>6, <2>1, <2>2, <2>3, <2>4 DEF TypeOK
<1>9. CASE Age BY <1>9 DEF Age, TypeOK
<1>10. ASSUME NEW k \in 1..RingSize, Drain(k) PROVE TypeOK'
  BY <1>10 DEF Drain, TypeOK
<1>11. CASE BaseRestart
  <2>1. 0 \in Ids BY DEF Ids
  <2> QED BY <1>11, <2>1 DEF BaseRestart, TypeOK
<1>12. CASE RoverRestart
  <2>1. 0 \in Ids BY DEF Ids
  <2>2. out' \in Seq(Frags) /\ Len(out') = 0 /\ read' = 0
    BY <1>12 DEF RoverRestart
  <2>3. buf' \in [Indexes -> Frags \union {NoFrag}] /\ active' \in BOOLEAN /\ stale' \in BOOLEAN
    BY <1>12 DEF RoverRestart
  <2>4. /\ mask' \subseteq Indexes /\ cut' \subseteq 1..NumFrames
        /\ count' \in 0..MaxFrags /\ total' \in 0..MaxFrags
    BY <1>12 DEF RoverRestart
  <2>5. cur' \in Ids /\ done' \in Frames \union {NoFrame}
    BY <1>12, <2>1 DEF RoverRestart
  <2>6. UNCHANGED <<produced, msgId, tx, rep, idx, heard>>
    BY <1>12 DEF RoverRestart
  <2> QED BY <2>2, <2>3, <2>4, <2>5, <2>6 DEF TypeOK
<1>13. CASE UNCHANGED vars BY <1>13 DEF vars, TypeOK
<1> QED BY <1>1, <1>2, <1>4, <1>5, <1>7, <1>8, <1>9, <1>10, <1>11, <1>12, <1>13 DEF Next

LEMMA OwnStep ==
  ASSUME TypeOK, OwnInv, [Next]_vars
  PROVE  OwnInv'
<1> USE DEF baseVars, roverVars, ringVars, Partial
<1>1. ASSUME UNCHANGED <<cur, count, mask, total, buf>>, Partial' => Partial,
             \A f : Partial' /\ Owned(f) => (tx' # NoFrame /\ tx'.id = f.id => tx' = f)
      PROVE  OwnInv'
  BY <1>1 DEF OwnInv, Owned
<1>2. ASSUME NEW c \in 1..MaxFrags, Produce(c) PROVE OwnInv'
  BY <1>1, <1>2 DEF Produce, Owned
<1>3. ASSUME tx # NoFrame, Advance PROVE tx' \in {tx, NoFrame}
  BY <1>3, AdvanceType
<1>4. CASE Lose BY <1>1, <1>3, <1>4 DEF Lose, Owned
<1>5. CASE IgnoreTrailing BY <1>1, <1>3, <1>5 DEF IgnoreTrailing, Hear, Owned
<1>6. CASE IgnoreInFlight BY <1>1, <1>3, <1>6 DEF IgnoreInFlight, Hear, Owned
<1>7. CASE Store
  <2>1. tx # NoFrame /\ Kept /\ ~Complete(mask', count', total') /\ tx' \in {tx, NoFrame}
    BY <1>3, <1>7 DEF Store, Hear
  <2>2. /\ tx \in Frames /\ cur' = tx.id /\ count' = tx.count
        /\ mask' \subseteq 0..(tx.count - 1)
        /\ \A j \in mask' : buf'[j] = Frag(tx, j)
        /\ total' = IF tx.count - 1 \in mask' THEN tx.count ELSE 0
    BY <2>1, KeptOwned
  <2>3. tx.count \in Nat /\ tx.count >= 1
    BY <2>2, Bounds, FrameFacts
  <2>4. mask' # 0..(tx.count - 1)
    BY <2>1, <2>2, <2>3 DEF Complete
  <2>5. \E f : Owned(f)'
    <3> DEFINE g == tx
    <3>1. g = tx OBVIOUS
    <3> QED BY <2>1, <2>2, <2>4 DEF Owned
  <2> QED BY <2>5 DEF OwnInv
<1>8. CASE Finish BY <1>8 DEF Finish, OwnInv
<1>9. CASE Age BY <1>9 DEF Age, OwnInv
<1>10. ASSUME NEW k \in 1..RingSize, Drain(k) PROVE OwnInv'
  BY <1>1, <1>10 DEF Drain, Owned
<1>11. CASE BaseRestart BY <1>11 DEF BaseRestart, OwnInv
<1>12. CASE RoverRestart BY <1>12 DEF RoverRestart, OwnInv
<1>13. CASE UNCHANGED vars BY <1>1, <1>13 DEF vars, Owned
<1> QED BY <1>2, <1>4, <1>5, <1>6, <1>7, <1>8, <1>9, <1>10, <1>11, <1>12, <1>13 DEF Next

LEMMA InitInv == Init => TypeOK /\ OwnInv
<1> SUFFICES ASSUME Init PROVE TypeOK /\ OwnInv
  OBVIOUS
<1>1. 0 \in Ids
  BY Bounds DEF Ids
<1>2. out \in Seq(Frags) /\ Len(out) = 0
  BY DEF Init
<1>3. buf \in [Indexes -> Frags \union {NoFrag}]
  BY DEF Init
<1>4. /\ produced \in 0..NumFrames /\ count \in 0..MaxFrags /\ total \in 0..MaxFrags
      /\ read \in 0..Len(out) /\ Len(out) - read <= RingSize
  BY <1>2, Bounds DEF Init
<1>5. idx \in IF tx = NoFrame THEN {0} ELSE 0..(tx.count - 1)
  BY DEF Init
<1>6. TypeOK
  BY <1>1, <1>2, <1>3, <1>4, <1>5 DEF Init, TypeOK
<1> QED BY <1>6 DEF Init, OwnInv, Partial

(* Base, reassembler and ring keep their ranges; the ring never holds more than
   it can. *)
THEOREM TypeCorrect == Spec => [](TypeOK /\ OwnInv)
<1>1. TypeOK /\ OwnInv /\ [Next]_vars => TypeOK' /\ OwnInv'
  BY TypeStep, OwnStep
<1> QED BY <1>1, InitInv, PTL DEF Spec

-----------------------------------------------------------------------------
(* The order of what is handed on.                                         *)

(* What was handed on was numbered before what comes next; the frame on the
   air, once handed on, is the one completed last, and so only a trailing
   duplicate. *)
OrderInv ==
  /\ FramesInOrder
  /\ done.n <= produced
  /\ \A i \in 1..Len(out) : out[i].frame.n <= produced
  /\ tx # NoFrame => /\ tx.n = produced
                     /\ \A i \in 1..Len(out) : out[i].frame.n = tx.n => done = tx

LEMMA PushKeepsOrder ==
  ASSUME TypeOK, FramesInOrder, NEW f \in Frames, Push(f),
         \A i \in 1..Len(out) : out[i].frame.n < f.n
  PROVE  /\ FramesInOrder'
         /\ \A i \in 1..Len(out') : out'[i].frame.n <= f.n
<1>1. PICK k \in 0..f.count :
        /\ Len(out') = Len(out) + k
        /\ \A i \in 1..Len(out) : out'[i] = out[i]
        /\ \A i \in 1..k : out'[Len(out) + i] = Frag(f, i - 1)
        /\ cut' = IF k < f.count THEN cut \union {f.n} ELSE cut
  BY PushFacts
<1> DEFINE L == Len(out)
<1>2. L \in Nat /\ f.count \in Nat /\ f.n \in Nat /\ k \in Nat
  BY <1>1, Bounds, FrameFacts DEF TypeOK
<1>3. \A i \in 1..L : out[i] \in Frags /\ out[i].frame.n \in Nat /\ out[i].index \in Nat
  <2>1. \A i \in 1..L : out[i] \in Frags
    BY DEF TypeOK
  <2> QED BY <2>1, Bounds, FragFacts, FrameFacts DEF Indexes
<1>4. cut \subseteq cut'
  BY <1>1
<1>5. ASSUME NEW i \in 1..Len(out')
      PROVE  i \in 1..L \/ \E j \in 1..k : i = L + j
  <2>1. CASE i <= L BY <1>1, <1>2, <2>1
  <2>2. CASE ~(i <= L)
    <3>1. i - L \in 1..k /\ i = L + (i - L)
      BY <1>1, <1>2, <2>2
    <3> QED BY <3>1
  <2> QED BY <2>1, <2>2
<1>6. ASSUME NEW j \in 1..k
      PROVE  out'[L + j].frame = f /\ out'[L + j].index = j - 1
  BY <1>1, FragFacts
<1> DEFINE First(i) == IF out'[i].index = 0
                         THEN i > 1 => out'[i - 1].frame.n < out'[i].frame.n
                         ELSE i > 1 /\ out'[i - 1] = Frag(out'[i].frame, out'[i].index - 1)
           Last(i)  == \/ out'[i].frame.n \in cut'
                       \/ out'[i].index = out'[i].frame.count - 1
                       \/ i < Len(out') /\ out'[i + 1] = Frag(out'[i].frame, out'[i].index + 1)
<1>7. ASSUME NEW i \in 1..L
      PROVE  First(i) /\ out'[i].index < out'[i].frame.count /\ Last(i)
  <2>1. out'[i] = out[i] /\ (i > 1 => i - 1 \in 1..L /\ out'[i - 1] = out[i - 1])
    BY <1>1, <1>2
  <2>2. /\ IF out[i].index = 0
             THEN i > 1 => out[i - 1].frame.n < out[i].frame.n
             ELSE i > 1 /\ out[i - 1] = Frag(out[i].frame, out[i].index - 1)
        /\ out[i].index < out[i].frame.count
        /\ out[i].frame.n \in cut \/ out[i].index = out[i].frame.count - 1
             \/ (i < L /\ out[i + 1] = Frag(out[i].frame, out[i].index + 1))
    BY DEF FramesInOrder
  <2>3. i < L => out'[i + 1] = out[i + 1] /\ i < Len(out')
    BY <1>1, <1>2
  <2>4. First(i)
    BY <2>1, <2>2
  <2> QED BY <1>4, <2>1, <2>2, <2>3, <2>4
<1>8. ASSUME NEW j \in 1..k
      PROVE  First(L + j) /\ out'[L + j].index < out'[L + j].frame.count /\ Last(L + j)
  <2>1. First(L + j)
    <3>1. CASE j = 1
      <4>1. out'[L + j].index = 0 /\ out'[L + j].frame = f
        BY <1>6, <3>1
      <4>2. L + j > 1 => (L + j) - 1 \in 1..L /\ out'[(L + j) - 1] = out[(L + j) - 1]
        BY <1>1, <1>2, <3>1
      <4> QED BY <4>1, <4>2
    <3>2. CASE j # 1
      <4>1. j - 1 \in 1..k /\ (L + j) - 1 = L + (j - 1) /\ L + j > 1
        BY <1>2, <3>2
      <4>2. out'[L + (j - 1)] = Frag(f, (j - 1) - 1)
        BY <1>1, <4>1
      <4>3. out'[L + j].index = j - 1 /\ j - 1 # 0 /\ out'[L + j].frame = f
        BY <1>6, <3>2
      <4> QED BY <4>1, <4>2, <4>3
    <3> QED BY <3>1, <3>2
  <2>2. out'[L + j].index < out'[L + j].frame.count
    <3>1. j - 1 < f.count
      BY <1>2
    <3> QED BY <1>6, <3>1
  <2>3. Last(L + j)
    <3>1. CASE j < k
      <4>1. j + 1 \in 1..k /\ L + (j + 1) = (L + j) + 1 /\ L + j < Len(out')
        BY <1>1, <1>2, <3>1
      <4>2. out'[L + (j + 1)] = Frag(f, (j + 1) - 1)
        BY <1>1, <4>1
      <4> QED BY <1>6, <4>1, <4>2
    <3>2. CASE j = k /\ k = f.count
      BY <1>6, <3>2
    <3>3. CASE j = k /\ k # f.count
      <4>1. f.n \in cut'
        BY <1>1, <1>2, <3>3
      <4> QED BY <1>6, <4>1
    <3> QED BY <1>2, <3>1, <3>2, <3>3
  <2> QED BY <2>1, <2>2, <2>3
<1>9. \A i \in 1..Len(out') : out'[i].frame.n <= f.n
  <2>1. ASSUME NEW i \in 1..L PROVE out'[i].frame.n <= f.n
    BY <1>1, <1>2, <1>3
  <2>2. ASSUME NEW j \in 1..k PROVE out'[L + j].frame.n <= f.n
    <3>1. f.n <= f.n
      BY <1>2
    <3> QED BY <1>6, <3>1
  <2> QED BY <1>5, <2>1, <2>2
<1>10. \A i \in 1..Len(out') :
         First(i) /\ out'[i].index < out'[i].frame.count /\ Last(i)
  <2> HIDE DEF First, Last
  <2> QED BY <1>5, <1>7, <1>8
<1> QED BY <1>9, <1>10 DEF FramesInOrder

LEMMA OrderStep ==
  ASSUME TypeOK, OwnInv, OrderInv, [Next]_vars
  PROVE  OrderInv'
<1> USE DEF baseVars, roverVars, ringVars
<1>1. /\ produced \in Nat /\ Len(out) \in Nat /\ done.n \in Nat
      /\ \A i \in 1..Len(out) : out[i].frame.n \in Nat
  <2>1. \A i \in 1..Len(out) : out[i] \in Frags
    BY DEF TypeOK
  <2>2. done.n \in Nat
    BY Bounds, FrameFacts DEF TypeOK
  <2> QED BY <2>1, <2>2, Bounds, FragFacts, FrameFacts DEF TypeOK
<1>2. ASSUME UNCHANGED <<produced, done, out, cut>>, tx' \in {tx, NoFrame}
      PROVE  OrderInv'
  BY <1>2 DEF OrderInv, FramesInOrder
<1>3. ASSUME tx # NoFrame, Advance PROVE tx' \in {tx, NoFrame} /\ produced' = produced
  BY <1>3, AdvanceType DEF Advance
<1>4. ASSUME NEW c \in 1..MaxFrags, Produce(c) PROVE OrderInv'
  <2>1. /\ produced' = produced + 1 /\ tx'.n = produced + 1
        /\ UNCHANGED <<done, out, cut>>
    BY <1>4 DEF Produce
  <2>2. FramesInOrder'
    BY <2>1 DEF OrderInv, FramesInOrder
  <2>3. \A i \in 1..Len(out') : out'[i].frame.n <= produced /\ out'[i].frame.n \in Nat
    BY <1>1, <2>1 DEF OrderInv
  <2>4. done'.n <= produced'
    BY <1>1, <2>1 DEF OrderInv
  <2> QED BY <1>1, <2>1, <2>2, <2>3, <2>4 DEF OrderInv
<1>5. CASE Lose BY <1>2, <1>3, <1>5 DEF Lose
<1>6. CASE IgnoreTrailing BY <1>2, <1>3, <1>6 DEF IgnoreTrailing, Hear
<1>7. CASE IgnoreInFlight BY <1>2, <1>3, <1>7 DEF IgnoreInFlight, Hear
<1>8. CASE Store BY <1>2, <1>3, <1>8 DEF Store, Hear
<1>9. CASE Finish
  <2>1. tx \in Frames /\ Push(tx)
    BY <1>9, FinishPushes
  <2>2. /\ tx # NoFrame /\ ~TrailingDup /\ done' = tx
        /\ tx' \in {tx, NoFrame} /\ produced' = produced
    BY <1>3, <1>9 DEF Finish, Hear
  <2>3. done # tx
    BY <2>2 DEF TrailingDup
  <2>4. tx.n = produced /\ \A i \in 1..Len(out) : out[i].frame.n < tx.n
    BY <1>1, <2>2, <2>3 DEF OrderInv
  <2>5. FramesInOrder' /\ \A i \in 1..Len(out') : out'[i].frame.n <= tx.n
    BY <2>1, <2>4, PushKeepsOrder DEF OrderInv
  <2>6. done'.n <= produced'
    BY <1>1, <2>2, <2>4
  <2> QED BY <2>2, <2>4, <2>5, <2>6 DEF OrderInv
<1>10. CASE Age BY <1>2, <1>10 DEF Age
<1>11. ASSUME NEW k \in 1..RingSize, Drain(k) PROVE OrderInv'
  BY <1>2, <1>11 DEF Drain
<1>12. CASE BaseRestart BY <1>2, <1>12 DEF BaseRestart
<1>13. CASE RoverRestart
  <2>1. out' = <<>> /\ Len(out') = 0 /\ tx' = NoFrame
    BY <1>13 DEF RoverRestart
  <2>2. done'.n = 0 /\ produced' = produced
    BY <1>13, FrameFacts DEF RoverRestart
  <2>3. done'.n <= produced'
    BY <1>1, <2>2
  <2> QED BY <2>1, <2>3 DEF OrderInv, FramesInOrder
<1>14. CASE UNCHANGED vars BY <1>2, <1>14 DEF vars
<1> QED BY <1>4, <1>5, <1>6, <1>7, <1>8, <1>9, <1>10, <1>11, <1>12, <1>13, <1>14 DEF Next

(* The receiver of the rover is given frames in the order in which the base
   produced them, none twice, each whole unless it met a full ring: whatever is
   lost, restarted or left over. *)
THEOREM InOrder == Spec => []FramesInOrder
<1>1. Init => TypeOK /\ OwnInv /\ OrderInv
  <2>1. Init => OrderInv
    BY FrameFacts DEF Init, OrderInv, FramesInOrder
  <2> QED BY <2>1, InitInv
<1>2. TypeOK /\ OwnInv /\ OrderInv /\ [Next]_vars => (TypeOK /\ OwnInv /\ OrderInv)'
  BY TypeStep, OwnStep, OrderStep
<1>3. OrderInv => FramesInOrder
  BY DEF OrderInv
<1> QED BY <1>1, <1>2, <1>3, PTL DEF Spec

-----------------------------------------------------------------------------
(* What is heard in whole is handed on.                                    *)

(* Where the fragments heard of the frame on the air are: in the partial frame,
   or past it; or they were mistaken for another frame's duplicates. *)
Mistaken == done.id = tx.id /\ done.n \notin {0, tx.n}
HeardInv ==
  tx # NoFrame =>
    /\ done.n = tx.n => HandedOn(tx, out, cut)
    /\ heard \subseteq HeldMask \/ HandedOn(tx, out, cut) \/ Mistaken

LEMMA HeldIncomplete ==
  ASSUME TypeOK, OwnInv, tx # NoFrame
  PROVE  ~(0..(tx.count - 1) \subseteq HeldMask)
<1>1. tx.count \in Nat /\ tx.count >= 1
  BY Bounds, FrameFacts DEF TypeOK
<1>2. CASE SameFrame
  <2>1. Owned(tx)
    BY <1>2 DEF OwnInv, SameFrame, Owned
  <2> QED BY <1>2, <2>1 DEF Owned, HeldMask
<1>3. CASE ~SameFrame
  <2>1. 0 \in 0..(tx.count - 1)
    BY <1>1
  <2> QED BY <1>3, <2>1 DEF HeldMask
<1> QED BY <1>2, <1>3

LEMMA FinishHandsOn ==
  ASSUME TypeOK, OwnInv, Finish
  PROVE  HandedOn(tx, out', cut')
<1>1. tx \in Frames /\ Push(tx)
  BY FinishPushes
<1>2. PICK k \in 0..tx.count :
        /\ Len(out') = Len(out) + k
        /\ \A i \in 1..k : out'[Len(out) + i] = Frag(tx, i - 1)
        /\ cut' = IF k < tx.count THEN cut \union {tx.n} ELSE cut
  BY <1>1, PushFacts
<1>3. tx.count \in Nat /\ tx.count >= 1 /\ Len(out) \in Nat
  BY <1>1, Bounds, FrameFacts DEF TypeOK
<1>4. CASE k = 0
  BY <1>2, <1>3, <1>4 DEF HandedOn
<1>5. CASE k # 0
  <2>1. 1 \in 1..k /\ Len(out) + 1 \in 1..Len(out')
    BY <1>2, <1>3, <1>5
  <2>2. out'[Len(out) + 1].frame = tx
    BY <1>2, <2>1, FragFacts
  <2> QED BY <2>1, <2>2 DEF HandedOn
<1> QED BY <1>4, <1>5

(* The invariant one step on, of the frame on the air before the step. *)
Accounted ==
  /\ done'.n = tx.n => HandedOn(tx, out', cut')
  /\ tx' # NoFrame => heard' \subseteq HeldMask' \/ HandedOn(tx, out', cut') \/ Mistaken'
  /\ heard' = 0..(tx.count - 1)
       => HandedOn(tx, out', cut') \/ (done'.id = tx.id /\ done'.n \notin {0, tx.n})

LEMMA HeardSteps ==
  ASSUME TypeOK, OwnInv, HeardInv, tx # NoFrame, Hear,
         IgnoreTrailing \/ IgnoreInFlight \/ Store \/ Finish
  PROVE  Accounted /\ tx' \in {tx, NoFrame}
<1>1. tx' \in {tx, NoFrame} /\ heard' = heard \union {idx}
  BY AdvanceType DEF Hear
<1>2. /\ ~(0..(tx.count - 1) \subseteq HeldMask)
      /\ tx \in Frames /\ tx.n # 0 /\ tx.count \in Nat /\ tx.count >= 1
  BY HeldIncomplete, Bounds, FrameFacts DEF TypeOK
<1>3. CASE IgnoreTrailing
  <2>1. done.id = tx.id /\ done # NoFrame /\ UNCHANGED <<done, out, cut>>
    BY <1>3 DEF IgnoreTrailing, TrailingDup, ringVars
  <2>2. done.n # 0
    BY <2>1, Bounds, FrameFacts DEF TypeOK
  <2>3. HandedOn(tx, out, cut) \/ Mistaken
    BY <2>1, <2>2 DEF HeardInv, Mistaken
  <2> QED BY <1>1, <2>1, <2>3 DEF Accounted, HeardInv, Mistaken
<1>4. CASE IgnoreInFlight
  <2>1. idx \in HeldMask /\ UNCHANGED <<roverVars, done, out, cut>>
    BY <1>4 DEF IgnoreInFlight, InFlightDup, ringVars, roverVars
  <2>2. tx' # NoFrame => HeldMask' = HeldMask
    BY <1>1, <2>1 DEF HeldMask, SameFrame, Partial, roverVars
  <2>3. heard' \subseteq HeldMask \/ HandedOn(tx, out, cut) \/ Mistaken
    BY <1>1, <2>1 DEF HeardInv
  <2> QED BY <1>1, <1>2, <2>1, <2>2, <2>3 DEF Accounted, HeardInv, Mistaken
<1>5. CASE Store
  <2>1. /\ Kept /\ ~Complete(mask', count', total') /\ active' = TRUE /\ stale' = FALSE
        /\ UNCHANGED <<done, out, cut>>
    BY <1>5 DEF Store, ringVars
  <2>2. /\ cur' = tx.id /\ count' = tx.count /\ mask' = HeldMask \union {idx}
        /\ mask' \subseteq 0..(tx.count - 1)
        /\ total' = IF tx.count - 1 \in mask' THEN tx.count ELSE 0
    BY <2>1, KeptOwned
  <2>3. mask' # 0..(tx.count - 1)
    BY <1>2, <2>1, <2>2 DEF Complete
  <2>4. tx' # NoFrame => HeldMask' = mask'
    BY <1>1, <2>1, <2>2 DEF HeldMask, SameFrame, Partial
  <2>5. heard' \subseteq mask' \/ HandedOn(tx, out, cut) \/ Mistaken
    BY <1>1, <2>2 DEF HeardInv
  <2> QED BY <1>1, <1>2, <2>1, <2>2, <2>3, <2>4, <2>5 DEF Accounted, HeardInv, Mistaken
<1>6. CASE Finish
  BY <1>1, <1>6, FinishHandsOn DEF Accounted
<1> QED BY <1>1, <1>3, <1>4, <1>5, <1>6

LEMMA HeardStep ==
  ASSUME TypeOK, OwnInv, OrderInv, HeardInv, [Next]_vars
  PROVE  /\ HeardInv'
         /\ tx # NoFrame /\ heard' = 0..(tx.count - 1)
              => HandedOn(tx, out', cut') \/ (done'.id = tx.id /\ done'.n \notin {0, tx.n})
<1> DEFINE Promise == tx # NoFrame /\ heard' = 0..(tx.count - 1)
              => HandedOn(tx, out', cut') \/ (done'.id = tx.id /\ done'.n \notin {0, tx.n})
<1> USE DEF baseVars, roverVars, ringVars
<1>1. tx # NoFrame => ~(0..(tx.count - 1) \subseteq HeldMask)
  BY HeldIncomplete
<1>2. ASSUME UNCHANGED <<heard, active, stale, cur, mask, done, out, cut>>,
             tx' \in {tx, NoFrame}
      PROVE  HeardInv' /\ Promise
  <2>1. Promise
    BY <1>1, <1>2 DEF HeardInv, Mistaken
  <2>2. tx' # NoFrame => HeldMask' = HeldMask
    BY <1>2 DEF HeldMask, SameFrame, Partial
  <2> QED BY <1>2, <2>1, <2>2 DEF HeardInv, Mistaken
<1>3. ASSUME tx = NoFrame, tx' = NoFrame PROVE HeardInv' /\ Promise
  BY <1>3 DEF HeardInv
<1>4. ASSUME NEW c \in 1..MaxFrags, Produce(c) PROVE HeardInv' /\ Promise
  <2>1. tx = NoFrame /\ tx'.n = produced + 1 /\ heard' = {} /\ done' = done
    BY <1>4 DEF Produce
  <2>2. done.n # produced + 1
    BY Bounds, FrameFacts DEF TypeOK, OrderInv
  <2> QED BY <2>1, <2>2 DEF HeardInv
<1>5. CASE Lose
  <2>1. tx' \in {tx, NoFrame}
    BY <1>5, AdvanceType DEF Lose
  <2> QED BY <1>2, <1>5, <2>1 DEF Lose
<1>6. ASSUME tx # NoFrame, Accounted, tx' \in {tx, NoFrame} PROVE HeardInv' /\ Promise
  BY <1>6 DEF HeardInv, Accounted
<1>7. CASE IgnoreTrailing \/ IgnoreInFlight \/ Store \/ Finish
  <2>1. Hear /\ tx # NoFrame
    BY <1>7 DEF IgnoreTrailing, IgnoreInFlight, Store, Finish, Hear
  <2> QED BY <1>6, <1>7, <2>1, HeardSteps
<1>8. CASE Age BY <1>3, <1>8 DEF Age
<1>9. ASSUME NEW k \in 1..RingSize, Drain(k) PROVE HeardInv' /\ Promise
  BY <1>2, <1>9 DEF Drain
<1>10. CASE BaseRestart
  <2>1. tx # NoFrame => tx.count \in Nat /\ tx.count >= 1
    BY Bounds, FrameFacts DEF TypeOK
  <2>2. tx # NoFrame => 0 \in 0..(tx.count - 1)
    BY <2>1
  <2> QED BY <1>10, <2>2 DEF BaseRestart, HeardInv
<1>11. CASE RoverRestart BY <1>3, <1>11 DEF RoverRestart
<1>12. CASE UNCHANGED vars BY <1>2, <1>12 DEF vars
<1> QED BY <1>4, <1>5, <1>7, <1>8, <1>9, <1>10, <1>11, <1>12 DEF Next

(* Over both transmissions, whatever fragments each of them loses: a frame of
   which every fragment was heard is handed on, unless the frame completed last
   had the same identifier. *)
THEOREM HandsOnWhatItHears == Spec => HeardIsHandedOn
<1>1. Init => TypeOK /\ OwnInv /\ OrderInv /\ HeardInv
  <2>1. Init => OrderInv /\ HeardInv
    BY FrameFacts DEF Init, OrderInv, FramesInOrder, HeardInv
  <2> QED BY <2>1, InitInv
<1>2. TypeOK /\ OwnInv /\ OrderInv /\ HeardInv /\ [Next]_vars
        => (TypeOK /\ OwnInv /\ OrderInv /\ HeardInv)'
  BY TypeStep, OwnStep, OrderStep, HeardStep
<1>3. TypeOK /\ OwnInv /\ OrderInv /\ HeardInv /\ [Next]_vars
        => [tx # NoFrame /\ heard' = 0..(tx.count - 1)
              => HandedOn(tx, out', cut') \/ (done'.id = tx.id /\ done'.n \notin {0, tx.n})]_vars
  BY HeardStep
<1> QED BY <1>1, <1>2, <1>3, PTL DEF Spec, HeardIsHandedOn
=============================================================================
