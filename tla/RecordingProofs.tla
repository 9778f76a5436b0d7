--------------------------- MODULE RecordingProofs ---------------------------
(***************************************************************************)
(* Proofs about Recording, for every number of sessions and rows.          *)
(*                                                                         *)
(* Nothing is assumed of the starters, the timeouts or the card: both      *)
(* contexts may start and stop at any time, any stop may give up on the    *)
(* mutex and any open may fail.  Types and the mutex discipline come       *)
(* first, then the sessions that went astray and the card, the three views *)
(* of "recording", and the implementation of SessionArchive.               *)
(***************************************************************************)
EXTENDS Recording, TLAPS

USE DEF Contexts, Starters, Sessions, NoFile, Free, At, Goto

LEMMA ConstantTypes ==
  MaxSessions \in Nat /\ MaxRows \in Nat /\ AutoCleanup \in BOOLEAN
BY BoundsAssumption, SwitchAssumption

(* The labels of each context, spelled out. *)
LEMMA LabelSets ==
  /\ Labels["loop"] = StarterLabels \union {"row", "halted"}
  /\ Labels["ble"] = StarterLabels
  /\ Labels["upload"] = {"idle", "connect", "walk", "send"}
  /\ StarterLabels = {"idle", "startWait", "startOpen", "startSet",
                      "stopWait", "stopClose", "stopLog", "stopSet"}
BY DEF Labels, StarterLabels

LEMMA LabelsCover ==
  \A c \in Contexts : Labels[c] \subseteq AllLabels /\ "idle" \in Labels[c]
BY DEF Labels, StarterLabels, AllLabels

(* No PUT in progress is a well-typed value, and names no session. *)
LEMMA NotSendingType ==
  /\ NotSending \in [file : Sessions \union {NoFile}, size : 0..MaxRows]
  /\ NotSending.file \notin Sessions
BY ConstantTypes DEF NotSending

(* Moving one context keeps every position well typed. *)
LEMMA GotoType ==
  ASSUME pc \in [Contexts -> AllLabels], \A c \in Contexts : pc[c] \in Labels[c],
         NEW d \in Contexts, NEW l \in Labels[d], Goto(d, l)
  PROVE  pc' \in [Contexts -> AllLabels] /\ \A c \in Contexts : pc'[c] \in Labels[c]
BY LabelsCover

(* Closing a file leaves every row count in range. *)
LEMMA ClosedType ==
  ASSUME rows \in [Sessions -> 0..MaxRows], synced \in [Sessions -> 0..MaxRows],
         NEW h \in Sessions \union {NoFile}
  PROVE  Closed(h) \in [Sessions -> 0..MaxRows]
BY ConstantTypes DEF Closed

LEMMA TypeStep == TypeOK /\ [Next]_vars => TypeOK'
<1> SUFFICES ASSUME TypeOK, [Next]_vars PROVE TypeOK'
  OBVIOUS
<1> USE ConstantTypes, LabelSets DEF TypeOK, recVars, cardVars, upVars, doubts
<1>1. ASSUME NEW c \in Starters, StarterStep(c) PROVE TypeOK'
  <2> StarterLabels \subseteq Labels[c]
    BY <1>1
  <2>1. CASE StartCheck(c) BY <2>1, GotoType DEF StartCheck
  <2>2. CASE StartTake(c) BY <2>2, GotoType DEF StartTake
  <2>3. CASE StartTimeout(c) BY <2>3, GotoType DEF StartTimeout
  <2>4. CASE StartOpen(c)
    <3>1. pc' \in [Contexts -> AllLabels] /\ \A d \in Contexts : pc'[d] \in Labels[d]
      BY <2>4, GotoType DEF StartOpen
    <3>2. synced' \in [Sessions -> 0..MaxRows]
      BY <2>4, ClosedType DEF StartOpen
    <3>3. /\ created' \in 0..MaxSessions /\ present' \subseteq Sessions
          /\ handle' \in Sessions \union {NoFile} /\ logging' \in BOOLEAN
      <4>1. CASE /\ created < MaxSessions
                 /\ created' = created + 1 /\ handle' = created + 1
                 /\ present' = present \union {created + 1} /\ logging' = TRUE
        BY <4>1
      <4>2. CASE handle' = NoFile /\ UNCHANGED <<created, present, logging>>
        BY <4>2
      <4> QED BY <2>4, <4>1, <4>2 DEF StartOpen
    <3>4. astray' \subseteq Sessions /\ upset' \in BOOLEAN
      BY <2>4 DEF StartOpen, Recovered
    <3> QED BY <2>4, <3>1, <3>2, <3>3, <3>4 DEF StartOpen
  <2>5. CASE StartSet(c) BY <2>5, GotoType DEF StartSet
  <2>6. CASE StopCheck(c) BY <2>6, GotoType DEF StopCheck
  <2>7. CASE StopTake(c) BY <2>7, GotoType DEF StopTake
  <2>8. CASE StopTimeout(c) BY <2>8, GotoType DEF StopTimeout
  <2>9. CASE StopClose(c)
    <3>1. pc' \in [Contexts -> AllLabels] /\ \A d \in Contexts : pc'[d] \in Labels[d]
      BY <2>9, GotoType DEF StopClose
    <3>2. synced' \in [Sessions -> 0..MaxRows]
      BY <2>9, ClosedType DEF StopClose
    <3>3. astray' \subseteq Sessions /\ upset' \in BOOLEAN
      BY <2>9 DEF StopClose, Recovered
    <3> QED BY <2>9, <3>1, <3>2, <3>3 DEF StopClose
  <2>10. CASE StopLogging(c) BY <2>10, GotoType DEF StopLogging
  <2>11. CASE StopSet(c) BY <2>11, GotoType DEF StopSet
  <2> QED BY <1>1, <2>1, <2>2, <2>3, <2>4, <2>5, <2>6, <2>7, <2>8, <2>9, <2>10, <2>11
          DEF StarterStep
<1>2. CASE LoopStep
  <2>1. CASE LogRowBegin BY <2>1, GotoType DEF LogRowBegin
  <2>2. CASE LogRowEnd
    <3>1. pc' \in [Contexts -> AllLabels] /\ \A d \in Contexts : pc'[d] \in Labels[d]
      BY <2>2, GotoType DEF LogRowEnd
    <3>2. rows' \in [Sessions -> 0..MaxRows]
      BY <2>2 DEF LogRowEnd
    <3> QED BY <2>2, <3>1, <3>2 DEF LogRowEnd
  <2>3. CASE Flush BY <2>3 DEF Flush
  <2>4. CASE LowBattery
    <3>1. pc' \in [Contexts -> AllLabels] /\ \A d \in Contexts : pc'[d] \in Labels[d]
      BY <2>4, GotoType DEF LowBattery
    <3>2. synced' \in [Sessions -> 0..MaxRows]
      <4>1. CASE logging
        <5>1. synced' = Closed(handle) BY <4>1, <2>4 DEF LowBattery
        <5> QED BY <5>1, ClosedType
      <4>2. CASE ~logging BY <4>2, <2>4 DEF LowBattery
      <4> QED BY <4>1, <4>2
    <3> QED BY <2>4, <3>1, <3>2 DEF LowBattery
  <2> QED BY <1>2, <2>1, <2>2, <2>3, <2>4 DEF LoopStep
<1>3. CASE UploadStep
  <2>1. CASE UploadGate BY <2>1, GotoType DEF UploadGate
  <2>2. CASE UploadGiveUp BY <2>2, GotoType DEF UploadGiveUp
  <2>3. CASE UploadTake BY <2>3, GotoType DEF UploadTake
  <2>4. CASE UploadSent
    <3>1. pc' \in [Contexts -> AllLabels] /\ \A d \in Contexts : pc'[d] \in Labels[d]
      BY <2>4, GotoType DEF UploadSent
    <3>2. archived' \in [Sessions -> 0..MaxRows]
      BY <2>4 DEF UploadSent
    <3>3. present' \subseteq Sessions /\ marked' \subseteq Sessions
      <4>1. sending.file \in Sessions BY <2>4 DEF UploadSent
      <4>2. CASE AutoCleanup BY <2>4, <4>1, <4>2 DEF UploadSent
      <4>3. CASE ~AutoCleanup
        <5>1. marked' = marked \union {sending.file} /\ present' = present
          BY <2>4, <4>3 DEF UploadSent
        <5> QED BY <4>1, <5>1
      <4> QED BY <4>2, <4>3
    <3> QED BY <2>4, <3>1, <3>2, <3>3, NotSendingType DEF UploadSent
  <2>5. CASE UploadFailed
    <3>1. pc' \in [Contexts -> AllLabels] /\ \A d \in Contexts : pc'[d] \in Labels[d]
      BY <2>5, GotoType DEF UploadFailed
    <3> QED BY <2>5, <3>1, NotSendingType DEF UploadFailed
  <2>6. CASE UploadEnd BY <2>6, GotoType DEF UploadEnd
  <2>7. ASSUME NEW s \in Sessions, UploadSkip(s) PROVE TypeOK' BY <2>7 DEF UploadSkip
  <2>8. ASSUME NEW s \in Sessions, UploadSend(s) PROVE TypeOK'
    <3>1. pc' \in [Contexts -> AllLabels] /\ \A d \in Contexts : pc'[d] \in Labels[d]
      BY <2>8, GotoType DEF UploadSend
    <3>2. sending' \in [file : Sessions \union {NoFile}, size : 0..MaxRows]
      BY <2>8 DEF UploadSend
    <3> QED BY <2>8, <3>1, <3>2 DEF UploadSend
  <2> QED BY <1>3, <2>1, <2>2, <2>3, <2>4, <2>5, <2>6, <2>7, <2>8 DEF UploadStep
<1>4. CASE Reboot BY <1>4, LabelsCover, NotSendingType DEF Reboot, Recovered
<1>5. CASE UNCHANGED vars BY <1>5 DEF vars
<1> QED BY <1>1, <1>2, <1>3, <1>4, <1>5 DEF Next

(* Every global of the recorder and the upload window keeps its range. *)
THEOREM TypeCorrect == Spec => []TypeOK
<1>1. ASSUME Init PROVE TypeOK
  <2>1. pc \in [Contexts -> AllLabels] /\ \A c \in Contexts : pc[c] \in Labels[c]
    BY <1>1, LabelsCover DEF Init
  <2>2. 0 \in 0..MaxSessions /\ 0 \in 0..MaxRows
    BY ConstantTypes
  <2>3. sending.file \in Sessions <=> At("upload", "send")
    BY <1>1, NotSendingType DEF Init
  <2> QED BY <1>1, <2>1, <2>2, <2>3, NotSendingType DEF Init, TypeOK
<1> QED BY <1>1, TypeStep, PTL DEF Spec

-----------------------------------------------------------------------------
(* The mutex discipline, and what the upload window gets from it.          *)

Holding(c) == pc[c] \in {"startOpen", "stopClose", "walk", "send"}
MutexInv   == \A c \in Contexts : Holding(c) <=> sdMutex = c

ExclusionInv == MutexInv /\ SendExcludesLogging

(* A step that moves one context between two positions that do not hold the
   mutex, and leaves the mutex alone, keeps the discipline. *)
LEMMA OutsideMutex ==
  ASSUME TypeOK, MutexInv, NEW d \in Contexts, NEW l,
         Goto(d, l), ~Holding(d),
         l \notin {"startOpen", "stopClose", "walk", "send"}, sdMutex' = sdMutex
  PROVE  MutexInv'
BY DEF TypeOK, MutexInv, Holding

(* So does taking the free mutex ... *)
LEMMA TakeMutex ==
  ASSUME TypeOK, MutexInv, NEW d \in Contexts, NEW l,
         Goto(d, l), sdMutex = Free,
         l \in {"startOpen", "stopClose", "walk"}, sdMutex' = d
  PROVE  MutexInv'
BY DEF TypeOK, MutexInv, Holding

(* ... and giving it back. *)
LEMMA GiveMutex ==
  ASSUME TypeOK, MutexInv, NEW d \in Contexts, NEW l,
         Goto(d, l), Holding(d),
         l \notin {"startOpen", "stopClose", "walk", "send"}, sdMutex' = Free
  PROVE  MutexInv'
BY DEF TypeOK, MutexInv, Holding

LEMMA MutexStep == TypeOK /\ MutexInv /\ [Next]_vars => MutexInv'
<1> SUFFICES ASSUME TypeOK, MutexInv, [Next]_vars PROVE MutexInv'
  OBVIOUS
<1> USE DEF recVars, cardVars, upVars, doubts
<1>1. ASSUME NEW c \in Starters, StarterStep(c) PROVE MutexInv'
  <2>1. CASE StartCheck(c) BY <2>1, OutsideMutex DEF StartCheck, Holding
  <2>2. CASE StartTake(c) BY <2>2, TakeMutex DEF StartTake
  <2>3. CASE StartTimeout(c) BY <2>3, OutsideMutex DEF StartTimeout, Holding
  <2>4. CASE StartOpen(c) BY <2>4, GiveMutex DEF StartOpen, Holding
  <2>5. CASE StartSet(c) BY <2>5, OutsideMutex DEF StartSet, Holding
  <2>6. CASE StopCheck(c) BY <2>6, OutsideMutex DEF StopCheck, Holding
  <2>7. CASE StopTake(c) BY <2>7, TakeMutex DEF StopTake
  <2>8. CASE StopTimeout(c) BY <2>8, OutsideMutex DEF StopTimeout, Holding
  <2>9. CASE StopClose(c) BY <2>9, GiveMutex DEF StopClose, Holding
  <2>10. CASE StopLogging(c) BY <2>10, OutsideMutex DEF StopLogging, Holding
  <2>11. CASE StopSet(c) BY <2>11, OutsideMutex DEF StopSet, Holding
  <2> QED BY <1>1, <2>1, <2>2, <2>3, <2>4, <2>5, <2>6, <2>7, <2>8, <2>9, <2>10, <2>11
          DEF StarterStep
<1>2. CASE LoopStep
  <2>1. CASE LogRowBegin BY <2>1, OutsideMutex DEF LogRowBegin, Holding
  <2>2. CASE LogRowEnd BY <2>2, OutsideMutex DEF LogRowEnd, Holding
  <2>3. CASE Flush BY <2>3 DEF Flush, MutexInv, Holding
  <2>4. CASE LowBattery BY <2>4, OutsideMutex DEF LowBattery, Holding
  <2> QED BY <1>2, <2>1, <2>2, <2>3, <2>4 DEF LoopStep
<1>3. CASE UploadStep
  <2>1. CASE UploadGate BY <2>1, OutsideMutex DEF UploadGate, Holding
  <2>2. CASE UploadGiveUp BY <2>2, OutsideMutex DEF UploadGiveUp, Holding
  <2>3. CASE UploadTake BY <2>3, TakeMutex DEF UploadTake
  <2>4. CASE UploadSent
    BY <2>4 DEF UploadSent, TypeOK, MutexInv, Holding
  <2>5. CASE UploadFailed
    BY <2>5 DEF UploadFailed, TypeOK, MutexInv, Holding
  <2>6. CASE UploadEnd BY <2>6, GiveMutex DEF UploadEnd, Holding
  <2>7. ASSUME NEW s \in Sessions, UploadSkip(s) PROVE MutexInv'
    BY <2>7 DEF UploadSkip, MutexInv, Holding
  <2>8. ASSUME NEW s \in Sessions, UploadSend(s) PROVE MutexInv'
    BY <2>8 DEF UploadSend, TypeOK, MutexInv, Holding
  <2> QED BY <1>3, <2>1, <2>2, <2>3, <2>4, <2>5, <2>6, <2>7, <2>8 DEF UploadStep
<1>4. CASE Reboot BY <1>4 DEF Reboot, MutexInv, Holding
<1>5. CASE UNCHANGED vars BY <1>5 DEF vars, MutexInv, Holding
<1> QED BY <1>1, <1>2, <1>3, <1>4, <1>5 DEF Next

(* logging rises only in StartOpen, whose context then holds the mutex the
   upload task would have to hold to be sending; and a send begins only while
   logging is down. *)
LEMMA SendStep == TypeOK /\ ExclusionInv /\ [Next]_vars => SendExcludesLogging'
<1> SUFFICES ASSUME TypeOK, ExclusionInv, [Next]_vars PROVE SendExcludesLogging'
  OBVIOUS
<1> USE DEF recVars, cardVars, upVars, doubts, TypeOK, SendExcludesLogging, ExclusionInv
<1>1. ASSUME NEW c \in Starters, StarterStep(c) PROVE SendExcludesLogging'
  <2>1. CASE StartOpen(c)
    <3>1. ~At("upload", "send")
      BY <2>1 DEF StartOpen, MutexInv, Holding
    <3> QED BY <2>1, <3>1 DEF StartOpen
  <2>2. CASE ~StartOpen(c)
    <3>1. pc'["upload"] = pc["upload"] /\ (logging' = logging \/ logging' = FALSE)
      BY <1>1, <2>2 DEF StarterStep, StartCheck, StartTake, StartTimeout, StartSet,
                        StopCheck, StopTake, StopTimeout, StopClose, StopLogging, StopSet
    <3> QED BY <3>1
  <2> QED BY <2>1, <2>2
<1>2. CASE LoopStep
  <2>1. pc'["upload"] = pc["upload"] /\ (logging' = logging \/ logging' = FALSE)
    BY <1>2 DEF LoopStep, LogRowBegin, LogRowEnd, Flush, LowBattery
  <2> QED BY <2>1
<1>3. CASE UploadStep
  BY <1>3 DEF UploadStep, UploadGate, UploadGiveUp, UploadTake, UploadSent,
              UploadFailed, UploadEnd, UploadSkip, UploadSend
<1>4. CASE Reboot BY <1>4 DEF Reboot
<1>5. CASE UNCHANGED vars BY <1>5 DEF vars
<1> QED BY <1>1, <1>2, <1>3, <1>4, <1>5 DEF Next

(* No PUT overlaps a recording, whatever the starters and the timeouts. *)
THEOREM NoPutWhileLogging == Spec => []SendExcludesLogging
<1>1. Init => ExclusionInv
  BY DEF Init, ExclusionInv, MutexInv, Holding, SendExcludesLogging
<1>2. TypeOK /\ ExclusionInv /\ [Next]_vars => ExclusionInv'
  BY MutexStep, SendStep DEF ExclusionInv
<1>3. ExclusionInv => SendExcludesLogging
  BY DEF ExclusionInv
<1> QED BY <1>1, <1>2, <1>3, TypeCorrect, PTL DEF Spec

-----------------------------------------------------------------------------
(* The sessions that went astray, and the card.                            *)

(* A file is open without logging only if a stop left it so, and such a
   session is pending at most as long as its file is open. *)
AstrayInv ==
  /\ handle # NoFile => handle \in 1..created /\ (logging \/ handle \in astray)
  /\ logging => handle \notin astray
  /\ astray \subseteq 1..created
  /\ astray \intersect Pending \subseteq {handle}

(* The open file is pending unless it went astray, whatever is not open is
   flushed, what is being sent is pending and flushed, and nothing pending has
   been archived. *)
CardInv ==
  /\ handle # NoFile => handle \in Pending \/ handle \in astray
  /\ present \subseteq 1..created /\ marked \subseteq 1..created
  /\ \A s \in Sessions : synced[s] <= rows[s] /\ (s # handle => synced[s] = rows[s])
  /\ At("upload", "send") => /\ sending.file \in Pending
                             /\ sending.size = synced[sending.file]
  /\ \A s \in Sessions : s \in Pending \/ s > created => archived[s] = 0
  /\ ArchivedIsComplete

ArchiveInv == ExclusionInv /\ AstrayInv /\ CardInv

(* Only the open file can be in the way of these, so a step that touches
   neither the files nor the history keeps both. *)
LEMMA CardUnchanged ==
  ASSUME AstrayInv, CardInv,
         UNCHANGED <<handle, created, rows, synced, present, marked, archived, sending>>,
         UNCHANGED <<astray, logging>>,
         At("upload", "send")' => At("upload", "send")
  PROVE  AstrayInv' /\ CardInv'
BY DEF AstrayInv, CardInv, ArchivedIsComplete, Pending

(* Whatever was open is closed, by a context that does not let the upload task
   send: its rows reach the card, and if it was pending it is an ordinary
   session from now on. *)
LEMMA CardClose ==
  ASSUME TypeOK, ArchiveInv, ~At("upload", "send"), ~At("upload", "send")',
         synced' = Closed(handle), handle' = NoFile, astray' = Recovered,
         logging' \in BOOLEAN,
         UNCHANGED <<created, rows, present, marked, archived>>
  PROVE  AstrayInv' /\ CardInv'
<1> USE ConstantTypes DEF TypeOK, ArchiveInv, AstrayInv, CardInv, Pending, Recovered
<1>1. \A s \in Sessions : synced'[s] = rows[s]
  BY DEF Closed
<1>2. AstrayInv'
  OBVIOUS
<1>3. ArchivedIsComplete'
  BY DEF ArchivedIsComplete
<1> QED BY <1>1, <1>2, <1>3

(* The same, with a new session in its place. *)
LEMMA CardOpen ==
  ASSUME TypeOK, ArchiveInv, ~At("upload", "send"), ~At("upload", "send")',
         created < MaxSessions,
         synced' = Closed(handle), astray' = Recovered, logging' = TRUE,
         created' = created + 1, handle' = created + 1,
         present' = present \union {created + 1},
         UNCHANGED <<rows, marked, archived>>
  PROVE  AstrayInv' /\ CardInv'
<1> USE ConstantTypes DEF TypeOK, ArchiveInv, AstrayInv, CardInv, Pending, Recovered
<1>1. \A s \in Sessions : synced'[s] = rows[s]
  BY DEF Closed
<1>2. AstrayInv'
  OBVIOUS
<1>3. ArchivedIsComplete'
  BY DEF ArchivedIsComplete
<1> QED BY <1>1, <1>2, <1>3

LEMMA CardStep ==
  ASSUME TypeOK, ArchiveInv, [Next]_vars
  PROVE  AstrayInv' /\ CardInv'
<1> USE ConstantTypes DEF recVars, cardVars, upVars, doubts
<1>0. AstrayInv /\ CardInv /\ MutexInv /\ SendExcludesLogging
  BY DEF ArchiveInv, ExclusionInv
<1>1. ASSUME NEW c \in Starters, StarterStep(c) PROVE AstrayInv' /\ CardInv'
  <2>1. CASE StartOpen(c)
    <3>1. ~At("upload", "send") /\ ~At("upload", "send")'
      BY <1>0, <2>1 DEF StartOpen, MutexInv, Holding
    <3>2. synced' = Closed(handle) /\ astray' = Recovered /\ UNCHANGED <<rows, marked, archived>>
      BY <2>1 DEF StartOpen
    <3>3. CASE handle' = NoFile /\ UNCHANGED <<created, present, logging>>
      BY <3>1, <3>2, <3>3, CardClose DEF TypeOK
    <3>4. CASE /\ created < MaxSessions
               /\ created' = created + 1 /\ handle' = created + 1
               /\ present' = present \union {created + 1} /\ logging' = TRUE
      BY <3>1, <3>2, <3>4, CardOpen
    <3> QED BY <2>1, <3>3, <3>4 DEF StartOpen
  <2>2. CASE StopClose(c)
    <3>1. ~At("upload", "send") /\ ~At("upload", "send")'
      BY <1>0, <2>2 DEF StopClose, MutexInv, Holding
    <3> QED BY <2>2, <3>1, CardClose DEF StopClose, TypeOK
  <2>3. CASE StopLogging(c)
    <3>1. /\ logging' = FALSE /\ astray' = astray \union ({handle} \ {NoFile})
          /\ pc'["upload"] = pc["upload"]
          /\ UNCHANGED <<handle, created, rows, synced, present, marked, archived, sending>>
      BY <2>3 DEF StopLogging
    <3> QED BY <1>0, <3>1 DEF AstrayInv, CardInv, ArchivedIsComplete, Pending
  <2>4. CASE ~StartOpen(c) /\ ~StopClose(c) /\ ~StopLogging(c)
    <3>1. /\ UNCHANGED <<handle, created, rows, synced, present, marked, archived, sending>>
          /\ UNCHANGED <<astray, logging>>
          /\ pc'["upload"] = pc["upload"]
      BY <1>1, <2>4 DEF TypeOK, StarterStep, StartCheck, StartTake, StartTimeout, StartSet,
                        StopCheck, StopTake, StopTimeout, StopSet
    <3> QED BY <1>0, <3>1, CardUnchanged
  <2> QED BY <2>1, <2>2, <2>3, <2>4
<1>2. CASE LoopStep
  <2>1. CASE LogRowBegin
    BY <1>0, <2>1, CardUnchanged DEF LogRowBegin
  <2>2. CASE LogRowEnd
    <3>1. /\ UNCHANGED <<handle, created, synced, present, marked, archived, sending>>
          /\ UNCHANGED <<astray, logging>>
          /\ pc'["upload"] = pc["upload"]
      BY <2>2 DEF LogRowEnd
    <3>2. CASE rows' = rows BY <1>0, <3>1, <3>2, CardUnchanged
    <3>3. CASE handle # NoFile /\ rows' = [rows EXCEPT ![handle] = @ + 1]
      <4>1. handle \in Sessions /\ Pending' = Pending
            /\ (handle \in Pending \/ handle \in astray)
        BY <1>0, <3>1, <3>3 DEF TypeOK, CardInv, Pending
      <4>2. /\ rows'[handle] = rows[handle] + 1
            /\ \A s \in Sessions : s # handle => rows'[s] = rows[s]
        BY <3>3, <4>1 DEF TypeOK
      <4>3. synced \in [Sessions -> Nat] /\ rows \in [Sessions -> Nat]
        BY DEF TypeOK
      <4>4. ASSUME NEW s \in Sessions
            PROVE  synced'[s] <= rows'[s] /\ (s # handle' => synced'[s] = rows'[s])
        <5>1. synced[s] <= rows[s] /\ (s # handle => synced[s] = rows[s])
          BY <1>0 DEF CardInv
        <5>2. CASE s = handle BY <3>1, <4>2, <4>3, <5>1, <5>2
        <5>3. CASE s # handle BY <3>1, <4>2, <5>1, <5>3
        <5> QED BY <5>2, <5>3
      <4>5. ArchivedIsComplete'
        <5>1. 1..created \subseteq Sessions
          BY DEF TypeOK
        <5> QED BY <1>0, <3>1, <4>1, <4>2, <5>1 DEF CardInv, ArchivedIsComplete
      <4>6. AstrayInv'
        BY <1>0, <3>1, <4>1 DEF AstrayInv
      <4> QED BY <1>0, <3>1, <4>1, <4>4, <4>5, <4>6 DEF CardInv
    <3> QED BY <2>2, <3>2, <3>3 DEF LogRowEnd
  <2>3. CASE Flush
    <3>1. /\ UNCHANGED <<handle, created, rows, present, marked, archived, sending, pc>>
          /\ UNCHANGED <<astray, logging>>
          /\ synced' = [synced EXCEPT ![handle] = rows[handle]]
          /\ logging /\ handle # NoFile
      BY <2>3 DEF Flush
    <3>2. ~At("upload", "send")
      BY <1>0, <3>1 DEF SendExcludesLogging
    <3> QED BY <1>0, <3>1, <3>2 DEF TypeOK, AstrayInv, CardInv, ArchivedIsComplete, Pending
  <2>4. CASE LowBattery
    <3>1. /\ UNCHANGED <<created, rows, present, marked, archived, sending, astray>>
          /\ pc'["upload"] = pc["upload"] /\ logging' = FALSE
      BY <2>4 DEF LowBattery
    <3>2. CASE logging
      <4>1. ~At("upload", "send") /\ ~At("upload", "send")'
        BY <1>0, <3>1, <3>2 DEF SendExcludesLogging
      <4>2. Recovered = astray
        BY <1>0, <3>2 DEF AstrayInv, Recovered
      <4> QED BY <2>4, <3>1, <3>2, <4>1, <4>2, CardClose DEF LowBattery
    <3>3. CASE ~logging
      BY <1>0, <2>4, <3>1, <3>3, CardUnchanged DEF LowBattery, TypeOK
    <3> QED BY <3>2, <3>3
  <2> QED BY <1>2, <2>1, <2>2, <2>3, <2>4 DEF LoopStep
<1>3. CASE UploadStep
  <2>1. CASE UploadGate BY <1>0, <2>1, CardUnchanged DEF UploadGate
  <2>2. CASE UploadGiveUp BY <1>0, <2>2, CardUnchanged DEF UploadGiveUp
  <2>3. CASE UploadTake BY <1>0, <2>3, CardUnchanged DEF UploadTake, TypeOK
  <2>4. CASE UploadSent
    <3>1. handle # NoFile => handle \in astray
      BY <1>0, <2>4 DEF UploadSent, SendExcludesLogging, AstrayInv
    <3>2. /\ sending.file \in 1..created /\ sending.file \in Pending
          /\ sending.file \notin astray => sending.size = rows[sending.file]
      BY <1>0, <2>4, <3>1 DEF UploadSent, CardInv, TypeOK, Pending
    <3>3. /\ archived' = [archived EXCEPT ![sending.file] = sending.size]
          /\ UNCHANGED <<handle, created, rows, synced, astray, logging>>
          /\ ~At("upload", "send")'
      BY <2>4 DEF UploadSent, TypeOK
    <3>4. \/ present' = present \ {sending.file} /\ marked' = marked
          \/ marked' = marked \union {sending.file} /\ present' = present
      BY <2>4 DEF UploadSent
    <3>5. Pending' = Pending \ {sending.file}
      BY <3>4 DEF Pending
    <3>6. present' \subseteq 1..created /\ marked' \subseteq 1..created
      BY <1>0, <3>2, <3>4 DEF CardInv
    <3>7. ArchivedIsComplete'
      BY <1>0, <3>2, <3>3, <3>5 DEF CardInv, ArchivedIsComplete, TypeOK
    <3>8. AstrayInv'
      BY <1>0, <3>3, <3>5 DEF AstrayInv
    <3>9. \A s \in Sessions : s \in Pending' \/ s > created' => archived'[s] = 0
      BY <1>0, <3>2, <3>3, <3>5 DEF CardInv, TypeOK
    <3> QED BY <1>0, <3>1, <3>3, <3>6, <3>7, <3>8, <3>9 DEF CardInv
  <2>5. CASE UploadFailed
    <3>1. UNCHANGED <<handle, created, rows, synced, present, marked, archived, astray, logging>>
      BY <2>5 DEF UploadFailed
    <3>2. ~At("upload", "send")'
      BY <2>5 DEF UploadFailed, TypeOK
    <3> QED BY <1>0, <3>1, <3>2 DEF AstrayInv, CardInv, ArchivedIsComplete, Pending
  <2>6. CASE UploadEnd BY <1>0, <2>6, CardUnchanged DEF UploadEnd, TypeOK
  <2>7. ASSUME NEW s \in Sessions, UploadSkip(s) PROVE AstrayInv' /\ CardInv'
    BY <1>0, <2>7, CardUnchanged DEF UploadSkip
  <2>8. ASSUME NEW s \in Sessions, UploadSend(s) PROVE AstrayInv' /\ CardInv'
    <3>1. /\ UNCHANGED <<handle, created, rows, synced, present, marked, archived>>
          /\ UNCHANGED <<astray, logging>>
          /\ sending' = [file |-> s, size |-> synced[s]]
          /\ s \in Pending
      BY <2>8 DEF UploadSend
    <3>2. sending'.file = s /\ sending'.size = synced[s]
      BY <3>1
    <3> QED BY <1>0, <3>1, <3>2 DEF AstrayInv, CardInv, ArchivedIsComplete, Pending
  <2> QED BY <1>3, <2>1, <2>2, <2>3, <2>4, <2>5, <2>6, <2>7, <2>8 DEF UploadStep
<1>4. CASE Reboot
  <2>1. /\ rows' = synced /\ handle' = NoFile /\ ~At("upload", "send")'
        /\ astray' = Recovered /\ logging' = FALSE
        /\ UNCHANGED <<created, synced, present, marked, archived>>
    BY <1>4 DEF Reboot
  <2>2. AstrayInv'
    BY <1>0, <2>1 DEF AstrayInv, Recovered, Pending
  <2>3. ArchivedIsComplete'
    <3>1. ASSUME NEW s \in (1..created) \ (Pending \union Recovered)
          PROVE  archived[s] = synced[s]
      <4>1. s \notin Pending /\ s \notin astray
        BY <3>1 DEF Recovered
      <4>2. s \in Sessions /\ s # handle
        BY <1>0, <3>1, <4>1 DEF CardInv, TypeOK
      <4> QED BY <1>0, <4>1, <4>2 DEF CardInv, ArchivedIsComplete
    <3> QED BY <2>1, <3>1 DEF ArchivedIsComplete, Pending
  <2> QED BY <1>0, <2>1, <2>2, <2>3 DEF CardInv, TypeOK, Pending
<1>5. CASE UNCHANGED vars BY <1>0, <1>5, CardUnchanged DEF vars
<1> QED BY <1>1, <1>2, <1>3, <1>4, <1>5 DEF Next

(* The inductive invariant. *)
LEMMA ArchiveStep == Spec => [](TypeOK /\ ArchiveInv)
<1>1. Init => ArchiveInv
  <2> SUFFICES ASSUME Init PROVE ArchiveInv
    OBVIOUS
  <2>1. ExclusionInv /\ AstrayInv
    BY ConstantTypes DEF Init, ExclusionInv, MutexInv, Holding, SendExcludesLogging, AstrayInv
  <2>2. CardInv
    BY ConstantTypes DEF Init, CardInv, ArchivedIsComplete, Pending
  <2> QED BY <2>1, <2>2 DEF ArchiveInv
<1>2. TypeOK /\ ArchiveInv /\ [Next]_vars => ArchiveInv'
  BY MutexStep, SendStep, CardStep DEF ArchiveInv, ExclusionInv
<1> QED BY <1>1, <1>2, TypeCorrect, PTL DEF Spec

(* The session being uploaded is never the one being written, unless a stop
   has left it open: whatever two starters, timeouts, failed opens and resets
   do. *)
THEOREM NeverSendsOpen == Spec => []UploadNeverOpen
<1>1. TypeOK /\ ArchiveInv => UploadNeverOpen
  BY DEF TypeOK, ArchiveInv, ExclusionInv, SendExcludesLogging, AstrayInv, UploadNeverOpen
<1> QED BY <1>1, ArchiveStep, PTL

(* Whatever has left the pending set is on the server, row for row; only of a
   session the window took while a stop had left it open is this not said. *)
THEOREM ArchivedComplete == Spec => []ArchivedIsComplete
<1>1. ArchiveInv => ArchivedIsComplete
  BY DEF ArchiveInv, CardInv
<1> QED BY <1>1, ArchiveStep, PTL

-----------------------------------------------------------------------------
(* The three views of "recording".                                         *)

(* Unless the last command failed or met another, at most one context is in
   mid-work, and its position says what the views are meanwhile. *)
ViewInv ==
  ~upset /\ ~At("loop", "halted") =>
    /\ \A c, d \in Starters : InMidWork(c) /\ InMidWork(d) => c = d
    /\ \A c \in Starters :
         /\ pc[c] = "startSet" => logging /\ handle # NoFile
         /\ pc[c] = "stopLog" => handle = NoFile
         /\ pc[c] = "stopSet" => handle = NoFile /\ ~logging
    /\ (\A c \in Starters : ~InMidWork(c))
         => (recState = "REC") = logging /\ logging = (handle # NoFile)

LEMMA ViewStep == TypeOK /\ ViewInv /\ [Next]_vars => ViewInv'
<1> SUFFICES ASSUME TypeOK, ViewInv, [Next]_vars PROVE ViewInv'
  OBVIOUS
<1> USE ConstantTypes DEF recVars, cardVars, upVars, doubts, TypeOK, ViewInv, InMidWork
<1>1. ASSUME NEW c \in Starters, StarterStep(c) PROVE ViewInv'
  <2>1. At("loop", "halted") => At("loop", "halted")'
    BY <1>1 DEF StarterStep, StartCheck, StartTake, StartTimeout, StartOpen, StartSet,
           StopCheck, StopTake, StopTimeout, StopClose, StopLogging, StopSet
  <2>2. CASE StartCheck(c) BY <2>1, <2>2 DEF StartCheck
  <2>3. CASE StartTake(c) BY <2>1, <2>3 DEF StartTake
  <2>4. CASE StartTimeout(c) BY <2>1, <2>4 DEF StartTimeout
  <2>5. CASE StartOpen(c)
    <3>1. pc' = [pc EXCEPT ![c] = "startSet"]
      BY <2>5 DEF StartOpen
    <3>2. CASE upset' = TRUE BY <3>2
    <3>3. CASE /\ created' = created + 1 /\ handle' = created + 1 /\ logging' = TRUE
               /\ upset' = (\E d \in Starters \ {c} : InMidWork(d))
      <4>1. handle' # NoFile BY <3>3
      <4>2. ~upset' => \A d \in Starters \ {c} : ~InMidWork(d)
        BY <3>3
      <4> QED BY <3>1, <3>3, <4>1, <4>2
    <3> QED BY <2>5, <3>2, <3>3 DEF StartOpen
  <2>6. CASE StartSet(c) BY <2>1, <2>6 DEF StartSet
  <2>7. CASE StopCheck(c) BY <2>1, <2>7 DEF StopCheck
  <2>8. CASE StopTake(c) BY <2>1, <2>8 DEF StopTake
  <2>9. CASE StopTimeout(c) BY <2>9 DEF StopTimeout
  <2>10. CASE StopClose(c)
    <3>1. pc' = [pc EXCEPT ![c] = "stopLog"] /\ handle' = NoFile
      BY <2>10 DEF StopClose
    <3>2. ~upset' => \A d \in Starters \ {c} : ~InMidWork(d)
      BY <2>10 DEF StopClose
    <3> QED BY <3>1, <3>2
  <2>11. CASE StopLogging(c) BY <2>1, <2>11 DEF StopLogging
  <2>12. CASE StopSet(c) BY <2>1, <2>12 DEF StopSet
  <2> QED BY <1>1, <2>2, <2>3, <2>4, <2>5, <2>6, <2>7, <2>8, <2>9, <2>10, <2>11, <2>12
          DEF StarterStep
<1>2. CASE LoopStep
  <2>1. CASE LowBattery BY <2>1 DEF LowBattery
  <2>2. CASE ~LowBattery
    <3>1. /\ UNCHANGED <<recState, logging, handle, upset>>
          /\ pc["loop"] \in {"idle", "row"} /\ pc'["loop"] \in {"idle", "row"}
          /\ pc'["ble"] = pc["ble"]
      BY <1>2, <2>2 DEF LoopStep, LogRowBegin, LogRowEnd, Flush
    <3> QED BY <3>1
  <2> QED BY <2>1, <2>2
<1>3. CASE UploadStep
  <2>1. /\ \A c \in Starters : pc'[c] = pc[c]
        /\ UNCHANGED <<recState, logging, handle, upset>>
    BY <1>3 DEF UploadStep, UploadGate, UploadGiveUp, UploadTake, UploadSent,
                UploadFailed, UploadEnd, UploadSkip, UploadSend
  <2> QED BY <2>1
<1>4. CASE Reboot BY <1>4 DEF Reboot
<1>5. CASE UNCHANGED vars BY <1>5 DEF vars
<1> QED BY <1>1, <1>2, <1>3, <1>4, <1>5 DEF Next

(* One start or stop that succeeds and meets no other in mid-work brings the
   display, the row gate and the card together, from whatever state. *)
THEOREM ThreeViewsAgree == Spec => []ViewsAgree
<1>1. Init => ViewInv
  BY DEF Init, ViewInv, InMidWork
<1>2. TypeOK /\ ViewInv => ViewsAgree
  BY DEF TypeOK, ViewInv, InMidWork, ViewsAgree, Quiet
<1> QED BY <1>1, <1>2, ViewStep, TypeCorrect, PTL DEF Spec

-----------------------------------------------------------------------------
(* The recorder implements SessionArchive.                                 *)

PhaseMap == [s \in Sessions |-> Phase(s)]
SentMap  == [s \in Sessions |-> IF s \in astray THEN 0 ELSE archived[s]]

(* Steps that touch neither the card's directory, the open file, the rows, the
   server nor the history are invisible to the archive. *)
LEMMA Invisible ==
  ASSUME UNCHANGED <<handle, created, rows, present, marked, archived, astray>>
  PROVE  UNCHANGED Archive!vars
BY DEF Archive!vars, Phase, Pending

(* An action of the archive on a session is a step of it. *)
LEMMA ArchiveActs ==
  ASSUME NEW s \in Sessions,
         \/ Archive!Open(s) \/ Archive!Append(s) \/ Archive!LoseTrack(s)
         \/ Archive!Close(s) \/ Archive!PowerCut(s) \/ Archive!Deliver(s)
  PROVE  [Archive!Next]_(Archive!vars)
BY DEF Archive!Next

(* What an open file is to the archive. *)
LEMMA PhaseOfOpen ==
  ASSUME TypeOK, ArchiveInv, handle # NoFile
  PROVE  /\ handle \in Sessions
         /\ PhaseMap[handle] = IF handle \in astray THEN "doubtful" ELSE "open"
         /\ SentMap[handle] = 0
BY DEF TypeOK, ArchiveInv, AstrayInv, CardInv, PhaseMap, SentMap, Phase

(* The open file goes: its session becomes a closed one if it was pending, and
   no other session changes its phase, save one that is created. *)
LEMMA PhaseOfClose ==
  ASSUME TypeOK, ArchiveInv, astray' = Recovered,
         handle' \notin 1..created, created' \in Nat, created <= created',
         Pending \subseteq Pending', \A t \in Pending' : t \in Pending \/ t > created,
         NEW s \in Sessions, s <= created \/ s > created'
  PROVE  Phase(s)' = IF s = handle /\ s \in Pending THEN "closed" ELSE Phase(s)
<1> USE ConstantTypes DEF TypeOK, ArchiveInv, AstrayInv, CardInv, Recovered
<1>1. CASE s > created'
  BY <1>1 DEF Phase
<1>2. CASE s <= created
  <2>1. s \in 1..created /\ handle' # s /\ ~(s > created) /\ ~(s > created')
    BY <1>2
  <2>2. s \in Pending' <=> s \in Pending
    BY <1>2
  <2> QED BY <2>1, <2>2 DEF Phase
<1> QED BY <1>1, <1>2

(* What the server is promised to hold does not change by it. *)
LEMMA SentOfClose ==
  ASSUME TypeOK, ArchiveInv, astray' = Recovered, archived' = archived
  PROVE  SentMap' = SentMap
<1>1. \A s \in Sessions : s \in astray \ Recovered => archived[s] = 0
  BY DEF Recovered, ArchiveInv, CardInv
<1>2. Recovered \subseteq astray
  BY DEF Recovered
<1> QED BY <1>1, <1>2 DEF SentMap

LEMMA CloseImplements ==
  ASSUME TypeOK, ArchiveInv, handle' = NoFile, astray' = Recovered,
         UNCHANGED <<created, rows, present, marked, archived>>
  PROVE  [Archive!Next]_(Archive!vars)
<1>1. SentMap' = SentMap
  BY SentOfClose
<1>2. ASSUME NEW s \in Sessions
      PROVE  Phase(s)' = IF s = handle /\ s \in Pending THEN "closed" ELSE Phase(s)
  BY PhaseOfClose DEF Pending, TypeOK
<1>3. CASE handle # NoFile /\ handle \in Pending
  <2>1. handle \in Sessions /\ PhaseMap[handle] \in {"open", "doubtful"}
    BY <1>3, PhaseOfOpen
  <2>2. PhaseMap' = [PhaseMap EXCEPT ![handle] = "closed"]
    BY <1>2, <1>3 DEF PhaseMap
  <2>3. Archive!Close(handle)
    BY <1>1, <2>1, <2>2 DEF Archive!Close, Archive!Growing, PhaseMap, SentMap
  <2> QED BY <2>1, <2>3, ArchiveActs
<1>4. CASE ~(handle # NoFile /\ handle \in Pending)
  <2>1. PhaseMap' = PhaseMap
    BY <1>2, <1>4 DEF PhaseMap
  <2> QED BY <1>1, <2>1 DEF Archive!vars, PhaseMap, SentMap
<1> QED BY <1>3, <1>4

(* A new session is opened in the place of whatever was open. *)
LEMMA OpenImplements ==
  ASSUME TypeOK, ArchiveInv, created < MaxSessions, astray' = Recovered,
         created' = created + 1, handle' = created + 1,
         present' = present \union {created + 1},
         UNCHANGED <<rows, marked, archived>>
  PROVE  [Archive!Next]_(Archive!vars)
<1> DEFINE K == {t \in Sessions : t = handle /\ t \in Pending}
<1> USE ConstantTypes
<1>0. PICK n \in Sessions : n = created + 1
  BY DEF TypeOK
<1>1. n \in Sessions /\ n \notin astray' /\ PhaseMap[n] = "none"
  BY <1>0 DEF TypeOK, ArchiveInv, AstrayInv, Recovered, PhaseMap, Phase
<1>2. SentMap' = SentMap
  BY SentOfClose
<1>3. ASSUME NEW s \in Sessions, s # n
      PROVE  Phase(s)' = IF s \in K THEN "closed" ELSE Phase(s)
  <2>1. s <= created \/ s > created'
    BY <1>0, <1>3 DEF TypeOK
  <2>2. handle' \notin 1..created /\ created' \in Nat /\ created <= created'
    BY DEF TypeOK
  <2>3. Pending \subseteq Pending' /\ \A t \in Pending' : t \in Pending \/ t > created
    BY DEF ArchiveInv, CardInv, TypeOK, Pending
  <2> QED BY <2>1, <2>2, <2>3, PhaseOfClose
<1>4. Phase(n)' = "open"
  BY <1>0, <1>1 DEF Phase, TypeOK
<1>5. PhaseMap' = [t \in Sessions |-> IF t = n THEN "open"
                                      ELSE IF t \in K THEN "closed" ELSE PhaseMap[t]]
  <2> SUFFICES ASSUME NEW t \in Sessions
               PROVE  Phase(t)' = IF t = n THEN "open"
                                  ELSE IF t \in K THEN "closed" ELSE Phase(t)
    BY DEF PhaseMap
  <2> HIDE DEF K
  <2> QED BY <1>3, <1>4
<1>6. K \in SUBSET {t \in Sessions : PhaseMap[t] \in {"open", "doubtful"}}
  <2>1. ASSUME NEW t \in K PROVE PhaseMap[t] \in {"open", "doubtful"}
    BY <2>1, PhaseOfOpen
  <2> QED BY <2>1
<1>7. \A t \in Sessions : PhaseMap[t] = "open" => t \in K
  BY DEF PhaseMap, Phase, ArchiveInv, CardInv
<1>8. Archive!Open(n)
  <2> HIDE DEF K
  <2> QED BY <1>0, <1>1, <1>2, <1>5, <1>6, <1>7
          DEF Archive!Open, Archive!Growing, PhaseMap, SentMap
<1> QED BY <1>1, <1>8, ArchiveActs

LEMMA RefinementStep ==
  ASSUME TypeOK, ArchiveInv, [Next]_vars
  PROVE  [Archive!Next]_(Archive!vars)
<1> USE ConstantTypes DEF recVars, cardVars, upVars, doubts
<1>0. CardInv /\ AstrayInv /\ MutexInv /\ SendExcludesLogging
  BY DEF ArchiveInv, ExclusionInv
<1>1. ASSUME NEW c \in Starters, StarterStep(c) PROVE [Archive!Next]_(Archive!vars)
  <2>1. CASE StartOpen(c)
    <3>1. CASE handle' = NoFile /\ UNCHANGED <<created, present, logging>>
      BY <2>1, <3>1, CloseImplements DEF StartOpen
    <3>2. CASE /\ created < MaxSessions
               /\ created' = created + 1 /\ handle' = created + 1
               /\ present' = present \union {created + 1}
      BY <2>1, <3>2, OpenImplements DEF StartOpen
    <3> QED BY <2>1, <3>1, <3>2 DEF StartOpen
  <2>2. CASE StopClose(c)
    BY <2>2, CloseImplements DEF StopClose
  <2>3. CASE StopLogging(c)
    <3>1. /\ astray' = astray \union ({handle} \ {NoFile})
          /\ UNCHANGED <<handle, created, rows, present, marked, archived>>
      BY <2>3 DEF StopLogging
    <3>2. CASE handle = NoFile \/ handle \in astray
      BY <3>1, <3>2, Invisible
    <3>3. CASE handle # NoFile /\ handle \notin astray
      <4>0. PICK s : s = handle
        OBVIOUS
      <4>1. s \in Sessions /\ s <= created /\ PhaseMap[s] = "open" /\ SentMap[s] = 0
        BY <1>0, <3>3, <4>0, PhaseOfOpen DEF AstrayInv
      <4>2. PhaseMap' = [PhaseMap EXCEPT ![s] = "doubtful"]
        <5>1. \A t \in Sessions : Phase(t)' = IF t = s THEN "doubtful" ELSE Phase(t)
          BY <3>1, <3>3, <4>0, <4>1 DEF Phase, Pending, TypeOK
        <5> QED BY <5>1 DEF PhaseMap
      <4>3. SentMap' = [SentMap EXCEPT ![s] = 0]
        BY <3>1, <4>0, <4>1 DEF SentMap
      <4>4. Archive!LoseTrack(s)
        BY <3>1, <4>1, <4>2, <4>3 DEF Archive!LoseTrack, PhaseMap, SentMap
      <4> QED BY <4>1, <4>4, ArchiveActs
    <3> QED BY <3>2, <3>3
  <2>4. CASE ~StartOpen(c) /\ ~StopClose(c) /\ ~StopLogging(c)
    BY <1>1, <2>4, Invisible DEF StarterStep, StartCheck, StartTake, StartTimeout, StartSet,
                      StopCheck, StopTake, StopTimeout, StopSet
  <2> QED BY <2>1, <2>2, <2>3, <2>4
<1>2. CASE LoopStep
  <2>1. CASE LogRowBegin BY <2>1, Invisible DEF LogRowBegin
  <2>2. CASE LogRowEnd
    <3>1. CASE handle = NoFile \/ rows[handle] = MaxRows
      BY <2>2, <3>1, Invisible DEF LogRowEnd
    <3>2. CASE handle # NoFile /\ rows[handle] # MaxRows
      <4>1. handle \in Sessions /\ rows[handle] < MaxRows
        BY <3>2 DEF TypeOK
      <4>2. PhaseMap[handle] \in {"open", "doubtful"}
        BY <3>2, PhaseOfOpen
      <4>3. PhaseMap' = PhaseMap /\ SentMap' = SentMap
        BY <2>2 DEF LogRowEnd, PhaseMap, SentMap, Phase, Pending
      <4>4. rows' = [rows EXCEPT ![handle] = @ + 1]
        BY <2>2, <3>2 DEF LogRowEnd
      <4>5. Archive!Append(handle)
        BY <4>1, <4>2, <4>3, <4>4 DEF Archive!Append, Archive!Growing, PhaseMap, SentMap
      <4> QED BY <4>1, <4>5, ArchiveActs
    <3> QED BY <3>1, <3>2
  <2>3. CASE Flush BY <2>3, Invisible DEF Flush
  <2>4. CASE LowBattery
    <3>1. CASE logging
      <4>1. Recovered = astray
        BY <1>0, <3>1 DEF AstrayInv, Recovered
      <4> QED BY <2>4, <3>1, <4>1, CloseImplements DEF LowBattery
    <3>2. CASE ~logging BY <2>4, <3>2, Invisible DEF LowBattery
    <3> QED BY <3>1, <3>2
  <2> QED BY <1>2, <2>1, <2>2, <2>3, <2>4 DEF LoopStep
<1>3. CASE UploadStep
  <2>1. CASE UploadSent
    <3>0. PICK f \in Sessions : f = sending.file
      BY <2>1 DEF UploadSent, TypeOK
    <3>1. f \in Sessions /\ f <= created /\ f \in Pending /\ sending.size = synced[f]
      BY <1>0, <2>1, <3>0 DEF UploadSent, CardInv, TypeOK, Pending
    <3>2. /\ archived' = [archived EXCEPT ![f] = synced[f]]
          /\ UNCHANGED <<handle, created, rows, astray>>
      BY <2>1, <3>0, <3>1 DEF UploadSent
    <3>3. Pending' = Pending \ {f}
      BY <2>1, <3>0 DEF UploadSent, Pending
    <3>4. \A s \in Sessions : s # f => Phase(s)' = Phase(s)
      BY <3>2, <3>3 DEF Phase
    <3>5. CASE f \in astray
      <4>1. Phase(f)' = Phase(f)
        BY <3>1, <3>2, <3>5 DEF Phase, TypeOK
      <4>2. PhaseMap' = PhaseMap
        BY <3>4, <4>1 DEF PhaseMap
      <4>3. SentMap' = SentMap
        BY <3>1, <3>2, <3>5 DEF SentMap, TypeOK
      <4> QED BY <3>2, <4>2, <4>3 DEF Archive!vars, PhaseMap, SentMap
    <3>6. CASE f \notin astray
      <4>1. f # handle /\ synced[f] = rows[f]
        BY <1>0, <2>1, <3>0, <3>1, <3>6
           DEF UploadSent, SendExcludesLogging, AstrayInv, CardInv, TypeOK
      <4>2. PhaseMap[f] = "closed" /\ Phase(f)' = "archived"
        BY <3>1, <3>2, <3>3, <3>6, <4>1 DEF PhaseMap, Phase, TypeOK
      <4>3. PhaseMap' = [PhaseMap EXCEPT ![f] = "archived"]
        <5> SUFFICES \A s \in Sessions : Phase(s)' = IF s = f THEN "archived" ELSE Phase(s)
          BY DEF PhaseMap
        <5> QED BY <3>4, <4>2
      <4>4. SentMap' = [SentMap EXCEPT ![f] = rows[f]]
        BY <3>1, <3>2, <3>6, <4>1 DEF SentMap, TypeOK
      <4>5. Archive!Deliver(f)
        BY <3>2, <4>2, <4>3, <4>4 DEF Archive!Deliver, PhaseMap, SentMap
      <4> QED BY <3>1, <4>5, ArchiveActs
    <3> QED BY <3>5, <3>6
  <2>2. CASE ~UploadSent
    BY <1>3, <2>2, Invisible DEF UploadStep, UploadGate, UploadGiveUp, UploadTake,
                UploadFailed, UploadEnd, UploadSkip, UploadSend
  <2> QED BY <2>1, <2>2
<1>4. CASE Reboot
  <2>1. /\ rows' = synced /\ handle' = NoFile /\ astray' = Recovered
        /\ UNCHANGED <<created, present, marked, archived>>
    BY <1>4 DEF Reboot
  <2>2. CASE handle = NoFile
    <3>1. rows' = rows
      BY <1>0, <2>1, <2>2 DEF CardInv, TypeOK
    <3> QED BY <2>1, <2>2, <3>1, CloseImplements
  <2>3. CASE handle # NoFile
    <3>1. handle \in Sessions /\ PhaseMap[handle] = IF handle \in astray THEN "doubtful" ELSE "open"
      BY <2>3, PhaseOfOpen
    <3>2. rows' = [rows EXCEPT ![handle] = synced[handle]] /\ synced[handle] \in 0..rows[handle]
      BY <1>0, <2>1, <3>1 DEF CardInv, TypeOK
    <3>3. SentMap' = SentMap
      BY <2>1, SentOfClose
    <3>4. ASSUME NEW s \in Sessions
          PROVE  Phase(s)' = IF s = handle /\ s \in Pending THEN "closed" ELSE Phase(s)
      <4>1. created' \in Nat /\ created <= created' /\ handle' \notin 1..created
            /\ (s <= created \/ s > created')
        BY <2>1 DEF TypeOK
      <4>2. Pending' = Pending
        BY <2>1 DEF Pending
      <4> QED BY <2>1, <4>1, <4>2, PhaseOfClose
    <3>5. CASE handle \in Pending
      <4>1. PhaseMap' = [PhaseMap EXCEPT ![handle] = "closed"]
        BY <3>4, <3>5 DEF PhaseMap
      <4> QED BY <3>1, <3>2, <3>3, <4>1
              DEF Archive!PowerCut, Archive!Growing, Archive!Next, PhaseMap, SentMap
    <3>6. CASE handle \notin Pending
      <4>1. PhaseMap' = PhaseMap
        BY <3>4, <3>6 DEF PhaseMap
      <4>2. PhaseMap[handle] = "doubtful"
        BY <1>0, <2>3, <3>1, <3>6 DEF CardInv
      <4> QED BY <3>1, <3>2, <3>3, <4>1, <4>2
              DEF Archive!PowerCut, Archive!Growing, Archive!Next, PhaseMap, SentMap
    <3> QED BY <3>5, <3>6
  <2> QED BY <2>2, <2>3
<1>5. CASE UNCHANGED vars BY <1>5, Invisible DEF vars
<1> QED BY <1>1, <1>2, <1>3, <1>4, <1>5 DEF Next

(* Both starters, the mutex, the flushes, the walk and the resets together
   behave as the sequential archive; the archive says which sessions it makes
   no promise of. *)
THEOREM RecorderImplementsArchive == Spec => ImplementsArchive
<1>1. Init => Archive!Init
  BY ConstantTypes DEF Init, Archive!Init, Phase
<1>2. TypeOK /\ ArchiveInv /\ [Next]_vars => [Archive!Next]_(Archive!vars)
  BY RefinementStep
<1> QED BY <1>1, <1>2, ArchiveStep, PTL DEF Spec, ImplementsArchive, Archive!Spec
=============================================================================
