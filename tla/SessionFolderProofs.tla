------------------------- MODULE SessionFolderProofs -------------------------
(***************************************************************************)
(* Proofs about SessionFolder, for any number of sessions, seconds and     *)
(* faults.                                                                 *)
(***************************************************************************)
EXTENDS SessionFolder, TLAPS

(* The uploads, whatever auto_cleanup_uploads says. *)
Uploading ==
  \E auto \in AutoCleanup :
    \/ \E f \in Files : UploadFile(f, auto)
    \/ \E d \in Folders : UploadTag(d, auto)
    \/ UploadCounter(auto)

LEMMA Actions ==
  ASSUME [Next]_vars
  PROVE  \/ Tick \/ FallSilent
         \/ \E own \in BOOLEAN : Start(own)
         \/ Stop \/ Reset \/ ResetInCount
         \/ Uploading \/ Cleanup \/ ClearMarkers
         \/ UNCHANGED vars
BY DEF Next, Uploading

LEMMA Numbers ==
  /\ MaxSessions \in Nat /\ MaxFaults \in Nat /\ LastSecond \in Nat /\ LastSecond >= 1
  /\ None \notin Nat
BY NamesAssumption

LEMMA FolderFacts == \A f \in Files : Folder(f) \in Folders /\ Folder(f) = <<f[1], f[2]>>
BY DEF Folder, Folders

(* A file is named in one of the two ways. *)
LEMMA FileFacts ==
  ASSUME NEW f \in Files
  PROVE  \/ f[1] = "gps" /\ f[2] \in 0..LastSecond /\ f[3] \in 0..LastSecond
         \/ f[1] = "num" /\ f[2] \in 1..(MaxSessions + 1) /\ f[3] \in 0..LastSecond
BY DEF Files

-----------------------------------------------------------------------------
(* Types.                                                                  *)

LEMMA TypeInit == Init => TypeOK
<1> SUFFICES ASSUME Init PROVE TypeOK
  OBVIOUS
<1> USE Numbers DEF Init, NoOne
<1>1. {clock, boot, utc} \subseteq 0..LastSecond /\ boot <= clock /\ faults \in 0..MaxFaults
  OBVIOUS
<1>2. {silent, dated, fix, sf, counted} \subseteq BOOLEAN
  BY NamesAssumption
<1>3. holds \in [Files -> 0..started] /\ tag \in [Folders -> 0..started]
  OBVIOUS
<1>4. /\ counter \in {None} \cup (0..started) /\ marked \subseteq Files /\ tagged \subseteq Folders
      /\ started \in 0..MaxSessions /\ current \in 0..started
  OBVIOUS
<1>5. /\ opened \in [Sessions -> 0..clock] /\ chosen \subseteq Sessions /\ got \subseteq Sessions
      /\ filed \in [Sessions -> SUBSET (0..MaxSessions)]
      /\ excuse \subseteq {"second", "silence", "count"}
  OBVIOUS
<1> QED BY <1>1, <1>2, <1>3, <1>4, <1>5 DEF TypeOK

(* The name a start takes. *)
LEMMA NameFacts ==
  ASSUME TypeOK, started < MaxSessions
  PROVE  /\ Name \in Files /\ Folder(Name) \in Folders
         /\ NextNumber \in 1..(started + 1)
         /\ ByClock => Name = <<"gps", utc, utc>>
         /\ ~ByClock => Name = <<"num", NextNumber, clock - boot>>
<1>1. NextNumber \in 1..(started + 1)
  BY Numbers DEF TypeOK, NextNumber
<1>2. clock - boot \in 0..LastSecond /\ utc \in 0..LastSecond
  BY Numbers DEF TypeOK
<1>3. NextNumber \in 1..(MaxSessions + 1)
  BY <1>1, Numbers DEF TypeOK
<1>4. Name \in Files
  BY <1>2, <1>3 DEF Name, Files
<1> QED BY <1>1, <1>4, FolderFacts DEF Name

LEMMA TypeStep == TypeOK /\ [Next]_vars => TypeOK'
<1> SUFFICES ASSUME TypeOK, [Next]_vars PROVE TypeOK'
  OBVIOUS
<1> USE Numbers DEF time, receiver, count, card, session, server, NoOne
<1>1. CASE Tick
  <2>1. /\ clock' \in 0..LastSecond /\ boot' = boot /\ boot <= clock' /\ utc' \in 0..LastSecond
        /\ \A x \in 0..clock : x \in 0..clock'
    BY <1>1 DEF Tick, Heard, TypeOK
  <2>2. {dated', fix'} \subseteq BOOLEAN
    BY <1>1 DEF Tick, Heard, TypeOK
  <2>3. opened' \in [Sessions -> 0..clock']
    BY <1>1, <2>1 DEF Tick, TypeOK
  <2> QED BY <1>1, <2>1, <2>2, <2>3 DEF Tick, TypeOK
<1>2. CASE FallSilent
  BY <1>2 DEF FallSilent, Fault, TypeOK
<1>3. ASSUME NEW own \in BOOLEAN, Start(own) PROVE TypeOK'
  <2>1. started < MaxSessions /\ started' = started + 1 /\ started' \in Sessions
    BY <1>3 DEF Start, TypeOK, Sessions
  <2>2. /\ Name \in Files /\ Folder(Name) \in Folders /\ NextNumber \in 0..started'
    BY <2>1, NameFacts DEF TypeOK
  <2>3. holds' \in [Files -> 0..started'] /\ tag' \in [Folders -> 0..started']
    <3>1. holds \in [Files -> 0..started'] /\ tag \in [Folders -> 0..started']
      BY <2>1 DEF TypeOK
    <3> QED BY <1>3, <2>1, <2>2, <3>1 DEF Start
  <2>4. counter' \in {None} \cup (0..started')
    BY <1>3, <2>1, <2>2 DEF Start, TypeOK
  <2>5. opened' \in [Sessions -> 0..clock'] /\ chosen' \subseteq Sessions
    BY <1>3, <2>1 DEF Start, TypeOK
  <2>6. excuse' \subseteq {"second", "silence", "count"}
    BY <1>3 DEF Start, Causes, TypeOK
  <2>7. started' \in 0..MaxSessions /\ current' \in 0..started'
    BY <1>3, <2>1 DEF Start, TypeOK, Sessions
  <2> QED BY <1>3, <2>3, <2>4, <2>5, <2>6, <2>7 DEF Start, TypeOK
<1>4. CASE Stop
  BY <1>4 DEF Stop, TypeOK
<1>5. CASE Reset \/ ResetInCount
  <2>1. /\ {clock', boot', utc'} \subseteq 0..LastSecond /\ boot' <= clock'
        /\ faults' \in 0..MaxFaults /\ current' \in 0..started'
    BY <1>5 DEF Reset, ResetInCount, Boot, Fault, TypeOK
  <2>2. {silent', dated', fix', sf', counted'} \subseteq BOOLEAN
    BY <1>5 DEF Reset, ResetInCount, Boot, TypeOK
  <2>3. counter' \in {None} \cup (0..started') /\ excuse' \subseteq {"second", "silence", "count"}
    BY <1>5 DEF Reset, ResetInCount, Boot, TypeOK
  <2>4. UNCHANGED <<clock, holds, marked, tag, tagged, started, opened, chosen, server>>
    BY <1>5 DEF Reset, ResetInCount, Boot
  <2> QED BY <2>1, <2>2, <2>3, <2>4 DEF TypeOK
<1>6. CASE Uploading
  <2>1. ASSUME NEW auto \in AutoCleanup, NEW f \in Files, UploadFile(f, auto) PROVE TypeOK'
    <3>1. holds[f] \in Sessions /\ tag[Folder(f)] \in 0..MaxSessions
      BY <2>1, FolderFacts DEF UploadFile, TypeOK, Sessions
    <3>2. got' \subseteq Sessions /\ filed' \in [Sessions -> SUBSET (0..MaxSessions)]
      BY <2>1, <3>1 DEF UploadFile, TypeOK
    <3>3. holds' \in [Files -> 0..started] /\ marked' \subseteq Files
      BY <2>1 DEF UploadFile, TypeOK
    <3> QED BY <2>1, <3>2, <3>3 DEF UploadFile, TypeOK
  <2>2. ASSUME NEW auto \in AutoCleanup, NEW d \in Folders, UploadTag(d, auto) PROVE TypeOK'
    BY <2>2 DEF UploadTag, TypeOK
  <2>3. ASSUME NEW auto \in AutoCleanup, UploadCounter(auto) PROVE TypeOK'
    <3>1. counted' \in BOOLEAN
      BY <2>3, NamesAssumption DEF UploadCounter
    <3> QED BY <2>3, <3>1 DEF UploadCounter, TypeOK
  <2> QED BY <1>6, <2>1, <2>2, <2>3 DEF Uploading
<1>7. CASE Cleanup
  <2>1. holds' \in [Files -> 0..started] /\ tag' \in [Folders -> 0..started]
    BY <1>7 DEF Cleanup, TypeOK
  <2>2. /\ counter' \in {None} \cup (0..started) /\ counted' \in BOOLEAN
        /\ excuse' \subseteq {"second", "silence", "count"}
        /\ marked' = {} /\ tagged' = {}
    BY <1>7 DEF Cleanup, TypeOK
  <2> QED BY <1>7, <2>1, <2>2 DEF Cleanup, TypeOK
<1>8. CASE ClearMarkers
  BY <1>8 DEF ClearMarkers, TypeOK
<1>9. CASE UNCHANGED vars
  BY <1>9 DEF vars, TypeOK
<1> QED BY Actions, <1>1, <1>2, <1>3, <1>4, <1>5, <1>6, <1>7, <1>8, <1>9

(* Types: names stay names, and no number is beyond the sessions started. *)
THEOREM TypeCorrect == Spec => []TypeOK
BY TypeInit, TypeStep, PTL DEF Spec

-----------------------------------------------------------------------------
(* Names.                                                                  *)

(* The time that is used is the present one. *)
TimeInv == fix /\ ~silent => utc = clock

(* A file named by the clock was opened in that second - and so was the folder
   with its boat - and one that is marked is not of this second. *)
ClockInv == "silence" \notin excuse => \A f \in Files : f[1] = "gps" =>
  /\ holds[f] # NoOne => opened[holds[f]] = f[2] /\ f[3] = f[2]
  /\ tag[Folder(f)] # NoOne => opened[tag[Folder(f)]] = f[2]
  /\ f \in marked => f[2] < clock

(* No number on the card is beyond the one in session.txt. *)
CountInv == "count" \notin excuse => \A f \in Files :
  f[1] = "num" /\ (holds[f] # NoOne \/ tag[Folder(f)] # NoOne \/ f \in marked)
    => counter # None /\ f[2] <= counter

NamesInv == TimeInv /\ ClockInv /\ CountInv

(* What a start finds at its name, unless there is an excuse for it. *)
LEMMA Fresh ==
  ASSUME TypeOK, NamesInv, NEW own \in BOOLEAN, Start(own)
  PROVE  /\ Name \in Files
         /\ ByClock /\ excuse' \cap {"second", "silence"} = {}
              => holds[Name] = NoOne /\ tag[Folder(Name)] = NoOne /\ utc = clock
         /\ ~ByClock /\ "count" \notin excuse'
              => holds[Name] = NoOne /\ tag[Folder(Name)] = NoOne /\ Name \notin marked
                 /\ counter' = NextNumber
         /\ ByClock /\ "silence" \notin excuse' => utc = clock /\ Name \notin marked
<1> USE Numbers DEF NoOne
<1>1. /\ started < MaxSessions /\ Name \in Files
      /\ ByClock => Name = <<"gps", utc, utc>>
      /\ ~ByClock => Name = <<"num", NextNumber, clock - boot>>
  BY NameFacts DEF Start
<1>2. ASSUME ByClock, "silence" \notin excuse'
      PROVE  ~silent /\ utc = clock /\ "silence" \notin excuse
  BY <1>2 DEF Start, Causes, NamesInv, TimeInv, ByClock
<1>3. ASSUME ByClock, "silence" \notin excuse'
      PROVE  Name \notin marked
  BY <1>1, <1>2, <1>3 DEF NamesInv, ClockInv, TypeOK
<1>4. ASSUME ByClock, excuse' \cap {"second", "silence"} = {}
      PROVE  holds[Name] = NoOne /\ tag[Folder(Name)] = NoOne
  <2>1. \A s \in 1..started : opened[s] # clock
    BY <1>4 DEF Start, Causes
  <2>2. holds[Name] \in 0..started /\ tag[Folder(Name)] \in 0..started
    BY <1>1, FolderFacts DEF TypeOK
  <2>3. Name[1] = "gps" /\ Name[2] = clock
    BY <1>1, <1>2, <1>4
  <2> QED BY <1>1, <1>2, <1>4, <2>1, <2>2, <2>3 DEF NamesInv, ClockInv
<1>5. ASSUME ~ByClock, "count" \notin excuse'
      PROVE  /\ holds[Name] = NoOne /\ tag[Folder(Name)] = NoOne /\ Name \notin marked
             /\ counter' = NextNumber
  <2>1. "count" \notin excuse /\ sf /\ counter' = NextNumber
    BY <1>5 DEF Start, Causes
  <2>2. Name[1] = "num" /\ Name[2] = NextNumber
    BY <1>1, <1>5
  <2>3. counter # None => NextNumber = counter + 1 /\ counter \in Nat
    BY DEF NextNumber, TypeOK
  <2> QED BY <1>1, <2>1, <2>2, <2>3 DEF NamesInv, CountInv
<1> QED BY <1>1, <1>2, <1>3, <1>4, <1>5

LEMMA NamesInit == Init => NamesInv
BY DEF Init, NamesInv, TimeInv, ClockInv, CountInv, NoOne, Folders

LEMMA NamesStep == TypeOK /\ NamesInv /\ [Next]_vars => NamesInv'
<1> SUFFICES ASSUME TypeOK, NamesInv, [Next]_vars PROVE NamesInv'
  OBVIOUS
<1> USE Numbers DEF NoOne, time, receiver, count, card, session, server
<1>1. CASE Tick
  <2>1. TimeInv' /\ CountInv'
    BY <1>1 DEF Tick, Heard, NamesInv, TimeInv, CountInv
  <2>2. ClockInv'
    BY <1>1, FileFacts DEF Tick, NamesInv, ClockInv, TypeOK
  <2> QED BY <2>1, <2>2 DEF NamesInv
<1>2. CASE FallSilent \/ Stop
  BY <1>2 DEF FallSilent, Stop, NamesInv, TimeInv, ClockInv, CountInv
<1>3. ASSUME NEW own \in BOOLEAN, Start(own) PROVE NamesInv'
  <2>1. /\ started < MaxSessions /\ started' = started + 1 /\ Name \in Files
        /\ Folder(Name) \in Folders /\ NextNumber \in 1..(started + 1)
        /\ ByClock => Name = <<"gps", utc, utc>>
        /\ ~ByClock => Name = <<"num", NextNumber, clock - boot>>
    BY <1>3, NameFacts DEF Start
  <2>2. TimeInv'
    BY <1>3 DEF Start, NamesInv, TimeInv
  <2>3. started' \in Sessions /\ opened' = [opened EXCEPT ![started'] = clock]
    BY <1>3, <2>1 DEF Start, Sessions, TypeOK
  <2>4. \A s \in 1..started : opened'[s] = opened[s]
    BY <2>1, <2>3 DEF TypeOK, Sessions
  <2>5. ASSUME NEW f \in Files
        PROVE  /\ holds[f] \in 0..started /\ tag[Folder(f)] \in 0..started
               /\ holds'[f] = IF f = Name THEN started' ELSE holds[f]
               /\ tag'[Folder(f)] = IF own /\ Folder(f) = Folder(Name) THEN started'
                                    ELSE tag[Folder(f)]
    BY <1>3, <2>1, FolderFacts DEF Start, TypeOK
  <2>6. ClockInv'
    <3> SUFFICES ASSUME "silence" \notin excuse', NEW f \in Files, f[1] = "gps"
                 PROVE  /\ holds'[f] # NoOne => opened'[holds'[f]] = f[2] /\ f[3] = f[2]
                        /\ tag'[Folder(f)] # NoOne => opened'[tag'[Folder(f)]] = f[2]
                        /\ f \in marked => f[2] < clock
      BY <1>3 DEF Start, ClockInv
    <3>1. "silence" \notin excuse
      BY <1>3 DEF Start
    <3>2. /\ holds[f] # NoOne => opened[holds[f]] = f[2] /\ f[3] = f[2]
          /\ tag[Folder(f)] # NoOne => opened[tag[Folder(f)]] = f[2]
          /\ f \in marked => f[2] < clock
      BY <3>1 DEF NamesInv, ClockInv
    <3>3. f = Name \/ Folder(f) = Folder(Name) => ByClock /\ f[2] = clock
      <4>1. f = Name \/ Folder(f) = Folder(Name) => Name[1] = "gps" /\ Name[2] = f[2]
        BY <2>1, FolderFacts
      <4>2. Name[1] = "gps" => ByClock /\ Name[2] = utc
        BY <2>1
      <4> QED BY <1>3, <4>1, <4>2, Fresh
    <3>4. f = Name => f[3] = f[2]
      BY <2>1, <3>3
    <3>5. opened'[started'] = clock
      BY <2>3 DEF TypeOK
    <3> QED BY <2>4, <2>5, <3>2, <3>3, <3>4, <3>5
  <2>7. CountInv'
    <3> SUFFICES ASSUME "count" \notin excuse', NEW f \in Files, f[1] = "num",
                        holds'[f] # NoOne \/ tag'[Folder(f)] # NoOne \/ f \in marked
                 PROVE  counter' # None /\ f[2] <= counter'
      BY <1>3 DEF Start, CountInv
    <3>1. "count" \notin excuse
      BY <1>3 DEF Start
    <3>2. CASE ByClock
      <4>1. f # Name /\ Folder(f) # Folder(Name) /\ counter' = counter
        BY <1>3, <2>1, <3>2, FolderFacts DEF Start
      <4> QED BY <2>5, <3>1, <4>1 DEF NamesInv, CountInv
    <3>3. CASE ~ByClock
      <4>1. counter' = NextNumber /\ counter' # None
        BY <1>3, <2>1, <3>3, Fresh
      <4>2. f = Name \/ Folder(f) = Folder(Name) => f[2] = NextNumber
        BY <2>1, <3>3, FolderFacts
      <4>3. counter # None => counter \in Nat /\ NextNumber = counter + 1
        BY DEF NextNumber, TypeOK
      <4>4. CASE f = Name \/ Folder(f) = Folder(Name)
        BY <2>1, <4>1, <4>2, <4>4
      <4>5. CASE f # Name /\ Folder(f) # Folder(Name)
        <5>1. counter # None /\ f[2] <= counter
          BY <2>5, <3>1, <4>5 DEF NamesInv, CountInv
        <5> QED BY <4>1, <4>3, <5>1, FileFacts
      <4> QED BY <4>4, <4>5
    <3> QED BY <3>2, <3>3
  <2> QED BY <2>2, <2>6, <2>7 DEF NamesInv
<1>4. CASE Reset \/ ResetInCount
  <2>1. TimeInv'
    BY <1>4 DEF Reset, ResetInCount, Boot, TimeInv
  <2>2. ClockInv'
    BY <1>4 DEF Reset, ResetInCount, Boot, NamesInv, ClockInv
  <2>3. CountInv'
    BY <1>4 DEF Reset, ResetInCount, Boot, NamesInv, CountInv
  <2> QED BY <2>1, <2>2, <2>3 DEF NamesInv
<1>5. CASE Uploading
  <2>1. ASSUME NEW auto \in AutoCleanup, NEW f \in Files, UploadFile(f, auto) PROVE NamesInv'
    <3>1. /\ UNCHANGED <<time, receiver, count, tag, opened, started, excuse>>
          /\ holds[f] \in 1..started /\ opened[holds[f]] # clock
      BY <2>1 DEF UploadFile, Quiet, TypeOK
    <3>2. \A g \in Files : /\ holds'[g] \in {NoOne, holds[g]}
                           /\ g \in marked' => g \in marked \/ g = f
      BY <2>1 DEF UploadFile, TypeOK
    <3>3. opened[holds[f]] < clock
      BY <3>1, FileFacts DEF TypeOK, Sessions
    <3>4. ClockInv'
      BY <3>1, <3>2, <3>3 DEF NamesInv, ClockInv
    <3>5. CountInv'
      BY <3>1, <3>2 DEF NamesInv, CountInv
    <3>6. TimeInv'
      BY <3>1 DEF NamesInv, TimeInv
    <3> QED BY <3>4, <3>5, <3>6 DEF NamesInv
  <2>2. ASSUME NEW auto \in AutoCleanup, NEW d \in Folders, UploadTag(d, auto) PROVE NamesInv'
    <3>1. UNCHANGED <<time, receiver, count, holds, marked, opened, excuse>>
      BY <2>2 DEF UploadTag
    <3>2. \A f \in Files : tag'[Folder(f)] \in {NoOne, tag[Folder(f)]}
      BY <2>2, FolderFacts DEF UploadTag, TypeOK
    <3> QED BY <3>1, <3>2 DEF NamesInv, TimeInv, ClockInv, CountInv
  <2>3. ASSUME NEW auto \in AutoCleanup, UploadCounter(auto) PROVE NamesInv'
    BY <2>3 DEF UploadCounter, NamesInv, TimeInv, ClockInv, CountInv
  <2> QED BY <1>5, <2>1, <2>2, <2>3 DEF Uploading
<1>6. CASE Cleanup
  <2>1. /\ UNCHANGED <<time, receiver, opened>> /\ marked' = {}
        /\ excuse \subseteq excuse'
        /\ "count" \notin excuse' => counter' = counter
        /\ "silence" \notin excuse' => "silence" \notin excuse
    BY <1>6 DEF Cleanup
  <2>2. \A f \in Files : /\ holds'[f] \in {NoOne, holds[f]}
                         /\ tag'[Folder(f)] \in {NoOne, tag[Folder(f)]}
    BY <1>6, FolderFacts DEF Cleanup
  <2>3. TimeInv'
    BY <2>1 DEF NamesInv, TimeInv
  <2>4. ClockInv'
    BY <2>1, <2>2 DEF NamesInv, ClockInv
  <2>5. CountInv'
    BY <2>1, <2>2 DEF NamesInv, CountInv
  <2> QED BY <2>3, <2>4, <2>5 DEF NamesInv
<1>7. CASE ClearMarkers
  BY <1>7 DEF ClearMarkers, NamesInv, TimeInv, ClockInv, CountInv
<1>8. CASE UNCHANGED vars
  BY <1>8 DEF vars, NamesInv, TimeInv, ClockInv, CountInv
<1> QED BY Actions, <1>1, <1>2, <1>3, <1>4, <1>5, <1>6, <1>7, <1>8

LEMMA NamesCorrect == Spec => [](TypeOK /\ NamesInv)
BY TypeInit, TypeStep, NamesInit, NamesStep, PTL DEF Spec

-----------------------------------------------------------------------------
(* What follows for the files, the markers and the boats.                  *)

(* What a step makes of a file, unless it is a start. *)
LEMMA OnlyStarts ==
  ASSUME TypeOK, [Next]_vars, NEW f \in Files, holds'[f] \notin {NoOne, holds[f]}
  PROVE  \E own \in BOOLEAN : Start(own) /\ f = Name
<1> USE DEF time, receiver, count, card, session, server
<1>1. CASE \E own \in BOOLEAN : Start(own)
  BY <1>1, NameFacts DEF Start, TypeOK
<1>2. CASE Tick \/ FallSilent \/ Stop \/ Reset \/ ResetInCount \/ ClearMarkers \/ UNCHANGED vars
  BY <1>2 DEF Tick, FallSilent, Stop, Reset, ResetInCount, Boot, ClearMarkers, vars
<1>3. CASE Uploading
  BY <1>3 DEF Uploading, UploadFile, UploadTag, UploadCounter, TypeOK
<1>4. CASE Cleanup
  BY <1>4 DEF Cleanup
<1> QED BY Actions, <1>1, <1>2, <1>3, <1>4

(* startLogging opens its files to write and asks for nothing: a start never
   truncates what another session has recorded, but for the names it may take
   twice. *)
THEOREM NamesSpared == Spec => NeverTruncated
<1>1. TypeOK /\ NamesInv /\ [Next]_vars =>
        \A f \in Files : holds[f] # NoOne /\ holds'[f] \notin {NoOne, holds[f]} => Excused(f)'
  <2> SUFFICES ASSUME TypeOK, NamesInv, [Next]_vars, NEW f \in Files,
                      holds[f] # NoOne, holds'[f] \notin {NoOne, holds[f]}
               PROVE  Excused(f)'
    OBVIOUS
  <2>1. PICK own \in BOOLEAN : Start(own) /\ f = Name
    BY OnlyStarts
  <2>2. Name[1] = "gps" <=> ByClock
    BY DEF Name
  <2>3. CASE ByClock
    BY <2>1, <2>2, <2>3, Fresh DEF Excused
  <2>4. CASE ~ByClock
    BY <2>1, <2>2, <2>4, Fresh DEF Excused
  <2> QED BY <2>3, <2>4
<1> QED BY <1>1, NamesCorrect, PTL DEF NeverTruncated, Spec

LEMMA MarkedStep == TypeOK /\ NamesInv /\ MarkedIsSent /\ [Next]_vars => MarkedIsSent'
<1> SUFFICES ASSUME TypeOK, NamesInv, MarkedIsSent, [Next]_vars, NEW f \in marked'
             PROVE  \/ holds'[f] \in got'
                    \/ IF f[1] = "gps" THEN "silence" \in excuse' ELSE "count" \in excuse'
  BY DEF MarkedIsSent
<1> USE DEF time, receiver, count, card, session, server
<1>1. ASSUME NEW own \in BOOLEAN, Start(own)
      PROVE  \/ holds'[f] \in got'
             \/ IF f[1] = "gps" THEN "silence" \in excuse' ELSE "count" \in excuse'
  <2>1. f \in marked /\ got' = got /\ excuse \subseteq excuse' /\ f \in Files
    BY <1>1 DEF Start, TypeOK
  <2>2. CASE f # Name
    BY <1>1, <2>1, <2>2 DEF Start, TypeOK, MarkedIsSent
  <2>3. CASE f = Name
    <3>1. f[1] = "gps" <=> ByClock
      BY <2>3 DEF Name
    <3> QED BY <1>1, <2>1, <2>3, <3>1, Fresh
  <2> QED BY <2>2, <2>3
<1>2. CASE Tick \/ FallSilent \/ Stop \/ Reset \/ ResetInCount \/ UNCHANGED vars
  BY <1>2 DEF Tick, FallSilent, Stop, Reset, ResetInCount, Boot, vars, MarkedIsSent
<1>3. ASSUME NEW auto \in AutoCleanup, NEW g \in Files, UploadFile(g, auto)
      PROVE  \/ holds'[f] \in got'
             \/ IF f[1] = "gps" THEN "silence" \in excuse' ELSE "count" \in excuse'
  <2>1. excuse' = excuse /\ got' = got \cup {holds[g]} /\ g \notin marked
    BY <1>3 DEF UploadFile
  <2>2. CASE f = g
    BY <1>3, <2>1, <2>2 DEF UploadFile
  <2>3. CASE f # g
    BY <1>3, <2>1, <2>3 DEF UploadFile, TypeOK, MarkedIsSent
  <2> QED BY <2>2, <2>3
<1>4. CASE Uploading
  BY <1>3, <1>4 DEF Uploading, UploadTag, UploadCounter, MarkedIsSent
<1>5. CASE Cleanup \/ ClearMarkers
  BY <1>5 DEF Cleanup, ClearMarkers
<1> QED BY Actions, <1>1, <1>2, <1>4, <1>5

(* The .uploaded marker of a name survives a new start under it: a marked file
   is one the server has, but where a silent receiver or a lost number gave the
   name twice. *)
THEOREM MarkersTrue == Spec => []MarkedIsSent
<1>1. Init => MarkedIsSent
  BY DEF Init, MarkedIsSent
<1> QED BY <1>1, MarkedStep, NamesCorrect, PTL DEF Spec

(* While no name was taken twice, the boat of a folder is that of what is in it. *)
BoatInv == excuse = {} => \A f \in Files : holds[f] # NoOne => tag[Folder(f)] \in {NoOne, holds[f]}

LEMMA BoatStep == TypeOK /\ NamesInv /\ BoatInv /\ OwnBoat /\ [Next]_vars => BoatInv' /\ OwnBoat'
<1> SUFFICES ASSUME TypeOK, NamesInv, BoatInv, OwnBoat, [Next]_vars, excuse' = {}
             PROVE  /\ \A f \in Files : holds'[f] # NoOne => tag'[Folder(f)] \in {NoOne, holds'[f]}
                    /\ \A s \in Sessions : filed'[s] \subseteq {NoOne, s}
  BY DEF BoatInv, OwnBoat
<1> USE Numbers DEF NoOne, time, receiver, count, card, session, server
<1>1. ASSUME NEW own \in BOOLEAN, Start(own)
      PROVE  /\ \A f \in Files : holds'[f] # NoOne => tag'[Folder(f)] \in {NoOne, holds'[f]}
             /\ \A s \in Sessions : filed'[s] \subseteq {NoOne, s}
  <2>1. /\ excuse = {} /\ filed' = filed
        /\ ByClock => \A s \in 1..started : opened[s] # clock
    BY <1>1 DEF Start, Causes
  <2>2. /\ Name \in Files /\ tag[Folder(Name)] = NoOne
        /\ ByClock => Name = <<"gps", utc, utc>> /\ utc = clock
        /\ ~ByClock => Name = <<"num", NextNumber, clock - boot>>
    BY <1>1, Fresh, NameFacts DEF Name
  <2>3. ASSUME NEW f \in Files, f # Name, holds[f] # NoOne
        PROVE  Folder(f) # Folder(Name)
    <3> SUFFICES ASSUME f[1] = Name[1], f[2] = Name[2] PROVE FALSE
      BY <2>2, FolderFacts
    <3>1. CASE ByClock
      <4>1. f[1] = "gps" /\ f[2] = clock
        BY <2>2, <3>1
      <4>2. holds[f] \in 1..started /\ opened[holds[f]] = f[2]
        BY <2>1, <2>3, <4>1 DEF NamesInv, ClockInv, TypeOK
      <4> QED BY <2>1, <3>1, <4>1, <4>2
    <3>2. CASE ~ByClock
      <4>1. f[1] = "num" /\ f[2] = NextNumber
        BY <2>2, <3>2
      <4>2. counter # None /\ f[2] <= counter
        BY <2>1, <2>3, <4>1 DEF NamesInv, CountInv
      <4> QED BY <4>1, <4>2 DEF NextNumber, TypeOK
    <3> QED BY <3>1, <3>2
  <2>4. ASSUME NEW f \in Files, holds'[f] # NoOne
        PROVE  tag'[Folder(f)] \in {NoOne, holds'[f]}
    <3>1. CASE f = Name
      BY <1>1, <2>2, <3>1, FolderFacts DEF Start, TypeOK
    <3>2. CASE f # Name
      <4>1. holds'[f] = holds[f]
        BY <1>1, <3>2 DEF Start, TypeOK
      <4>2. tag'[Folder(f)] = tag[Folder(f)]
        BY <1>1, <2>3, <2>4, <3>2, <4>1, FolderFacts DEF Start, TypeOK
      <4> QED BY <2>1, <2>4, <4>1, <4>2 DEF BoatInv
    <3> QED BY <3>1, <3>2
  <2> QED BY <2>1, <2>4 DEF OwnBoat
<1>2. CASE \/ Tick \/ FallSilent \/ Stop \/ Reset \/ ResetInCount \/ ClearMarkers
           \/ UNCHANGED vars
  <2>1. UNCHANGED <<holds, tag, filed>> /\ excuse = {}
    BY <1>2 DEF Tick, FallSilent, Stop, Reset, ResetInCount, Boot, ClearMarkers, vars
  <2> QED BY <2>1 DEF BoatInv, OwnBoat
<1>3. CASE Uploading
  <2>1. ASSUME NEW auto \in AutoCleanup, NEW g \in Files, UploadFile(g, auto)
        PROVE  /\ \A f \in Files : holds'[f] # NoOne => tag'[Folder(f)] \in {NoOne, holds'[f]}
               /\ \A s \in Sessions : filed'[s] \subseteq {NoOne, s}
    <3>1. excuse = {} /\ tag' = tag /\ \A f \in Files : holds'[f] \in {NoOne, holds[f]}
      BY <2>1 DEF UploadFile, TypeOK
    <3>2. tag[Folder(g)] \in {NoOne, holds[g]} /\ holds[g] \in Sessions
      BY <2>1, <3>1 DEF UploadFile, BoatInv, TypeOK, Sessions
    <3>3. \A s \in Sessions : filed'[s] \subseteq {NoOne, s}
      BY <2>1, <3>1, <3>2 DEF UploadFile, OwnBoat, TypeOK
    <3> QED BY <3>1, <3>3 DEF BoatInv
  <2>2. ASSUME NEW auto \in AutoCleanup, NEW d \in Folders, UploadTag(d, auto)
        PROVE  /\ \A f \in Files : holds'[f] # NoOne => tag'[Folder(f)] \in {NoOne, holds'[f]}
               /\ \A s \in Sessions : filed'[s] \subseteq {NoOne, s}
    <3>1. UNCHANGED <<holds, filed, excuse>>
      BY <2>2 DEF UploadTag
    <3>2. \A f \in Files : tag'[Folder(f)] \in {NoOne, tag[Folder(f)]}
      BY <2>2, FolderFacts DEF UploadTag, TypeOK
    <3> QED BY <3>1, <3>2 DEF BoatInv, OwnBoat
  <2>3. ASSUME NEW auto \in AutoCleanup, UploadCounter(auto)
        PROVE  UNCHANGED <<holds, tag, filed>> /\ excuse = {}
    BY <2>3 DEF UploadCounter
  <2> QED BY <1>3, <2>1, <2>2, <2>3 DEF Uploading, BoatInv, OwnBoat
<1>4. CASE Cleanup
  <2>1. excuse = {} /\ filed' = filed
    BY <1>4 DEF Cleanup
  <2>2. \A f \in Files : /\ holds'[f] \in {NoOne, holds[f]}
                         /\ tag'[Folder(f)] \in {NoOne, tag[Folder(f)]}
    BY <1>4, FolderFacts DEF Cleanup
  <2> QED BY <2>1, <2>2 DEF BoatInv, OwnBoat
<1> QED BY Actions, <1>1, <1>2, <1>3, <1>4

(* boat_id.txt belongs to a folder, not to a session: a session is filed under
   its own boat or the device's as long as no name was taken twice. *)
THEOREM BoatsOwn == Spec => []OwnBoat
<1>1. Init => BoatInv /\ OwnBoat
  BY DEF Init, BoatInv, OwnBoat
<1> QED BY <1>1, BoatStep, NamesCorrect, PTL DEF Spec
=============================================================================
