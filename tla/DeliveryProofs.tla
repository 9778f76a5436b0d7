---------------------------- MODULE DeliveryProofs ----------------------------
(***************************************************************************)
(* Proofs about the two ways files leave the boat: UploadTask, the WiFi    *)
(* window, for any delays, limits and faults; and BleRelay, the relay over *)
(* the phone, for any number of files, chunks, calls and losses.           *)
(*                                                                         *)
(* The retry counter of the task has no test where it is incremented; it   *)
(* stays in its range because a window is only opened below the limit      *)
(* (RetryInv).                                                             *)
(*                                                                         *)
(* That the relay loses nothing is three invariants on top of the types:   *)
(* the phone works on sessions that are over, with their sizes (QuietInv); *)
(* what Core 1 reads, numbers and sends is of the entry in work, and       *)
(* numbered as it was read, although reading and numbering are two steps   *)
(* (TransferInv); so the chunks of an entry are chunks of its file, under  *)
(* their own numbers, and as many as it has are all of it (ChunkInv,       *)
(* WholeFile).  That it implements SessionArchive follows, since what is   *)
(* archived is then what was closed (ArchMap).                             *)
(***************************************************************************)
EXTENDS UploadTask, BleRelay, FiniteSetTheorems, TLAPS

-----------------------------------------------------------------------------
(* THE UPLOAD TASK                                                         *)

LEMMA TaskBounds ==
  /\ CheckInterval \in Nat \ {0} /\ RetryDelay \in Nat \ {0} /\ BackoffFactor \in Nat \ {0}
  /\ MaxRetries \in Nat \ {0} /\ MaxSessions \in Nat /\ MaxTaskFaults \in Nat
  /\ RootFile \in BOOLEAN /\ Backoff \in Nat
<1>1. /\ CheckInterval \in Nat \ {0} /\ RetryDelay \in Nat \ {0} /\ BackoffFactor \in Nat \ {0}
      /\ MaxRetries \in Nat \ {0} /\ MaxSessions \in Nat /\ MaxTaskFaults \in Nat
      /\ RootFile \in BOOLEAN
  BY DelaysAssumption, BoundsAssumption, RootAssumption
<1> QED BY <1>1 DEF Backoff

(* A window is open, or about to be, only below the limit of retries; what is
   left on the card was recorded. *)
RetryInv == pc0 \in {"connect", "claim"} => retries < MaxRetries
LeftInv  == left <= recorded

TaskInv == TaskTypeOK /\ RetryInv /\ LeftInv

(* The type invariant in two parts: the flags, and the rest. *)
FlagTypes == {logging, trigger, uploading, wifiBusy, wifiConnected, teardown, otaRequested,
              health, link} \subseteq BOOLEAN
NumberTypes ==
  /\ pending \in 0..(MaxSessions + 1) /\ retries \in 0..MaxRetries
  /\ sinceCheck \in 0..CheckInterval /\ sinceCount \in 0..CheckInterval
  /\ sinceAttempt \in 0..Backoff
  /\ left \in 0..MaxSessions /\ recorded \in 0..MaxSessions /\ taskFaults \in 0..MaxTaskFaults
  /\ pc0 \in {"top", "decide", "connect", "claim", "walk", "recount", "end",
              "healthConnect", "healthRun", "otaConnect", "otaRun"}
  /\ pc1 \in {"top", "lost", "teardown"}

LEMMA TaskParts == TaskTypeOK <=> FlagTypes /\ NumberTypes
BY DEF TaskTypeOK, FlagTypes, NumberTypes

LEMMA FlagStep == FlagTypes /\ [TaskNext]_taskVars => FlagTypes'
<1> SUFFICES ASSUME FlagTypes, [TaskNext]_taskVars PROVE FlagTypes'
  OBVIOUS
<1> USE DEF FlagTypes, clock, card, radio, flags, counts
<1>1. CASE StartRecording \/ StopRecording \/ RequestOta \/ LoseLink \/ ClockTick
  BY <1>1 DEF StartRecording, StopRecording, RequestOta, LoseLink, ClockTick
<1>2. CASE Recount \/ NotDue \/ OnOta \/ OnHealthDue \/ Unclaimed \/ Test \/ UploadWalk
  BY <1>2 DEF Recount, NotDue, OnOta, OnHealthDue, Unclaimed, Test, UploadWalk
<1>3. CASE OnTrigger \/ OnPeriodic
  BY <1>3 DEF OnTrigger, OnPeriodic, Open, Skip
<1>4. CASE ConnectWiFi \/ HealthConnect \/ OtaConnect
  BY <1>4 DEF ConnectWiFi, HealthConnect, OtaConnect, Connected, NotConnected
<1>5. CASE AfterWalk
  BY <1>5 DEF AfterWalk
<1>6. CASE EndWindow \/ HealthRun \/ OtaRun
  BY <1>6 DEF EndWindow, HealthRun, OtaRun
<1>7. CASE Core1
  BY <1>7 DEF Core1, LostCheck, TeardownCheck, WiFiDisconnect
<1>8. CASE UNCHANGED taskVars
  BY <1>8 DEF taskVars
<1> QED BY <1>1, <1>2, <1>3, <1>4, <1>5, <1>6, <1>7, <1>8 DEF TaskNext, Core0

(* The ages stay capped. *)
LEMMA CapType ==
  ASSUME NEW top \in Nat, NEW n \in 0..top
  PROVE  Cap(n, top) \in 0..top
BY DEF Cap

LEMMA RemainingType ==
  ASSUME TaskInv
  PROVE  Remaining \in 0..(MaxSessions + 1)
BY TaskBounds DEF TaskInv, TaskTypeOK, Remaining

LEMMA CountType ==
  ASSUME TaskInv, CountPending
  PROVE  pending' \in 0..(MaxSessions + 1) /\ taskFaults' \in 0..MaxTaskFaults
BY TaskBounds DEF TaskInv, TaskTypeOK, CountPending, TaskFault, NoTaskFault

LEMMA TaskStart == TaskInit => TaskInv
<1>1. TaskInit => FlagTypes
  BY DEF TaskInit, FlagTypes
<1>2. TaskInit => NumberTypes /\ RetryInv /\ LeftInv
  BY TaskBounds DEF TaskInit, NumberTypes, RetryInv, LeftInv
<1> QED BY <1>1, <1>2, TaskParts DEF TaskInv

LEMMA TaskStep == TaskInv /\ [TaskNext]_taskVars => TaskInv'
<1> SUFFICES ASSUME TaskInv, [TaskNext]_taskVars PROVE (NumberTypes /\ RetryInv /\ LeftInv)'
  BY TaskParts, FlagStep DEF TaskInv, TaskTypeOK, FlagTypes, NumberTypes
<1>0. NumberTypes /\ RetryInv /\ LeftInv
  BY TaskParts DEF TaskInv
<1> USE <1>0, TaskBounds DEF NumberTypes, RetryInv, LeftInv, clock, card, radio, flags, counts,
                       TaskFault, NoTaskFault
<1>1. CASE StartRecording BY <1>1 DEF StartRecording
<1>2. CASE StopRecording BY <1>2 DEF StopRecording
<1>3. CASE RequestOta BY <1>3 DEF RequestOta
<1>4. CASE LoseLink BY <1>4 DEF LoseLink
<1>5. CASE ClockTick
  <2>1. /\ sinceCheck' \in 0..CheckInterval /\ sinceCount' \in 0..CheckInterval
        /\ sinceAttempt' \in 0..Backoff
    BY <1>5, CapType DEF ClockTick
  <2> QED BY <1>5, <2>1 DEF ClockTick
<1>6. CASE Core0
  <2>1. CASE Recount
    <3>1. pending' \in 0..(MaxSessions + 1) /\ taskFaults' \in 0..MaxTaskFaults
      BY <2>1, CountType DEF Recount
    <3> QED BY <2>1, <3>1 DEF Recount
  <2>2. CASE OnTrigger
    <3>1. pending' \in 0..(MaxSessions + 1) /\ taskFaults' \in 0..MaxTaskFaults
      BY <2>2, CountType DEF OnTrigger
    <3> QED BY <2>2, <3>1 DEF OnTrigger, Open, Skip
  <2>3. CASE NotDue BY <2>3 DEF NotDue
  <2>4. CASE OnPeriodic BY <2>4 DEF OnPeriodic, Open, Skip
  <2>5. CASE OnHealthDue BY <2>5 DEF OnHealthDue
  <2>6. CASE OnOta BY <2>6 DEF OnOta
  <2>7. CASE ConnectWiFi BY <2>7 DEF ConnectWiFi, Connected, NotConnected
  <2>8. CASE HealthConnect BY <2>8 DEF HealthConnect, Connected, NotConnected
  <2>9. CASE OtaConnect BY <2>9 DEF OtaConnect, Connected, NotConnected
  <2>10. CASE Unclaimed BY <2>10 DEF Unclaimed
  <2>11. CASE Test BY <2>11 DEF Test
  <2>12. CASE UploadWalk BY <2>12 DEF UploadWalk
  <2>13. CASE AfterWalk
    <3>1. pending' \in 0..(MaxSessions + 1)
      BY <2>13, RemainingType DEF AfterWalk
    <3> QED BY <2>13, <3>1 DEF AfterWalk
  <2>14. CASE EndWindow BY <2>14 DEF EndWindow
  <2>15. CASE HealthRun BY <2>15 DEF HealthRun
  <2>16. CASE OtaRun BY <2>16 DEF OtaRun
  <2> QED BY <1>6, <2>1, <2>2, <2>3, <2>4, <2>5, <2>6, <2>7, <2>8, <2>9, <2>10, <2>11,
             <2>12, <2>13, <2>14, <2>15, <2>16 DEF Core0
<1>7. CASE Core1 BY <1>7 DEF Core1, LostCheck, TeardownCheck, WiFiDisconnect
<1>8. CASE UNCHANGED taskVars BY <1>8 DEF taskVars
<1> QED BY <1>1, <1>2, <1>3, <1>4, <1>5, <1>6, <1>7, <1>8 DEF TaskNext

(* Flags, counters, ages and positions keep their ranges, the retry counter in
   particular, which the code increments without looking at its limit. *)
THEOREM TaskTypeCorrect == TaskSpec => []TaskTypeOK
<1>1. TaskInv => TaskTypeOK
  BY DEF TaskInv
<1> QED BY <1>1, TaskStart, TaskStep, PTL DEF TaskSpec

-----------------------------------------------------------------------------
(* The connection is kept for files only.                                  *)

(* The count is never above what is on the card, but between the walk and the recount
   after it; so a window is only opened for files there are. *)
CountInv ==
  /\ pc0 # "recount" => pending <= Remaining
  /\ pc0 \in {"connect", "claim", "walk"} => Remaining > 0

(* Where a connection may be up although no file is on the card: inside a window that
   will ask for its release, or after it asked. *)
LinkInv ==
  /\ pc0 = "healthConnect" => ~wifiConnected
  /\ pc0 \in {"top", "decide", "end"} /\ wifiConnected /\ ~teardown => Remaining > 0

LEMMA CountStep ==
  ASSUME TaskInv, CountInv, [TaskNext]_taskVars
  PROVE  CountInv'
<1> USE TaskBounds DEF clock, card, radio, flags, counts, Remaining
<1>0. NumberTypes
  BY TaskParts DEF TaskInv
<1>1. CASE UNCHANGED <<pc0, pending, left>>
  BY <1>1 DEF CountInv
<1>2. CASE StartRecording
  BY <1>0, <1>2 DEF CountInv, NumberTypes, StartRecording
<1>3. CASE Recount
  BY <1>0, <1>3 DEF CountInv, NumberTypes, Recount, CountPending
<1>4. CASE OnTrigger
  <2>1. pc0 = "decide" /\ left' = left /\ pending' \in {pending, left}
    BY <1>4 DEF OnTrigger, Deciding, CountPending
  <2>2. pc0' = "top" \/ (pending' # 0 /\ pc0' \in {"claim", "connect"})
    BY <1>4 DEF OnTrigger, Open, Skip
  <2> QED BY <1>0, <2>1, <2>2 DEF CountInv, NumberTypes
<1>5. CASE OnPeriodic
  <2>1. pc0 = "decide" /\ left' = left /\ pending' = pending /\ pending > 0
    BY <1>5 DEF OnPeriodic, PeriodicDue, Deciding
  <2>2. pc0' \in {"top", "claim", "connect"}
    BY <1>5 DEF OnPeriodic, Open, Skip
  <2> QED BY <1>0, <2>1, <2>2 DEF CountInv, NumberTypes
<1>6. CASE NotDue \/ OnHealthDue \/ OnOta
  BY <1>6 DEF CountInv, NotDue, OnHealthDue, OnOta, Deciding, PeriodicDue
<1>7. CASE ConnectWiFi \/ HealthConnect \/ OtaConnect
  BY <1>7 DEF CountInv, ConnectWiFi, HealthConnect, OtaConnect, Connected, NotConnected
<1>8. CASE Unclaimed \/ Test \/ EndWindow \/ HealthRun \/ OtaRun
  BY <1>8 DEF CountInv, Unclaimed, Test, EndWindow, HealthRun, OtaRun
<1>9. CASE UploadWalk
  BY <1>9 DEF CountInv, UploadWalk
<1>10. CASE AfterWalk
  BY <1>0, <1>10 DEF CountInv, NumberTypes, AfterWalk, Remaining
<1> QED
  BY <1>1, <1>2, <1>3, <1>4, <1>5, <1>6, <1>7, <1>8, <1>9, <1>10
     DEF TaskNext, Core0, Core1, taskVars, StopRecording, RequestOta, LoseLink, ClockTick,
         LostCheck, TeardownCheck, WiFiDisconnect

LEMMA LinkStep ==
  ASSUME TaskInv, CountInv, LinkInv, [TaskNext]_taskVars
  PROVE  LinkInv'
<1> USE TaskBounds DEF clock, card, radio, flags, counts, Remaining
<1>0. NumberTypes
  BY TaskParts DEF TaskInv
<1>1. CASE UNCHANGED <<pc0, wifiConnected, teardown, left>>
  BY <1>1 DEF LinkInv
<1>2. CASE StartRecording
  BY <1>0, <1>2 DEF LinkInv, NumberTypes, StartRecording
<1>3. CASE WiFiDisconnect
  BY <1>3 DEF LinkInv, WiFiDisconnect
<1>4. CASE Recount \/ NotDue
  BY <1>4 DEF LinkInv, Recount, NotDue, Deciding
<1>5. CASE OnTrigger \/ OnPeriodic
  BY <1>5 DEF LinkInv, OnTrigger, OnPeriodic, Deciding, PeriodicDue, Open, Skip
<1>6. CASE OnHealthDue \/ OnOta
  BY <1>6 DEF LinkInv, OnHealthDue, OnOta
<1>7. CASE ConnectWiFi
  BY <1>7 DEF LinkInv, CountInv, ConnectWiFi, Connected, NotConnected
<1>8. CASE HealthConnect \/ OtaConnect
  BY <1>8 DEF LinkInv, HealthConnect, OtaConnect, Connected, NotConnected
<1>9. CASE Unclaimed \/ HealthRun \/ OtaRun \/ UploadWalk
  BY <1>9 DEF LinkInv, Unclaimed, HealthRun, OtaRun, UploadWalk
<1>10. CASE Test
  BY <1>10 DEF LinkInv, CountInv, Test
<1>11. CASE AfterWalk
  <2>1. pc0' = "end" /\ left' = left
    BY <1>11 DEF AfterWalk
  <2>2. Remaining = 0 => teardown'
    <3>1. PICK n \in {Remaining, 0} : teardown' = (teardown \/ n = 0)
      BY <1>11 DEF AfterWalk
    <3>2. n = 0 => teardown'
      BY <3>1
    <3>3. Remaining = 0 => n = 0
      BY <3>1
    <3> QED BY <3>2, <3>3
  <2>3. Remaining # 0 => Remaining > 0
    BY <1>0 DEF NumberTypes
  <2> QED BY <2>1, <2>2, <2>3 DEF LinkInv
<1>12. CASE EndWindow
  BY <1>12 DEF LinkInv, EndWindow
<1> QED
  BY <1>1, <1>2, <1>3, <1>4, <1>5, <1>6, <1>7, <1>8, <1>9, <1>10, <1>11, <1>12
     DEF TaskNext, Core0, Core1, taskVars, StopRecording, RequestOta, LoseLink, ClockTick,
         LostCheck, TeardownCheck

(* A connection outlives its window only for files the recount still sees on
   the card or until Core 1 has honoured the release asked for: for all delays,
   limits and faults.  A file in /sf itself counts, although no window sends
   it: where there is one, a connection may be kept for it. *)
THEOREM NoIdleConnection == TaskSpec => []KeptForFiles
<1> DEFINE KeepInv == TaskInv /\ CountInv /\ LinkInv
<1>1. TaskInit => KeepInv
  <2>1. TaskInit => CountInv /\ LinkInv
    BY TaskBounds DEF TaskInit, CountInv, LinkInv, Remaining
  <2> QED BY <2>1, TaskStart
<1>2. KeepInv /\ [TaskNext]_taskVars => KeepInv'
  BY TaskStep, CountStep, LinkStep
<1>3. KeepInv => KeptForFiles
  BY DEF LinkInv, KeptForFiles
<1> QED BY <1>1, <1>2, <1>3, PTL DEF TaskSpec

-----------------------------------------------------------------------------
(* THE RELAY                                                               *)

LEMMA RelayBounds ==
  /\ NumFiles \in Nat \ {0} /\ MaxChunks \in Nat \ {0}
  /\ MaxCalls \in Nat /\ MaxFaults \in Nat
  /\ AutoCleanup \in BOOLEAN
BY SizesAssumption, CallsAssumption, FlagsAssumption

Chunk == Files \X (0..(MaxChunks - 1))

(* The files recorded are the first n; a recording writes the last. *)
CardInv ==
  /\ \E n \in 0..NumFiles : Recorded = 1..n
  /\ recording => Recorded # {}

(* What is on its way, and what is worked on, is a chunk and an entry of a file
   recorded; and while files are kept, of one still there. *)
WorkInv ==
  /\ IsFiniteSet(DOMAIN chunks) /\ DOMAIN chunks \subseteq Nat
  /\ chunks \in [DOMAIN chunks -> Chunk]
  /\ tick = "send" => buf \in Chunk
  /\ host # "idle" => wanted \in Files
  /\ ph \in {"start", "started", "receive", "upload", "ack"} => entry # NoEntry
  /\ ~AutoCleanup => /\ \A e \in todo : e.file \in present
                     /\ entry # NoEntry => entry.file \in present

RelayInv == TypeOK /\ CardInv /\ WorkInv

LEMMA Counting ==
  ASSUME NEW n \in Nat, Recorded = 1..n
  PROVE  Cardinality(Recorded) = n
BY FS_Interval

(* What the server makes of chunks is a prefix no longer than a file, or junk. *)
LEMMA ContentType ==
  ASSUME WorkInv, NEW f
  PROVE  Content(chunks, f) \in {Corrupt} \union (0..MaxChunks)
<1> DEFINE D == DOMAIN chunks
           Before(i) == {j \in D : j < i}
           rank == [i \in D |-> Cardinality(Before(i))]
<1>1. IsFiniteSet(D) /\ D \subseteq Nat /\ Cardinality(D) \in Nat
  BY FS_CardinalityType DEF WorkInv
<1>2. ASSUME \A i \in D : chunks[i] = <<f, Cardinality(Before(i))>>
      PROVE  Cardinality(D) \in 0..MaxChunks
  <2>1. \A i \in D : rank[i] \in 0..(MaxChunks - 1)
    <3> SUFFICES ASSUME NEW i \in D PROVE Cardinality(Before(i)) \in 0..(MaxChunks - 1)
      OBVIOUS
    <3>1. chunks[i] \in Files \X (0..(MaxChunks - 1))
      BY DEF WorkInv, Chunk
    <3>2. chunks[i] = <<f, Cardinality(Before(i))>>
      BY <1>2
    <3> HIDE DEF D, Before
    <3> QED BY <3>1, <3>2
  <2>2. \A i, j \in D : i < j => rank[i] # rank[j]
    <3> SUFFICES ASSUME NEW i \in D, NEW j \in D, i < j, Cardinality(Before(i)) = Cardinality(Before(j))
                 PROVE FALSE
      OBVIOUS
    <3>1. IsFiniteSet(Before(j))
      BY <1>1, FS_Subset
    <3>2. Before(i) \subseteq Before(j) /\ i \in Before(j) /\ i \notin Before(i)
      BY <1>1
    <3> HIDE DEF Before
    <3> QED BY <3>1, <3>2, FS_Subset
  <2>3. IsFiniteSet(0..(MaxChunks - 1)) /\ Cardinality(0..(MaxChunks - 1)) = MaxChunks
    BY FS_Interval, RelayBounds
  <2>4. rank \in [D -> 0..(MaxChunks - 1)]
    BY <2>1
  <2>5. ~(MaxChunks < Cardinality(D))
    <3> SUFFICES ASSUME MaxChunks < Cardinality(D) PROVE FALSE
      OBVIOUS
    <3> HIDE DEF rank, D
    <3>1. PICK x \in D, y \in D : x # y /\ rank[x] = rank[y]
      BY <1>1, <2>3, <2>4, FS_PigeonHole
    <3>2. x < y \/ y < x
      BY <1>1, <3>1
    <3> QED BY <2>2, <3>1, <3>2
  <2> HIDE DEF D
  <2> QED BY <1>1, <2>5, RelayBounds
<1>3. CASE \A i \in D : chunks[i] = <<f, Cardinality(Before(i))>>
  BY <1>2, <1>3 DEF Content
<1>4. CASE ~\A i \in D : chunks[i] = <<f, Cardinality(Before(i))>>
  BY <1>4 DEF Content
<1> QED BY <1>3, <1>4

(* The server after the phone's upload, if it took it. *)
LEMMA ServerType ==
  ASSUME RelayInv, StoredByPhone \/ UNCHANGED server
  PROVE  server' \in [Files -> {None, Corrupt} \union (0..MaxChunks)]
<1>1. server \in [Files -> {None, Corrupt} \union (0..MaxChunks)]
  BY DEF RelayInv, TypeOK
<1>2. Content(chunks, entry.file) \in {None, Corrupt} \union (0..MaxChunks)
  BY ContentType DEF RelayInv
<1> HIDE DEF Content
<1> QED BY <1>1, <1>2 DEF StoredByPhone

(* Hearing a chunk. *)
LEMMA HearChunk ==
  ASSUME WorkInv, seq \in Nat, NEW c \in Chunk, Hear(c)
  PROVE  /\ IsFiniteSet(DOMAIN chunks') /\ DOMAIN chunks' \subseteq Nat
         /\ chunks' \in [DOMAIN chunks' -> Chunk]
<1>1. CASE ph = "receive" /\ seq \notin DOMAIN chunks
  <2>1. DOMAIN chunks' = DOMAIN chunks \union {seq}
    BY <1>1 DEF Hear
  <2>2. \A i \in DOMAIN chunks' : chunks'[i] \in Chunk
    BY <1>1 DEF Hear, WorkInv
  <2>3. chunks' = [i \in DOMAIN chunks' |-> chunks'[i]]
    BY <1>1, <2>1 DEF Hear
  <2>4. chunks' \in [DOMAIN chunks' -> Chunk]
    BY <2>2, <2>3
  <2> QED BY <2>1, <2>4, FS_AddElement DEF WorkInv
<1>2. CASE ~(ph = "receive" /\ seq \notin DOMAIN chunks)
  BY <1>2 DEF Hear, WorkInv
<1> QED BY <1>1, <1>2


(* The type invariant, by the part of the state it is about. *)
CardType ==
  /\ size \in [Files -> 0..MaxChunks] /\ present \subseteq Recorded /\ marked \subseteq present
  /\ recording \in BOOLEAN /\ busy \in BOOLEAN
ServerTyped == server \in [Files -> {None, Corrupt} \union (0..MaxChunks)]
XferType ==
  /\ xfer \in [file : Files, pos : 0..MaxChunks] \union {Closed}
  /\ seq \in Nat /\ buf \in {NoChunk} \union (Files \X (0..MaxChunks))
  /\ tick \in {"idle", "read", "fail", "send"}
  /\ tick = "send" => buf \in Chunk
HostType ==
  /\ host \in {"idle", "open", "set"} /\ wanted \in 0..NumFiles
  /\ host # "idle" => wanted \in Files
  /\ doubt \subseteq Files
PhoneType ==
  /\ haveConn \in BOOLEAN /\ subscribed \in BOOLEAN
  /\ ph \in {"away", "manifest", "next", "start", "started", "receive", "upload", "ack"}
  /\ todo \subseteq [file : Files, size : 1..MaxChunks]
  /\ entry \in [file : Files, size : 1..MaxChunks] \union {NoEntry}
  /\ ph \in {"start", "started", "receive", "upload", "ack"} => entry # NoEntry
  /\ calls \in 0..MaxCalls /\ faults \in 0..MaxFaults
ChunksType ==
  /\ IsFiniteSet(DOMAIN chunks) /\ DOMAIN chunks \subseteq Nat
  /\ chunks \in [DOMAIN chunks -> Chunk]
KeptInv ==
  ~AutoCleanup => /\ \A e \in todo : e.file \in present
                  /\ entry # NoEntry => entry.file \in present

LEMMA RelayParts ==
  ASSUME RelayInv
  PROVE  /\ CardType /\ ServerTyped /\ XferType /\ HostType /\ PhoneType /\ ChunksType
         /\ KeptInv /\ CardInv
BY DEF RelayInv, TypeOK, WorkInv, CardType, ServerTyped, XferType, HostType, PhoneType, ChunksType,
       KeptInv

LEMMA RelayInit == Init => RelayInv
<1> SUFFICES ASSUME Init PROVE RelayInv
  OBVIOUS
<1>1. Recorded = {} /\ Recorded = 1..0
  BY DEF Init, Recorded
<1>2. CardInv
  BY <1>1, RelayBounds DEF Init, CardInv
<1>3. IsFiniteSet(DOMAIN chunks) /\ DOMAIN chunks = {}
  BY FS_EmptySet DEF Init
<1>4. WorkInv
  BY <1>3 DEF Init, WorkInv
<1>5. CardType
  <2>1. size \in [Files -> 0..MaxChunks] /\ present \subseteq Recorded /\ marked \subseteq present
    BY <1>1, RelayBounds DEF Init
  <2>2. recording \in BOOLEAN /\ busy \in BOOLEAN
    BY DEF Init
  <2> QED BY <2>1, <2>2 DEF CardType
<1>6. ServerTyped
  BY DEF Init, ServerTyped
<1>9. XferType /\ HostType
  BY RelayBounds DEF Init, XferType, HostType
<1>10. PhoneType
  <2>1. calls \in 0..MaxCalls /\ faults \in 0..MaxFaults
    BY RelayBounds DEF Init
  <2> QED BY <2>1 DEF Init, PhoneType
<1>7. \A i \in DOMAIN chunks : chunks[i] \in Files \X (0..MaxChunks)
  BY <1>3
<1>8. TypeOK
  BY <1>5, <1>6, <1>7, <1>9, <1>10 DEF TypeOK, CardType, ServerTyped, XferType, HostType, PhoneType
<1> QED BY <1>2, <1>4, <1>8 DEF RelayInv

(* The card. *)
LEMMA CardStep ==
  ASSUME RelayInv, [Next]_vars
  PROVE  CardType' /\ CardInv'
<1> USE DEF cardVars
<1>0. CardType /\ CardInv /\ XferType /\ PhoneType
  BY RelayParts
<1>1. CASE UNCHANGED cardVars
  BY <1>0, <1>1 DEF CardType, CardInv, Recorded
<1>2. CASE StartRec
  <2>1. PICK n \in 0..NumFiles : Recorded = 1..n
    BY <1>0 DEF CardInv
  <2>2. n + 1 \in Files /\ size' = [size EXCEPT ![n + 1] = 1] /\ present' = present \union {n + 1}
    <3>1. n \in Nat /\ Cardinality(Recorded) = n
      BY <2>1, Counting, RelayBounds
    <3> QED BY <1>2, <3>1 DEF StartRec
  <2>3. Recorded' = 1..(n + 1)
    BY <1>0, <2>1, <2>2 DEF CardType, Recorded, Files
  <2>4. CardInv'
    BY <2>2, <2>3 DEF CardInv, Files
  <2>5. size' \in [Files -> 0..MaxChunks]
    BY <1>0, <2>2, RelayBounds DEF CardType
  <2>6. present' \subseteq Recorded' /\ marked' \subseteq present'
    <3>1. /\ marked' = marked /\ present' = present \union {n + 1}
          /\ Recorded' = Recorded \union {n + 1}
      BY <1>2, <2>1, <2>2, <2>3, RelayBounds DEF StartRec
    <3> QED BY <1>0, <3>1 DEF CardType
  <2>7. recording' \in BOOLEAN /\ busy' \in BOOLEAN
    BY <1>0, <1>2 DEF CardType, StartRec
  <2> QED BY <2>4, <2>5, <2>6, <2>7 DEF CardType
<1>3. CASE LogRows
  <2>1. PICK n \in 0..NumFiles : Recorded = 1..n
    BY <1>0 DEF CardInv
  <2>2. n \in Files /\ n \in Recorded
    BY <1>0, <1>3, <2>1, RelayBounds DEF CardInv, LogRows, Files
  <2>3. size' = [size EXCEPT ![n] = @ + 1] /\ size[n] < MaxChunks
    <3>1. n \in Nat /\ Cardinality(Recorded) = n
      BY <2>1, Counting, RelayBounds
    <3> QED BY <1>3, <3>1 DEF LogRows
  <2>4. size' \in [Files -> 0..MaxChunks] /\ Recorded' = Recorded
    BY <1>0, <2>2, <2>3, RelayBounds DEF CardType, Recorded
  <2> QED BY <1>0, <1>3, <2>4 DEF CardType, CardInv, LogRows
<1>4. CASE StopRec \/ WalkBegin \/ WalkEnd
  <2>1. size' = size /\ present' = present /\ marked' = marked
    BY <1>4 DEF StopRec, WalkBegin, WalkEnd
  <2>2. recording' \in BOOLEAN /\ busy' \in BOOLEAN /\ (recording' => recording)
    <3>1. recording \in BOOLEAN /\ busy \in BOOLEAN
      BY <1>0 DEF CardType
    <3>2. CASE StopRec
      BY <3>1, <3>2 DEF StopRec
    <3>3. CASE WalkBegin
      BY <3>1, <3>3 DEF WalkBegin
    <3>4. CASE WalkEnd
      BY <3>1, <3>4 DEF WalkEnd
    <3> QED BY <1>4, <3>2, <3>3, <3>4
  <2> QED BY <1>0, <2>1, <2>2 DEF CardType, CardInv, Recorded
<1>5. CASE \E f \in Files : WalkUpload(f)
  <2> PICK f \in Files : WalkUpload(f)
    BY <1>5
  <2> QED BY <1>0 DEF CardType, CardInv, Recorded, Pending, WalkUpload, MarkAndClean
<1>6. CASE Ack
  <2>1. size' = size /\ recording' = recording /\ busy' = busy /\ Recorded' = Recorded
    BY <1>6 DEF Ack, Recorded
  <2>2. entry # NoEntry /\ (~AutoCleanup => entry.file \in present)
    BY <1>0, <1>6, RelayParts DEF PhoneType, KeptInv, Ack
  <2>3. present' \subseteq Recorded' /\ marked' \subseteq present'
    <3>1. CASE busy
      BY <1>0, <1>6, <2>1, <3>1 DEF CardType, Ack
    <3>2. CASE ~busy /\ AutoCleanup
      BY <1>0, <1>6, <2>1, <3>2 DEF CardType, Ack, MarkAndClean
    <3>3. CASE ~busy /\ ~AutoCleanup
      BY <1>0, <1>6, <2>1, <2>2, <3>3 DEF CardType, Ack, MarkAndClean
    <3> QED BY <3>1, <3>2, <3>3
  <2> QED BY <1>0, <2>1, <2>3 DEF CardType, CardInv
<1> QED
  BY <1>1, <1>2, <1>3, <1>4, <1>5, <1>6
     DEF Next, vars, Rec, Walk, Tick, Host, Phone, TickCheck, TickRead, TickFail, TickSend,
         HostOpen, HostSet, ReadManifest, NextEntry, Disconnect, WriteStart, Subscribe, Received,
         Timeout, Upload, Connect, LinkLost

(* The server. *)
LEMMA ServerStep ==
  ASSUME RelayInv, [Next]_vars
  PROVE  ServerTyped'
<1>0. ServerTyped /\ CardType
  BY RelayParts
<1>1. CASE UNCHANGED server
  BY <1>0, <1>1 DEF ServerTyped
<1>2. CASE \E f \in Files : WalkUpload(f)
  BY <1>0, <1>2 DEF ServerTyped, CardType, WalkUpload
<1>3. CASE Upload \/ LinkLost
  BY <1>3, ServerType DEF ServerTyped, Upload, LinkLost
<1> QED
  BY <1>1, <1>2, <1>3
     DEF Next, vars, Rec, Walk, Tick, Host, Phone, TickCheck, TickRead, TickFail, TickSend,
         HostOpen, HostSet, ReadManifest, NextEntry, Disconnect, WriteStart, Subscribe, Received,
         Timeout, Ack, Connect, StartRec, LogRows, StopRec, WalkBegin, WalkEnd

(* The transfer. *)
LEMMA XferStep ==
  ASSUME RelayInv, [Next]_vars
  PROVE  XferType'
<1>0. XferType /\ CardType /\ HostType
  BY RelayParts
<1> USE DEF coreVars, xferVars
<1>1. CASE UNCHANGED <<xferVars, coreVars>>
  BY <1>0, <1>1 DEF XferType, Chunk, Files
<1>2. CASE xfer' \in {xfer, Closed} /\ UNCHANGED <<seq, coreVars>>
  BY <1>0, <1>2 DEF XferType, Chunk, Files
<1>3. CASE TickCheck \/ TickFail
  BY <1>0, <1>3 DEF XferType, Chunk, Files, TickCheck, TickFail
<1>4. CASE TickRead
  <2>1. CASE tick' = "send"
    <3>1. xfer \in [file : Files, pos : 0..MaxChunks] /\ xfer.pos < size[xfer.file]
      BY <1>0, <1>4, <2>1 DEF TickRead, Active, XferType
    <3>2. size[xfer.file] \in 0..MaxChunks
      BY <1>0, <3>1 DEF CardType
    <3>3. buf' = <<xfer.file, xfer.pos>> /\ xfer' = [xfer EXCEPT !.pos = @ + 1] /\ seq' = seq
      BY <1>4, <2>1 DEF TickRead
    <3>4. buf' \in Chunk /\ xfer' \in [file : Files, pos : 0..MaxChunks]
      BY <3>1, <3>2, <3>3, RelayBounds DEF Chunk
    <3>5. buf' \in Files \X (0..MaxChunks)
      BY <3>1, <3>3
    <3> QED BY <1>0, <2>1, <3>3, <3>4, <3>5 DEF XferType, Chunk
  <2>2. CASE tick' # "send"
    BY <1>0, <1>4, <2>2 DEF XferType, Chunk, Files, TickRead
  <2> QED BY <2>1, <2>2
<1>5. CASE TickSend
  BY <1>0, <1>5 DEF XferType, Chunk, Files, TickSend
<1>6. CASE HostSet
  <2>1. xfer' \in [file : Files, pos : 0..MaxChunks]
    BY <1>0, <1>6, RelayBounds DEF HostSet, HostType
  <2> QED BY <1>0, <1>6, <2>1 DEF XferType, Chunk, Files, HostSet
<1> QED
  BY <1>1, <1>2, <1>3, <1>4, <1>5, <1>6
     DEF Next, vars, Rec, Walk, Tick, Host, Phone, HostOpen, ReadManifest, NextEntry, Disconnect,
         Disconnected, WriteStart, Subscribe, Received, Timeout, Upload, Ack, Connect, StartRec,
         LogRows, StopRec, WalkBegin, WalkUpload, WalkEnd, LinkLost

(* The host's task. *)
LEMMA HostStep ==
  ASSUME RelayInv, [Next]_vars
  PROVE  HostType'
<1>0. HostType /\ PhoneType
  BY RelayParts
<1> USE DEF hostVars
<1>1. CASE UNCHANGED hostVars
  BY <1>0, <1>1 DEF HostType, Files
<1>2. CASE HostOpen \/ HostSet
  <2>1. doubt' = doubt /\ wanted' \in {wanted, 0} /\ (host' # "idle" => host # "idle" /\ wanted' = wanted)
    BY <1>2 DEF HostOpen, HostSet
  <2>2. host' \in {"idle", "open", "set"} /\ 0 \in 0..NumFiles
    BY <1>0, <1>2, RelayBounds DEF HostType, HostOpen, HostSet
  <2> QED BY <1>0, <2>1, <2>2 DEF HostType, Files
<1>3. CASE WriteStart
  <2>1. entry.file \in Files
    BY <1>0, <1>3 DEF PhoneType, WriteStart
  <2>2. doubt' \subseteq doubt \union {entry.file}
    BY <1>3 DEF WriteStart
  <2>3. entry.file \in 0..NumFiles /\ host' = "open" /\ wanted' = entry.file
    BY <1>3, <2>1, RelayBounds DEF WriteStart, Files
  <2> QED BY <1>0, <2>1, <2>2, <2>3 DEF HostType, Files
<1> QED
  BY <1>1, <1>2, <1>3
     DEF Next, vars, Rec, Walk, Tick, Host, Phone, TickCheck, TickRead, TickFail, TickSend,
         ReadManifest, NextEntry, Disconnect, Subscribe, Received, Timeout, Upload, Ack, Connect,
         StartRec, LogRows, StopRec, WalkBegin, WalkUpload, WalkEnd, LinkLost

(* The phone and its link. *)
LEMMA PhoneStep ==
  ASSUME RelayInv, [Next]_vars
  PROVE  PhoneType'
<1>0. PhoneType /\ CardType
  BY RelayParts
<1> USE RelayBounds DEF linkVars, phoneVars, NoFault, Fault
<1>1. CASE UNCHANGED <<linkVars, ph, todo, entry, calls, faults>>
  BY <1>0, <1>1 DEF PhoneType, NoEntry
<1>2. CASE UNCHANGED <<linkVars, ph, todo, entry, calls>> /\ Fault
  BY <1>0, <1>2 DEF PhoneType, NoEntry
<1>3. CASE Connect
  BY <1>0, <1>3 DEF PhoneType, NoEntry, Connect
<1>4. CASE ReadManifest
  <2>1. todo' \subseteq [file : Files, size : 1..MaxChunks]
    <3>1. \A f \in Pending : f \in Files /\ size[f] \in 1..MaxChunks
      BY <1>0 DEF CardType, Pending, Recorded
    <3> QED BY <1>4, <3>1 DEF ReadManifest
  <2> QED BY <1>0, <1>4, <2>1 DEF PhoneType, NoEntry, ReadManifest
<1>5. CASE \E e \in todo : NextEntry(e)
  BY <1>0, <1>5 DEF PhoneType, NoEntry, Files, NextEntry
<1>6. CASE Disconnect \/ LinkLost
  <2>1. faults' \in 0..MaxFaults /\ calls' = calls
    BY <1>0, <1>6 DEF PhoneType, Disconnect, LinkLost
  <2>2. Disconnected
    BY <1>6 DEF Disconnect, LinkLost
  <2> QED BY <1>0, <2>1, <2>2 DEF PhoneType, Disconnected
<1>7. CASE WriteStart \/ Subscribe \/ Received \/ Timeout \/ Upload \/ Ack
  <2>1. faults' \in 0..MaxFaults /\ calls' = calls /\ todo' = todo /\ entry' = entry
    BY <1>0, <1>7 DEF PhoneType, WriteStart, Subscribe, Received, Timeout, Upload, Ack
  <2>2. ph' \in {"next", "started", "receive", "upload", "ack"}
    BY <1>7 DEF WriteStart, Subscribe, Received, Timeout, Upload, Ack
  <2>3. entry # NoEntry
    BY <1>0, <1>7 DEF PhoneType, WriteStart, Subscribe, Received, Timeout, Upload, Ack
  <2>4. haveConn' \in BOOLEAN /\ subscribed' \in BOOLEAN
    BY <1>0, <1>7 DEF PhoneType, WriteStart, Subscribe, Received, Timeout, Upload, Ack
  <2> QED BY <1>0, <2>1, <2>2, <2>3, <2>4 DEF PhoneType, NoEntry
<1> QED
  BY <1>1, <1>2, <1>3, <1>4, <1>5, <1>6, <1>7
     DEF Next, vars, Rec, Walk, Tick, Host, Phone, TickCheck, TickRead, TickFail, TickSend,
         HostOpen, HostSet, StartRec, LogRows, StopRec, WalkBegin, WalkUpload, WalkEnd

(* The chunks received. *)
LEMMA ChunksStep ==
  ASSUME RelayInv, [Next]_vars
  PROVE  ChunksType'
<1>0. ChunksType /\ XferType /\ WorkInv
  BY RelayParts DEF RelayInv
<1> USE DEF phoneVars
<1>1. CASE UNCHANGED chunks
  BY <1>0, <1>1 DEF ChunksType, Chunk
<1>2. CASE chunks' = <<>>
  <2>1. DOMAIN chunks' = {} /\ chunks' \in [{} -> Chunk]
    BY <1>2
  <2> QED BY <2>1, FS_EmptySet DEF ChunksType, Chunk
<1>3. CASE TickSend /\ Hear(buf)
  BY <1>0, <1>3, HearChunk DEF ChunksType, XferType, TickSend, Chunk
<1> QED
  BY <1>1, <1>2, <1>3
     DEF Next, vars, Rec, Walk, Tick, Host, Phone, TickCheck, TickRead, TickFail, TickSend,
         HostOpen, HostSet, ReadManifest, NextEntry, Disconnect, Disconnected, WriteStart,
         Subscribe, Received, Timeout, Upload, Ack, Connect, StartRec, LogRows, StopRec,
         WalkBegin, WalkUpload, WalkEnd, LinkLost

(* Without automatic cleanup no file goes. *)
LEMMA KeptStep ==
  ASSUME RelayInv, [Next]_vars
  PROVE  KeptInv'
<1>0. KeptInv /\ PhoneType
  BY RelayParts
<1> SUFFICES ASSUME ~AutoCleanup PROVE KeptInv'
  BY DEF KeptInv
<1>1. present \subseteq present'
  BY DEF Next, vars, Rec, Walk, Tick, Host, Phone, TickCheck, TickRead, TickFail, TickSend,
         HostOpen, HostSet, ReadManifest, NextEntry, Disconnect, WriteStart, Subscribe, Received,
         Timeout, Upload, Ack, Connect, StartRec, LogRows, StopRec, WalkBegin, WalkUpload,
         WalkEnd, LinkLost, MarkAndClean, cardVars
<1>2. CASE UNCHANGED <<todo, entry>>
  BY <1>0, <1>1, <1>2 DEF KeptInv
<1>3. CASE todo' = {} /\ entry' = NoEntry
  BY <1>3 DEF KeptInv
<1>4. CASE ReadManifest
  BY <1>0, <1>1, <1>4 DEF KeptInv, ReadManifest, Pending, phoneVars
<1>5. CASE \E e \in todo : NextEntry(e)
  BY <1>0, <1>1, <1>5 DEF KeptInv, NextEntry
<1> QED
  BY <1>2, <1>3, <1>4, <1>5
     DEF Next, vars, phoneVars, Rec, Walk, Tick, Host, Phone, TickCheck, TickRead, TickFail,
         TickSend, HostOpen, HostSet, Disconnect, Disconnected, WriteStart, Subscribe, Received,
         Timeout, Upload, Ack, Connect, StartRec, LogRows, StopRec, WalkBegin, WalkUpload,
         WalkEnd, LinkLost

LEMMA RelayStep == RelayInv /\ [Next]_vars => RelayInv'
<1> SUFFICES ASSUME RelayInv, [Next]_vars PROVE RelayInv'
  OBVIOUS
<1>1. /\ CardType' /\ CardInv' /\ ServerTyped' /\ XferType' /\ HostType' /\ PhoneType'
      /\ ChunksType' /\ KeptInv'
  BY CardStep, ServerStep, XferStep, HostStep, PhoneStep, ChunksStep, KeptStep
<1>2. WorkInv'
  BY <1>1 DEF WorkInv, XferType, HostType, PhoneType, ChunksType, KeptInv
<1>3. \A i \in DOMAIN chunks' : chunks'[i] \in Files \X (0..MaxChunks)
  BY <1>1, RelayBounds DEF ChunksType, Chunk
<1>4. TypeOK'
  BY <1>1, <1>3 DEF TypeOK, CardType, ServerTyped, XferType, HostType, PhoneType
<1> QED BY <1>1, <1>2, <1>4 DEF RelayInv

(* TypeOK for every number of files and every way of using the relay. *)
THEOREM RelayTypeCorrect == Spec => []TypeOK
<1>1. RelayInv => TypeOK
  BY DEF RelayInv
<1> QED BY <1>1, RelayInit, RelayStep, PTL DEF Spec

(* Recorder and walk exclude each other; the open file is pending unless it is
   in doubt; and a transfer is of a file that is closed and was listed so, unless
   that file is in doubt. *)
QuietInv ==
  /\ ~(busy /\ recording)
  /\ doubt \subseteq Recorded
  /\ recording => Cardinality(Recorded) \in Pending \union doubt
  /\ ph = "away" => todo = {} /\ entry = NoEntry
  /\ \A e \in todo : e.file \in Recorded
  /\ entry # NoEntry => entry.file \in Recorded
  /\ ph \in {"started", "receive", "upload", "ack"} => entry.file \in doubt \/ ~Unsteady

(* One transfer at a time: what Core 1 reads and sends belongs to the entry in
   work, and the number it sends a chunk under is the one it was read at. *)
TransferInv ==
  /\ host # "idle" => ph = "started" /\ wanted = entry.file
  /\ ph \in {"started", "receive"} /\ entry.file \notin doubt =>
       /\ host # "idle" => xfer = Closed /\ tick = "idle"
       /\ Active => /\ xfer.file = entry.file
                    /\ xfer.pos = IF tick = "send" THEN seq + 1 ELSE seq
       /\ tick = "send" => buf = <<entry.file, seq>> /\ seq < entry.size

(* So the phone collects the file, and acknowledges what the server has. *)
ChunkInv ==
  entry.file \notin doubt =>
    /\ ph \in {"receive", "upload"} =>
         \A i \in DOMAIN chunks : i \in 0..(entry.size - 1) /\ chunks[i] = <<entry.file, i>>
    /\ ph = "upload" => Enough
    /\ ph = "ack" => server[entry.file] = size[entry.file]

LossInv == RelayInv /\ QuietInv /\ TransferInv /\ ChunkInv /\ NothingLost

(* No file, no transfer, no entry. *)
LEMMA LossInit == Init => LossInv
<1> SUFFICES ASSUME Init PROVE LossInv
  OBVIOUS
<1>1. RelayInv
  BY RelayInit
<1>2. Recorded = {}
  BY DEF Init, Recorded
<1>3. QuietInv
  BY DEF Init, QuietInv
<1>4. TransferInv /\ ChunkInv
  BY DEF Init, TransferInv, ChunkInv, Active
<1> QED BY <1>1, <1>2, <1>3, <1>4 DEF LossInv, NothingLost

(* As many chunks as the file has, all of them its own: the file. *)
LEMMA WholeFile ==
  ASSUME RelayInv, ChunkInv, ph = "upload", entry.file \notin doubt
  PROVE  Content(chunks, entry.file) = entry.size
<1> DEFINE n == Cardinality(DOMAIN chunks)
           s == entry.size
<1>1. s \in Nat \ {0} /\ ChunksType
  BY RelayParts, RelayBounds DEF PhoneType
<1>2. n \in Nat
  BY <1>1, FS_CardinalityType DEF ChunksType
<1>3. IsFiniteSet(0..(s - 1)) /\ Cardinality(0..(s - 1)) = s
  <2> HIDE DEF s
  <2>1. 0 \in Int /\ s - 1 \in Int /\ ~(0 > s - 1) /\ (s - 1) - 0 + 1 = s
    BY <1>1
  <2> QED BY <2>1, FS_Interval
<1>4. DOMAIN chunks \subseteq 0..(s - 1) /\ n >= s
  BY DEF ChunkInv, Enough
<1>5. n = s /\ DOMAIN chunks = 0..(s - 1)
  <2>1. n <= s /\ (n = s => DOMAIN chunks = 0..(s - 1))
    BY <1>3, <1>4, FS_Subset
  <2> HIDE DEF n, s
  <2> QED BY <1>1, <1>2, <1>4, <2>1
<1>6. \A i \in DOMAIN chunks : Cardinality({j \in DOMAIN chunks : j < i}) = i
  <2> SUFFICES ASSUME NEW i \in 0..(s - 1)
               PROVE  Cardinality({j \in 0..(s - 1) : j < i}) = i
    BY <1>5
  <2> HIDE DEF n, s
  <2>1. {j \in 0..(s - 1) : j < i} = 0..(i - 1)
    BY <1>1
  <2>2. i \in Nat /\ 0 \in Int /\ i - 1 \in Int
    BY <1>1
  <2>3. Cardinality(0..(i - 1)) = IF 0 > i - 1 THEN 0 ELSE (i - 1) - 0 + 1
    BY <2>2, FS_Interval
  <2>4. Cardinality(0..(i - 1)) = i
    BY <2>2, <2>3
  <2> QED BY <2>1, <2>4
<1>7. Content(chunks, entry.file) = n
  <2>1. \A i \in DOMAIN chunks : chunks[i] = <<entry.file, i>>
    BY DEF ChunkInv
  <2> QED BY <1>6, <2>1 DEF Content
<1> QED BY <1>5, <1>7

(* What leaves the recorder's side of the card alone. *)
LEMMA CardUntouched ==
  ASSUME [Next]_vars
  PROVE  \/ UNCHANGED <<size, recording>>
         \/ StartRec \/ LogRows \/ StopRec
BY DEF Next, vars, cardVars, Rec, Walk, Tick, Host, Phone, TickCheck, TickRead, TickFail,
       TickSend, HostOpen, HostSet, ReadManifest, NextEntry, Disconnect, WriteStart, Subscribe,
       Received, Timeout, Upload, Ack, Connect, WalkBegin, WalkUpload, WalkEnd, LinkLost

(* What WriteStart does to doubt, and that nothing else does. *)
LEMMA DoubtStep ==
  ASSUME [Next]_vars
  PROVE  \/ doubt' = doubt /\ ~WriteStart
         \/ WriteStart
BY DEF Next, vars, hostVars, Rec, Walk, Tick, Host, Phone, TickCheck, TickRead, TickFail,
       TickSend, HostOpen, HostSet, ReadManifest, NextEntry, Disconnect, Subscribe, Received,
       Timeout, Upload, Ack, Connect, StartRec, LogRows, StopRec, WalkBegin, WalkUpload, WalkEnd,
       LinkLost

(* Only of a pending file is a doubt ever settled. *)
LEMMA DoubtSettled ==
  ASSUME WriteStart
  PROVE  doubt \subseteq doubt' \union Pending
<1>1. CASE doubt' = doubt \union {entry.file}
  BY <1>1
<1>2. CASE entry.file \in Pending /\ doubt' = doubt \ {entry.file}
  BY <1>2
<1>3. CASE doubt' = doubt
  BY <1>3
<1> QED BY <1>1, <1>2, <1>3 DEF WriteStart

(* A transfer that is not in doubt is of a file that stays as it was listed. *)
LEMMA SteadyStep ==
  ASSUME RelayInv, QuietInv, [Next]_vars, ph' = ph, entry' = entry, entry # NoEntry, ~Unsteady
  PROVE  ~Unsteady'
<1>0. CardType /\ CardInv /\ PhoneType
  BY RelayParts
<1>1. PICK n \in 0..NumFiles : Recorded = 1..n
  BY <1>0 DEF CardInv
<1>2. n \in Nat /\ Cardinality(Recorded) = n
  BY <1>1, Counting, RelayBounds
<1>3. entry.file \in Files /\ entry.file \in 1..n /\ entry.size = size[entry.file]
  BY <1>0, <1>1 DEF QuietInv, PhoneType, Unsteady
<1>4. CASE StartRec
  <2>1. n + 1 \in Files /\ size' = [size EXCEPT ![n + 1] = 1]
    BY <1>2, <1>4 DEF StartRec
  <2>2. Recorded' = 1..(n + 1)
    BY <1>0, <1>1, <1>2, <2>1 DEF CardType, Recorded, Files
  <2>3. Cardinality(Recorded)' = n + 1
    BY <1>2, <2>2, FS_Interval
  <2>4. entry.file # n + 1 /\ size'[entry.file] = size[entry.file]
    BY <1>0, <1>2, <1>3, <2>1 DEF CardType
  <2> QED BY <1>3, <2>3, <2>4 DEF Unsteady
<1>5. CASE LogRows
  <2>1. recording /\ recording' /\ size' = [size EXCEPT ![n] = @ + 1] /\ entry.file # n
    BY <1>2, <1>5 DEF LogRows, Unsteady
  <2>2. n \in Files /\ n \in Recorded
    BY <1>0, <1>1, <1>2, <2>1, RelayBounds DEF CardInv, Files
  <2>3. Recorded' = Recorded
    BY <1>0, <2>1, <2>2, RelayBounds DEF CardType, Recorded
  <2>4. size'[entry.file] = size[entry.file]
    BY <1>0, <1>3, <2>1 DEF CardType
  <2> QED BY <1>2, <1>3, <2>1, <2>3, <2>4 DEF Unsteady
<1>6. CASE StopRec
  BY <1>6 DEF Unsteady, StopRec
<1>7. CASE UNCHANGED <<size, recording>>
  BY <1>7 DEF Unsteady, Recorded
<1> QED BY <1>4, <1>5, <1>6, <1>7, CardUntouched

(* What is transferred without doubt stays closed and as it was listed. *)
LEMMA SteadyWork ==
  ASSUME RelayInv, QuietInv, [Next]_vars, ph' \in {"started", "receive", "upload", "ack"}
  PROVE  entry'.file \in doubt' \/ ~Unsteady'
<1>0. CardType /\ CardInv /\ PhoneType
  BY RelayParts
<1>1. CASE WriteStart
  <2>1. UNCHANGED <<size, recording, entry>> /\ (Unsteady => entry.file \in doubt')
    BY <1>1 DEF WriteStart, cardVars, phoneVars
  <2>2. Unsteady' = Unsteady
    BY <2>1 DEF Unsteady, Recorded
  <2> QED BY <2>1, <2>2
<1>2. CASE ~WriteStart
  <2>1. doubt' = doubt
    BY <1>2, DoubtStep
  <2>2. /\ ph \in {"started", "receive", "upload", "ack"} /\ entry' = entry
        /\ ph' # ph => UNCHANGED <<size, recording>>
    BY <1>2 DEF Next, vars, phoneVars, cardVars, Rec, Walk, Tick, Host, Phone, TickCheck, TickRead,
       TickFail, TickSend, HostOpen, HostSet, ReadManifest, NextEntry, Disconnect, Disconnected,
       Subscribe, Received, Timeout, Upload, Ack, Connect, StartRec, LogRows, StopRec, WalkBegin,
       WalkUpload, WalkEnd, LinkLost
  <2>3. entry # NoEntry
    BY <1>0, <2>2 DEF PhoneType
  <2>4. CASE entry.file \in doubt
    BY <2>1, <2>2, <2>4
  <2>5. CASE ~Unsteady /\ ph' = ph
    BY <2>2, <2>3, <2>5, SteadyStep
  <2>6. CASE ~Unsteady /\ UNCHANGED <<size, recording>>
    BY <2>2, <2>6 DEF Unsteady, Recorded
  <2> QED BY <2>2, <2>4, <2>5, <2>6 DEF QuietInv
<1> QED BY <1>1, <1>2

(* Lists and entries are of files recorded. *)
LEMMA QuietStep ==
  ASSUME RelayInv, QuietInv, [Next]_vars
  PROVE  QuietInv'
<1>0. CardType /\ CardInv /\ PhoneType
  BY RelayParts
<1>s. ph' \in {"started", "receive", "upload", "ack"} => entry'.file \in doubt' \/ ~Unsteady'
  BY SteadyWork
<1>d. doubt' \subseteq Recorded
  <2>1. CASE WriteStart
    <3>1. entry # NoEntry
      BY <1>0, <2>1 DEF PhoneType, WriteStart
    <3>2. entry.file \in Recorded /\ doubt \subseteq Recorded
      BY <3>1 DEF QuietInv
    <3>3. doubt' \subseteq doubt \union {entry.file}
      BY <2>1 DEF WriteStart
    <3> QED BY <3>2, <3>3
  <2> QED BY <2>1, DoubtStep DEF QuietInv
<1>1. CASE StartRec
  <2>1. PICK n \in 0..NumFiles : Recorded = 1..n
    BY <1>0 DEF CardInv
  <2>2. n \in Nat /\ Cardinality(Recorded) = n
    BY <2>1, Counting, RelayBounds
  <2>3. n + 1 \in Files /\ size' = [size EXCEPT ![n + 1] = 1] /\ present' = present \union {n + 1}
    BY <1>1, <2>2 DEF StartRec
  <2>4. Recorded' = 1..(n + 1)
    BY <1>0, <2>1, <2>2, <2>3 DEF CardType, Recorded, Files
  <2>5. Cardinality(Recorded') = n + 1
    BY <2>2, <2>4, FS_Interval
  <2>6. n + 1 \notin marked
    BY <1>0, <2>1, <2>2 DEF CardType
  <2>7. Cardinality(Recorded)' \in Pending' /\ Recorded \subseteq Recorded'
    BY <1>1, <2>1, <2>2, <2>3, <2>4, <2>5, <2>6 DEF StartRec, Pending
  <2>8. ph' = ph /\ todo' = todo /\ entry' = entry /\ ~busy'
    BY <1>1 DEF StartRec, phoneVars
  <2> QED BY <1>s, <1>d, <2>7, <2>8 DEF QuietInv
<1>2. CASE LogRows
  <2>1. /\ Recorded' = Recorded /\ present' = present /\ marked' = marked
        /\ recording' = recording /\ busy' = busy
    <3>1. PICK n \in 0..NumFiles : Recorded = 1..n
      BY <1>0 DEF CardInv
    <3>2. n \in Nat /\ Cardinality(Recorded) = n /\ n \in Recorded
      BY <1>0, <1>2, <3>1, Counting, RelayBounds DEF LogRows, CardInv
    <3>3. size' = [size EXCEPT ![n] = @ + 1]
      BY <1>2, <3>2 DEF LogRows
    <3> QED BY <1>0, <1>2, <3>2, <3>3, RelayBounds DEF LogRows, CardType, Recorded
  <2>2. ph' = ph /\ todo' = todo /\ entry' = entry /\ doubt' = doubt
    BY <1>2 DEF LogRows, phoneVars, hostVars
  <2> QED BY <1>s, <2>1, <2>2 DEF QuietInv, Pending
<1>3. CASE StopRec
  <2>1. /\ ~recording' /\ Recorded' = Recorded /\ UNCHANGED <<ph, todo, entry, doubt>>
    BY <1>3 DEF StopRec, phoneVars, hostVars, Recorded
  <2> QED BY <1>s, <2>1 DEF QuietInv
<1>4. CASE UNCHANGED <<size, recording>>
  <2>1. Recorded' = Recorded
    BY <1>4 DEF Recorded
  <2>2. ~(busy' /\ recording')
    BY <1>4 DEF QuietInv, Next, vars, cardVars, Rec, Walk, Tick, Host, Phone, TickCheck, TickRead,
         TickFail, TickSend, HostOpen, HostSet, ReadManifest, NextEntry, Disconnect, WriteStart,
         Subscribe, Received, Timeout, Upload, Ack, Connect, StartRec, LogRows, StopRec,
         WalkBegin, WalkUpload, WalkEnd, LinkLost
  <2>4. recording => Cardinality(Recorded) \in Pending' \union doubt'
    <3> SUFFICES ASSUME recording PROVE Cardinality(Recorded) \in Pending' \union doubt'
      OBVIOUS
    <3>1. Cardinality(Recorded) \in Pending \union doubt /\ ~busy
      BY DEF QuietInv
    <3>2. CASE Ack
      <4>1. entry.file \in doubt \/ ~Unsteady
        BY <3>2 DEF QuietInv, Ack
      <4>2. entry.file \in doubt \/ entry.file # Cardinality(Recorded)
        BY <4>1 DEF Unsteady
      <4>3. Pending \ {entry.file} \subseteq Pending' /\ doubt' = doubt
        BY <3>2 DEF Ack, Pending, MarkAndClean, hostVars
      <4> QED BY <3>1, <4>2, <4>3
    <3>3. CASE WriteStart
      <4>1. Pending' = Pending
        BY <3>3 DEF WriteStart, Pending, cardVars
      <4> QED BY <3>1, <3>3, <4>1, DoubtSettled
    <3>4. CASE ~Ack /\ ~WriteStart
      <4>1. UNCHANGED <<present, marked>>
        BY <1>4, <3>1, <3>4 DEF Next, vars, cardVars, Rec, Walk, Tick, Host, Phone, TickCheck, TickRead,
         TickFail, TickSend, HostOpen, HostSet, ReadManifest, NextEntry, Disconnect,
         Subscribe, Received, Timeout, Upload, Connect, StartRec, LogRows, StopRec,
         WalkBegin, WalkUpload, WalkEnd, LinkLost
      <4> QED BY <3>1, <3>4, <4>1, DoubtStep DEF Pending
    <3> QED BY <3>2, <3>3, <3>4
  <2>3. /\ ph' = "away" => todo' = {} /\ entry' = NoEntry
        /\ \A e \in todo' : e.file \in Recorded
        /\ entry' # NoEntry => entry'.file \in Recorded
    <3>1. CASE UNCHANGED <<ph, todo, entry>>
      BY <3>1 DEF QuietInv
    <3>2. CASE Disconnected
      BY <3>2 DEF Disconnected
    <3>3. CASE ph' # "away" /\ UNCHANGED <<todo, entry>>
      BY <3>3 DEF QuietInv
    <3>4. CASE ReadManifest
      <4>1. Pending \subseteq Recorded
        BY <1>0 DEF CardType, Pending
      <4>2. ph' # "away" /\ entry' = entry /\ \A e \in todo' : e.file \in Pending
        BY <3>4 DEF ReadManifest
      <4> QED BY <4>1, <4>2 DEF QuietInv
    <3>5. CASE \E e \in todo : NextEntry(e)
      BY <3>5 DEF QuietInv, NextEntry
    <3> QED
      BY <3>1, <3>2, <3>3, <3>4, <3>5
         DEF Next, vars, phoneVars, Rec, Walk, Tick, Host, Phone, TickCheck, TickRead, TickFail,
             TickSend, HostOpen, HostSet, Disconnect, WriteStart, Subscribe, Received, Timeout,
             Upload, Ack, Connect, StartRec, LogRows, StopRec, WalkBegin, WalkUpload, WalkEnd,
             LinkLost
  <2> QED BY <1>s, <1>d, <1>4, <2>1, <2>2, <2>3, <2>4 DEF QuietInv
<1> QED BY <1>1, <1>2, <1>3, <1>4, CardUntouched

(* Reading, numbering and sending stay on the entry in work. *)
LEMMA TransferStep ==
  ASSUME RelayInv, QuietInv, TransferInv, [Next]_vars
  PROVE  TransferInv'
<1>0. CardType /\ PhoneType /\ XferType
  BY RelayParts
<1> USE DEF xferVars, coreVars, hostVars, phoneVars
<1>1. CASE UNCHANGED <<xferVars, coreVars, hostVars, ph, entry>>
  BY <1>1 DEF TransferInv, Active
<1>2. CASE Disconnected /\ UNCHANGED host /\ host = "idle"
  BY <1>2 DEF TransferInv, Disconnected
<1>3. CASE Disconnect
  BY <1>3 DEF TransferInv, Disconnect, Disconnected
<1>4. CASE Connect \/ ReadManifest \/ Timeout \/ Received \/ Upload \/ Ack
  BY <1>4 DEF TransferInv, Active, Connect, ReadManifest, Timeout, Received, Upload, Ack
<1>5. CASE \E e \in todo : NextEntry(e)
  BY <1>5 DEF TransferInv, NextEntry
<1>6. CASE WriteStart
  <2>1. /\ host' = "open" /\ wanted' = entry.file /\ xfer' = Closed /\ ph' = "started"
        /\ UNCHANGED <<tick, buf, seq, entry>>
    BY <1>6 DEF WriteStart
  <2>2. Overtaken => entry.file \in doubt'
    BY <1>6 DEF WriteStart
  <2>3. entry.file \notin doubt' => tick = "idle"
    BY <2>2 DEF Overtaken
  <2> QED BY <2>1, <2>3 DEF TransferInv, Active
<1>7. CASE Subscribe
  BY <1>7 DEF TransferInv, Active, Subscribe
<1>8. CASE HostOpen
  BY <1>8 DEF TransferInv, Active, HostOpen
<1>9. CASE HostSet
  BY <1>9 DEF TransferInv, Active, HostSet
<1>10. CASE TickCheck
  BY <1>10 DEF TransferInv, Active, TickCheck
<1>11. CASE TickFail
  BY <1>11 DEF TransferInv, Active, TickFail
<1>12. CASE TickRead
  <2>1. CASE tick' = "send"
    <3>1. /\ tick = "read" /\ Active /\ xfer.pos < size[xfer.file]
          /\ UNCHANGED <<seq, hostVars, ph, entry>>
      BY <1>12, <2>1 DEF TickRead
    <3>2. xfer \in [file : Files, pos : 0..MaxChunks]
      BY <1>0, <3>1 DEF XferType, Active
    <3>3. buf' = <<xfer.file, xfer.pos>> /\ xfer' = [file |-> xfer.file, pos |-> xfer.pos + 1]
      BY <1>12, <2>1, <3>2 DEF TickRead
    <3>5. CASE ph \in {"started", "receive"} /\ entry.file \notin doubt
      <4>1. xfer.file = entry.file /\ xfer.pos = seq /\ host = "idle"
        BY <3>1, <3>5 DEF TransferInv
      <4>2. entry.size = size[entry.file]
        BY <3>5 DEF QuietInv, Unsteady
      <4> QED BY <2>1, <3>1, <3>3, <3>5, <4>1, <4>2 DEF TransferInv
    <3>6. CASE ~(ph \in {"started", "receive"} /\ entry.file \notin doubt)
      <4>1. host # "idle" => ph = "started" /\ wanted = entry.file
        BY DEF TransferInv
      <4>2. UNCHANGED <<host, wanted, doubt, ph, entry>>
        BY <3>1
      <4> QED BY <3>6, <4>1, <4>2 DEF TransferInv
    <3> QED BY <3>5, <3>6
  <2>2. CASE tick' # "send"
    BY <1>12, <2>2 DEF TransferInv, Active, TickRead
  <2> QED BY <2>1, <2>2
<1>13. CASE TickSend
  <2>1. /\ tick = "send" /\ tick' = "idle" /\ seq' = seq + 1
        /\ UNCHANGED <<xfer, hostVars, ph, entry>>
    BY <1>13 DEF TickSend
  <2> QED BY <2>1 DEF TransferInv, Active
<1> QED
  BY <1>1, <1>2, <1>3, <1>4, <1>5, <1>6, <1>7, <1>8, <1>9, <1>10, <1>11, <1>12, <1>13
     DEF Next, vars, Rec, Walk, Tick, Host, Phone, StartRec, LogRows, StopRec, WalkBegin,
         WalkUpload, WalkEnd, LinkLost

(* The phone has only chunks of its entry, and acknowledges a whole file. *)
LEMMA ChunkStep ==
  ASSUME RelayInv, QuietInv, TransferInv, ChunkInv, [Next]_vars
  PROVE  ChunkInv'
<1>0. CardType /\ PhoneType /\ XferType /\ ServerTyped /\ ChunksType
  BY RelayParts
<1> USE DEF phoneVars, hostVars
<1>1. CASE UNCHANGED <<size, server, ph, entry, chunks, doubt>>
  BY <1>1 DEF ChunkInv, Enough
<1>2. CASE StartRec \/ LogRows
  <2>1. UNCHANGED <<server, ph, entry, chunks, doubt>>
    BY <1>2 DEF StartRec, LogRows
  <2>2. CASE ph = "ack" /\ entry.file \notin doubt
    <3>1. ~Unsteady /\ ~Unsteady'
      BY <1>0, <2>1, <2>2, SteadyWork DEF QuietInv
    <3>2. size'[entry.file] = size[entry.file]
      BY <2>1, <3>1 DEF Unsteady
    <3> QED BY <2>1, <2>2, <3>2 DEF ChunkInv
  <2>3. CASE ~(ph = "ack" /\ entry.file \notin doubt)
    BY <2>1, <2>3 DEF ChunkInv, Enough
  <2> QED BY <2>2, <2>3
<1>3. CASE ph' \in {"away", "manifest", "next", "start", "started"}
  BY <1>3 DEF ChunkInv
<1>4. CASE Subscribe
  BY <1>4 DEF Subscribe, ChunkInv
<1>5. CASE Received
  <2>1. ph = "receive" /\ ph' = "upload" /\ Enough /\ UNCHANGED <<entry, chunks, doubt>>
    BY <1>5 DEF Received
  <2> QED BY <2>1 DEF ChunkInv, Enough
<1>6. CASE Upload
  <2>1. CASE ph' = "ack"
    <3>1. server' = [server EXCEPT ![entry.file] = Content(chunks, entry.file)]
      BY <1>6, <2>1 DEF Upload, StoredByPhone
    <3>2. entry' = entry /\ size' = size /\ doubt' = doubt /\ ph = "upload"
      BY <1>6 DEF Upload, cardVars
    <3> SUFFICES ASSUME entry.file \notin doubt PROVE ChunkInv'
      BY <3>2 DEF ChunkInv
    <3>3. entry.file \in Files /\ entry.size = size[entry.file]
      BY <1>0, <3>2 DEF PhoneType, QuietInv, Unsteady
    <3>4. server'[entry.file] = entry.size
      BY <1>0, <3>1, <3>2, <3>3, WholeFile DEF ServerTyped
    <3> QED BY <2>1, <3>2, <3>3, <3>4 DEF ChunkInv
  <2>2. CASE ph' = "next"
    BY <2>2 DEF ChunkInv
  <2> QED BY <1>6, <2>1, <2>2 DEF Upload
<1>7. CASE \E f \in Files : WalkUpload(f)
  <2> PICK f \in Files : WalkUpload(f)
    BY <1>7
  <2>1. server' = [server EXCEPT ![f] = size[f]] /\ UNCHANGED <<size, ph, entry, chunks, doubt>>
    BY DEF WalkUpload
  <2>2. server[entry.file] = size[entry.file] => server'[entry.file] = size[entry.file]
    BY <1>0, <2>1 DEF ServerTyped
  <2> QED BY <2>1, <2>2 DEF ChunkInv, Enough
<1>8. CASE TickSend
  <2>1. UNCHANGED <<size, server, ph, entry, doubt>> /\ tick = "send"
    BY <1>8 DEF TickSend, cardVars
  <2>2. CASE UNCHANGED chunks
    BY <2>1, <2>2 DEF ChunkInv, Enough
  <2>3. CASE Hear(buf) /\ ph = "receive" /\ seq \notin DOMAIN chunks
    <3>1. chunks' = [i \in DOMAIN chunks \union {seq} |-> IF i = seq THEN buf ELSE chunks[i]]
      BY <2>3 DEF Hear
    <3> SUFFICES ASSUME entry.file \notin doubt PROVE ChunkInv'
      BY <2>1 DEF ChunkInv
    <3>2. buf = <<entry.file, seq>> /\ seq \in 0..(entry.size - 1)
      BY <1>0, <2>1, <2>3 DEF TransferInv, XferType, PhoneType
    <3>3. \A i \in DOMAIN chunks' : i \in 0..(entry.size - 1) /\ chunks'[i] = <<entry.file, i>>
      BY <2>3, <3>1, <3>2 DEF ChunkInv
    <3> QED BY <2>1, <2>3, <3>3 DEF ChunkInv
  <2> QED BY <1>8, <2>2, <2>3 DEF TickSend, Hear
<1> QED
  BY <1>1, <1>2, <1>3, <1>4, <1>5, <1>6, <1>7, <1>8
     DEF Next, vars, cardVars, Rec, Walk, Tick, Host, Phone, TickCheck, TickRead, TickFail,
         HostOpen, HostSet, ReadManifest, NextEntry, Disconnect, Disconnected, WriteStart, Timeout,
         Ack, Connect, StopRec, WalkBegin, WalkEnd, LinkLost

(* Only a file the server has whole ceases to be pending. *)
LEMMA NothingLostStep ==
  ASSUME LossInv, [Next]_vars
  PROVE  NothingLost'
<1>0. /\ CardType /\ CardInv /\ PhoneType /\ ServerTyped
      /\ RelayInv /\ QuietInv /\ ChunkInv /\ NothingLost
  BY RelayParts DEF LossInv
<1> USE DEF hostVars
<1>1. CASE UNCHANGED <<size, present, marked, server, doubt>>
  BY <1>0, <1>1 DEF NothingLost, Recorded, Pending
<1>2. CASE StartRec \/ LogRows
  <2>1. PICK n \in 0..NumFiles : Recorded = 1..n
    BY <1>0 DEF CardInv
  <2>2. n \in Nat /\ Cardinality(Recorded) = n
    BY <2>1, Counting, RelayBounds
  <2>3. \E m \in (Pending' \union doubt) \cap Files : \A f \in Files :
          f # m => size'[f] = size[f] /\ (f \in Pending' <=> f \in Pending)
    <3>1. CASE StartRec
      <4>1. /\ n + 1 \in Files /\ size' = [size EXCEPT ![n + 1] = 1]
            /\ present' = present \union {n + 1} /\ marked' = marked
        BY <2>2, <3>1 DEF StartRec
      <4>2. n + 1 \notin marked
        BY <1>0, <2>1, <2>2 DEF CardType
      <4> QED BY <1>0, <4>1, <4>2 DEF CardType, Pending
    <3>2. CASE LogRows
      <4>1. /\ n \in Pending \union doubt /\ size' = [size EXCEPT ![n] = @ + 1]
            /\ present' = present /\ marked' = marked
        BY <1>0, <2>2, <3>2 DEF LogRows, QuietInv
      <4>2. n \in Files
        <5>1. n \in Recorded
          BY <1>0, <4>1 DEF CardType, Pending, QuietInv
        <5> QED BY <5>1 DEF Recorded
      <4> QED BY <1>0, <4>1, <4>2 DEF CardType, Pending
    <3> QED BY <1>2, <3>1, <3>2
  <2>4. server' = server /\ doubt' = doubt
    BY <1>2 DEF StartRec, LogRows
  <2>5. PICK m \in (Pending' \union doubt) \cap Files : \A f \in Files :
          f # m => size'[f] = size[f] /\ (f \in Pending' <=> f \in Pending)
    BY <2>3
  <2> SUFFICES ASSUME NEW f \in Files, size'[f] > 0, f \notin Pending', f \notin doubt
               PROVE  server[f] = size'[f]
    BY <2>4 DEF NothingLost, Recorded
  <2>6. f # m /\ size'[f] = size[f] /\ f \notin Pending
    BY <2>5
  <2> QED BY <1>0, <2>6 DEF NothingLost, Recorded
<1>3. CASE \E f \in Files : WalkUpload(f)
  <2> PICK f \in Files : WalkUpload(f)
    BY <1>3
  <2>1. server' = [server EXCEPT ![f] = size[f]] /\ size' = size /\ doubt' = doubt /\ MarkAndClean(f)
    BY DEF WalkUpload
  <2>2. Recorded' = Recorded /\ Pending \ {f} \subseteq Pending'
    BY <2>1 DEF Recorded, Pending, MarkAndClean
  <2> SUFFICES ASSUME NEW g \in Recorded, g \notin Pending', g \notin doubt
               PROVE  server'[g] = size[g]
    BY <2>1, <2>2 DEF NothingLost
  <2>3. g \in Files /\ (g = f \/ g \notin Pending)
    BY <2>2 DEF Recorded
  <2> QED BY <1>0, <2>1, <2>3 DEF NothingLost, ServerTyped
<1>4. CASE Ack
  <2>1. /\ server' = server /\ size' = size /\ doubt' = doubt /\ entry # NoEntry
        /\ entry.file \notin doubt => server[entry.file] = size[entry.file]
    BY <1>0, <1>4 DEF Ack, PhoneType, ChunkInv
  <2>2. Recorded' = Recorded /\ Pending \ {entry.file} \subseteq Pending'
    BY <1>4, <2>1 DEF Ack, Recorded, Pending, MarkAndClean
  <2> SUFFICES ASSUME NEW g \in Recorded, g \notin Pending', g \notin doubt
               PROVE  server[g] = size[g]
    BY <2>1, <2>2 DEF NothingLost
  <2>3. g = entry.file \/ g \notin Pending
    BY <2>2
  <2> QED BY <1>0, <2>1, <2>3 DEF NothingLost
<1>5. CASE ph = "upload" /\ (StoredByPhone \/ UNCHANGED server) /\ UNCHANGED <<cardVars, doubt>>
  <2>1. entry # NoEntry /\ entry.file \in Files
    BY <1>0, <1>5 DEF PhoneType
  <2>0. Recorded' = Recorded /\ Pending' = Pending /\ size' = size
    BY <1>5 DEF Recorded, Pending, cardVars
  <2>2. CASE StoredByPhone
    <3>1. server' = [server EXCEPT ![entry.file] = Content(chunks, entry.file)]
      BY <2>2 DEF StoredByPhone
    <3> HIDE DEF Content
    <3>2. entry.file \notin doubt => server'[entry.file] = size[entry.file]
      <4> SUFFICES ASSUME entry.file \notin doubt PROVE server'[entry.file] = size[entry.file]
        OBVIOUS
      <4>1. entry.size = size[entry.file]
        BY <1>0, <1>5 DEF QuietInv, Unsteady
      <4> QED BY <1>0, <1>5, <2>1, <3>1, <4>1, WholeFile DEF ServerTyped
    <3>3. \A g \in Files : g # entry.file => server'[g] = server[g]
      BY <1>0, <3>1 DEF ServerTyped
    <3> QED BY <1>0, <1>5, <2>0, <3>2, <3>3 DEF NothingLost, Recorded
  <2>3. CASE UNCHANGED server
    BY <1>0, <1>5, <2>0, <2>3 DEF NothingLost
  <2> QED BY <1>5, <2>2, <2>3
<1>6. CASE WriteStart
  <2>1. UNCHANGED <<server, size, present, marked>>
    BY <1>6 DEF WriteStart, cardVars
  <2>2. Recorded' = Recorded /\ Pending' = Pending /\ doubt \subseteq doubt' \union Pending
    BY <1>6, <2>1, DoubtSettled DEF Recorded, Pending
  <2> QED BY <1>0, <2>1, <2>2 DEF NothingLost
<1> QED
  BY <1>1, <1>2, <1>3, <1>4, <1>5, <1>6
     DEF Next, vars, cardVars, Rec, Walk, Tick, Host, Phone, TickCheck, TickRead, TickFail,
         TickSend, HostOpen, HostSet, ReadManifest, NextEntry, Disconnect, Subscribe,
         Received, Timeout, Upload, Connect, StopRec, WalkBegin, WalkEnd, LinkLost

(* Together. *)
LEMMA LossStep ==
  ASSUME LossInv, [Next]_vars
  PROVE  LossInv'
<1>1. RelayInv /\ QuietInv /\ TransferInv /\ ChunkInv
  BY DEF LossInv
<1>2. RelayInv' /\ QuietInv' /\ TransferInv' /\ ChunkInv'
  BY <1>1, RelayStep, QuietStep, TransferStep, ChunkStep
<1> QED BY <1>2, NothingLostStep DEF LossInv

(* relay.ts: "nothing is lost", with the phone connected whenever it likes, a
   recording included, and transfers overtaking one another: a file that is not
   pending any more is on the server chunk for chunk, whichever of the WiFi walk
   and the phone brought it there, whatever was lost, repeated or refused on the
   way and wherever the link broke - unless the phone's last transfer of that
   very file was begun while the file was growing, with a size from then, or while
   Core 1 had not finished with an earlier transfer.  Such a file can be lost; the
   doubt ends when the file, still pending, is transferred again without either.
   For every number of files and chunks. *)
THEOREM RelayLosesNothing == Spec => []NothingLost
<1>1. LossInv /\ [Next]_vars => LossInv'
  BY LossStep
<1>2. LossInv => NothingLost
  BY DEF LossInv
<1> QED BY <1>1, <1>2, LossInit, PTL DEF Spec

-----------------------------------------------------------------------------
(* The two ways off the boat implement SessionArchive.                     *)

PhaseMap == [f \in Files |-> Phase(f)]
RowMap   == [f \in Files |-> IF size[f] = 0 THEN 0 ELSE size[f] - 1]
ArchMap  == [f \in Files |-> IF PhaseMap[f] = "archived" THEN RowMap[f] ELSE 0]

(* The abstract state, where nothing is lost: what is archived is the content. *)
Mapped ==
  /\ \A f \in Files : Phase(f) = "archived" => size[f] > 0 /\ server[f] = size[f]
  /\ CardType

LEMMA MappedHolds ==
  ASSUME LossInv
  PROVE  Mapped
<1>1. CardType /\ NothingLost
  BY RelayParts DEF LossInv
<1>2. \A f \in Files : Phase(f) = "archived" => size[f] > 0 /\ f \notin Pending /\ f \notin doubt
  BY <1>1 DEF CardType, Phase
<1> QED BY <1>1, <1>2 DEF Mapped, NothingLost, Recorded

(* The last file recorded is the only one that can be open. *)
LEMMA PhaseFacts ==
  ASSUME LossInv
  PROVE  \E n \in 0..NumFiles :
           /\ Recorded = 1..n /\ n \in Nat /\ Cardinality(Recorded) = n
           /\ doubt \subseteq Recorded
           /\ recording => n \in Files /\ n \in Pending \union doubt
           /\ \A f \in Files : PhaseMap[f] = IF f > n THEN "none"
                                             ELSE IF f \in doubt THEN "doubtful"
                                             ELSE IF recording /\ f = n THEN "open"
                                             ELSE IF f \in Pending THEN "closed" ELSE "archived"
<1>1. CardType /\ CardInv /\ QuietInv
  BY RelayParts DEF LossInv
<1>2. PICK n \in 0..NumFiles : Recorded = 1..n
  BY <1>1 DEF CardInv
<1>3. n \in Nat /\ Cardinality(Recorded) = n
  BY <1>2, Counting, RelayBounds
<1>4. \A f \in Files : (size[f] = 0) <=> f > n
  BY <1>1, <1>2, <1>3, RelayBounds DEF CardType, Recorded, Files
<1>5. \A f \in Files : PhaseMap[f] = IF f > n THEN "none"
                                     ELSE IF f \in doubt THEN "doubtful"
                                     ELSE IF recording /\ f = n THEN "open"
                                     ELSE IF f \in Pending THEN "closed" ELSE "archived"
  BY <1>3, <1>4 DEF PhaseMap, Phase
<1>6. recording => n \in Files /\ n \in Pending \union doubt
  BY <1>1, <1>2, <1>3, RelayBounds DEF CardInv, QuietInv, Files
<1> QED BY <1>1, <1>2, <1>3, <1>5, <1>6 DEF QuietInv

(* Before and after a step the archive is the map. *)
LEMMA ArchiveIsMap ==
  ASSUME Mapped, Mapped'
  PROVE  /\ [f \in Files |-> IF Phase(f) = "archived" THEN server[f] - 1 ELSE 0] = ArchMap
         /\ [f \in Files |-> IF Phase(f) = "archived" THEN server[f] - 1 ELSE 0]' = ArchMap'
<1>1. \A f \in Files : (IF Phase(f) = "archived" THEN server[f] - 1 ELSE 0)
                       = IF PhaseMap[f] = "archived" THEN RowMap[f] ELSE 0
  BY DEF Mapped, CardType, PhaseMap, RowMap
<1>2. \A f \in Files : (IF Phase(f)' = "archived" THEN server'[f] - 1 ELSE 0)
                       = IF PhaseMap'[f] = "archived" THEN RowMap'[f] ELSE 0
  BY DEF Mapped, CardType, PhaseMap, RowMap
<1> QED BY <1>1, <1>2 DEF ArchMap

(* What changes neither phase nor content changes nothing of the archive. *)
LEMMA SameArchive ==
  ASSUME Mapped, Mapped', PhaseMap' = PhaseMap, RowMap' = RowMap
  PROVE  UNCHANGED Archive!vars
<1>1. ArchMap' = ArchMap
  BY DEF ArchMap
<1> QED BY <1>1, ArchiveIsMap DEF Archive!vars, PhaseMap, RowMap

(* Opening, logging, closing and delivering, by either way. *)
LEMMA ArchiveStep ==
  ASSUME LossInv, LossInv', [Next]_vars
  PROVE  [Archive!Next]_(Archive!vars)
<1>0. Mapped /\ Mapped' /\ CardType /\ CardType'
  <2>1. Mapped
    BY MappedHolds
  <2>2. CardType' /\ NothingLost'
    BY DEF LossInv, RelayInv, TypeOK, CardType
  <2>3. \A f \in Files :
          Phase(f)' = "archived" => size'[f] > 0 /\ f \notin Pending' /\ f \notin doubt'
    BY <2>2 DEF CardType, Phase
  <2>4. Mapped'
    BY <2>2, <2>3 DEF Mapped, NothingLost, Recorded
  <2> QED BY <2>1, <2>2, <2>4 DEF Mapped
<1>a. [f \in Files |-> IF Phase(f) = "archived" THEN server[f] - 1 ELSE 0] = ArchMap
  BY <1>0, ArchiveIsMap
<1>b. [f \in Files |-> IF Phase(f) = "archived" THEN server[f] - 1 ELSE 0]' = ArchMap'
  BY <1>0, ArchiveIsMap
<1>p. PICK n \in 0..NumFiles :
           /\ Recorded = 1..n /\ n \in Nat /\ Cardinality(Recorded) = n
           /\ doubt \subseteq Recorded
           /\ recording => n \in Files /\ n \in Pending \union doubt
           /\ \A f \in Files : PhaseMap[f] = IF f > n THEN "none"
                                             ELSE IF f \in doubt THEN "doubtful"
                                             ELSE IF recording /\ f = n THEN "open"
                                             ELSE IF f \in Pending THEN "closed" ELSE "archived"
  BY PhaseFacts
<1> USE DEF hostVars
<1>1. CASE UNCHANGED <<size, recording, doubt>> /\ Pending' = Pending
  <2>1. PhaseMap' = PhaseMap /\ RowMap' = RowMap
    BY <1>1 DEF PhaseMap, RowMap, Phase, Recorded
  <2> QED BY <1>0, <2>1, SameArchive
<1>9. ASSUME NEW s \in doubt, UNCHANGED <<size, recording, doubt>>, Pending' = Pending \ {s}
      PROVE  [Archive!Next]_(Archive!vars)  \* a file in doubt delivered
  <2>1. Recorded' = Recorded /\ RowMap' = RowMap
    BY <1>9 DEF Recorded, RowMap
  <2>2. \A f \in Files : Phase(f)' = Phase(f)
    BY <1>9, <2>1 DEF Phase
  <2>3. PhaseMap' = PhaseMap
    BY <2>2 DEF PhaseMap
  <2> QED BY <1>0, <2>1, <2>3, SameArchive
<1>2. ASSUME NEW s \in Pending, UNCHANGED <<size, recording, doubt>>, s \notin doubt,
             ~(recording /\ s = Cardinality(Recorded)), Pending' = Pending \ {s}
      PROVE  [Archive!Next]_(Archive!vars)  \* a file delivered
  <2>1. s \in Files /\ s \in Nat /\ s <= n
    <3>1. s \in Recorded
      BY <1>0, <1>2 DEF CardType, Pending
    <3>2. s \in 1..n /\ n \in Nat /\ n <= NumFiles
      BY <1>p, <3>1, RelayBounds
    <3> QED BY <3>2, RelayBounds DEF Files
  <2>2. Recorded' = Recorded /\ RowMap' = RowMap
    BY <1>2 DEF Recorded, RowMap
  <2>3. PhaseMap[s] = "closed"
    BY <1>2, <1>p, <2>1
  <2>4. \A f \in Files : Phase(f)' = IF f = s THEN "archived" ELSE Phase(f)
    <3>1. Phase(s)' = "archived"
      <4>1. size[s] # 0 /\ s \notin Pending'
        <5>1. s \in Recorded
          BY <1>0, <1>2 DEF CardType, Pending
        <5>2. size[s] # 0
          BY <5>1 DEF Recorded
        <5> QED BY <1>2, <5>2
      <4> QED BY <1>2, <2>2, <4>1 DEF Phase
    <3>2. \A f \in Files : f # s => Phase(f)' = Phase(f)
      BY <1>2, <2>2 DEF Phase
    <3> QED BY <3>1, <3>2
  <2>5. PhaseMap' = [PhaseMap EXCEPT ![s] = "archived"]
    BY <2>1, <2>4 DEF PhaseMap
  <2>6. ArchMap' = [ArchMap EXCEPT ![s] = RowMap[s]]
    BY <2>1, <2>2, <2>3, <2>5 DEF ArchMap, PhaseMap
  <2>7. Archive!Deliver(s)
    BY <1>a, <1>b, <2>1, <2>2, <2>3, <2>5, <2>6 DEF Archive!Deliver, PhaseMap, RowMap
  <2> QED BY <2>1, <2>7 DEF Archive!Next
<1>3. CASE StartRec
  <2>1. /\ n + 1 \in Files /\ size' = [size EXCEPT ![n + 1] = 1]
        /\ recording' /\ ~recording
    BY <1>3, <1>p DEF StartRec
  <2>2. present' = present \union {n + 1} /\ marked' = marked /\ Recorded' = 1..(n + 1)
    BY <1>0, <1>3, <1>p, <2>1 DEF StartRec, CardType, Recorded, Files
  <2>3. Cardinality(Recorded') = n + 1
    BY <1>p, <2>2, FS_Interval
  <2>4. RowMap' = RowMap
    BY <1>0, <1>p, <2>1 DEF RowMap, CardType, Recorded
  <2>5. \A f \in Files : f # n + 1 => (f \in Pending' <=> f \in Pending)
    BY <2>2 DEF Pending
  <2>d. doubt' = doubt /\ n + 1 \notin doubt
    BY <1>3, <1>p DEF StartRec
  <2>6. \A f \in Files : Phase(f)' = IF f = n + 1 THEN "open" ELSE Phase(f)
    <3>1. Phase(n + 1)' = "open"
      BY <1>0, <2>1, <2>3, <2>d DEF Phase, CardType
    <3>2. \A f \in Files : f # n + 1 => Phase(f)' = Phase(f)
      BY <1>0, <1>p, <2>1, <2>3, <2>5, <2>d DEF Phase, CardType
    <3> QED BY <3>1, <3>2
  <2>7. PhaseMap' = [PhaseMap EXCEPT ![n + 1] = "open"]
    BY <2>1, <2>6 DEF PhaseMap
  <2>8. PhaseMap[n + 1] = "none" /\ \A t \in Files : PhaseMap[t] # "open"
    BY <1>p, <2>1
  <2>9. ArchMap' = ArchMap
    BY <2>1, <2>4, <2>7, <2>8 DEF ArchMap, PhaseMap
  <2>10. Archive!Open(n + 1)
    <3>1. /\ {} \in SUBSET {t \in Files : Archive!Growing(t)}
          /\ \A t \in Files : PhaseMap[t] = "open" => t \in {}
      BY <2>8
    <3>2. PhaseMap' = [t \in Files |-> IF t = n + 1 THEN "open"
                                      ELSE IF t \in {} THEN "closed" ELSE PhaseMap[t]]
      BY <2>1, <2>7 DEF PhaseMap
    <3>3. \E K \in SUBSET {t \in Files : Archive!Growing(t)} :
            /\ \A t \in Files : PhaseMap[t] = "open" => t \in K
            /\ PhaseMap' = [t \in Files |-> IF t = n + 1 THEN "open"
                                            ELSE IF t \in K THEN "closed" ELSE PhaseMap[t]]
      BY <3>1, <3>2
    <3> QED BY <1>a, <1>b, <2>1, <2>4, <2>8, <2>9, <3>3 DEF Archive!Open, PhaseMap, RowMap
  <2> QED BY <2>1, <2>10 DEF Archive!Next
<1>4. CASE LogRows
  <2>1. /\ n \in Files /\ PhaseMap[n] \in {"open", "doubtful"}
        /\ size' = [size EXCEPT ![n] = @ + 1] /\ size[n] < MaxChunks
    <3>1. recording /\ n \in Files /\ size' = [size EXCEPT ![n] = @ + 1] /\ size[n] < MaxChunks
      BY <1>4, <1>p DEF LogRows
    <3>2. ~(n > n)
      BY <1>p
    <3>3. n \in doubt => PhaseMap[n] = "doubtful"
      BY <1>p, <3>1, <3>2
    <3>4. n \notin doubt => PhaseMap[n] = "open"
      BY <1>p, <3>1, <3>2
    <3> QED BY <3>1, <3>3, <3>4
  <2>2. Pending' = Pending /\ recording' = recording /\ doubt' = doubt
    BY <1>4 DEF LogRows, Pending
  <2>3. size[n] > 0 /\ size[n] \in Nat /\ Recorded' = Recorded
    BY <1>0, <1>p, <2>1, RelayBounds DEF CardType, Recorded, Files
  <2>4. \A f \in Files : Phase(f)' = Phase(f)
    BY <1>0, <2>1, <2>2, <2>3 DEF Phase, CardType
  <2>5. PhaseMap' = PhaseMap
    BY <2>4 DEF PhaseMap
  <2>6. RowMap' = [RowMap EXCEPT ![n] = @ + 1] /\ RowMap[n] < MaxChunks - 1
    <3>1. RowMap[n] = size[n] - 1 /\ RowMap[n] < MaxChunks - 1
      BY <2>1, <2>3, RelayBounds DEF RowMap
    <3>2. \A f \in Files : size'[f] = IF f = n THEN size[n] + 1 ELSE size[f]
      BY <1>0, <2>1 DEF CardType
    <3>3. \A f \in Files : RowMap'[f] = IF f = n THEN RowMap[n] + 1 ELSE RowMap[f]
      BY <2>1, <2>3, <3>1, <3>2 DEF RowMap
    <3> QED BY <2>1, <3>1, <3>3 DEF RowMap
  <2>7. ArchMap' = ArchMap
    BY <2>1, <2>5, <2>6 DEF ArchMap, RowMap
  <2>8. Archive!Append(n)
    BY <1>a, <1>b, <2>1, <2>5, <2>6, <2>7 DEF Archive!Append, Archive!Growing, PhaseMap, RowMap
  <2> QED BY <2>1, <2>8 DEF Archive!Next
<1>5. CASE StopRec
  <2>1. n \in Files /\ n \in Pending \union doubt /\ recording /\ ~recording'
    BY <1>5, <1>p DEF StopRec
  <2>2. size' = size /\ Pending' = Pending /\ Recorded' = Recorded /\ doubt' = doubt
    BY <1>5 DEF StopRec, Pending, Recorded
  <2>3. RowMap' = RowMap
    BY <2>2 DEF RowMap
  <2>a. \A f \in Files : f # n => Phase(f)' = Phase(f)
    BY <1>p, <2>1, <2>2 DEF Phase
  <2>b. CASE n \in doubt
    <3>1. PhaseMap' = PhaseMap
      BY <2>1, <2>2, <2>a, <2>b DEF Phase, PhaseMap
    <3> QED BY <1>0, <2>3, <3>1, SameArchive
  <2>c. CASE n \notin doubt
    <3>1. PhaseMap[n] = "open"
      BY <1>p, <2>1, <2>c
    <3>2. Phase(n)' = "closed"
      BY <1>p, <2>1, <2>2, <2>c, <3>1 DEF Phase, PhaseMap, Recorded
    <3>3. PhaseMap' = [PhaseMap EXCEPT ![n] = "closed"]
      BY <2>1, <2>a, <3>2 DEF PhaseMap
    <3>4. ArchMap' = ArchMap
      BY <2>1, <2>3, <3>1, <3>3 DEF ArchMap, PhaseMap
    <3>5. Archive!Close(n)
      BY <1>a, <1>b, <2>1, <2>3, <3>1, <3>3, <3>4 DEF Archive!Close, Archive!Growing, PhaseMap, RowMap
    <3> QED BY <2>1, <3>5 DEF Archive!Next
  <2> QED BY <2>b, <2>c
<1>6. CASE \E f \in Files : WalkUpload(f)
  <2> PICK s \in Files : WalkUpload(s)
    BY <1>6
  <2>1. s \in Pending /\ busy /\ UNCHANGED <<size, recording, doubt>> /\ MarkAndClean(s)
    BY DEF WalkUpload
  <2>2. ~recording
    BY <2>1 DEF LossInv, QuietInv
  <2>3. Pending' = Pending \ {s}
    BY <2>1 DEF Pending, MarkAndClean
  <2> QED BY <1>2, <1>9, <2>1, <2>2, <2>3
<1>7. CASE Ack
  <2>1. UNCHANGED <<size, recording, doubt>>
    BY <1>7 DEF Ack
  <2>2. CASE Pending' = Pending
    BY <1>1, <2>1, <2>2
  <2>3. CASE Pending' # Pending
    <3>1. MarkAndClean(entry.file)
      BY <1>7, <2>3 DEF Ack, Pending
    <3>2. Pending' = Pending \ {entry.file} /\ entry.file \in Pending
      BY <2>3, <3>1 DEF Pending, MarkAndClean
    <3>3. entry.file \in doubt \/ ~Unsteady
      BY <1>7 DEF Ack, LossInv, QuietInv
    <3>4. CASE entry.file \in doubt
      BY <1>9, <2>1, <3>2, <3>4
    <3>5. CASE entry.file \notin doubt
      <4>1. ~(recording /\ entry.file = Cardinality(Recorded))
        BY <3>3, <3>5 DEF Unsteady
      <4> QED BY <1>2, <2>1, <3>2, <3>5, <4>1
    <3> QED BY <3>4, <3>5
  <2> QED BY <2>2, <2>3
<1>8. CASE WriteStart
  <2>0. PICK s : s = entry.file
    OBVIOUS
  <2>1. UNCHANGED <<size, recording>> /\ Pending' = Pending /\ Recorded' = Recorded
    BY <1>8 DEF WriteStart, Pending, Recorded, cardVars
  <2>2. s \in Files /\ s \in Recorded
    BY <1>8, <2>0, RelayParts DEF LossInv, QuietInv, PhoneType, WriteStart
  <2>3. s \in Nat /\ s <= n /\ RowMap' = RowMap
    BY <1>p, <2>1, <2>2 DEF RowMap
  <2>4. CASE doubt' = doubt
    BY <1>1, <2>1, <2>4
  <2>5. CASE doubt' = doubt \union {s} /\ s \notin doubt
    <3>1. PhaseMap[s] \in {"open", "closed", "archived"}
      BY <1>p, <2>2, <2>3, <2>5
    <3>2. \A f \in Files : Phase(f)' = IF f = s THEN "doubtful" ELSE Phase(f)
      BY <2>1, <2>2, <2>5 DEF Phase, Recorded
    <3>3. PhaseMap' = [PhaseMap EXCEPT ![s] = "doubtful"]
      BY <2>2, <3>2 DEF PhaseMap
    <3>4. ArchMap' = [ArchMap EXCEPT ![s] = 0]
      BY <2>2, <2>3, <3>3 DEF ArchMap, PhaseMap
    <3>5. Archive!LoseTrack(s)
      BY <1>a, <1>b, <2>2, <2>3, <3>1, <3>3, <3>4 DEF Archive!LoseTrack, PhaseMap, RowMap
    <3> QED BY <2>2, <3>5 DEF Archive!Next
  <2>6. CASE doubt' = doubt \ {s} /\ s \in doubt /\ s \in Pending /\ ~Unsteady
    <3>1. PhaseMap[s] = "doubtful" /\ ~(recording /\ s = Cardinality(Recorded))
      BY <1>p, <2>0, <2>2, <2>3, <2>6 DEF Unsteady
    <3>2. \A f \in Files : Phase(f)' = IF f = s THEN "closed" ELSE Phase(f)
      BY <2>1, <2>2, <2>6, <3>1 DEF Phase, Recorded
    <3>3. PhaseMap' = [PhaseMap EXCEPT ![s] = "closed"]
      BY <2>2, <3>2 DEF PhaseMap
    <3>4. ArchMap' = ArchMap
      BY <2>2, <2>3, <3>1, <3>3 DEF ArchMap, PhaseMap
    <3>5. Archive!Close(s)
      BY <1>a, <1>b, <2>2, <2>3, <3>1, <3>3, <3>4 DEF Archive!Close, Archive!Growing, PhaseMap, RowMap
    <3> QED BY <2>2, <3>5 DEF Archive!Next
  <2> QED BY <1>8, <2>0, <2>4, <2>5, <2>6 DEF WriteStart
<1> QED
  BY <1>1, <1>3, <1>4, <1>5, <1>6, <1>7, <1>8
     DEF Next, vars, cardVars, Rec, Walk, Tick, Host, Phone, TickCheck, TickRead, TickFail,
         TickSend, HostOpen, HostSet, ReadManifest, NextEntry, Disconnect, Subscribe,
         Received, Timeout, Upload, Connect, WalkBegin, WalkEnd, LinkLost, Pending

(* Recorder, WiFi walk and phone behave together as the sequential archive: a
   file is opened, grows and is closed, and is archived once, as it was closed, by
   whichever way comes first; neither the other way's later upload nor its cleanup
   changes what is archived.  Of a file in doubt, as in RelayLosesNothing, the
   archive only says that it is. *)
THEOREM RelayImplementsArchive == Spec => ImplementsArchive
<1>1. Init => Archive!Init
  BY DEF Init, Archive!Init, Phase
<1>2. LossInv /\ LossInv' /\ [Next]_vars => [Archive!Next]_(Archive!vars)
  BY ArchiveStep
<1> QED BY <1>1, <1>2, LossInit, LossStep, PTL DEF Spec, ImplementsArchive, Archive!Spec
=============================================================================
