------------------------- MODULE SessionUploadProofs -------------------------
(***************************************************************************)
(* Proofs about SessionUpload, for every number of sessions, uploads and   *)
(* faults, and every subset of the faults: types; with any mix of the task *)
(* and the two console commands, a file is given up by the card only after *)
(* the server accepted it; when the task is the only uploader, what the    *)
(* server accepted is whole, so that nothing is lost, and every further    *)
(* complete copy of a file is owed to a fault nothing makes up for; and    *)
(* the override of a session is never lost, even where the code posts its  *)
(* CSV without it.                                                         *)
(***************************************************************************)
EXTENDS SessionUpload, FiniteSetTheorems, TLAPS

USE DEF NoFile, Free, At, Goto, MoveTo, NoFault, luck

LEMMA ConstantTypes ==
  /\ NumSessions \in Nat /\ MaxUploads \in Nat /\ MaxFaults \in Nat
  /\ AutoCleanup \in BOOLEAN /\ ConsoleUploads \in BOOLEAN /\ ConsoleTidies \in BOOLEAN
BY BoundsAssumption, SwitchesAssumption

Upload == [file : Files, tagged : BOOLEAN,
           status : {"open", "stored", "failed"}, intact : BOOLEAN]

(* The two files of a session, and the session of a file, are in range. *)
LEMMA FileRange ==
  /\ \A s \in 1..NumSessions : BoatTag(s) \in Files /\ Csv(s) \in Files
  /\ \A f \in Files : Session(f) \in 1..NumSessions
BY ConstantTypes DEF BoatTag, Csv, Session, Files

(* The workers' positions after one of them moves. *)
LEMMA StType ==
  ASSUME st \in [Workers -> Labels], NEW w \in Workers, NEW l \in Labels, Goto(w, l)
  PROVE  st' \in [Workers -> Labels]
OBVIOUS

LEMMA CurType ==
  ASSUME cur \in [Workers -> Files \union {NoFile}], NEW w \in Workers,
         NEW f \in Files \union {NoFile}, MoveTo(w, f)
  PROVE  cur' \in [Workers -> Files \union {NoFile}]
OBVIOUS

LEMMA ResumeType ==
  ASSUME st \in [Workers -> Labels], NEW w \in Workers, Resume(w)
  PROVE  st' \in [Workers -> Labels]
BY DEF Resume, Labels

LEMMA FaultType ==
  ASSUME faults \in 0..MaxFaults, excuses \in Nat, NEW k, Fault(k)
  PROVE  faults' \in 0..MaxFaults /\ excuses' \in Nat
BY ConstantTypes DEF Fault

(* A record opened for a worker's file is an upload. *)
LEMMA NewUploadType ==
  ASSUME NEW w \in Workers, cur[w] \in Files
  PROVE  NewUpload(w) \in Upload /\ NewUpload(w).file = cur[w]
                                 /\ NewUpload(w).status = "open"
BY DEF NewUpload, Upload

(* Setting fields of one record keeps the sequence and every other record. *)
WithStored(n, b) ==
  [uploads EXCEPT ![n] = [@ EXCEPT !.status = "stored", !.intact = b]]

LEMMA SetStored ==
  ASSUME uploads \in Seq(Upload), NEW n \in 1..Len(uploads), NEW b \in BOOLEAN
  PROVE  /\ WithStored(n, b) \in Seq(Upload) /\ Len(WithStored(n, b)) = Len(uploads)
         /\ \A i \in 1..Len(uploads) : i # n => WithStored(n, b)[i] = uploads[i]
         /\ WithStored(n, b)[n].file = uploads[n].file
         /\ WithStored(n, b)[n].status = "stored" /\ WithStored(n, b)[n].intact = b
<1>1. uploads[n] \in Upload
  OBVIOUS
<1> DEFINE r == [uploads[n] EXCEPT !.status = "stored", !.intact = b]
<1>2. /\ r \in Upload /\ r.file = uploads[n].file
      /\ r.status = "stored" /\ r.intact = b
  BY <1>1 DEF Upload
<1>3. WithStored(n, b) = [uploads EXCEPT ![n] = r]
  BY DEF WithStored
<1> HIDE DEF r
<1> QED BY <1>2, <1>3

LEMMA SetFailed ==
  ASSUME uploads \in Seq(Upload), NEW n \in 1..Len(uploads),
         NEW u, u = [uploads EXCEPT ![n].status = "failed"]
  PROVE  /\ u \in Seq(Upload) /\ Len(u) = Len(uploads)
         /\ \A i \in 1..Len(uploads) : i # n => u[i] = uploads[i]
         /\ u[n].file = uploads[n].file /\ u[n].status = "failed"
<1>1. uploads[n] \in Upload
  OBVIOUS
<1> DEFINE r == [uploads[n] EXCEPT !.status = "failed"]
<1>2. r \in Upload /\ r.file = uploads[n].file /\ r.status = "failed"
  BY <1>1 DEF Upload
<1>3. u = [uploads EXCEPT ![n] = r]
  OBVIOUS
<1> HIDE DEF r
<1> QED BY <1>2, <1>3

LEMMA AppendUpload ==
  ASSUME uploads \in Seq(Upload), NEW r \in Upload, NEW u, u = Append(uploads, r)
  PROVE  /\ u \in Seq(Upload) /\ Len(u) = Len(uploads) + 1
         /\ \A i \in 1..Len(uploads) : u[i] = uploads[i]
         /\ u[Len(uploads) + 1] = r
OBVIOUS

-----------------------------------------------------------------------------
(* Custody: what the server must have before the card lets go.             *)

(* An accepted upload of f that no PUT or PATCH under way can touch. *)
InFlight(i) == \E w \in Workers : st[w] \in {"put", "patch"} /\ uid[w] = i
Firm(f) == \/ f \in empty
           \/ \E i \in 1..Len(uploads) : /\ uploads[i].file = f
                                         /\ uploads[i].status = "stored"
                                         /\ ~InFlight(i)

Busy == {"post", "put", "patch", "mark", "unlink", "unmark"}

CustodyInv ==
  /\ logging => recorded > 0
  /\ \A w \in Workers :
       /\ st[w] \in Busy => cur[w] \in Files
       /\ st[w] \in {"put", "patch"} => /\ uid[w] \in 1..Len(uploads)
                                        /\ uploads[uid[w]].file = cur[w]
       /\ st[w] \in {"mark", "unlink", "unmark"} => Firm(cur[w])
  /\ \A v, w \in Workers :
       st[v] \in {"put", "patch"} /\ st[w] \in {"put", "patch"} /\ v # w
         => uid[v] # uid[w]
  /\ \A f \in marked : Firm(f)
  /\ \A f \in 1..(2 * recorded) : f \notin card => Firm(f)

IInv == TypeOK /\ CustodyInv

(* A step that keeps what is firm: records keep their file, and an accepted
   record not in flight stays as it is and out of flight. *)
Kept ==
  /\ empty \subseteq empty'
  /\ Len(uploads) <= Len(uploads')
  /\ \A i \in 1..Len(uploads) :
       /\ uploads'[i].file = uploads[i].file
       /\ uploads[i].status = "stored" /\ ~InFlight(i)
            => uploads'[i].status = "stored" /\ ~InFlight(i)'

LEMMA KeptFirm ==
  ASSUME TypeOK, TypeOK', Kept, NEW f, Firm(f)
  PROVE  Firm(f)'
<1>0. Len(uploads) \in Nat /\ Len(uploads') \in Nat
  BY DEF TypeOK
<1> QED BY <1>0 DEF Kept, Firm

(* Only w moves. *)
Local(w) ==
  \A v \in Workers : v # w => st'[v] = st[v] /\ cur'[v] = cur[v] /\ uid'[v] = uid[v]

(* What has to be shown of a step of worker w. *)
LEMMA StepCustody ==
  ASSUME IInv, TypeOK', NEW w \in Workers, Local(w), Kept,
         logging' => recorded' > 0,
         st'[w] \in Busy => cur'[w] \in Files,
         st'[w] \in {"put", "patch"} =>
           /\ uid'[w] \in 1..Len(uploads') /\ uploads'[uid'[w]].file = cur'[w]
           /\ \A v \in Workers : v # w /\ st[v] \in {"put", "patch"} => uid[v] # uid'[w],
         st'[w] \in {"mark", "unlink", "unmark"} => Firm(cur[w])',
         \A f \in marked' : f \in marked \/ Firm(f)',
         \A f \in 1..(2 * recorded') : f \notin card' =>
           (f \in 1..(2 * recorded) /\ f \notin card) \/ Firm(f)'
  PROVE  CustodyInv'
<1>0. Len(uploads) \in Nat /\ Len(uploads') \in Nat
  BY DEF TypeOK, IInv
<1>f. \A f : Firm(f) => Firm(f)'
  BY KeptFirm DEF IInv
<1>1. ASSUME NEW v \in Workers
      PROVE  /\ st'[v] \in Busy => cur'[v] \in Files
             /\ st'[v] \in {"put", "patch"} => /\ uid'[v] \in 1..Len(uploads')
                                               /\ uploads'[uid'[v]].file = cur'[v]
             /\ st'[v] \in {"mark", "unlink", "unmark"} => Firm(cur[v])'
  <2>1. CASE v = w BY <2>1
  <2>2. CASE v # w
    <3>1. st'[v] = st[v] /\ cur'[v] = cur[v] /\ uid'[v] = uid[v]
      BY <2>2 DEF Local
    <3>2. st[v] \in {"mark", "unlink", "unmark"} => Firm(cur[v])
      BY DEF IInv, CustodyInv
    <3>3. Firm(cur[v]) => Firm(cur[v])'
      <4> DEFINE c == cur[v]
      <4>1. c' = c
        BY <3>1
      <4>2. Firm(c) => Firm(c)'
        <5>1. \A f : Firm(f) /\ f = c' => Firm(c)'
          BY <1>f DEF Firm
        <5> QED BY <4>1, <5>1
      <4> QED BY <4>2
    <3> QED BY <1>0, <3>1, <3>2, <3>3 DEF Kept, IInv, CustodyInv
  <2> QED BY <2>1, <2>2
<1>2. ASSUME NEW u \in Workers, NEW v \in Workers,
             st'[u] \in {"put", "patch"}, st'[v] \in {"put", "patch"}, u # v
      PROVE  uid'[u] # uid'[v]
  <2>1. CASE u = w BY <1>2, <2>1 DEF Local
  <2>2. CASE v = w BY <1>2, <2>2 DEF Local
  <2>3. CASE u # w /\ v # w BY <1>2, <2>3 DEF Local, IInv, CustodyInv
  <2> QED BY <2>1, <2>2, <2>3
<1>3. \A f \in marked' : Firm(f)'
  BY <1>f DEF IInv, CustodyInv
<1>4. \A f \in 1..(2 * recorded') : f \notin card' => Firm(f)'
  BY <1>f DEF IInv, CustodyInv
<1> QED BY <1>1, <1>2, <1>3, <1>4 DEF CustodyInv

-----------------------------------------------------------------------------
(* Types.                                                                  *)

(* What a step of a worker does to the server's records. *)
LEMMA StoredStep ==
  ASSUME IInv, NEW w \in Workers, At(w, "put"), Stored(w)
  PROVE  /\ uploads' \in Seq(Upload) /\ Len(uploads') = Len(uploads)
         /\ \A i \in 1..Len(uploads) : i # uid[w] => uploads'[i] = uploads[i]
         /\ uid[w] \in 1..Len(uploads)
         /\ uploads'[uid[w]].file = cur[w] /\ uploads'[uid[w]].status = "stored"
         /\ w \notin mixed => uploads'[uid[w]].intact
<1>1. uploads \in Seq(Upload) /\ uid[w] \in 1..Len(uploads) /\ uploads[uid[w]].file = cur[w]
  BY DEF IInv, TypeOK, CustodyInv, Upload
<1>2. PICK b \in IF w \in mixed THEN BOOLEAN ELSE {TRUE} :
        uploads' = [uploads EXCEPT ![uid[w]] = [@ EXCEPT !.status = "stored", !.intact = b]]
  BY DEF Stored
<1>3. b \in BOOLEAN /\ (w \notin mixed => b = TRUE)
  BY <1>2
<1>4. /\ uploads' \in Seq(Upload) /\ Len(uploads') = Len(uploads)
      /\ \A i \in 1..Len(uploads) : i # uid[w] => uploads'[i] = uploads[i]
      /\ uploads'[uid[w]].file = uploads[uid[w]].file /\ uploads'[uid[w]].status = "stored"
      /\ uploads'[uid[w]].intact = b
  <2>1. uploads' = WithStored(uid[w], b)
    BY <1>2 DEF WithStored
  <2> QED BY <1>1, <1>3, <2>1, SetStored
<1> QED BY <1>1, <1>3, <1>4

LEMMA TypeStep == IInv /\ [Next]_vars => TypeOK'
<1> SUFFICES ASSUME IInv, [Next]_vars PROVE TypeOK'
  OBVIOUS
<1>0. TypeOK /\ uploads \in Seq(Upload)
  BY DEF IInv, TypeOK, Upload
<1> USE <1>0, ConstantTypes DEF recVars, cardVars, workVars, TypeOK
<1>a. /\ "task" \in Workers /\ "console" \in Workers
      /\ Labels = {"idle", "connect", "walk", "post", "put", "patch",
                   "mark", "unlink", "unmark"}
  BY DEF Workers, Labels
<1>1. CASE StartRecording
  <2>1. BoatTag(recorded + 1) \in Files /\ Csv(recorded + 1) \in Files
    BY <1>1, FileRange DEF StartRecording
  <2> QED BY <1>1, <2>1 DEF StartRecording
<1>2. CASE StopRecording BY <1>2 DEF StopRecording
<1>3. CASE TaskStep
  <2>1. CASE TaskGate BY <1>a, <2>1, StType DEF TaskGate
  <2>2. CASE TaskGiveUp BY <1>a, <2>2, StType, FaultType DEF TaskGiveUp
  <2>3. CASE TaskStart BY <1>a, <2>3, StType DEF TaskStart
  <2> QED BY <1>3, <2>1, <2>2, <2>3 DEF TaskStep
<1>4. CASE ConsoleStart BY <1>a, <1>4, StType DEF ConsoleStart
<1>5. ASSUME NEW f \in Files, Tidy(f) PROVE TypeOK'
  BY <1>a, <1>5, StType, CurType DEF Tidy
<1>6. ASSUME NEW w \in Workers, WalkStep(w) PROVE TypeOK'
  <2>1. CASE EndWalk(w) BY <1>a, <2>1, StType, CurType DEF EndWalk
  <2>2. ASSUME NEW f \in Files, Visit(w, f) PROVE TypeOK'
    <3>1. st' \in [Workers -> Labels]
      BY <1>a, <2>2, StType DEF Visit
    <3>2. cur' \in [Workers -> Files \union {NoFile}]
      BY <2>2, CurType DEF Visit
    <3>3. uid' \in [Workers -> 0..Len(uploads)]
      BY <2>2 DEF Visit
    <3> QED BY <2>2, <3>1, <3>2, <3>3 DEF Visit
  <2>3. ASSUME NEW f \in Files, SkipFile(w, f) PROVE TypeOK'
    BY <2>3, CurType, FaultType DEF SkipFile
  <2>4. ASSUME NEW f \in Files, LeaveDirectory(w, f) PROVE TypeOK'
    <3>1. Csv(Session(f)) \in Files BY FileRange
    <3>2. faults' \in 0..MaxFaults /\ excuses' \in Nat BY <2>4, FaultType DEF LeaveDirectory
    <3> QED BY <2>4, <3>1, <3>2, CurType DEF LeaveDirectory
  <2> QED BY <1>6, <2>1, <2>2, <2>3, <2>4 DEF WalkStep
<1>7. ASSUME NEW w \in Workers, FileStep(w) PROVE TypeOK'
  <2>c. st[w] \in Busy => cur[w] \in Files
    BY DEF IInv, CustodyInv
  <2>1. CASE Post(w)
    <3>1. uploads' \in Seq(Upload) /\ Len(uploads') = Len(uploads) + 1
      BY <2>c, <2>1, NewUploadType, AppendUpload DEF Post, Busy
    <3>2. st' \in [Workers -> Labels]
      BY <1>a, <2>1, StType DEF Post
    <3>3. mixed' \subseteq Workers
      BY <2>1 DEF Post
    <3>4. uid' \in [Workers -> 0..Len(uploads')]
      BY <2>1, <3>1 DEF Post
    <3> QED BY <2>1, <3>1, <3>2, <3>3, <3>4 DEF Post, Upload
  <2>2. CASE PostFails(w)
    <3>1. uploads' \in Seq(Upload) /\ Len(uploads') \in {Len(uploads), Len(uploads) + 1}
      BY <2>c, <2>2, NewUploadType, AppendUpload DEF PostFails, Busy
    <3>2. uid' \in [Workers -> 0..Len(uploads')]
      BY <2>2, <3>1 DEF PostFails
    <3>3. st' \in [Workers -> Labels] /\ faults' \in 0..MaxFaults /\ excuses' \in Nat
      BY <2>2, ResumeType, FaultType DEF PostFails
    <3> QED BY <2>2, <3>1, <3>2, <3>3 DEF PostFails, Upload
  <2>3. CASE Put(w)
    <3>1. uploads' \in Seq(Upload) /\ Len(uploads') = Len(uploads)
      BY <2>3, StoredStep DEF Put
    <3> QED BY <1>a, <2>3, <3>1, StType DEF Put, Upload
  <2>4. CASE PutFails(w) BY <1>a, <2>4, StType, FaultType DEF PutFails
  <2>5. CASE PutAckLost(w)
    <3>1. uploads' \in Seq(Upload) /\ Len(uploads') = Len(uploads)
      BY <2>5, StoredStep DEF PutAckLost
    <3> QED BY <1>a, <2>5, <3>1, StType, FaultType DEF PutAckLost, Upload
  <2>6. CASE Patch(w)
    <3>1. uid[w] \in 1..Len(uploads)
      BY <2>6 DEF IInv, CustodyInv, Patch
    <3>2. uploads' \in Seq(Upload) /\ Len(uploads') = Len(uploads)
      BY <2>6, <3>1, SetFailed DEF Patch
    <3> QED BY <2>6, <3>2, ResumeType DEF Patch, Upload
  <2>7. CASE PatchLost(w) BY <2>7, ResumeType, FaultType DEF PatchLost
  <2>8. CASE Mark(w)
    <3>1. st' \in [Workers -> Labels]
      BY <1>a, <2>8, StType, ResumeType DEF Mark, AfterMark
    <3>2. marked' \subseteq Files
      BY <2>c, <2>8 DEF Mark, Busy
    <3>3. faults' \in 0..MaxFaults /\ excuses' \in Nat
      BY <2>8, FaultType DEF Mark
    <3> QED BY <2>8, <3>1, <3>2, <3>3 DEF Mark
  <2>9. CASE Unlink(w)
    <3>1. faults' \in 0..MaxFaults /\ excuses' \in Nat /\ card' \subseteq Files
      BY <2>9, FaultType DEF Unlink
    <3> QED BY <1>a, <2>9, <3>1, StType DEF Unlink
  <2>10. CASE Unmark(w)
    <3>1. faults' \in 0..MaxFaults /\ excuses' \in Nat /\ marked' \subseteq Files
      BY <2>10, FaultType DEF Unmark
    <3>2. cur' \in [Workers -> Files \union {NoFile}]
      BY <2>10 DEF Unmark
    <3>3. st' \in [Workers -> Labels]
      BY <2>10, ResumeType DEF Unmark
    <3> QED BY <2>10, <3>1, <3>2, <3>3 DEF Unmark
  <2> QED BY <1>7, <2>1, <2>2, <2>3, <2>4, <2>5, <2>6, <2>7, <2>8, <2>9, <2>10 DEF FileStep
<1>8. CASE Reset
  <2>1. empty' \subseteq Files
    <3>1. CASE logging
      <4>1. Csv(recorded) \in Files
        BY <3>1, FileRange DEF IInv, CustodyInv
      <4> QED BY <1>8, <4>1 DEF Reset
    <3>2. CASE ~logging
      BY <1>8, <3>2 DEF Reset
    <3> QED BY <3>1, <3>2
  <2>2. faults' \in 0..MaxFaults /\ excuses' \in Nat
    BY <1>8, FaultType DEF Reset
  <2>3. st' \in [Workers -> Labels] /\ cur' \in [Workers -> Files \union {NoFile}]
    BY <1>8, <1>a DEF Reset
  <2>4. uid' \in [Workers -> 0..Len(uploads)]
    BY <1>8 DEF Reset
  <2>5. /\ walking' = {} /\ mixed' = {} /\ sdMutex' = Free
        /\ logging' = FALSE /\ trigger' = FALSE /\ uploading' = FALSE
        /\ UNCHANGED <<recorded, card, marked, uploads>>
    BY <1>8 DEF Reset
  <2> QED BY <2>1, <2>2, <2>3, <2>4, <2>5
<1>9. CASE UNCHANGED vars BY <1>9 DEF vars
<1> QED BY <1>1, <1>2, <1>3, <1>4, <1>5, <1>6, <1>7, <1>8, <1>9 DEF Next

-----------------------------------------------------------------------------
(* Custody is kept by every step.                                          *)

(* A step that leaves the server's records alone and puts no further worker
   in flight keeps what is firm. *)
LEMMA QuietKept ==
  ASSUME TypeOK, NEW w \in Workers, Local(w), empty \subseteq empty', uploads' = uploads,
         st'[w] \in {"put", "patch"} => st[w] \in {"put", "patch"} /\ uid'[w] = uid[w]
  PROVE  Kept
<1>0. Len(uploads) \in Nat
  BY DEF TypeOK
<1>1. ASSUME NEW i \in 1..Len(uploads), ~InFlight(i) PROVE ~InFlight(i)'
  BY <1>1 DEF InFlight, Local
<1> QED BY <1>0, <1>1 DEF Kept

(* The step of a worker that touches neither the card nor the records and does
   not get past the POST. *)
LEMMA QuietStep ==
  ASSUME IInv, TypeOK', NEW w \in Workers, Local(w),
         st'[w] \in {"idle", "connect", "walk", "post"},
         st'[w] = "post" => cur'[w] \in Files,
         UNCHANGED <<recorded, logging, cardVars, uploads>>
  PROVE  CustodyInv'
<1>1. Kept
  BY QuietKept DEF IInv, cardVars
<1>2. /\ st'[w] \in Busy => cur'[w] \in Files
      /\ st'[w] \notin {"put", "patch", "mark", "unlink", "unmark"}
      /\ marked' = marked /\ card' = card /\ (logging' => recorded' > 0)
  BY DEF Busy, cardVars, IInv, CustodyInv
<1> QED BY <1>1, <1>2, StepCustody

LEMMA CustodyStep == IInv /\ [Next]_vars => CustodyInv'
<1> SUFFICES ASSUME IInv, [Next]_vars PROVE CustodyInv'
  OBVIOUS
<1>0. TypeOK' /\ TypeOK
  BY TypeStep DEF IInv
<1>t. /\ st \in [Workers -> Labels] /\ cur \in [Workers -> Files \union {NoFile}]
      /\ uid \in [Workers -> 0..Len(uploads)] /\ Len(uploads) \in Nat
      /\ uploads \in Seq(Upload) /\ recorded \in Nat
  BY <1>0 DEF TypeOK, Upload
<1>a. "task" \in Workers /\ "console" \in Workers
  BY DEF Workers
<1>b. \A w \in Workers :
        /\ st[w] \in Busy => cur[w] \in Files
        /\ st[w] \in {"put", "patch"} =>
             uid[w] \in 1..Len(uploads) /\ uploads[uid[w]].file = cur[w]
        /\ st[w] \in {"mark", "unlink", "unmark"} => Firm(cur[w])
  BY DEF IInv, CustodyInv
<1>c. logging => recorded > 0
  BY DEF IInv, CustodyInv
<1> USE DEF recVars, cardVars, workVars
<1>1. CASE StartRecording
  <2>1. /\ \A f : Firm(f) => Firm(f)'
        /\ UNCHANGED <<st, cur, uid, uploads, marked>>
    BY <1>1 DEF StartRecording, Firm, InFlight
  <2>2. \A f \in 1..(2 * recorded') : f \notin card' => f \in 1..(2 * recorded) /\ f \notin card
    BY <1>1, <1>t DEF StartRecording, BoatTag, Csv
  <2>3. recorded' > 0
    BY <1>1, <1>t DEF StartRecording
  <2>4. \A w \in Workers : st'[w] \in {"mark", "unlink", "unmark"} => Firm(cur[w])'
    BY <1>b, <1>1 DEF StartRecording, Firm, InFlight
  <2> QED BY <1>b, <2>1, <2>2, <2>3, <2>4 DEF IInv, CustodyInv
<1>2. CASE StopRecording
  BY <1>2 DEF StopRecording, IInv, CustodyInv, Firm, InFlight
<1>3. CASE TaskStep
  <2>1. CASE TaskGate
    BY <1>0, <1>a, <1>t, <2>1, QuietStep DEF TaskGate, Local
  <2>2. CASE TaskGiveUp
    BY <1>0, <1>a, <1>t, <2>2, QuietStep DEF TaskGiveUp, Local
  <2>3. CASE TaskStart
    BY <1>0, <1>a, <1>t, <2>3, QuietStep DEF TaskStart, Local
  <2> QED BY <1>3, <2>1, <2>2, <2>3 DEF TaskStep
<1>4. CASE ConsoleStart
  BY <1>0, <1>a, <1>t, <1>4, QuietStep DEF ConsoleStart, Local
<1>5. ASSUME NEW f \in Files, Tidy(f) PROVE CustodyInv'
  <2>1. /\ Local("console") /\ uploads' = uploads /\ empty' = empty
        /\ st'["console"] = "unlink" /\ cur'["console"] = f /\ f \in marked
        /\ UNCHANGED <<recorded, logging, card, marked>>
    BY <1>5, <1>a, <1>t DEF Tidy, Local
  <2>2. Kept
    BY <1>0, <1>a, <2>1, QuietKept
  <2>3. Firm(f)'
    BY <1>0, <2>1, <2>2, KeptFirm DEF IInv, CustodyInv
  <2>4. Firm(cur["console"])'
    BY <2>1, <2>3 DEF Firm, InFlight
  <2> QED BY <1>0, <1>a, <1>c, <2>1, <2>2, <2>4, StepCustody
<1>6. ASSUME NEW w \in Workers, WalkStep(w) PROVE CustodyInv'
  <2>1. CASE EndWalk(w)
    BY <1>0, <1>t, <2>1, QuietStep DEF EndWalk, Local
  <2>2. ASSUME NEW f \in Files, Visit(w, f) PROVE CustodyInv'
    <3>1. /\ Local(w) /\ uploads' = uploads /\ cur'[w] = f
          /\ UNCHANGED <<recorded, logging, card, empty, marked>>
          /\ st'[w] = IF f \in empty THEN "mark" ELSE "post"
      BY <1>t, <2>2 DEF Visit, Local
    <3>2. CASE f \notin empty
      BY <1>0, <3>1, <3>2, QuietStep
    <3>3. CASE f \in empty
      <4>1. Kept
        BY <1>0, <3>1, <3>3, QuietKept
      <4>2. Firm(cur[w])'
        BY <3>1, <3>3 DEF Firm
      <4> QED BY <1>0, <1>c, <3>1, <3>3, <4>1, <4>2, StepCustody
    <3> QED BY <3>2, <3>3
  <2>3. ASSUME NEW f \in Files, SkipFile(w, f) PROVE CustodyInv'
    BY <1>0, <1>t, <2>3, QuietStep DEF SkipFile, Local
  <2>4. ASSUME NEW f \in Files, LeaveDirectory(w, f) PROVE CustodyInv'
    BY <1>0, <1>t, <2>4, QuietStep DEF LeaveDirectory, Local
  <2> QED BY <1>6, <2>1, <2>2, <2>3, <2>4 DEF WalkStep
<1>7. ASSUME NEW w \in Workers, FileStep(w) PROVE CustodyInv'
  <2>1. CASE Post(w)
    <3>1. /\ Len(uploads') = Len(uploads) + 1
          /\ \A i \in 1..Len(uploads) : uploads'[i] = uploads[i]
          /\ uploads'[Len(uploads) + 1].file = cur[w]
      BY <1>b, <1>t, <2>1, NewUploadType, AppendUpload DEF Post, Busy
    <3>2. /\ Local(w) /\ cur'[w] = cur[w] /\ st'[w] = "put"
          /\ uid'[w] = Len(uploads) + 1
          /\ UNCHANGED <<recorded, logging, card, marked, empty>>
      BY <1>t, <2>1 DEF Post, Local
    <3>3. \A i \in 1..Len(uploads) : ~InFlight(i) => ~InFlight(i)'
      BY <1>t, <3>2 DEF InFlight, Local
    <3>4. Kept
      BY <1>t, <3>1, <3>2, <3>3 DEF Kept
    <3>5. /\ uid'[w] \in 1..Len(uploads') /\ uploads'[uid'[w]].file = cur'[w]
          /\ \A v \in Workers : v # w /\ st[v] \in {"put", "patch"} => uid[v] # uid'[w]
      BY <1>b, <1>t, <3>1, <3>2
    <3>6. cur'[w] \in Files
      BY <1>b, <2>1, <3>2 DEF Post, Busy
    <3> QED BY <1>0, <1>c, <3>2, <3>4, <3>5, <3>6, StepCustody
  <2>2. CASE PostFails(w)
    <3>1. /\ Local(w) /\ st'[w] \in {"walk", "idle"}
          /\ UNCHANGED <<recorded, logging, card, marked, empty>>
      BY <1>t, <2>2 DEF PostFails, Local, Resume
    <3>2. /\ Len(uploads') >= Len(uploads) /\ Len(uploads') \in Nat
          /\ \A i \in 1..Len(uploads) : uploads'[i] = uploads[i]
      <4>1. CASE UNCHANGED uploads BY <1>t, <4>1
      <4>2. CASE uploads' = Append(uploads, NewUpload(w))
        BY <1>b, <1>t, <2>2, <4>2, NewUploadType, AppendUpload DEF PostFails, Busy
      <4> QED BY <2>2, <4>1, <4>2 DEF PostFails
    <3>3. \A i \in 1..Len(uploads) : ~InFlight(i) => ~InFlight(i)'
      BY <3>1 DEF InFlight, Local
    <3>4. Kept
      BY <1>t, <3>1, <3>2, <3>3 DEF Kept
    <3> QED BY <1>0, <1>c, <3>1, <3>4, StepCustody DEF Busy
  <2>3. CASE Put(w) \/ PutAckLost(w)
    <3>0. At(w, "put") /\ Stored(w)
      BY <2>3 DEF Put, PutAckLost
    <3>1. /\ Len(uploads') = Len(uploads)
          /\ \A i \in 1..Len(uploads) : i # uid[w] => uploads'[i] = uploads[i]
          /\ uid[w] \in 1..Len(uploads)
          /\ uploads'[uid[w]].file = cur[w] /\ uploads'[uid[w]].status = "stored"
      BY <3>0, StoredStep
    <3>2. /\ Local(w) /\ cur'[w] = cur[w] /\ uid'[w] = uid[w] /\ st'[w] \in {"mark", "patch"}
          /\ UNCHANGED <<recorded, logging, card, marked, empty>>
      BY <1>t, <2>3 DEF Put, PutAckLost, Local
    <3>3. \A i \in 1..Len(uploads) : ~InFlight(i) => i # uid[w] /\ ~InFlight(i)'
      BY <3>0, <3>2 DEF InFlight, Local
    <3>4. Kept
      BY <1>b, <1>t, <3>0, <3>1, <3>2, <3>3 DEF Kept
    <3>5. st'[w] = "mark" => ~InFlight(uid[w])'
      BY <3>0, <3>2 DEF InFlight, Local, IInv, CustodyInv
    <3>6. st'[w] = "mark" => Firm(cur[w])'
      BY <1>t, <3>1, <3>2, <3>5 DEF Firm, InFlight
    <3>7. /\ uid'[w] \in 1..Len(uploads') /\ uploads'[uid'[w]].file = cur'[w]
          /\ \A v \in Workers : v # w /\ st[v] \in {"put", "patch"} => uid[v] # uid'[w]
      BY <3>0, <3>1, <3>2 DEF IInv, CustodyInv
    <3>8. cur'[w] \in Files
      BY <1>b, <3>0, <3>2 DEF Busy
    <3> QED BY <1>0, <1>c, <3>2, <3>4, <3>6, <3>7, <3>8, StepCustody
  <2>4. CASE PutFails(w)
    <3>1. /\ Local(w) /\ cur'[w] = cur[w] /\ uid'[w] = uid[w] /\ st'[w] = "patch"
          /\ UNCHANGED <<recorded, logging, card, marked, empty, uploads>> /\ st[w] = "put"
      BY <1>t, <2>4 DEF PutFails, Local
    <3>2. Kept
      BY <1>0, <3>1, QuietKept
    <3>3. /\ uid'[w] \in 1..Len(uploads') /\ uploads'[uid'[w]].file = cur'[w]
          /\ \A v \in Workers : v # w /\ st[v] \in {"put", "patch"} => uid[v] # uid'[w]
      BY <3>1 DEF IInv, CustodyInv
    <3> QED BY <1>0, <1>b, <1>c, <3>1, <3>2, <3>3, StepCustody DEF Busy
  <2>5. CASE Patch(w)
    <3>1. uid[w] \in 1..Len(uploads) /\ st[w] = "patch"
      BY <1>b, <2>5 DEF Patch
    <3>2. /\ Len(uploads') = Len(uploads)
          /\ \A i \in 1..Len(uploads) : i # uid[w] => uploads'[i] = uploads[i]
          /\ uploads'[uid[w]].file = uploads[uid[w]].file
      BY <1>t, <2>5, <3>1, SetFailed DEF Patch
    <3>3. /\ Local(w) /\ st'[w] \in {"walk", "idle"}
          /\ UNCHANGED <<recorded, logging, card, marked, empty>>
      BY <1>t, <2>5 DEF Patch, Local, Resume
    <3>4. \A i \in 1..Len(uploads) : ~InFlight(i) => i # uid[w] /\ ~InFlight(i)'
      BY <3>1, <3>3 DEF InFlight, Local
    <3>5. Kept
      BY <1>t, <3>2, <3>3, <3>4 DEF Kept
    <3> QED BY <1>0, <1>c, <3>3, <3>5, StepCustody DEF Busy
  <2>6. CASE PatchLost(w)
    BY <1>0, <1>t, <2>6, QuietStep DEF PatchLost, Local, Resume
  <2>7. CASE Mark(w)
    <3>1. /\ Local(w) /\ cur'[w] = cur[w] /\ st'[w] \in {"unlink", "walk", "idle"}
          /\ UNCHANGED <<recorded, logging, card, empty, uploads>> /\ st[w] = "mark"
      BY <1>t, <2>7 DEF Mark, AfterMark, Resume, Local
    <3>2. Kept
      BY <1>0, <3>1, QuietKept
    <3>3. Firm(cur[w])'
      BY <1>b, <3>1 DEF Firm, InFlight, Local
    <3>4. \A f \in marked' : f \in marked \/ f = cur[w]
      BY <2>7 DEF Mark
    <3>5. \A f \in marked' : f \in marked \/ Firm(f)'
      BY <3>1, <3>3, <3>4 DEF Firm, InFlight
    <3> QED BY <1>0, <1>b, <1>c, <3>1, <3>2, <3>3, <3>5, StepCustody DEF Busy
  <2>8. CASE Unlink(w)
    <3>1. /\ Local(w) /\ cur'[w] = cur[w] /\ st'[w] = "unmark"
          /\ UNCHANGED <<recorded, logging, marked, empty, uploads>> /\ st[w] = "unlink"
      BY <1>t, <2>8 DEF Unlink, Local
    <3>2. Kept
      BY <1>0, <3>1, QuietKept
    <3>3. Firm(cur[w])'
      BY <1>b, <3>1 DEF Firm, InFlight, Local
    <3>4. \A f : f \notin card' => f \notin card \/ f = cur[w]
      BY <2>8 DEF Unlink
    <3>5. \A f \in 1..(2 * recorded') : f \notin card' =>
            (f \in 1..(2 * recorded) /\ f \notin card) \/ Firm(f)'
      BY <3>1, <3>3, <3>4 DEF Firm, InFlight
    <3> QED BY <1>0, <1>b, <1>c, <3>1, <3>2, <3>3, <3>5, StepCustody DEF Busy
  <2>9. CASE Unmark(w)
    <3>1. /\ Local(w) /\ st'[w] \in {"walk", "idle"}
          /\ UNCHANGED <<recorded, logging, card, empty, uploads>>
      BY <1>t, <2>9 DEF Unmark, Local, Resume
    <3>2. Kept
      BY <1>0, <3>1, QuietKept
    <3>3. marked' \subseteq marked
      BY <2>9 DEF Unmark
    <3> QED BY <1>0, <1>c, <3>1, <3>2, <3>3, StepCustody DEF Busy
  <2> QED BY <1>7, <2>1, <2>2, <2>3, <2>4, <2>5, <2>6, <2>7, <2>8, <2>9 DEF FileStep
<1>8. CASE Reset
  <2>1. /\ \A w \in Workers : st'[w] = "idle"
        /\ empty \subseteq empty' /\ logging' = FALSE
        /\ UNCHANGED <<recorded, card, marked, uploads>>
    BY <1>8 DEF Reset
  <2>2. \A f : Firm(f) => Firm(f)'
    BY <2>1 DEF Firm, InFlight
  <2> QED BY <2>1, <2>2 DEF IInv, CustodyInv, Busy
<1>9. CASE UNCHANGED vars
  BY <1>9 DEF vars, IInv, CustodyInv, Firm, InFlight
<1> QED BY <1>1, <1>2, <1>3, <1>4, <1>5, <1>6, <1>7, <1>8, <1>9 DEF Next

LEMMA Invariance == Spec => []IInv
<1>1. Init => IInv
  <2> SUFFICES ASSUME Init PROVE IInv
    OBVIOUS
  <2>1. TypeOK
    <3>1. uploads \in Seq(Upload) /\ Len(uploads) = 0
      BY DEF Init
    <3>2. /\ st \in [Workers -> Labels] /\ cur \in [Workers -> Files \union {NoFile}]
          /\ uid \in [Workers -> 0..Len(uploads)]
      BY <3>1 DEF Init, Labels
    <3>3. recorded \in 0..NumSessions /\ faults \in 0..MaxFaults /\ excuses \in Nat
      BY ConstantTypes DEF Init
    <3>4. /\ {logging, trigger, uploading} \subseteq BOOLEAN /\ sdMutex \in {"task", Free}
          /\ card = {} /\ empty = {} /\ marked = {} /\ walking = {} /\ mixed = {}
      BY DEF Init
    <3> QED BY <3>1, <3>2, <3>3, <3>4 DEF TypeOK, Upload
  <2>2. CustodyInv
    BY ConstantTypes DEF Init, CustodyInv, Busy
  <2> QED BY <2>1, <2>2 DEF IInv
<1>2. IInv /\ [Next]_vars => IInv'
  BY TypeStep, CustodyStep DEF IInv
<1> QED BY <1>1, <1>2, PTL DEF Spec

(* The card, the records and the workers keep their ranges. *)
THEOREM TypeCorrect == Spec => []TypeOK
BY Invariance, PTL DEF IInv

(* However the task and the two console commands interleave and whatever
   fails, a file is never given up before the server accepted it, and nothing
   another worker reports takes that back. *)
THEOREM AcceptedFirst == Spec => []AcceptedBeforeGone
<1>1. IInv => AcceptedBeforeGone
  <2> SUFFICES ASSUME IInv, NEW f \in 1..(2 * recorded), f \notin Pending, f \notin empty
               PROVE  \E i \in DOMAIN uploads :
                        uploads[i].file = f /\ uploads[i].status = "stored"
    BY DEF AcceptedBeforeGone
  <2>1. Firm(f)
    BY DEF IInv, CustodyInv, Pending
  <2>2. DOMAIN uploads = 1..Len(uploads)
    BY DEF IInv, TypeOK
  <2> QED BY <2>1, <2>2 DEF Firm
<1> QED BY <1>1, Invariance, PTL

-----------------------------------------------------------------------------
(* With the task as the only uploader no two bodies share the buffer.      *)

SoloInv ==
  /\ st["console"] \in {"idle", "unlink", "unmark"} /\ "console" \notin walking
  /\ mixed = {}
  /\ \A i \in 1..Len(uploads) : uploads[i].status = "stored" => uploads[i].intact

LEMMA SoloStep ==
  ASSUME ~ConsoleUploads, IInv, SoloInv, [Next]_vars
  PROVE  SoloInv'
<1>t. /\ st \in [Workers -> Labels] /\ Workers = {"task", "console"}
      /\ uploads \in Seq(Upload) /\ Len(uploads) \in Nat
  BY DEF IInv, TypeOK, Upload, Workers
<1>b. \A w \in Workers : st[w] \in {"put", "patch"} => uid[w] \in 1..Len(uploads)
  BY DEF IInv, CustodyInv
<1>c. \A w \in Workers : st[w] \in Busy => cur[w] \in Files
  BY DEF IInv, CustodyInv
<1> USE <1>t DEF recVars, cardVars, workVars, SoloInv
<1>1. CASE StartRecording BY <1>1 DEF StartRecording
<1>2. CASE StopRecording BY <1>2 DEF StopRecording
<1>3. CASE TaskStep BY <1>3 DEF TaskStep, TaskGate, TaskGiveUp, TaskStart
<1>4. CASE ConsoleStart BY <1>4 DEF ConsoleStart
<1>5. ASSUME NEW f \in Files, Tidy(f) PROVE SoloInv' BY <1>5 DEF Tidy
<1>6. ASSUME NEW w \in Workers, WalkStep(w) PROVE SoloInv'
  BY <1>6 DEF WalkStep, EndWalk, Visit, SkipFile, LeaveDirectory
<1>7. ASSUME NEW w \in Workers, FileStep(w) PROVE SoloInv'
  <2>1. CASE Post(w)
    <3>1. w = "task" /\ ~Overlaps(w)
      BY <2>1 DEF Post, Overlaps
    <3>2. /\ Len(uploads') = Len(uploads) + 1
          /\ \A i \in 1..Len(uploads) : uploads'[i] = uploads[i]
          /\ uploads'[Len(uploads) + 1].status = "open"
      BY <1>c, <2>1, NewUploadType, AppendUpload DEF Post, Busy
    <3> QED BY <2>1, <3>1, <3>2 DEF Post
  <2>2. CASE PostFails(w)
    <3>1. w = "task"
      BY <2>2 DEF PostFails
    <3>2. UNCHANGED <<walking, mixed>> /\ st'["console"] = st["console"]
      BY <2>2, <3>1 DEF PostFails, Resume
    <3>3. \A i \in 1..Len(uploads') : uploads'[i].status = "stored" => uploads'[i].intact
      <4>1. CASE UNCHANGED uploads BY <4>1
      <4>2. CASE uploads' = Append(uploads, NewUpload(w))
        <5>1. /\ Len(uploads') = Len(uploads) + 1
              /\ \A i \in 1..Len(uploads) : uploads'[i] = uploads[i]
              /\ uploads'[Len(uploads) + 1].status = "open"
          BY <1>c, <2>2, <4>2, NewUploadType, AppendUpload DEF PostFails, Busy
        <5> QED BY <5>1
      <4> QED BY <2>2, <4>1, <4>2 DEF PostFails
    <3> QED BY <3>2, <3>3
  <2>3. CASE Put(w) \/ PutAckLost(w)
    <3>0. At(w, "put") /\ Stored(w) /\ w = "task"
      BY <2>3 DEF Put, PutAckLost
    <3>1. /\ Len(uploads') = Len(uploads)
          /\ \A i \in 1..Len(uploads) : i # uid[w] => uploads'[i] = uploads[i]
          /\ uploads'[uid[w]].intact
      BY <3>0, StoredStep
    <3>2. UNCHANGED <<walking, mixed>> /\ st'["console"] = st["console"]
      BY <2>3, <3>0 DEF Put, PutAckLost
    <3> QED BY <3>1, <3>2
  <2>4. CASE PutFails(w) BY <2>4 DEF PutFails
  <2>5. CASE Patch(w)
    <3>1. w = "task" /\ uid[w] \in 1..Len(uploads)
      BY <1>b, <2>5 DEF Patch
    <3>2. /\ Len(uploads') = Len(uploads)
          /\ \A i \in 1..Len(uploads) : i # uid[w] => uploads'[i] = uploads[i]
          /\ uploads'[uid[w]].status = "failed"
      BY <2>5, <3>1, SetFailed DEF Patch
    <3>3. UNCHANGED <<walking, mixed>> /\ st'["console"] = st["console"]
      BY <2>5, <3>1 DEF Patch, Resume
    <3> QED BY <3>2, <3>3
  <2>6. CASE PatchLost(w) BY <2>6 DEF PatchLost, Resume
  <2>7. CASE Mark(w) BY <2>7 DEF Mark, AfterMark, Resume
  <2>8. CASE Unlink(w) BY <2>8 DEF Unlink
  <2>9. CASE Unmark(w) BY <2>9 DEF Unmark, Resume
  <2> QED BY <1>7, <2>1, <2>2, <2>3, <2>4, <2>5, <2>6, <2>7, <2>8, <2>9 DEF FileStep
<1>8. CASE Reset BY <1>8 DEF Reset
<1>9. CASE UNCHANGED vars BY <1>9 DEF vars
<1> QED BY <1>1, <1>2, <1>3, <1>4, <1>5, <1>6, <1>7, <1>8, <1>9 DEF Next

(* With one uploader no sailing data is lost, wherever a reset, a refused
   request, a lost answer or a card error falls. *)
THEOREM NoLoss ==
  ASSUME ~ConsoleUploads
  PROVE  Spec => []NothingLost
<1>1. Init => SoloInv
  BY DEF Init, SoloInv, Workers
<1>2. IInv /\ SoloInv /\ [Next]_vars => SoloInv'
  BY SoloStep
<1>3. IInv /\ SoloInv => NothingLost
  <2> SUFFICES ASSUME IInv, SoloInv, NEW f \in 1..(2 * recorded), f \notin Pending,
                      f \notin empty
               PROVE  Safe(f)
    BY DEF NothingLost
  <2>1. Firm(f)
    BY DEF IInv, CustodyInv, Pending
  <2>2. DOMAIN uploads = 1..Len(uploads)
    BY DEF IInv, TypeOK
  <2> QED BY <2>1, <2>2 DEF Firm, Safe, SoloInv
<1> QED BY <1>1, <1>2, <1>3, Invariance, PTL DEF Spec

-----------------------------------------------------------------------------
(* Uploads, the card and the workers speak of recorded sessions only.      *)

Known == 1..(2 * recorded)

ScopeInv ==
  /\ card \subseteq Known /\ marked \subseteq Known
  /\ \A i \in 1..Len(uploads) : uploads[i].file \in Known
  /\ \A w \in Workers : st[w] \in Busy => cur[w] \in Known

LEMMA KnownFiles ==
  ASSUME TypeOK
  PROVE  Known \subseteq Files
BY ConstantTypes DEF TypeOK, Known, Files

(* What has to be shown of a step of worker w. *)
LEMMA StepScope ==
  ASSUME TypeOK, ScopeInv, NEW w \in Workers, Local(w), recorded' = recorded,
         card' \subseteq card, marked' \subseteq marked \union Known,
         \A i \in 1..Len(uploads') : uploads'[i].file \in Known,
         st'[w] \in Busy => cur'[w] \in Known
  PROVE  ScopeInv'
BY DEF ScopeInv, Local, Known

LEMMA ScopeStep ==
  ASSUME IInv, ScopeInv, [Next]_vars
  PROVE  ScopeInv'
<1>t. /\ TypeOK /\ st \in [Workers -> Labels] /\ cur \in [Workers -> Files \union {NoFile}]
      /\ uid \in [Workers -> 0..Len(uploads)] /\ Workers = {"task", "console"}
      /\ uploads \in Seq(Upload) /\ Len(uploads) \in Nat /\ recorded \in Nat
  BY ConstantTypes DEF IInv, TypeOK, Upload, Workers
<1>f. Known \subseteq Files
  BY <1>t, KnownFiles
<1>s. ScopeInv
  OBVIOUS
<1>k. recorded' = recorded => Known' = Known
  BY DEF Known
<1> USE <1>t DEF recVars, cardVars, workVars
<1>1. CASE StartRecording
  <2>1. /\ Known \subseteq Known' /\ BoatTag(recorded + 1) \in Known'
        /\ Csv(recorded + 1) \in Known'
    BY <1>1 DEF StartRecording, Known, BoatTag, Csv
  <2>2. /\ card' \subseteq Known' /\ marked' \subseteq Known'
    BY <1>1, <2>1 DEF StartRecording, ScopeInv
  <2> QED BY <1>1, <2>1, <2>2 DEF StartRecording, ScopeInv
<1>2. CASE StopRecording BY <1>2 DEF StopRecording, ScopeInv, Known
<1>3. CASE TaskStep
  BY <1>3 DEF TaskStep, TaskGate, TaskGiveUp, TaskStart, ScopeInv, Known, Busy
<1>4. CASE ConsoleStart BY <1>4 DEF ConsoleStart, ScopeInv, Known, Busy
<1>5. ASSUME NEW f \in Files, Tidy(f) PROVE ScopeInv'
  BY <1>5 DEF Tidy, ScopeInv, Known, Busy
<1>6. ASSUME NEW w \in Workers, WalkStep(w) PROVE ScopeInv'
  <2>1. CASE EndWalk(w) BY <2>1 DEF EndWalk, ScopeInv, Known, Busy
  <2>2. ASSUME NEW f \in Files, Visit(w, f) PROVE ScopeInv'
    <3>1. /\ f \in Known /\ Local(w) /\ cur'[w] = f
          /\ UNCHANGED <<recorded, card, marked, uploads>>
      BY <2>2 DEF Visit, IsNext, Pending, ScopeInv, Local
    <3> QED BY <1>s, <3>1, StepScope DEF ScopeInv
  <2>3. ASSUME NEW f \in Files, SkipFile(w, f) \/ LeaveDirectory(w, f) PROVE ScopeInv'
    <3>1. /\ Local(w) /\ st'[w] = "walk"
          /\ UNCHANGED <<recorded, card, marked, uploads>>
      BY <2>3 DEF SkipFile, LeaveDirectory, Local
    <3> QED BY <1>s, <3>1, StepScope DEF ScopeInv, Busy
  <2> QED BY <1>6, <2>1, <2>2, <2>3 DEF WalkStep
<1>7. ASSUME NEW w \in Workers, FileStep(w) PROVE ScopeInv'
  <2>c. /\ cur[w] \in Known /\ cur[w] \in Files
    BY <1>7, <1>f DEF ScopeInv, FileStep, Post, PostFails, Put, PutFails, PutAckLost,
       Patch, PatchLost, Mark, Unlink, Unmark, Busy
  <2>1. CASE Post(w) \/ PostFails(w)
    <3>1. /\ Local(w) /\ cur'[w] = cur[w]
          /\ UNCHANGED <<recorded, card, marked>>
      BY <2>1 DEF Post, PostFails, Resume, Local
    <3>2. \A i \in 1..Len(uploads') : uploads'[i].file \in Known
      <4>1. CASE UNCHANGED uploads BY <4>1 DEF ScopeInv
      <4>2. CASE uploads' = Append(uploads, NewUpload(w))
        <5>1. /\ Len(uploads') = Len(uploads) + 1
              /\ \A i \in 1..Len(uploads) : uploads'[i] = uploads[i]
              /\ uploads'[Len(uploads) + 1].file = cur[w]
          BY <2>c, <4>2, NewUploadType, AppendUpload
        <5> QED BY <2>c, <5>1 DEF ScopeInv
      <4> QED BY <2>1, <4>1, <4>2 DEF Post, PostFails
    <3> QED BY <1>s, <2>c, <3>1, <3>2, StepScope
  <2>2. CASE Put(w) \/ PutAckLost(w)
    <3>1. At(w, "put") /\ Stored(w)
      BY <2>2 DEF Put, PutAckLost
    <3>2. /\ Len(uploads') = Len(uploads)
          /\ \A i \in 1..Len(uploads) : i # uid[w] => uploads'[i] = uploads[i]
          /\ uploads'[uid[w]].file = cur[w]
      BY <3>1, StoredStep
    <3>3. /\ Local(w) /\ cur'[w] = cur[w]
          /\ UNCHANGED <<recorded, card, marked>>
      BY <2>2 DEF Put, PutAckLost, Local
    <3>4. \A i \in 1..Len(uploads') : uploads'[i].file \in Known
      BY <2>c, <3>2 DEF ScopeInv
    <3> QED BY <1>s, <2>c, <3>3, <3>4, StepScope
  <2>3. CASE Patch(w)
    <3>1. uid[w] \in 1..Len(uploads)
      BY <2>3 DEF IInv, CustodyInv, Patch
    <3>2. /\ Len(uploads') = Len(uploads)
          /\ \A i \in 1..Len(uploads) : i # uid[w] => uploads'[i] = uploads[i]
          /\ uploads'[uid[w]].file = uploads[uid[w]].file
      BY <2>3, <3>1, SetFailed DEF Patch
    <3>3. /\ Local(w) /\ cur'[w] = cur[w]
          /\ UNCHANGED <<recorded, card, marked>>
      BY <2>3 DEF Patch, Resume, Local
    <3>4. \A i \in 1..Len(uploads') : uploads'[i].file \in Known
      BY <3>2 DEF ScopeInv
    <3> QED BY <1>s, <2>c, <3>3, <3>4, StepScope
  <2>4. CASE PutFails(w) \/ PatchLost(w) \/ Mark(w) \/ Unlink(w) \/ Unmark(w)
    <3>1. /\ Local(w) /\ UNCHANGED <<recorded, uploads>>
          /\ st'[w] \in Busy => cur'[w] = cur[w]
      BY <2>4 DEF PutFails, PatchLost, Mark, AfterMark, Unlink, Unmark, Resume, Local, Busy
    <3>2. card' \subseteq card /\ marked' \subseteq marked \union Known
      BY <2>c, <2>4 DEF PutFails, PatchLost, Mark, Unlink, Unmark
    <3> QED BY <1>s, <2>c, <3>1, <3>2, StepScope DEF ScopeInv
  <2> QED BY <1>7, <2>1, <2>2, <2>3, <2>4 DEF FileStep
<1>8. CASE Reset BY <1>8 DEF Reset, ScopeInv, Known, Busy
<1>9. CASE UNCHANGED vars BY <1>9 DEF vars, ScopeInv, Known
<1> QED BY <1>1, <1>2, <1>3, <1>4, <1>5, <1>6, <1>7, <1>8, <1>9 DEF Next

-----------------------------------------------------------------------------
(* Duplicates: how many further complete copies of a file may still come   *)
(* without another excuse.  One, if a walk has yet to send the file and no *)
(* accepted body of it awaits its marker or its PATCH; and one for each    *)
(* cleanup about to take the marker off a file it failed to delete.        *)

Working(f) == cur["task"] = f /\ st["task"] \in {"post", "put"}

JustStored(f) ==
  /\ cur["task"] = f
  /\ \/ st["task"] = "mark"
     \/ (st["task"] = "patch" /\ uploads[uid["task"]].status = "stored")

Due(f)     == Working(f) \/ (f \in Pending /\ ~JustStored(f))
Left(w, f) == st[w] = "unmark" /\ cur[w] = f /\ f \in card

DueCost(f)     == IF Due(f) THEN 1 ELSE 0
LeftCost(w, f) == IF Left(w, f) THEN 1 ELSE 0
Tokens(f) == DueCost(f) + LeftCost("task", f) + LeftCost("console", f)
Budget(f) == Cardinality(Copies(f)) + Tokens(f) <= 1 + excuses

BudgetInv == \A f \in Files : Budget(f)

LEMMA TokenTypes ==
  ASSUME NEW f
  PROVE  /\ DueCost(f) \in {0, 1} /\ DueCost(f)' \in {0, 1}
         /\ \A w \in Workers : LeftCost(w, f) \in {0, 1} /\ LeftCost(w, f)' \in {0, 1}
         /\ Tokens(f) \in Nat /\ Tokens(f)' \in Nat
BY DEF DueCost, LeftCost, Tokens, Workers

LEMMA TokenUp ==
  ASSUME NEW f
  PROVE  /\ (Due(f)' => Due(f)) => DueCost(f)' <= DueCost(f)
         /\ \A w \in Workers : (Left(w, f)' => Left(w, f))
                                => LeftCost(w, f)' <= LeftCost(w, f)
BY DEF DueCost, LeftCost

LEMMA CopiesCount ==
  ASSUME TypeOK, TypeOK', NEW f
  PROVE  /\ IsFiniteSet(Copies(f)) /\ Cardinality(Copies(f)) \in Nat
         /\ IsFiniteSet(Copies(f)') /\ Cardinality(Copies(f)') \in Nat
<1>1. /\ DOMAIN uploads = 1..Len(uploads) /\ Len(uploads) \in Nat
      /\ DOMAIN uploads' = 1..Len(uploads') /\ Len(uploads') \in Nat
  BY DEF TypeOK
<1>2. IsFiniteSet(1..Len(uploads)) /\ IsFiniteSet(1..Len(uploads'))
  BY <1>1, FS_Interval
<1>3. /\ Copies(f) \in SUBSET (1..Len(uploads))
      /\ Copies(f)' \in SUBSET (1..Len(uploads'))
  BY <1>1 DEF Copies
<1>4. IsFiniteSet(Copies(f)) /\ IsFiniteSet(Copies(f)')
  BY <1>2, <1>3, FS_Subset
<1> QED BY <1>4, FS_CardinalityType

(* The records of a file that count as complete, after a step. *)
LEMMA CopiesKept ==
  ASSUME TypeOK, TypeOK', NEW f, Copies(f)' \subseteq Copies(f)
  PROVE  Cardinality(Copies(f)') <= Cardinality(Copies(f))
BY CopiesCount, FS_Subset

LEMMA CopiesOneMore ==
  ASSUME TypeOK, TypeOK', NEW f, NEW n, Copies(f)' \subseteq Copies(f) \union {n}
  PROVE  Cardinality(Copies(f)') <= Cardinality(Copies(f)) + 1
<1> DEFINE S == Copies(f) \union {n}
<1>1. IsFiniteSet(Copies(f)) /\ Cardinality(Copies(f)) \in Nat
  BY CopiesCount
<1>2. IsFiniteSet(S) /\ Cardinality(S) <= Cardinality(Copies(f)) + 1
  BY <1>1, FS_AddElement
<1>3. Cardinality(Copies(f)') <= Cardinality(S)
  BY <1>2, FS_Subset
<1>4. Cardinality(S) \in Nat /\ Cardinality(Copies(f)') \in Nat
  BY <1>2, CopiesCount, FS_CardinalityType
<1> QED BY <1>1, <1>2, <1>3, <1>4

LEMMA CopiesOneLess ==
  ASSUME TypeOK, TypeOK', NEW f, NEW n \in Copies(f), Copies(f)' \subseteq Copies(f) \ {n}
  PROVE  Cardinality(Copies(f)') <= Cardinality(Copies(f)) - 1
<1> DEFINE S == Copies(f) \ {n}
<1>1. IsFiniteSet(Copies(f))
  BY CopiesCount
<1>2. IsFiniteSet(S) /\ Cardinality(S) = Cardinality(Copies(f)) - 1
  BY <1>1, FS_RemoveElement
<1> QED BY <1>2, FS_Subset

(* The four ways a step may go: no claim to a further copy arises; one does,
   but an excuse or a copy reported as failed pays for it; a copy comes that was
   due; a cleanup that left the file takes its marker. *)
Used(f) == Cardinality(Copies(f)) - excuses

LEMMA UsedType ==
  ASSUME TypeOK, TypeOK', NEW f
  PROVE  /\ Used(f) \in Int /\ Used(f)' \in Int
         /\ Budget(f) <=> Used(f) + Tokens(f) <= 1
         /\ Budget(f)' <=> Used(f)' + Tokens(f)' <= 1
<1>1. /\ Cardinality(Copies(f)) \in Nat /\ Cardinality(Copies(f)') \in Nat
      /\ excuses \in Nat /\ excuses' \in Nat
  BY CopiesCount DEF TypeOK
<1>2. Tokens(f) \in Nat /\ Tokens(f)' \in Nat
  BY TokenTypes DEF Tokens
<1> QED BY <1>1, <1>2 DEF Budget, Used

LEMMA NoGain ==
  ASSUME TypeOK, TypeOK', NEW f, Budget(f), Used(f)' <= Used(f),
         Due(f)' => Due(f), \A w \in Workers : Left(w, f)' => Left(w, f)
  PROVE  Budget(f)'
<1>1. DueCost(f)' <= DueCost(f)
  BY TokenUp
<1>2. /\ LeftCost("task", f)' <= LeftCost("task", f)
      /\ LeftCost("console", f)' <= LeftCost("console", f)
  BY TokenUp DEF Workers
<1> QED BY <1>1, <1>2, UsedType, TokenTypes DEF Tokens, Workers

LEMMA PaidDue ==
  ASSUME TypeOK, TypeOK', NEW f, Budget(f), Used(f)' <= Used(f) - 1,
         \A w \in Workers : Left(w, f)' => Left(w, f)
  PROVE  Budget(f)'
<1>1. DueCost(f)' <= DueCost(f) + 1
  BY TokenTypes
<1>2. /\ LeftCost("task", f)' <= LeftCost("task", f)
      /\ LeftCost("console", f)' <= LeftCost("console", f)
  BY TokenUp DEF Workers
<1> QED BY <1>1, <1>2, UsedType, TokenTypes DEF Tokens, Workers

LEMMA PaidLeft ==
  ASSUME TypeOK, TypeOK', NEW f, Budget(f), Used(f)' <= Used(f) - 1,
         Due(f)' => Due(f), NEW w \in Workers,
         \A v \in Workers : v # w => (Left(v, f)' => Left(v, f))
  PROVE  Budget(f)'
<1>1. DueCost(f)' <= DueCost(f)
  BY TokenUp
<1>2. LeftCost("task", f)' + LeftCost("console", f)'
        <= LeftCost("task", f) + LeftCost("console", f) + 1
  <2>1. CASE w = "task"
    <3>1. LeftCost("console", f)' <= LeftCost("console", f)
      BY <2>1, TokenUp DEF Workers
    <3> QED BY <3>1, TokenTypes DEF Workers
  <2>2. CASE w = "console"
    <3>1. LeftCost("task", f)' <= LeftCost("task", f)
      BY <2>2, TokenUp DEF Workers
    <3> QED BY <3>1, TokenTypes DEF Workers
  <2> QED BY <2>1, <2>2 DEF Workers
<1>3. Tokens(f)' <= Tokens(f) + 1 /\ Tokens(f) \in Int /\ Tokens(f)' \in Int
  BY <1>1, <1>2, TokenTypes DEF Tokens, Workers
<1> QED BY <1>3, UsedType

LEMMA Spent ==
  ASSUME TypeOK, TypeOK', NEW f, Budget(f), Used(f)' <= Used(f) + 1,
         Due(f), ~Due(f)', \A w \in Workers : Left(w, f)' => Left(w, f)
  PROVE  Budget(f)'
<1>1. DueCost(f) = 1 /\ DueCost(f)' = 0
  BY DEF DueCost, LeftCost
<1>2. /\ LeftCost("task", f)' <= LeftCost("task", f)
      /\ LeftCost("console", f)' <= LeftCost("console", f)
  BY TokenUp DEF Workers
<1>3. Tokens(f)' <= Tokens(f) - 1 /\ Tokens(f) \in Int /\ Tokens(f)' \in Int
  BY <1>1, <1>2, TokenTypes DEF Tokens, Workers
<1> QED BY <1>3, UsedType

LEMMA Unmarked ==
  ASSUME TypeOK, TypeOK', NEW f, Budget(f), Used(f)' <= Used(f),
         NEW w \in Workers, Left(w, f), ~Left(w, f)',
         \A v \in Workers : v # w => (Left(v, f)' => Left(v, f))
  PROVE  Budget(f)'
<1>1. DueCost(f)' <= DueCost(f) + 1
  BY TokenTypes
<1>3. LeftCost("task", f)' + LeftCost("console", f)' + 1
        <= LeftCost("task", f) + LeftCost("console", f)
  <2>1. CASE w = "task"
    <3>1. LeftCost("console", f)' <= LeftCost("console", f)
      BY <2>1, TokenUp DEF Workers
    <3>2. LeftCost("task", f) = 1 /\ LeftCost("task", f)' = 0
      BY <2>1 DEF LeftCost
    <3> QED BY <3>1, <3>2, TokenTypes DEF Workers
  <2>2. CASE w = "console"
    <3>1. LeftCost("task", f)' <= LeftCost("task", f)
      BY <2>2, TokenUp DEF Workers
    <3>2. LeftCost("console", f) = 1 /\ LeftCost("console", f)' = 0
      BY <2>2 DEF LeftCost
    <3> QED BY <3>1, <3>2, TokenTypes DEF Workers
  <2> QED BY <2>1, <2>2 DEF Workers
<1> QED BY <1>1, <1>3, UsedType, TokenTypes DEF Tokens, Workers

LEMMA SameUploads ==
  ASSUME TypeOK, TypeOK', NEW f, uploads' = uploads
  PROVE  Used(f)' = Used(f) + excuses - excuses'
<1>1. Copies(f)' = Copies(f)
  BY DEF Copies
<1> QED BY <1>1, CopiesCount DEF Used, TypeOK

(* A record just opened is no complete copy. *)
LEMMA OpenedUpload ==
  ASSUME TypeOK, TypeOK', NEW f, NEW w \in Workers, cur[w] \in Files,
         uploads' = Append(uploads, NewUpload(w))
  PROVE  Used(f)' = Used(f) + excuses - excuses'
<1>1. uploads \in Seq(Upload) /\ DOMAIN uploads = 1..Len(uploads)
  BY DEF TypeOK, Upload
<1>2. /\ uploads' \in Seq(Upload) /\ Len(uploads') = Len(uploads) + 1
      /\ \A i \in 1..Len(uploads) : uploads'[i] = uploads[i]
      /\ uploads'[Len(uploads) + 1].status = "open"
  BY <1>1, NewUploadType, AppendUpload
<1>3. Copies(f)' = Copies(f)
  <2>1. DOMAIN uploads' = 1..Len(uploads')
    BY <1>2
  <2>2. \A i \in 1..Len(uploads') : i \in 1..Len(uploads) \/ i = Len(uploads) + 1
    BY <1>1, <1>2
  <2> QED BY <1>1, <1>2, <2>1, <2>2 DEF Copies
<1> QED BY <1>3, CopiesCount DEF Used, TypeOK

(* A step of w that is no part of storing or cleaning up a file. *)
LEMMA QuietBudget ==
  ASSUME IInv, TypeOK', NEW f, Budget(f), NEW w \in Workers, Local(w),
         UNCHANGED <<card, marked, uploads>>, excuses' >= excuses,
         st[w] \notin {"mark", "patch"}, st'[w] \notin {"post", "put", "unmark"}
  PROVE  Budget(f)'
<1>1. TypeOK /\ excuses \in Nat /\ excuses' \in Nat
  BY DEF IInv, TypeOK
<1>2. Used(f)' <= Used(f)
  BY <1>1, SameUploads, UsedType
<1>3. Due(f)' => Due(f)
  BY DEF Due, Working, JustStored, Pending, Local, Workers
<1>4. \A v \in Workers : Left(v, f)' => Left(v, f)
  BY DEF Left, Local
<1> QED BY <1>1, <1>2, <1>3, <1>4, NoGain

LEMMA BudgetStep ==
  ASSUME ~ConsoleUploads, IInv, TypeOK', ScopeInv, SoloInv, BudgetInv, [Next]_vars
  PROVE  BudgetInv'
<1> SUFFICES ASSUME NEW f \in Files PROVE Budget(f)'
  BY DEF BudgetInv
<1>0. TypeOK /\ Budget(f)
  BY DEF IInv, BudgetInv
<1>t. /\ st \in [Workers -> Labels] /\ cur \in [Workers -> Files \union {NoFile}]
      /\ uid \in [Workers -> 0..Len(uploads)] /\ uploads \in Seq(Upload)
      /\ Len(uploads) \in Nat /\ DOMAIN uploads = 1..Len(uploads)
      /\ recorded \in Nat /\ excuses \in Nat /\ excuses' \in Nat
      /\ Workers = {"task", "console"}
  BY <1>0, ConstantTypes DEF TypeOK, Upload, Workers
<1>b. \A w \in Workers :
        /\ st[w] \in Busy => cur[w] \in Files
        /\ st[w] \in {"put", "patch"} => /\ uid[w] \in 1..Len(uploads)
                                         /\ uploads[uid[w]].file = cur[w]
  BY DEF IInv, CustodyInv
<1>c. st["console"] \in {"idle", "unlink", "unmark"}
  BY DEF SoloInv
<1> USE <1>t DEF recVars, cardVars, workVars
<1>1. CASE StartRecording
  <2>1. Used(f)' = Used(f)
    BY <1>0, <1>1, SameUploads, UsedType DEF StartRecording
  <2>2. CASE f \in Known
    <3>1. f \in card' => f \in card
      BY <1>1, <2>2 DEF StartRecording, Known, BoatTag, Csv
    <3>2. Due(f)' => Due(f)
      BY <1>1, <3>1 DEF StartRecording, Due, Working, JustStored, Pending
    <3>3. \A w \in Workers : Left(w, f)' => Left(w, f)
      BY <1>1, <3>1 DEF StartRecording, Left
    <3> QED BY <1>0, <2>1, <3>2, <3>3, NoGain, UsedType
  <2>3. CASE f \notin Known
    <3>1. Copies(f) = {}
      BY <2>3 DEF Copies, ScopeInv
    <3>2. Cardinality(Copies(f)) = 0
      BY <3>1, FS_EmptySet
    <3>3. Used(f)' <= 0
      BY <2>1, <3>2 DEF Used
    <3>4. \A w \in Workers : ~Left(w, f)'
      BY <1>1, <2>3 DEF StartRecording, Left, ScopeInv, Busy
    <3>5. Tokens(f)' <= 1
      BY <3>4, TokenTypes DEF Tokens, LeftCost
    <3> QED BY <1>0, <3>3, <3>5, UsedType, TokenTypes
  <2> QED BY <2>2, <2>3
<1>2. CASE StopRecording
  <2>1. UNCHANGED <<uploads, excuses, st, cur, uid, card, marked>>
    BY <1>2 DEF StopRecording
  <2> QED BY <2>1, <1>0, NoGain, SameUploads, UsedType
          DEF Due, Working, JustStored, Pending, Left
<1>3. CASE TaskStep
  <2>1. /\ Local("task") /\ UNCHANGED <<card, marked, uploads>> /\ excuses' >= excuses
        /\ st["task"] \in {"idle", "connect"} /\ st'["task"] \in {"idle", "connect", "walk"}
    BY <1>3 DEF TaskStep, TaskGate, TaskGiveUp, TaskStart, Fault, Local
  <2> QED BY <1>0, <2>1, QuietBudget
<1>4. CASE ConsoleStart BY <1>4 DEF ConsoleStart
<1>5. ASSUME NEW g \in Files, Tidy(g) PROVE Budget(f)'
  <2>1. /\ Local("console") /\ UNCHANGED <<card, marked, uploads, excuses>>
        /\ st["console"] = "idle" /\ st'["console"] = "unlink"
    BY <1>5 DEF Tidy, Local
  <2> QED BY <1>0, <2>1, QuietBudget
<1>6. ASSUME NEW w \in Workers, WalkStep(w) PROVE Budget(f)'
  <2>1. CASE EndWalk(w)
    <3>1. /\ Local(w) /\ UNCHANGED <<card, marked, uploads, excuses>>
          /\ st[w] = "walk" /\ st'[w] = "idle"
      BY <2>1 DEF EndWalk, Local
    <3> QED BY <1>0, <3>1, QuietBudget
  <2>2. ASSUME NEW g \in Files, SkipFile(w, g) \/ LeaveDirectory(w, g) PROVE Budget(f)'
    <3>1. /\ Local(w) /\ UNCHANGED <<card, marked, uploads>> /\ excuses' >= excuses
          /\ st[w] = "walk" /\ st'[w] = "walk"
      BY <2>2 DEF SkipFile, LeaveDirectory, Fault, Local
    <3> QED BY <1>0, <3>1, QuietBudget
  <2>3. ASSUME NEW g \in Files, Visit(w, g) PROVE Budget(f)'
    <3>1. /\ w = "task" /\ g \in Pending /\ st["task"] = "walk" /\ cur'["task"] = g
          /\ UNCHANGED <<card, marked, uploads, excuses>>
          /\ st'["task"] \in {"mark", "post"} /\ st'["console"] = st["console"]
          /\ cur'["console"] = cur["console"]
      BY <1>c, <2>3 DEF Visit, IsNext
    <3>2. Due(f)' => Due(f)
      BY <3>1 DEF Due, Working, JustStored, Pending
    <3>3. \A v \in Workers : Left(v, f)' => Left(v, f)
      BY <3>1 DEF Left
    <3> QED BY <1>0, <3>1, <3>2, <3>3, NoGain, SameUploads, UsedType
  <2> QED BY <1>6, <2>1, <2>2, <2>3 DEF WalkStep
<1>7. ASSUME NEW w \in Workers, FileStep(w) PROVE Budget(f)'
  <2>0. /\ w = "console" => st[w] \in {"unlink", "unmark"}
        /\ w = "task" \/ w = "console"
    BY <1>c, <1>7 DEF FileStep, Post, PostFails, Put, PutFails, PutAckLost, Patch, PatchLost,
                      Mark, Unlink, Unmark
  <2>1. CASE Post(w)
    <3>1. /\ w = "task" /\ Local(w) /\ cur'[w] = cur[w] /\ st[w] = "post" /\ st'[w] = "put"
          /\ UNCHANGED <<card, marked, excuses>> /\ uploads' = Append(uploads, NewUpload(w))
      BY <2>0, <2>1 DEF Post, Local
    <3>2. Used(f)' = Used(f)
      BY <1>0, <1>b, <3>1, OpenedUpload, UsedType DEF Busy
    <3>3. Due(f)' => Due(f)
      BY <3>1 DEF Due, Working, JustStored, Pending
    <3>4. \A v \in Workers : Left(v, f)' => Left(v, f)
      BY <3>1 DEF Left, Local
    <3> QED BY <1>0, <3>2, <3>3, <3>4, NoGain, UsedType
  <2>2. CASE PostFails(w)
    <3>1. /\ w = "task" /\ Local(w) /\ cur'[w] = cur[w] /\ st[w] = "post"
          /\ st'[w] \in {"walk", "idle"} /\ UNCHANGED <<card, marked>> /\ excuses' >= excuses
          /\ uploads' = uploads \/ uploads' = Append(uploads, NewUpload(w))
      BY <2>0, <2>2 DEF PostFails, Resume, Fault, Local
    <3>2. Used(f)' <= Used(f)
      BY <1>0, <1>b, <3>1, OpenedUpload, SameUploads, UsedType DEF Busy
    <3>3. Due(f)' => Due(f)
      BY <3>1 DEF Due, Working, JustStored, Pending
    <3>4. \A v \in Workers : Left(v, f)' => Left(v, f)
      BY <3>1 DEF Left, Local
    <3> QED BY <1>0, <3>2, <3>3, <3>4, NoGain
  <2>3. CASE Put(w) \/ PutAckLost(w)
    <3>0. At(w, "put") /\ Stored(w) /\ w = "task"
      BY <2>0, <2>3 DEF Put, PutAckLost
    <3>1. /\ Len(uploads') = Len(uploads) /\ uploads' \in Seq(Upload)
          /\ \A i \in 1..Len(uploads) : i # uid[w] => uploads'[i] = uploads[i]
          /\ uid[w] \in 1..Len(uploads)
          /\ uploads'[uid[w]].file = cur[w] /\ uploads'[uid[w]].status = "stored"
      BY <3>0, StoredStep
    <3>2. /\ Local(w) /\ cur'[w] = cur[w] /\ uid'[w] = uid[w] /\ st'[w] \in {"mark", "patch"}
          /\ UNCHANGED <<card, marked>> /\ excuses' >= excuses
      BY <2>3 DEF Put, PutAckLost, Fault, Local
    <3>3. \A v \in Workers : Left(v, f)' => Left(v, f)
      BY <3>2 DEF Left, Local
    <3>4. DOMAIN uploads' = 1..Len(uploads)
      BY <3>1
    <3>5. CASE f = cur[w]
      <4>1. Copies(f)' \subseteq Copies(f) \union {uid[w]}
        BY <3>1, <3>4 DEF Copies
      <4>2. Used(f)' <= Used(f) + 1
        <5>1. Cardinality(Copies(f)') <= Cardinality(Copies(f)) + 1
          BY <1>0, <4>1, CopiesOneMore
        <5> QED BY <1>0, <3>2, <5>1, CopiesCount DEF Used
      <4>3. Due(f) /\ ~Due(f)'
        BY <3>0, <3>1, <3>2, <3>5 DEF Due, Working, JustStored
      <4> QED BY <1>0, <3>3, <4>2, <4>3, Spent
    <3>6. CASE f # cur[w]
      <4>1. Copies(f)' \subseteq Copies(f)
        BY <3>1, <3>4, <3>6 DEF Copies
      <4>2. Used(f)' <= Used(f)
        BY <1>0, <3>2, <4>1, CopiesKept, CopiesCount DEF Used
      <4>3. Due(f)' => Due(f)
        BY <3>0, <3>2, <3>6 DEF Due, Working, JustStored, Pending
      <4> QED BY <1>0, <3>3, <4>2, <4>3, NoGain
    <3> QED BY <3>5, <3>6
  <2>4. CASE PutFails(w)
    <3>1. /\ w = "task" /\ Local(w) /\ cur'[w] = cur[w] /\ st[w] = "put" /\ st'[w] = "patch"
          /\ UNCHANGED <<card, marked, uploads>> /\ excuses' >= excuses
      BY <2>0, <2>4 DEF PutFails, Fault, Local
    <3>2. Due(f)' => Due(f)
      BY <3>1 DEF Due, Working, JustStored, Pending
    <3>3. \A v \in Workers : Left(v, f)' => Left(v, f)
      BY <3>1 DEF Left, Local
    <3> QED BY <1>0, <3>1, <3>2, <3>3, NoGain, SameUploads, UsedType
  <2>5. CASE Patch(w)
    <3>1. uid[w] \in 1..Len(uploads) /\ uploads[uid[w]].file = cur[w]
          /\ w = "task" /\ st[w] = "patch"
      BY <1>b, <2>0, <2>5 DEF Patch
    <3>2. /\ Len(uploads') = Len(uploads) /\ uploads' \in Seq(Upload)
          /\ \A i \in 1..Len(uploads) : i # uid[w] => uploads'[i] = uploads[i]
          /\ uploads'[uid[w]].status = "failed"
      BY <2>5, <3>1, SetFailed DEF Patch
    <3>3. /\ Local(w) /\ cur'[w] = cur[w] /\ st'[w] \in {"walk", "idle"}
          /\ UNCHANGED <<card, marked, excuses>>
      BY <2>5 DEF Patch, Resume, Local
    <3>4. \A v \in Workers : Left(v, f)' => Left(v, f)
      BY <3>3 DEF Left, Local
    <3>5. Copies(f)' \subseteq Copies(f) \ {uid[w]}
      BY <3>2 DEF Copies
    <3>6. CASE JustStored(f)
      <4>1. uid[w] \in Copies(f)
        BY <3>1, <3>6 DEF JustStored, Copies
      <4>2. Used(f)' <= Used(f) - 1
        BY <1>0, <3>3, <3>5, <4>1, CopiesOneLess, CopiesCount DEF Used
      <4> QED BY <1>0, <3>4, <4>2, PaidDue
    <3>7. CASE ~JustStored(f)
      <4>1. Used(f)' <= Used(f)
        BY <1>0, <3>3, <3>5, CopiesKept, CopiesCount DEF Used
      <4>2. Due(f)' => Due(f)
        BY <3>1, <3>3, <3>7 DEF Due, Working, Pending
      <4> QED BY <1>0, <3>4, <4>1, <4>2, NoGain
    <3> QED BY <3>6, <3>7
  <2>6. CASE PatchLost(w)
    <3>1. /\ w = "task" /\ Local(w) /\ cur'[w] = cur[w] /\ st'[w] \in {"walk", "idle"}
          /\ UNCHANGED <<card, marked, uploads>> /\ excuses' = excuses + 1
      BY <2>0, <2>6 DEF PatchLost, Resume, Fault, Uncompensated, Local
    <3>2. \A v \in Workers : Left(v, f)' => Left(v, f)
      BY <3>1 DEF Left, Local
    <3> QED BY <1>0, <3>1, <3>2, PaidDue, SameUploads, UsedType
  <2>7. CASE Mark(w)
    <3>1. /\ w = "task" /\ Local(w) /\ cur'[w] = cur[w] /\ st[w] = "mark"
          /\ st'[w] \in {"unlink", "walk", "idle"} /\ UNCHANGED <<card, uploads>>
      BY <2>0, <2>7 DEF Mark, AfterMark, Resume, Local
    <3>2. \A v \in Workers : Left(v, f)' => Left(v, f)
      BY <3>1 DEF Left, Local
    <3>3. CASE marked' = marked \union {cur[w]} /\ NoFault
      <4>1. Due(f)' => Due(f)
        BY <3>1, <3>3 DEF Due, Working, JustStored, Pending
      <4> QED BY <1>0, <3>1, <3>2, <3>3, <4>1, NoGain, SameUploads, UsedType
    <3>4. CASE Fault("marker") /\ UNCHANGED marked
      <4>1. excuses' = excuses + 1
        BY <3>4 DEF Fault, Uncompensated
      <4> QED BY <1>0, <3>1, <3>2, <4>1, PaidDue, SameUploads, UsedType
    <3> QED BY <2>7, <3>3, <3>4 DEF Mark
  <2>8. CASE Unlink(w)
    <3>1. /\ Local(w) /\ cur'[w] = cur[w] /\ st[w] = "unlink" /\ st'[w] = "unmark"
          /\ UNCHANGED <<marked, uploads>>
      BY <2>8 DEF Unlink, Local
    <3>2. CASE card' = card \ {cur[w]} /\ NoFault
      <4>1. Due(f)' => Due(f)
        BY <3>1, <3>2 DEF Due, Working, JustStored, Pending, Local
      <4>2. \A v \in Workers : Left(v, f)' => Left(v, f)
        BY <3>1, <3>2 DEF Left, Local
      <4> QED BY <1>0, <3>1, <3>2, <4>1, <4>2, NoGain, SameUploads, UsedType
    <3>3. CASE Fault("remove") /\ UNCHANGED card
      <4>1. excuses' = excuses + 1
        BY <3>3 DEF Fault, Uncompensated
      <4>2. Due(f)' => Due(f)
        BY <3>1, <3>3 DEF Due, Working, JustStored, Pending, Local
      <4>3. \A v \in Workers : v # w => (Left(v, f)' => Left(v, f))
        BY <3>1, <3>3 DEF Left, Local
      <4>4. Used(f)' <= Used(f) - 1
        BY <1>0, <3>1, <4>1, SameUploads, UsedType
      <4> QED BY <1>0, <4>2, <4>3, <4>4, PaidLeft
    <3> QED BY <2>8, <3>2, <3>3 DEF Unlink
  <2>9. CASE Unmark(w)
    <3>1. /\ Local(w) /\ st[w] = "unmark" /\ st'[w] \in {"walk", "idle"}
          /\ UNCHANGED <<card, uploads>>
      BY <2>9 DEF Unmark, Resume, Local
    <3>2. /\ \A v \in Workers : v # w => (Left(v, f)' => Left(v, f))
          /\ ~Left(w, f)'
      BY <3>1 DEF Left, Local
    <3>3. CASE marked' = marked \ {cur[w]} /\ NoFault
      <4>1. Used(f)' <= Used(f)
        BY <1>0, <3>1, <3>3, SameUploads, UsedType
      <4>2. CASE Left(w, f)
        BY <1>0, <3>2, <4>1, <4>2, Unmarked
      <4>3. CASE ~Left(w, f)
        <5>1. Due(f)' => Due(f)
          BY <3>1, <3>3, <4>3 DEF Due, Working, JustStored, Pending, Local, Left
        <5> QED BY <1>0, <3>2, <4>1, <5>1, NoGain
      <4> QED BY <4>2, <4>3
    <3>4. CASE Fault("remove") /\ UNCHANGED marked
      <4>1. excuses' = excuses + 1
        BY <3>4 DEF Fault, Uncompensated
      <4> QED BY <1>0, <3>1, <3>2, <4>1, PaidDue, SameUploads, UsedType
    <3> QED BY <2>9, <3>3, <3>4 DEF Unmark
  <2> QED BY <1>7, <2>1, <2>2, <2>3, <2>4, <2>5, <2>6, <2>7, <2>8, <2>9 DEF FileStep
<1>8. CASE Reset
  <2>1. /\ excuses' = excuses + 1 /\ uploads' = uploads
        /\ \A w \in Workers : st'[w] = "idle"
    BY <1>8 DEF Reset, Fault, Uncompensated
  <2>2. \A w \in Workers : ~Left(w, f)'
    BY <2>1 DEF Left
  <2> QED BY <1>0, <2>1, <2>2, PaidDue, SameUploads, UsedType
<1>9. CASE UNCHANGED vars
  <2>1. UNCHANGED <<uploads, excuses, st, cur, uid, card, marked>>
    BY <1>9 DEF vars
  <2> QED BY <2>1, <1>0, NoGain, SameUploads, UsedType
          DEF Due, Working, JustStored, Pending, Left
<1> QED BY <1>1, <1>2, <1>3, <1>4, <1>5, <1>6, <1>7, <1>8, <1>9 DEF Next

(* A session's files upload once: with the task as the only uploader, every
   further complete copy on the server is owed to a fault of its own that the
   protocol does not make up for. *)
THEOREM NoUnexplainedDuplicates ==
  ASSUME ~ConsoleUploads
  PROVE  Spec => []DuplicatesExplained
<1>1. Init => SoloInv
  BY DEF Init, SoloInv, Workers
<1>2. Init => ScopeInv /\ BudgetInv
  <2> SUFFICES ASSUME Init PROVE ScopeInv /\ BudgetInv
    OBVIOUS
  <2>1. ScopeInv
    BY DEF Init, ScopeInv, Busy
  <2>2. ASSUME NEW f PROVE Budget(f)
    <3>1. Copies(f) = {}
      BY DEF Init, Copies
    <3>2. ~Due(f) /\ ~Left("task", f) /\ ~Left("console", f)
      BY DEF Init, Due, Working, Pending, Left, Workers
    <3> QED BY <3>1, <3>2, FS_EmptySet DEF Init, Budget, Tokens, DueCost, LeftCost
  <2> QED BY <2>1, <2>2 DEF BudgetInv
<1>3. IInv /\ TypeOK' /\ ScopeInv /\ SoloInv /\ BudgetInv /\ [Next]_vars
        => (ScopeInv /\ SoloInv /\ BudgetInv)'
  BY ScopeStep, SoloStep, BudgetStep
<1>4. IInv /\ BudgetInv => DuplicatesExplained
  <2> SUFFICES ASSUME IInv, BudgetInv, NEW f \in Files
               PROVE  Cardinality(Copies(f)) <= 1 + excuses
    BY DEF DuplicatesExplained
  <2>1. DueCost(f) \in Nat /\ LeftCost("task", f) \in Nat /\ LeftCost("console", f) \in Nat
    BY DEF DueCost, LeftCost
  <2>2. IsFiniteSet(Copies(f))
    <3>1. DOMAIN uploads = 1..Len(uploads) /\ Len(uploads) \in Nat
      BY DEF IInv, TypeOK
    <3> QED BY <3>1, FS_Interval, FS_Subset DEF Copies
  <2>3. Cardinality(Copies(f)) \in Nat /\ excuses \in Nat
    BY <2>2, FS_CardinalityType DEF IInv, TypeOK
  <2> QED BY <2>1, <2>3 DEF BudgetInv, Budget, Tokens
<1> QED BY <1>1, <1>2, <1>3, <1>4, Invariance, TypeCorrect, PTL DEF Spec

-----------------------------------------------------------------------------
(* An upload that was opened without its session's override finds it on    *)
(* the server.                                                             *)

(* The boat tag of a session is never empty, and once an upload has missed it
   on the card it does not come back. *)
TagInv ==
  /\ \A s \in 1..NumSessions : BoatTag(s) \notin empty
  /\ \A i \in 1..Len(uploads) :
       ~uploads[i].tagged => BoatTag(Session(uploads[i].file)) \notin card

(* The tag of a recorded file's session is a recorded file too; a session that
   is recorded next has a tag of its own, and a CSV is no tag. *)
LEMMA TagOfFile ==
  ASSUME recorded \in Nat
  PROVE  /\ \A f \in Known : /\ BoatTag(Session(f)) \in Known
                            /\ BoatTag(Session(f)) # BoatTag(recorded + 1)
                            /\ BoatTag(Session(f)) # Csv(recorded + 1)
         /\ \A s \in Nat : BoatTag(s) # Csv(recorded)
BY DEF Known, BoatTag, Session, Csv

(* A step that opens no upload and adds nothing to the card keeps TagInv. *)
LEMMA TagKept ==
  ASSUME TagInv, empty' = empty, card' \subseteq card,
         Len(uploads') = Len(uploads),
         \A i \in 1..Len(uploads) : /\ uploads'[i].file = uploads[i].file
                                   /\ uploads'[i].tagged = uploads[i].tagged
  PROVE  TagInv'
BY DEF TagInv

LEMMA TagStep ==
  ASSUME IInv, ScopeInv, TagInv, [Next]_vars
  PROVE  TagInv'
<1>t. /\ TypeOK /\ st \in [Workers -> Labels] /\ cur \in [Workers -> Files \union {NoFile}]
      /\ uid \in [Workers -> 0..Len(uploads)] /\ Workers = {"task", "console"}
      /\ uploads \in Seq(Upload) /\ Len(uploads) \in Nat /\ recorded \in Nat
  BY ConstantTypes DEF IInv, TypeOK, Upload, Workers
<1>b. \A w \in Workers :
        /\ st[w] \in Busy => cur[w] \in Files
        /\ st[w] \in {"put", "patch"} => uid[w] \in 1..Len(uploads)
  BY DEF IInv, CustodyInv
<1> USE <1>t DEF recVars, cardVars, workVars
<1>1. CASE StartRecording
  <2>1. \A i \in 1..Len(uploads) : uploads[i].file \in Known
    BY DEF ScopeInv
  <2>2. card' = card \union {BoatTag(recorded + 1), Csv(recorded + 1)}
        /\ UNCHANGED <<empty, uploads>>
    BY <1>1 DEF StartRecording
  <2> QED BY <2>1, <2>2, TagOfFile DEF TagInv
<1>2. CASE StopRecording BY <1>2 DEF StopRecording, TagInv
<1>3. CASE TaskStep BY <1>3 DEF TaskStep, TaskGate, TaskGiveUp, TaskStart, TagInv
<1>4. CASE ConsoleStart BY <1>4 DEF ConsoleStart, TagInv
<1>5. ASSUME NEW f \in Files, Tidy(f) PROVE TagInv' BY <1>5 DEF Tidy, TagInv
<1>6. ASSUME NEW w \in Workers, WalkStep(w) PROVE TagInv'
  BY <1>6 DEF WalkStep, EndWalk, Visit, SkipFile, LeaveDirectory, TagInv
<1>7. ASSUME NEW w \in Workers, FileStep(w) PROVE TagInv'
  <2>1. CASE Post(w) \/ PostFails(w)
    <3>1. UNCHANGED <<card, empty>> /\ st[w] = "post"
      BY <2>1 DEF Post, PostFails
    <3>2. CASE UNCHANGED uploads BY <3>1, <3>2, TagKept
    <3>3. CASE uploads' = Append(uploads, NewUpload(w))
      <4>1. cur[w] \in Files
        BY <1>b, <3>1 DEF Busy
      <4>2. /\ NewUpload(w) \in Upload /\ NewUpload(w).file = cur[w]
            /\ ~NewUpload(w).tagged => BoatTag(Session(cur[w])) \notin card
        BY <4>1, NewUploadType DEF NewUpload
      <4>3. /\ Len(uploads') = Len(uploads) + 1
            /\ \A i \in 1..Len(uploads) : uploads'[i] = uploads[i]
            /\ uploads'[Len(uploads) + 1] = NewUpload(w)
        BY <3>3, <4>2, AppendUpload
      <4>4. ASSUME NEW i \in 1..Len(uploads'), ~uploads'[i].tagged
            PROVE  BoatTag(Session(uploads'[i].file)) \notin card
        <5>1. CASE i \in 1..Len(uploads) BY <4>3, <4>4, <5>1 DEF TagInv
        <5>2. CASE i = Len(uploads) + 1 BY <4>2, <4>3, <4>4, <5>2
        <5> QED BY <4>3, <5>1, <5>2
      <4> QED BY <3>1, <4>4 DEF TagInv
    <3> QED BY <2>1, <3>2, <3>3 DEF Post, PostFails
  <2>2. CASE Put(w) \/ PutAckLost(w)
    <3>1. uid[w] \in 1..Len(uploads) /\ uploads[uid[w]] \in Upload
      BY <1>b, <2>2 DEF Put, PutAckLost
    <3>2. PICK b \in BOOLEAN : uploads' = WithStored(uid[w], b)
      BY <2>2 DEF Put, PutAckLost, Stored, WithStored
    <3>3. WithStored(uid[w], b)[uid[w]].tagged = uploads[uid[w]].tagged
      BY <3>1 DEF WithStored, Upload
    <3>4. UNCHANGED <<card, empty>>
      BY <2>2 DEF Put, PutAckLost
    <3> QED BY <3>1, <3>2, <3>3, <3>4, SetStored, TagKept
  <2>3. CASE Patch(w)
    <3>1. uid[w] \in 1..Len(uploads) /\ uploads[uid[w]] \in Upload
      BY <1>b, <2>3 DEF Patch
    <3>2. uploads'[uid[w]].tagged = uploads[uid[w]].tagged
      BY <2>3, <3>1 DEF Patch, Upload
    <3>3. /\ Len(uploads') = Len(uploads) /\ uploads'[uid[w]].file = uploads[uid[w]].file
          /\ \A i \in 1..Len(uploads) : i # uid[w] => uploads'[i] = uploads[i]
      BY <2>3, <3>1, SetFailed DEF Patch
    <3>4. UNCHANGED <<card, empty>>
      BY <2>3 DEF Patch
    <3> QED BY <3>1, <3>2, <3>3, <3>4, TagKept
  <2>4. CASE PutFails(w) \/ PatchLost(w) \/ Mark(w) \/ Unlink(w) \/ Unmark(w)
    BY <2>4, TagKept DEF PutFails, PatchLost, Mark, Unlink, Unmark
  <2> QED BY <1>7, <2>1, <2>2, <2>3, <2>4 DEF FileStep
<1>8. CASE Reset
  <2>1. UNCHANGED <<card, uploads>> /\ empty' \subseteq empty \union {Csv(recorded)}
    BY <1>8 DEF Reset
  <2> QED BY <2>1, TagOfFile, ConstantTypes DEF TagInv
<1>9. CASE UNCHANGED vars BY <1>9 DEF vars, TagInv
<1> QED BY <1>1, <1>2, <1>3, <1>4, <1>5, <1>6, <1>7, <1>8, <1>9 DEF Next

(* The boat a session was recorded for is never lost: when either walker posts
   a file without it, because one of the two cleanups has removed boat_id.txt,
   the server has accepted boat_id.txt before and nothing takes that back. *)
THEOREM OverrideNeverLost == Spec => []OverrideRecoverable
<1>1. Init => ScopeInv /\ TagInv
  BY DEF Init, ScopeInv, TagInv, Busy
<1>2. IInv /\ ScopeInv /\ TagInv /\ [Next]_vars => (ScopeInv /\ TagInv)'
  BY ScopeStep, TagStep
<1>3. IInv /\ ScopeInv /\ TagInv => OverrideRecoverable
  <2> SUFFICES ASSUME IInv, ScopeInv, TagInv, NEW i \in DOMAIN uploads, ~uploads[i].tagged
               PROVE  \E j \in DOMAIN uploads :
                        /\ uploads[j].file = BoatTag(Session(uploads[i].file))
                        /\ uploads[j].status = "stored"
    BY DEF OverrideRecoverable
  <2>1. DOMAIN uploads = 1..Len(uploads) /\ recorded \in Nat /\ Known \subseteq Files
    BY ConstantTypes, KnownFiles DEF IInv, TypeOK
  <2> DEFINE f == uploads[i].file
  <2>2. f \in Known /\ f \in Files /\ Session(f) \in 1..NumSessions
    BY <2>1, FileRange DEF ScopeInv
  <2>3. BoatTag(Session(f)) \in Known \ (card \union empty)
    BY <2>1, <2>2, TagOfFile DEF TagInv
  <2>4. Firm(BoatTag(Session(f))) /\ BoatTag(Session(f)) \notin empty
    BY <2>3 DEF IInv, CustodyInv, Known
  <2> QED BY <2>1, <2>4 DEF Firm
<1> QED BY <1>1, <1>2, <1>3, Invariance, PTL DEF Spec
=============================================================================
