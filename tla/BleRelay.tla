------------------------------- MODULE BleRelay -------------------------------
(***************************************************************************)
(* The relay of pending files over Bluetooth: the phone reads the manifest *)
(* and, file by file, starts a transfer, collects the notified chunks,     *)
(* uploads them to the server and acknowledges.  On the device the NimBLE  *)
(* host task handles the writes and Core 1 sends the chunks; both work on  *)
(* the transfer's variables without a lock.  Core 0 may upload the same    *)
(* files over WiFi at the same time.                                       *)
(*                                                                         *)
(* A file is a row of chunks; the i-th chunk of file f is <<f, i>>.  The   *)
(* link keeps the order of notifications and answers, so a notification is *)
(* delivered as it is sent.                                                *)
(***************************************************************************)
EXTENDS Integers, FiniteSets

CONSTANTS
  NumFiles,    \* files recorded
  MaxChunks,   \* bound: chunks in a file
  MaxCalls,    \* bound: calls of uploadSessions
  MaxFaults,   \* bound: how often the link or a notification is lost
  AutoCleanup  \* auto_cleanup_uploads

ASSUME SizesAssumption == {NumFiles, MaxChunks} \subseteq Nat \ {0}
ASSUME CallsAssumption == {MaxCalls, MaxFaults} \subseteq Nat
ASSUME FlagsAssumption == AutoCleanup \in BOOLEAN

VARIABLES
  size,        \* chunks of each file, 0 until it is recorded
  recording,     \* the last file of size > 0 is being recorded
  present, marked,
  busy,        \* Core 0 holds sdMutex for an upload walk
  server,      \* what the server has under each file's name
  xfer,        \* s_xferFile and its read position; closed = not s_xferActive
  seq,         \* s_xferSeq
  haveConn,    \* s_haveConn
  subscribed,  \* notifications of session_data are enabled
  tick,        \* position of bleRelayTick
  buf,         \* the chunk it has read
  host,        \* position of the NimBLE task in startTransfer
  wanted,      \* startTransfer's argument
  doubt,       \* history: files whose last transfer the device cannot vouch for
  ph,          \* position of the phone in uploadSessions
  todo,        \* manifest entries left
  entry,       \* the one in work
  chunks,      \* chunks received, by sequence number
  calls, faults

cardVars  == <<size, recording, present, marked, busy>>
xferVars  == <<xfer, seq>>
coreVars  == <<tick, buf>>
hostVars  == <<host, wanted, doubt>>
phoneVars == <<todo, entry, chunks, calls>>
linkVars  == <<haveConn, subscribed>>
vars == <<cardVars, server, xferVars, coreVars, hostVars, linkVars, ph, phoneVars, faults>>

Files   == 1..NumFiles
Closed  == [file |-> 0, pos |-> 0]
NoEntry == [file |-> 0, size |-> 0]
NoChunk == <<0, 0>>
None    == -1         \* the server has nothing
Corrupt == -2         \* the server has bytes that are not a prefix of the file
Recorded == {f \in Files : size[f] > 0}
Pending  == present \ marked
NoFault  == UNCHANGED faults
Fault    == faults < MaxFaults /\ faults' = faults + 1

(* What the server has when these chunks are stored in the order of their
   sequence numbers, gaps or not, under f's name: how far f, or that it is not f. *)
Content(c, f) ==
  IF \A i \in DOMAIN c : c[i] = <<f, Cardinality({j \in DOMAIN c : j < i})>>
  THEN Cardinality(DOMAIN c) ELSE Corrupt

Init ==
  /\ size = [f \in Files |-> 0] /\ recording = FALSE
  /\ present = {} /\ marked = {} /\ busy = FALSE
  /\ server = [f \in Files |-> None]
  /\ xfer = Closed /\ seq = 0
  /\ haveConn = FALSE /\ subscribed = FALSE
  /\ tick = "idle" /\ buf = NoChunk
  /\ host = "idle" /\ wanted = 0 /\ doubt = {}
  /\ ph = "away" /\ todo = {} /\ entry = NoEntry /\ chunks = <<>>
  /\ calls = 0 /\ faults = 0

-----------------------------------------------------------------------------
(* Recording on Core 1 and the upload walk of Core 0.                      *)

StartRec ==
  LET f == Cardinality(Recorded) + 1
  IN /\ ~recording /\ ~busy /\ f \in Files
     /\ recording' = TRUE /\ size' = [size EXCEPT ![f] = 1] /\ present' = present \union {f}
     /\ UNCHANGED <<marked, busy, server, xferVars, coreVars, hostVars, linkVars, ph,
                    phoneVars, faults>>

LogRows ==
  LET f == Cardinality(Recorded)
  IN /\ recording /\ size[f] < MaxChunks
     /\ size' = [size EXCEPT ![f] = @ + 1]
     /\ UNCHANGED <<recording, present, marked, busy, server, xferVars, coreVars, hostVars,
                    linkVars, ph, phoneVars, faults>>

StopRec ==
  /\ recording /\ recording' = FALSE
  /\ UNCHANGED <<size, present, marked, busy, server, xferVars, coreVars, hostVars,
                 linkVars, ph, phoneVars, faults>>

(* markUploaded, then cleanupIfAutoDelete. *)
MarkAndClean(f) ==
  IF AutoCleanup THEN present' = present \ {f} /\ marked' = marked \ {f}
                 ELSE marked' = marked \union {f} /\ UNCHANGED present

WalkBegin ==
  /\ ~busy /\ ~recording /\ Pending # {}
  /\ busy' = TRUE
  /\ UNCHANGED <<size, recording, present, marked, server, xferVars, coreVars, hostVars,
                 linkVars, ph, phoneVars, faults>>

WalkUpload(f) ==
  /\ busy /\ f \in Pending
  /\ server' = [server EXCEPT ![f] = size[f]]
  /\ MarkAndClean(f)
  /\ UNCHANGED <<size, recording, busy, xferVars, coreVars, hostVars, linkVars, ph,
                 phoneVars, faults>>

(* A walk that leaves a file behind has failed. *)
WalkEnd ==
  /\ busy /\ busy' = FALSE
  /\ IF Pending = {} THEN NoFault ELSE Fault
  /\ UNCHANGED <<size, recording, present, marked, server, xferVars, coreVars, hostVars,
                 linkVars, ph, phoneVars>>

-----------------------------------------------------------------------------
(* bleRelayTick on Core 1, chunk by chunk.                                 *)

Active == xfer # Closed

TickCheck ==
  /\ tick = "idle" /\ Active /\ haveConn
  /\ IF xfer.pos >= size[xfer.file]
     THEN xfer' = Closed /\ UNCHANGED tick
     ELSE tick' = "read" /\ UNCHANGED xfer
  /\ UNCHANGED <<cardVars, server, seq, buf, hostVars, linkVars, ph, phoneVars, faults>>

(* The read is under the mutex, and of whatever file s_xferFile is by now.
   The directory entry of an open file may be gone; its data may still be read. *)
TickRead ==
  /\ tick = "read"
  /\ \/ busy /\ tick' = "idle" /\ UNCHANGED <<xfer, buf>>
     \/ /\ ~busy /\ Active /\ (Active => xfer.pos < size[xfer.file])
        /\ buf' = <<xfer.file, xfer.pos>> /\ xfer' = [xfer EXCEPT !.pos = @ + 1]
        /\ tick' = "send"
     \/ /\ ~busy /\ (xfer.file \in present => xfer.pos >= size[xfer.file])
        /\ tick' = "fail" /\ UNCHANGED <<xfer, buf>>
  /\ UNCHANGED <<cardVars, server, seq, hostVars, linkVars, ph, phoneVars, faults>>

(* The transfer closed here may be a later one than the read that failed. *)
TickFail ==
  /\ tick = "fail" /\ tick' = "idle"
  /\ xfer' = Closed
  /\ UNCHANGED <<cardVars, server, seq, buf, hostVars, linkVars, ph, phoneVars, faults>>

(* The chunk is numbered now, not when it was read.  Only a subscribed phone
   gets it, and only the callback of the transfer in work keeps it; notify's
   result is not looked at. *)
Hear(c) ==
  IF ph = "receive" /\ seq \notin DOMAIN chunks
  THEN chunks' = [i \in DOMAIN chunks \union {seq} |-> IF i = seq THEN c ELSE chunks[i]]
  ELSE UNCHANGED chunks

TickSend ==
  /\ tick = "send" /\ tick' = "idle" /\ buf' = NoChunk
  /\ seq' = seq + 1
  /\ \/ haveConn /\ subscribed /\ Hear(buf) /\ NoFault
     \/ ~(haveConn /\ subscribed) /\ UNCHANGED chunks /\ NoFault
     \/ haveConn /\ subscribed /\ UNCHANGED chunks /\ Fault
  /\ UNCHANGED <<cardVars, server, xfer, hostVars, linkVars, ph, todo, entry, calls>>

-----------------------------------------------------------------------------
(* startTransfer on the NimBLE task: close, open under the mutex, set.     *)

HostOpen ==
  /\ host = "open"
  /\ IF ~busy /\ wanted \in present THEN host' = "set" /\ UNCHANGED wanted
                                   ELSE host' = "idle" /\ wanted' = 0
  /\ UNCHANGED <<cardVars, server, xferVars, coreVars, doubt, linkVars, ph, phoneVars, faults>>

HostSet ==
  /\ host = "set" /\ host' = "idle" /\ wanted' = 0
  /\ xfer' = [file |-> wanted, pos |-> 0] /\ seq' = 0
  /\ UNCHANGED <<cardVars, server, coreVars, doubt, linkVars, ph, phoneVars, faults>>

-----------------------------------------------------------------------------
(* uploadSessions on the phone.                                            *)

Connect ==
  /\ ph = "away" /\ calls < MaxCalls
  /\ ph' = "manifest" /\ calls' = calls + 1
  /\ haveConn' = TRUE /\ UNCHANGED subscribed
  /\ UNCHANGED <<cardVars, server, xferVars, coreVars, hostVars, todo, entry, chunks, faults>>

(* An empty list if the card is busy.  The session being recorded is listed
   like any other. *)
ReadManifest ==
  /\ ph = "manifest" /\ ph' = "next"
  /\ todo' = IF busy THEN {} ELSE {[file |-> f, size |-> size[f]] : f \in Pending}
  /\ UNCHANGED <<cardVars, server, xferVars, coreVars, hostVars, linkVars, entry, chunks,
                 calls, faults>>

NextEntry(e) ==
  /\ ph = "next" /\ e \in todo
  /\ entry' = e /\ todo' = todo \ {e} /\ ph' = "start"
  /\ UNCHANGED <<cardVars, server, xferVars, coreVars, hostVars, linkVars, chunks, calls,
                 faults>>

(* onDisconnect closes the transfer. *)
Disconnected ==
  /\ haveConn' = FALSE /\ subscribed' = FALSE /\ xfer' = Closed
  /\ ph' = "away" /\ todo' = {} /\ entry' = NoEntry /\ chunks' = <<>>

Disconnect ==
  /\ ph = "next" /\ todo = {} /\ Disconnected
  /\ UNCHANGED <<cardVars, server, seq, coreVars, hostVars, calls, faults>>

(* Core 1 has not finished with an earlier transfer, the one of an entry that
   timed out or of a link that is gone. *)
Overtaken == Active \/ tick # "idle"

(* The entry was listed while its file was growing, or the file still grows. *)
Unsteady == \/ entry.size # size[entry.file]
            \/ recording /\ entry.file = Cardinality(Recorded)

(* The device tests neither.  A new transfer of a pending file settles the doubt
   about an earlier one. *)
WriteStart ==
  /\ ph = "start" /\ host = "idle"
  /\ host' = "open" /\ wanted' = entry.file /\ xfer' = Closed /\ ph' = "started"
  /\ doubt' = IF Overtaken \/ Unsteady THEN doubt \union {entry.file}
              ELSE IF entry.file \in Pending THEN doubt \ {entry.file} ELSE doubt
  /\ UNCHANGED <<cardVars, server, seq, coreVars, linkVars, phoneVars, faults>>

(* The write is answered when startTransfer is over, well or not; Core 1 may
   have sent chunks before the phone subscribes. *)
Subscribe ==
  /\ ph = "started" /\ host = "idle"
  /\ ph' = "receive" /\ subscribed' = TRUE /\ chunks' = <<>>
  /\ UNCHANGED <<cardVars, server, xferVars, coreVars, hostVars, haveConn, todo, entry,
                 calls, faults>>

Enough == Cardinality(DOMAIN chunks) >= entry.size

Received ==
  /\ ph = "receive" /\ Enough
  /\ ph' = "upload" /\ subscribed' = FALSE
  /\ UNCHANGED <<cardVars, server, xferVars, coreVars, hostVars, haveConn, phoneVars, faults>>

(* Mutant of Timeout: a transfer is waited for without a bound. *)
TimeoutNever == ph = "receive" /\ ~Enough /\ UNCHANGED vars

(* Mutant of Timeout: what has arrived by then is taken for the file. *)
TimeoutResolves ==
  /\ ph = "receive" /\ ~Enough
  /\ ph' = "upload" /\ subscribed' = FALSE
  /\ UNCHANGED <<cardVars, server, xferVars, coreVars, hostVars, haveConn, phoneVars, faults>>

(* 120 s: the entry has failed; notifications stay enabled. *)
Timeout ==
  /\ ph = "receive" /\ ~Enough
  /\ ph' = "next" /\ chunks' = <<>>
  /\ UNCHANGED <<cardVars, server, xferVars, coreVars, hostVars, linkVars, todo, entry, calls,
                 faults>>

(* Files of one name share a storage key: the last upload counts. *)
StoredByPhone == server' = [server EXCEPT ![entry.file] = Content(chunks, entry.file)]

(* Mutant of Upload: the answers of the server are not looked at. *)
UploadUnchecked ==
  /\ ph = "upload" /\ ph' = "ack"
  /\ chunks' = <<>>
  /\ \/ StoredByPhone /\ NoFault
     \/ (StoredByPhone \/ UNCHANGED server) /\ Fault
  /\ UNCHANGED <<cardVars, xferVars, coreVars, hostVars, linkVars, todo, entry, calls>>

Upload ==
  /\ ph = "upload" /\ chunks' = <<>>
  /\ \/ StoredByPhone /\ ph' = "ack" /\ NoFault
     \/ (StoredByPhone \/ UNCHANGED server) /\ ph' = "next" /\ Fault
  /\ UNCHANGED <<cardVars, xferVars, coreVars, hostVars, linkVars, todo, entry, calls>>

(* ack-uploaded: not marked if the card is busy. *)
Ack ==
  /\ ph = "ack" /\ host = "idle" /\ ph' = "next"
  /\ IF xfer.file = entry.file THEN xfer' = Closed ELSE UNCHANGED xfer
  /\ IF busy THEN UNCHANGED <<present, marked>> ELSE MarkAndClean(entry.file)
  /\ UNCHANGED <<size, recording, busy, server, seq, coreVars, hostVars, linkVars, phoneVars,
                 faults>>

LinkLost ==
  /\ haveConn /\ host = "idle" /\ Fault
  /\ Disconnected
  /\ IF ph = "upload" THEN StoredByPhone \/ UNCHANGED server ELSE UNCHANGED server
  /\ UNCHANGED <<cardVars, seq, coreVars, hostVars, calls>>

-----------------------------------------------------------------------------
Rec   == StartRec \/ LogRows \/ StopRec
Walk  == WalkEnd \/ \E f \in Files : WalkUpload(f)
Tick  == TickCheck \/ TickRead \/ TickFail \/ TickSend
Host  == HostOpen \/ HostSet
Phone == \/ ReadManifest \/ (\E e \in todo : NextEntry(e)) \/ Disconnect \/ WriteStart
         \/ Subscribe \/ Received \/ Timeout \/ Upload \/ Ack

Next == Rec \/ WalkBegin \/ Walk \/ Tick \/ Host \/ Phone \/ Connect \/ LinkLost

(* Both tasks, the walk and the phone keep running. *)
Fairness == WF_vars(Tick) /\ WF_vars(Host) /\ WF_vars(Phone) /\ WF_vars(Walk)

Spec == Init /\ [][Next]_vars /\ Fairness

-----------------------------------------------------------------------------
(* Type invariant: card, transfer, tasks, phone and server. *)
TypeOK ==
  /\ size \in [Files -> 0..MaxChunks] /\ present \subseteq Recorded /\ marked \subseteq present
  /\ {recording, busy, haveConn, subscribed} \subseteq BOOLEAN
  /\ server \in [Files -> {None, Corrupt} \union (0..MaxChunks)]
  /\ xfer \in [file : Files, pos : 0..MaxChunks] \union {Closed}
  /\ seq \in Nat /\ buf \in {NoChunk} \union (Files \X (0..MaxChunks))
  /\ tick \in {"idle", "read", "fail", "send"} /\ host \in {"idle", "open", "set"}
  /\ wanted \in 0..NumFiles /\ doubt \subseteq Files
  /\ ph \in {"away", "manifest", "next", "start", "started", "receive", "upload", "ack"}
  /\ todo \subseteq [file : Files, size : 1..MaxChunks]
  /\ entry \in [file : Files, size : 1..MaxChunks] \union {NoEntry}
  /\ \A i \in DOMAIN chunks : chunks[i] \in Files \X (0..MaxChunks)
  /\ calls \in 0..MaxCalls /\ faults \in 0..MaxFaults

(* relay.ts: "Until this arrives the device keeps the session, so an
   interrupted relay is simply retried next time - nothing is lost."  What is
   not pending any more is on the server, chunk for chunk, by whichever way, and
   whatever became of the transfers of other files: doubt is of a file, not of a
   run.  A file in doubt can be lost; README.md says how. *)
NothingLost == \A f \in (Recorded \ Pending) \ doubt : server[f] = size[f]

(* relay.ts: "A dropped/stalled BLE link during a transfer must not hang
   forever": every call of uploadSessions returns, whatever was lost. *)
Returns == ph # "away" ~> ph = "away"

-----------------------------------------------------------------------------
(* What the two ways off the boat promise together: SessionArchive.  A file's
   first chunk is there when it is opened; the others are its rows.         *)

Phase(f) == IF size[f] = 0 THEN "none" ELSE IF f \in doubt THEN "doubtful"
            ELSE IF recording /\ f = Cardinality(Recorded) THEN "open"
            ELSE IF f \in Pending THEN "closed" ELSE "archived"

Archive == INSTANCE SessionArchive
             WITH Sessions <- Files, MaxRows <- MaxChunks - 1,
                  Losable <- {"open", "closed", "archived"},
                  phase   <- [f \in Files |-> Phase(f)],
                  content <- [f \in Files |-> IF size[f] = 0 THEN 0 ELSE size[f] - 1],
                  archive <- [f \in Files |-> IF Phase(f) = "archived" THEN server[f] - 1 ELSE 0]

(* A file is archived once, as it was closed, by whichever way comes first; what
   the other way still does with it, a second upload included, changes nothing
   of what is archived, unless the phone's transfer of that file is in doubt. *)
ImplementsArchive == Archive!Spec
=============================================================================
