------------------------------- MODULE RtcmRelay -------------------------------
(***************************************************************************)
(* The relay of RTK corrections: the base numbers each RTCM frame, splits  *)
(* it into fragments and broadcasts all of them twice; a rover's receive   *)
(* callback reassembles them and hands whole frames to a byte ring, which  *)
(* Core 1 drains to the GNSS receiver.                                     *)
(*                                                                         *)
(* Broadcasts are not acknowledged: a fragment is heard or lost, in the    *)
(* order it was sent; lost also stands for the rover's gate, closed during *)
(* uploads.  There is one base per fleet.  Fragments are the unit in which *)
(* the ring, too, is counted.                                              *)
(***************************************************************************)
EXTENDS Naturals, Sequences

CONSTANTS
  NumFrames,  \* bound: frames the base relays
  MaxFrags,   \* RTK_MAX_FRAGS
  IdMod,      \* msg_id is counted modulo this, 256 in the code
  RingSize    \* fragments the ring holds

ASSUME SizesAssumption == {NumFrames, MaxFrags, RingSize} \subseteq Nat
ASSUME IdAssumption    == IdMod \in Nat \ {0}

VARIABLES
  produced,  \* frames numbered since the base was first started
  msgId,     \* g_rtcmTxMsgId
  tx,        \* the frame being broadcast, or NoFrame
  rep, idx,  \* which repetition, which fragment is next
  heard,     \* fragments of tx that reached the reassembler
  active, cur, count, mask, total, buf,  \* RtcmReassembler
  stale,     \* more than 2 s since start_ms
  done,      \* the frame completed last, or NoFrame; done.id is last_done_msg_id
  out,       \* fragments that entered the ring since the rover started
  read,      \* how many of them Core 1 has taken out
  cut        \* numbers of the frames that met a full ring

baseVars  == <<produced, msgId, tx, rep, idx>>
roverVars == <<active, cur, count, mask, total, buf, stale, done>>
ringVars  == <<out, read, cut>>
vars      == <<baseVars, heard, roverVars, ringVars>>

Ids     == 0..(IdMod - 1)
Indexes == 0..(MaxFrags - 1)
Frames  == [n : 1..NumFrames, id : Ids, count : 1..MaxFrags]
NoFrame == [n |-> 0, id |-> 0, count |-> 0]
Frag(f, i) == [frame |-> f, index |-> i]
NoFrag  == Frag(NoFrame, 0)
Frags   == [frame : Frames, index : Indexes]
Whole(f) == [i \in 1..f.count |-> Frag(f, i - 1)]

Init ==
  /\ produced = 0 /\ msgId = 0 /\ tx = NoFrame /\ rep = 0 /\ idx = 0
  /\ heard = {}
  /\ active = FALSE /\ cur = 0 /\ count = 0 /\ mask = {} /\ total = 0
  /\ buf = [i \in Indexes |-> NoFrag] /\ stale = FALSE /\ done = NoFrame
  /\ out = <<>> /\ read = 0 /\ cut = {}

-----------------------------------------------------------------------------
(* The base, Core 1: rtcmBroadcastFrame.                                   *)

(* A valid frame leaves the framer while the mesh is up and no upload runs.
   An identifier comes round after 256 frames, which take longer than 2 s. *)
Produce(c) ==
  /\ tx = NoFrame /\ produced < NumFrames
  /\ produced' = produced + 1 /\ msgId' = (msgId + 1) % IdMod
  /\ tx' = [n |-> produced + 1, id |-> msgId, count |-> c]
  /\ rep' = 0 /\ idx' = 0 /\ heard' = {}
  /\ stale' = (stale \/ (active /\ cur = msgId))
  /\ UNCHANGED <<active, cur, count, mask, total, buf, done, ringVars>>

(* The next fragment; after the last one the whole frame once more. *)
Advance ==
  /\ idx' = IF idx + 1 < tx.count THEN idx + 1 ELSE 0
  /\ rep' = IF idx + 1 < tx.count THEN rep ELSE 1 - rep
  /\ tx'  = IF idx + 1 = tx.count /\ rep = 1 THEN NoFrame ELSE tx
  /\ UNCHANGED <<produced, msgId>>

Lose ==
  /\ tx # NoFrame /\ Advance
  /\ UNCHANGED <<heard, roverVars, ringVars>>

-----------------------------------------------------------------------------
(* A rover, receive callback: onPacket.  A partial frame older than 2 s is *)
(* dropped before anything else.                                           *)

Partial     == active /\ ~stale
SameFrame   == Partial /\ tx.id = cur
TrailingDup == done # NoFrame /\ tx.id = done.id
HeldMask    == IF SameFrame THEN mask ELSE {}
InFlightDup == idx \in HeldMask

Hear == tx # NoFrame /\ Advance /\ heard' = heard \union {idx}

IgnoreTrailing ==
  /\ Hear /\ TrailingDup
  /\ active' = Partial /\ stale' = FALSE
  /\ UNCHANGED <<cur, count, mask, total, buf, done, ringVars>>

IgnoreInFlight ==
  /\ Hear /\ ~TrailingDup /\ InFlightDup
  /\ UNCHANGED <<roverVars, ringVars>>

(* Mutant of Kept: another frame's fragments are still counted. *)
KeptUncleared ==
  /\ cur' = tx.id /\ count' = IF SameFrame THEN count ELSE tx.count
  /\ mask' = mask \union {idx}
  /\ buf' = [buf EXCEPT ![idx] = Frag(tx, idx)]
  /\ total' = IF idx = tx.count - 1 THEN tx.count ELSE IF SameFrame THEN total ELSE 0

(* The fragment goes into the partial frame, or begins a new one. *)
Kept ==
  /\ cur' = tx.id /\ count' = IF SameFrame THEN count ELSE tx.count
  /\ mask' = HeldMask \union {idx}
  /\ buf' = [buf EXCEPT ![idx] = Frag(tx, idx)]
  /\ total' = IF idx = tx.count - 1 THEN tx.count ELSE IF SameFrame THEN total ELSE 0

Complete(m, c, t) == m = 0..(c - 1) /\ t > 0

Store ==
  /\ Hear /\ ~TrailingDup /\ ~InFlightDup
  /\ Kept /\ ~Complete(mask', count', total')
  /\ active' = TRUE /\ stale' = FALSE
  /\ UNCHANGED <<done, ringVars>>

(* rtcmFrameValid: these bytes are one frame, bit by bit. *)
Valid(b, t) == \A i \in 0..(t - 1) : b[i] = Frag(b[0].frame, i) /\ b[0].frame.count = t

Space == RingSize - (Len(out) - read)

(* xStreamBufferSend without a timeout: as many bytes as fit, and the number
   it returns is not looked at. *)
Push(f) ==
  /\ out' = out \o SubSeq(Whole(f), 1, IF f.count > Space THEN Space ELSE f.count)
  /\ cut' = IF f.count > Space THEN cut \union {f.n} ELSE cut
  /\ UNCHANGED read

(* Mutant of Finish: the identifier of the completed frame is not kept. *)
FinishForgets ==
  /\ Hear /\ ~TrailingDup /\ ~InFlightDup
  /\ Kept /\ Complete(mask', count', total')
  /\ active' = FALSE /\ stale' = FALSE /\ UNCHANGED done
  /\ IF Valid(buf', total') THEN Push(buf'[0].frame) ELSE UNCHANGED ringVars

Finish ==
  /\ Hear /\ ~TrailingDup /\ ~InFlightDup
  /\ Kept /\ Complete(mask', count', total')
  /\ active' = FALSE /\ stale' = FALSE /\ done' = tx
  /\ IF Valid(buf', total') THEN Push(buf'[0].frame) ELSE UNCHANGED ringVars

-----------------------------------------------------------------------------
(* Time, Core 1 of the rover, and restarts.                                *)

(* A frame is on the air for milliseconds: 2 s pass only between frames. *)
Age ==
  /\ tx = NoFrame /\ active /\ ~stale
  /\ stale' = TRUE
  /\ UNCHANGED <<baseVars, heard, active, cur, count, mask, total, buf, done, ringVars>>

(* loop: as much as the UART takes. *)
Drain(k) ==
  /\ read + k <= Len(out) /\ read' = read + k
  /\ UNCHANGED <<baseVars, heard, roverVars, out, cut>>

(* The base counts from 0 again; its boot takes longer than 2 s. *)
BaseRestart ==
  /\ msgId' = 0 /\ tx' = NoFrame /\ rep' = 0 /\ idx' = 0 /\ heard' = {}
  /\ stale' = (stale \/ active)
  /\ UNCHANGED <<produced, active, cur, count, mask, total, buf, done, ringVars>>

(* The rover boots, and restarts its GNSS receiver: whatever the base is
   sending is over by then. *)
RoverRestart ==
  /\ tx = NoFrame
  /\ active' = FALSE /\ cur' = 0 /\ count' = 0 /\ mask' = {} /\ total' = 0
  /\ buf' = [i \in Indexes |-> NoFrag] /\ stale' = FALSE /\ done' = NoFrame
  /\ out' = <<>> /\ read' = 0 /\ cut' = {}
  /\ UNCHANGED <<baseVars, heard>>

Next ==
  \/ (\E c \in 1..MaxFrags : Produce(c)) \/ Lose
  \/ IgnoreTrailing \/ IgnoreInFlight \/ Store \/ Finish
  \/ Age \/ (\E k \in 1..RingSize : Drain(k))
  \/ BaseRestart \/ RoverRestart

Spec == Init /\ [][Next]_vars

-----------------------------------------------------------------------------
(* Type invariant: the counters of the base, the reassembler and the ring,
   which never holds more than fits. *)
TypeOK ==
  /\ produced \in 0..NumFrames /\ msgId \in Ids
  /\ tx \in Frames \union {NoFrame} /\ rep \in {0, 1}
  /\ idx \in IF tx = NoFrame THEN {0} ELSE 0..(tx.count - 1)
  /\ heard \subseteq Indexes
  /\ active \in BOOLEAN /\ stale \in BOOLEAN
  /\ cur \in Ids /\ count \in 0..MaxFrags /\ mask \subseteq Indexes /\ total \in 0..MaxFrags
  /\ buf \in [Indexes -> Frags \union {NoFrag}]
  /\ done \in Frames \union {NoFrame}
  /\ out \in Seq(Frags) /\ read \in 0..Len(out) /\ Len(out) - read <= RingSize
  /\ cut \subseteq 1..NumFrames

(* What the receiver is given: frames in the order they were produced, none
   twice ("without it a 1-frag frame re-completes and double-writes the GNSS",
   rtk_relay.h), each whole, or cut short where it met a full ring. *)
FramesInOrder ==
  \A i \in 1..Len(out) :
    LET f == out[i].frame
    IN /\ IF out[i].index = 0
          THEN i > 1 => out[i - 1].frame.n < f.n
          ELSE i > 1 /\ out[i - 1] = Frag(f, out[i].index - 1)
       /\ out[i].index < f.count
       /\ f.n \in cut \/ out[i].index = f.count - 1
            \/ (i < Len(out) /\ out[i + 1] = Frag(f, out[i].index + 1))

(* rtk_relay.cpp: "2x-tx for loss margin".  The repetitions make up for each
   other's losses, and nothing left of earlier frames gets in the way: when
   every fragment has been heard once the frame is handed on, or its identifier
   is that of another frame, the one completed last. *)
HandedOn(f, o, c) == f.n \in c \/ \E i \in 1..Len(o) : o[i].frame = f

HeardIsHandedOn ==
  [][tx # NoFrame /\ heard' = 0..(tx.count - 1)
       => HandedOn(tx, out', cut') \/ (done'.id = tx.id /\ done'.n \notin {0, tx.n})]_vars
=============================================================================
