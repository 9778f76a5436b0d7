---------------------------- MODULE SessionArchive ----------------------------
(***************************************************************************)
(* What the recorder and the upload window together promise about a        *)
(* session, with no contexts, mutex or card: one session is open at a      *)
(* time, only an open session grows, a closed one never changes, and what  *)
(* is archived is exactly the closed content.  A power cut closes the open *)
(* session and may take its latest rows with it.  Nothing is promised of   *)
(* the copy of a doubtful session, one that was lost track of, until it    *)
(* has been closed (again).                                                *)
(***************************************************************************)
EXTENDS Naturals

CONSTANTS
  Sessions, MaxRows,
  Losable    \* phases in which track of a session can be lost

VARIABLES
  phase,    \* of each session: "none", "open", "doubtful", "closed", "archived"
  content,  \* rows of each session
  archive   \* rows of each session the server holds, 0 while it is doubtful

vars == <<phase, content, archive>>

Growing(s) == phase[s] \in {"open", "doubtful"}

Init ==
  /\ phase = [s \in Sessions |-> "none"]
  /\ content = [s \in Sessions |-> 0]
  /\ archive = [s \in Sessions |-> 0]

(* Whatever was open is closed by it; a doubtful session may be. *)
Open(s) ==
  /\ phase[s] = "none"
  /\ \E K \in SUBSET {t \in Sessions : Growing(t)} :
       /\ \A t \in Sessions : phase[t] = "open" => t \in K
       /\ phase' = [t \in Sessions |-> IF t = s THEN "open"
                                        ELSE IF t \in K THEN "closed" ELSE phase[t]]
  /\ UNCHANGED <<content, archive>>

Append(s) ==
  /\ Growing(s) /\ content[s] < MaxRows
  /\ content' = [content EXCEPT ![s] = @ + 1]
  /\ UNCHANGED <<phase, archive>>

LoseTrack(s) ==
  /\ phase[s] \in Losable
  /\ phase' = [phase EXCEPT ![s] = "doubtful"]
  /\ archive' = [archive EXCEPT ![s] = 0]
  /\ UNCHANGED content

Close(s) ==
  /\ Growing(s)
  /\ phase' = [phase EXCEPT ![s] = "closed"]
  /\ UNCHANGED <<content, archive>>

(* It may also take rows of a session that stays doubtful. *)
PowerCut(s) ==
  /\ Growing(s)
  /\ phase' \in {[phase EXCEPT ![s] = "closed"], phase}
  /\ phase[s] = "open" => phase'[s] = "closed"
  /\ \E n \in 0..content[s] : content' = [content EXCEPT ![s] = n]
  /\ UNCHANGED archive

Deliver(s) ==
  /\ phase[s] = "closed"
  /\ phase' = [phase EXCEPT ![s] = "archived"]
  /\ archive' = [archive EXCEPT ![s] = content[s]]
  /\ UNCHANGED content

Next == \E s \in Sessions :
          \/ Open(s) \/ Append(s) \/ LoseTrack(s)
          \/ Close(s) \/ PowerCut(s) \/ Deliver(s)

Spec == Init /\ [][Next]_vars
=============================================================================
