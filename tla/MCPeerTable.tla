----------------------------- MODULE MCPeerTable -----------------------------
(* Instances of PeerTable for TLC: as many boats as records, so that a boat
   held twice already fills the table.  One boat is on the course side whenever
   it is heard, the other never. *)
EXTENDS PeerTable

CONSTANTS b1, b2

MCSides == [b \in Boats |-> IF b = b1 THEN {"over"} ELSE {"clear"}]
=============================================================================
