---------------------------- MODULE MCSession ----------------------------
(***************************************************************************)
(* Session on small instances: a full seed and a peer with part of the     *)
(* torrent that fails and is redialled, one API request at a time.  In     *)
(* MCSession.cfg and MCSessionLost.cfg the partial peer also corrupts, the *)
(* disk may fail and the program may restart once.                         *)
(***************************************************************************)
EXTENDS Session, TLC

CONSTANTS p1, p2, c1

FaultyPeers == {p1, p2}
FaultyHolds == p1 :> {0, 1} @@ p2 :> {1}

============================================================================
