---------------------------- MODULE MCPeerPool ----------------------------
(***************************************************************************)
(* PeerPool on small instances.  MCPeerPool.cfg: two dials of one address. *)
(* MCPeerPoolLive.cfg: a dial and an accepted connection that compete for  *)
(* one place.  MCPeerPoolStuck.cfg: the same, and writes may fail.         *)
(***************************************************************************)
EXTENDS PeerPool, TLC

CONSTANTS o1, o2, i1, a, b

SameAddr == o1 :> a @@ o2 :> a
OnePerAddr == o1 :> a @@ i1 :> b

============================================================================
