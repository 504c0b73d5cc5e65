--------------------------- MODULE MCRegistry ---------------------------
(***************************************************************************)
(* Registry on a small instance: a torrent added from its file and one     *)
(* that may also come as a magnet link, two clients whose requests overlap.*)
(***************************************************************************)
EXTENDS Registry, TLC

CONSTANTS f, m, t1, t2

\* nothing tells the clients apart
ClientSymmetry == Permutations({t1, t2})

============================================================================
