------------------------- MODULE MCBlockDownload -------------------------
(***************************************************************************)
(* BlockDownload on a small instance: two pieces of three blocks, the last *)
(* one short, and a pipeline of two.                                       *)
(***************************************************************************)
EXTENDS BlockDownload

============================================================================
