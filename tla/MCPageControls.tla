-------------------------- MODULE MCPageControls --------------------------
(***************************************************************************)
(* PageControls on a small instance: one torrent with a file and one with  *)
(* a magnet link, two requests under way at once, and a few gestures.      *)
(***************************************************************************)
EXTENDS PageControls

CONSTANTS f, m

============================================================================
