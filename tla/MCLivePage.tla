---------------------------- MODULE MCLivePage ----------------------------
(***************************************************************************)
(* LivePage on a small instance: the effect runs twice, two refreshes may  *)
(* be under way, one outage and one change of the server's state.          *)
(***************************************************************************)
EXTENDS LivePage

============================================================================
