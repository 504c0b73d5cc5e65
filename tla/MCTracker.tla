---------------------------- MODULE MCTracker ----------------------------
(***************************************************************************)
(* Tracker on a small instance: a UDP tracker that may refuse, an HTTP     *)
(* tracker, two rounds and the stopped one.                                *)
(***************************************************************************)
EXTENDS Tracker

CONSTANTS u1, h1
============================================================================
