---------------------------- MODULE MCVSCodeClient ----------------------------
(***************************************************************************)
(* Two settings, and none; the user changes them twice and restarts.       *)
(***************************************************************************)
EXTENDS VSCodeClient
=============================================================================
