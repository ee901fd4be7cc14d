---------------------------- MODULE MCLiveUpdates ---------------------------
(* Small instances of LiveUpdates for TLC. *)
EXTENDS LiveUpdates
=============================================================================
