------------------------- MODULE MC_TrackScheduler -------------------------
(* Instances of TrackScheduler for TLC; the .cfg files give the constants. *)
EXTENDS TrackScheduler
=============================================================================
