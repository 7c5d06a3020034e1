----------------------------- MODULE MCPlayback -----------------------------
(***************************************************************************)
(* Instance of Playback for TLC.                                           *)
(***************************************************************************)
EXTENDS Playback
=============================================================================
