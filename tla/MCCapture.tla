----------------------------- MODULE MCCapture -----------------------------
(***************************************************************************)
(* Instance of Capture for TLC.                                            *)
(***************************************************************************)
EXTENDS Capture
=============================================================================
