-------------------------- MODULE MCBackgroundTask --------------------------
(***************************************************************************)
(* Instance of BackgroundTask for TLC: the threads that use it are the     *)
(* main thread, the audio loop and the audio processor's thread.           *)
(***************************************************************************)
EXTENDS BackgroundTask
CONSTANTS main, audio_loop, processor
MCClients == {main, audio_loop, processor}
=============================================================================
