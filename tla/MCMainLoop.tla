---------------------------- MODULE MCMainLoop ----------------------------
(***************************************************************************)
(* Instance of MainLoop for TLC: the user interface's thread and the MQTT  *)
(* callback thread post tasks, and so do tasks on the main thread.         *)
(***************************************************************************)
EXTENDS MainLoop
CONSTANTS ui, mqtt
MCThreads == {ui, mqtt}
=============================================================================
