--------------------------- MODULE MCChatSession ---------------------------
(***************************************************************************)
(* Instance of ChatSession for TLC.                                        *)
(***************************************************************************)
EXTENDS ChatSession
=============================================================================
