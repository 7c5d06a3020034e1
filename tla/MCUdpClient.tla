---------------------------- MODULE MCUdpClient ----------------------------
(***************************************************************************)
(* Instance of UdpClient for TLC.                                          *)
(***************************************************************************)
EXTENDS UdpClient
=============================================================================
