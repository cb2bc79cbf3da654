---------------------------- MODULE MCTXRXPeer ----------------------------
(***************************************************************************)
(* Instances of TXRXPeer for TLC.                                          *)
(***************************************************************************)
EXTENDS TXRXPeer

TwoMacs  == {"a", "b"}
OneUser  == {"hdd"}
===========================================================================
