---------------------------- MODULE MCCopyEngine ----------------------------
(***************************************************************************)
(* The instance of CopyEngine for TLC: a source ring long enough to wrap   *)
(* with several transfers outstanding, alone (a ring of one entry has room *)
(* for nothing), a destination ring of the same length next to a short     *)
(* source ring.                                                            *)
(***************************************************************************)
EXTENDS CopyEngine

Sizes == {[src |-> 4, dest |-> 1], [src |-> 2, dest |-> 4]}
=============================================================================
