----------------------------- MODULE MCHTCSend ------------------------------
(* Instances of HTCSend for TLC.                                           *)
EXTENDS HTCSend, TLC

CONSTANTS p1, p2, p3, t1, t2

MCPackets == {p1, p2, p3}
TwoThreads == {t1, t2}
OneThread == {t1}

(* p1 and p2 need one credit each, p3 two: 12 bytes are 1.5 credits. *)
MCLength == [p \in {p1, p2, p3} |-> IF p = p3 THEN 12 ELSE 8]
EvenLength == [p \in {p1, p2, p3} |-> 8]

Symmetry == Permutations({p1, p2}) \cup Permutations({t1, t2})
SymPackets == Permutations({p1, p2, p3}) \cup Permutations({t1, t2})
=============================================================================
