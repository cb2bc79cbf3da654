------------------------------ MODULE MCTxFlow ------------------------------
(***************************************************************************)
(* Instances of TxFlow for TLC: vdevs, OS queues and their frames.         *)
(***************************************************************************)
EXTENDS TxFlow

CONSTANTS sta, be, vo

OneVdev == <<sta>>
TwoQueues == {be, vo}
BothOfSta == [q \in {be, vo} |-> sta]
OneQueue == {be}
OneOfEach == [q \in {be, vo} |-> 1]
TwoOfBe == [q \in {be} |-> 2]
BeOfSta == [q \in {be} |-> sta]
TwoAndOne == [q \in {be, vo} |-> IF q = be THEN 2 ELSE 1]
TwoOfEach == [q \in {be, vo} |-> 2]
FirstOfBe == {<<be, 1>>}
=============================================================================
