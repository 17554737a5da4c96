------------------------ MODULE MCQueueTransactions ------------------------
(* Small instances of QueueTransactions for TLC. *)
EXTENDS QueueTransactions, TLC

CONSTANTS m1, m2, d1, d2, t1, t2, t3

Symmetry == Permutations(Ids) \cup Permutations(Devices) \cup Permutations(Tx)
===========================================================================
