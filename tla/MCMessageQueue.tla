-------------------------- MODULE MCMessageQueue --------------------------
(* Small instances of MessageQueue for TLC. *)
EXTENDS MessageQueueLifecycle, TLC

CONSTANTS u1, u2, d1, d2

OneAccount == [d \in Devices |-> u1]
TwoAccounts == [d \in Devices |-> IF d = d1 THEN u1 ELSE u2]
Quota2 == [u \in Users |-> 2]

PhoneSymmetry == Permutations(Devices)
===========================================================================
