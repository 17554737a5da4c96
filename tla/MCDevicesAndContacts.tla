------------------------ MODULE MCDevicesAndContacts ------------------------
(* Small instances of DevicesAndContacts for TLC. *)
EXTENDS DevicesAndContacts, TLC

CONSTANTS
  u1, u2, k1, k2, p1, p2, s1, s2, c1, c2, x1,
  a1, e1, e2, e3, v1, y1, g1, g2

OneOwner == [r \in Requests \ Scans |-> u1]
Two == [u \in Users |-> 2]
PairSymmetry == Permutations(Pairings) \cup Permutations(Scans) \cup Permutations(Choices)

\* A contact starts in one group and is moved to the other, or to both.
AskedFor ==
  [s \in Creates \cup Updates |-> IF s = a1 THEN {g1} ELSE IF s = e1 THEN {g1, g2} ELSE {g2}]

\* Bounds: the second update and the deletion of the contact do not both come;
\* the plan of one account changes, once and for the smaller one, and then the
\* neighbour is not deleted and one choice comes at most.
Begun(S) == {r \in S : phase[r] # "waiting"}
Bounded ==
  /\ step[e2] = "waiting" \/ step[v1] = "waiting"
  /\ moved = {u \in Users : cap[u] = 1}
  /\ moved # {} => moved = {u1} /\ closed = {} /\ Cardinality(Begun(Choices)) < 2
SpecBounded == InitPart /\ [][NextPart /\ Bounded']_<<part, vars, bookVars>>
===========================================================================
