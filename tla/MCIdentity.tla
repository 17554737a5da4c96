----------------------------- MODULE MCIdentity -----------------------------
(* Small instances of Identity for TLC. *)
EXTENDS Identity, TLC

CONSTANTS r1, r2, s1, s2, s3, l1, l2, k1, k2, u1, u2, c1, v1, v2, f1, f2

\* One person with two mails and one identity, whose provider changes its mail.
Mail == [c \in Creators |-> IF c = s3 THEN "new" ELSE "old"]
Subject == [s \in SignIns |-> "google"]

\* A key of one account, and a neighbour who tries to revoke it.
CallerOf == [r \in Creates \cup Revokes |-> IF r = v2 THEN u2 ELSE u1]
GrantedTo == [k \in Creates |-> {"send"}]
NeededBy == [r \in Calls |-> "send"]

\* Bound: an administrator clears the mark of one account at most, of a registered
\* one or of one that the provider made.
Bounded == unverified \in {{}, {r1}, {s3}}
SpecBounded == InitPart /\ [][NextPart /\ Bounded']_<<part, vars, accessVars, stateVars>>

\* The components use the same model values for what is interchangeable.
IdentitySymmetry ==
  Permutations({l1, l2}) \cup Permutations({k1, k2}) \cup Permutations({s1, s2})
=============================================================================
