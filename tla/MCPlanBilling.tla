--------------------------- MODULE MCPlanBilling ---------------------------
(* A small instance of PlanBilling for TLC. *)
EXTENDS PlanBilling, TLC

CONSTANTS w1, w2, a1, biznes, korxona

Offers == [p \in Purchases |-> IF p = 1 THEN biznes ELSE korxona]

\* Bounds: one edit comes, beside one delivery at most; from then on the account
\* is not deleted, and after it the deliveries come one at a time.
VARIABLE edited
Bounded ==
  edited => /\ ~gone
            /\ Cardinality(Running \cap Deliveries) < 2
            /\ phase[a1] = "idle" => Cardinality(Running) < 2
NextOnce ==
  /\ Next
  /\ edited' = (edited \/ phase'[a1] # "idle")
  /\ edited => phase'[a1] # "opened" \/ phase[a1] = "opened"
  /\ Bounded'
InitOnce == Init /\ edited = FALSE
SpecBounded == InitOnce /\ [][NextOnce]_<<vars, edited>>

WorkerSymmetry == Permutations(Deliveries)
===========================================================================
