--------------------------- MODULE MCSendMetering ---------------------------
(* Small instances of SendMetering and SendAdmission for TLC. *)
EXTENDS SendAdmission, TLC

CONSTANTS s1, s2, s3, r1, r2, start, biznes, MaxMoves

Sizes == [s \in Sends |-> IF s = s1 THEN 2 ELSE 1]

\* Bounds: the free plan keeps the least quota; beside the activations, the plan and
\* the quota of the paid one change MaxMoves times.
VARIABLE moves
Moves == phase' = phase /\ <<plan, quota, seenPlan>>' # <<plan, quota, seenPlan>>
Least == \A q \in Quotas : quota[Start] <= q
InitBounded == AdmissionInit /\ Least /\ moves = 0
NextBounded ==
  /\ AdmissionNext
  /\ moves' = IF Moves THEN moves + 1 ELSE moves
  /\ moves' <= MaxMoves /\ Least'
SpecBounded == InitBounded /\ [][NextBounded]_<<vars, limiterVars, moves>>

RequestSymmetry == Permutations(Sends \ {s1}) \cup Permutations(Resets)
===========================================================================
