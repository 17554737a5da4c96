\* Three sends, one of them to two recipients, a reset of the counter, two plans
\* with two quotas, and a window for two sends.
CONSTANTS
  s1 = s1  s2 = s2  s3 = s3  r1 = r1  r2 = r2
  Sends = {s1, s2, s3}
  Resets = {r1}
  Size <- Sizes
  start = start  biznes = biznes
  PlanIds = {start, biznes}
  Start = start
  Quotas = {1, 3}
  Limit = 2
  MaxMoves = 1
  NoRequest = NoRequest
SPECIFICATION SpecBounded
SYMMETRY RequestSymmetry
INVARIANTS CounterWithinQuota LoneSendsCount AtMostLimit NoEndlessWindow
