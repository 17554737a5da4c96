\* Two sends that overlap, under one plan that never changes.
CONSTANTS
  s1 = s1  s2 = s2  s3 = s3  r1 = r1  r2 = r2
  Sends = {s1, s2}
  Resets = {}
  Size <- Sizes
  start = start  biznes = biznes
  PlanIds = {start}
  Start = start
  Quotas = {2}
  Limit = 2
  MaxMoves = 0
  NoRequest = NoRequest
SPECIFICATION SpecBounded
INVARIANT QuotaIsEnforced
