\* Two periods of two plans, reported by two deliveries at a time; the reports of
\* the second name no period end.
CONSTANTS
  w1 = w1  w2 = w2  a1 = a1  biznes = biznes  korxona = korxona
  Deliveries = {w1, w2}
  Edits = {a1}
  Ends = {0, 2}
  Plans = {biznes, korxona}
  MaxPurchases = 2
  Offer <- Offers
  Dated = {1}
  MaxTime = 1
  Start = Start
  NoPlan = NoPlan  NoEvent = NoEvent  NoWorker = NoWorker
SPECIFICATION SpecBounded
SYMMETRY WorkerSymmetry
INVARIANTS OrderAppliedOnce AckedIsRecorded EntitledOnlyWhilePaid LoneDeliverySettles
