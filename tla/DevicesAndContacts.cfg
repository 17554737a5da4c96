CONSTANTS
\* An account with two pairings from the dashboard, two choices, a deletion,
\* and two scans of a code minted for it or for a neighbour.
  u1 = u1  u2 = u2  k1 = k1  k2 = k2
  p1 = p1  p2 = p2  s1 = s1  s2 = s2  c1 = c1  c2 = c2  x1 = x1
  Users = {u1, u2}
  Codes = {k1}
  Pairings = {p1, p2}
  Scans = {s1, s2}
  Choices = {c1, c2}
  Deletes = {x1}
  Owner <- OneOwner
  Caps = {1, 2}
  FirstCap <- Two
  Closable = {u2}
  NoUser = NoUser  NoCode = NoCode  NoDevice = NoDevice  NoRequest = NoRequest
\* A contact, updates of its groups, and the deletions of it and of a group.
  a1 = a1  e1 = e1  e2 = e2  e3 = e3  v1 = v1  y1 = y1  g1 = g1  g2 = g2
  Groups = {g1, g2}
  Creates = {a1}
  Updates = {e1, e2, e3}
  Renames = {e3}
  ContactDeletes = {v1}
  GroupDeletes = {y1}
  Asked <- AskedFor
  Nothing = Nothing
SPECIFICATION SpecBounded
SYMMETRY PairSymmetry
INVARIANTS CodeUsedOnce CapButForRaces OneDefaultButForRaces NoGhosts LoneSaveSettles
PROPERTIES DeletedStaysDeleted
