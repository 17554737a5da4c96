CONSTANTS
\* Two sessions, one phone, two messages: every request ends.
  m1 = m1  m2 = m2  d1 = d1  t1 = t1  t2 = t2
  Ids = {m1, m2}
  Devices = {d1}
  Tx = {t1, t2}
  Ops = {"claim", "cancel", "requeue"}
  MaxAttempts = 1
  NoTx = NoTx
  NoDevice = NoDevice
  NoId = NoId
  Unwritten = Unwritten
\* One send, a phone's socket and a page's.
  s1 = s1  c1 = c1  c2 = c2
  Sends = {s1}
  Sockets = {c1, c2}
  Phones = {d1}
  PhoneOf <- PhoneAndPage
  NoPhone = NoPhone
SPECIFICATION SpecPart
PROPERTIES RequestsEnd GoneIsReleased
CHECK_DEADLOCK FALSE
