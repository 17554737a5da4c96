\* Two sessions, two phones, two messages.
CONSTANTS
  m1 = m1  m2 = m2  d1 = d1  d2 = d2  t1 = t1  t2 = t2  t3 = t3
  Ids = {m1, m2}
  Devices = {d1, d2}
  Tx = {t1, t2}
  Ops = {"claim", "ack", "delivered", "cancel", "delete", "requeue"}
  MaxAttempts = 2
  NoTx = NoTx
  NoDevice = NoDevice
  NoId = NoId
  Unwritten = Unwritten
SPECIFICATION Spec
SYMMETRY Symmetry
PROPERTY CommitsImplementLifecycle
