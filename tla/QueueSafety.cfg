\* One account, two phones, two messages with two attempts each.
CONSTANTS
  u1 = u1  u2 = u2  d1 = d1  d2 = d2
  Users = {u1}
  Devices = {d1, d2}
  Owner <- OneAccount
  Priorities = {1}
  MaxAttempts = 2
  SmsPerMonth <- Quota2
  MaxMessages = 2
  NoUser = NoUser
  NoDevice = NoDevice
SPECIFICATION Spec
SYMMETRY PhoneSymmetry
INVARIANTS AttemptBudget OnePhonePerMessage AckCountedOnce
PROPERTIES ImplementsLifecycle
