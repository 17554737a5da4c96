\* Two accounts, one of them with a phone, two messages of two priorities: what
\* must happen.
CONSTANTS
  u1 = u1  u2 = u2  d1 = d1  d2 = d2
  Users = {u1, u2}
  Devices = {d1}
  Owner <- OneAccount
  Priorities = {0, 1}
  MaxAttempts = 2
  SmsPerMonth <- Quota2
  MaxMessages = 2
  NoUser = NoUser
  NoDevice = NoDevice
SPECIFICATION FairSpec
PROPERTIES ScheduledIsPromoted SendingEnds AddressedIsServed
