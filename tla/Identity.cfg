CONSTANTS
\* Two registrations and three sign-ins of one identity, whose mail changes, with
\* two links in mails and two clicks.
  r1 = r1  r2 = r2  s1 = s1  s2 = s2  s3 = s3  l1 = l1  l2 = l2  k1 = k1  k2 = k2
  Registrations = {r1, r2}
  SignIns = {s1, s2, s3}
  Clicks = {k1, k2}
  Links = {l1, l2}
  MailOf <- Mail
  SubjectOf <- Subject
  Closable = {r1, s1, s2, s3}
  NoAccount = NoAccount  NoLink = NoLink  Unsent = Unsent  Gone = Gone
\* A key, its owner and a neighbour, two revocations and two calls.
  u1 = u1  u2 = u2  c1 = c1  v1 = v1  v2 = v2
  Users = {u1, u2}
  Scopes = {"send", "read"}
  Creates = {c1}
  Revokes = {v1, v2}
  Calls = {k1, k2}
  Caller <- CallerOf
  Granted <- GrantedTo
  Needed <- NeededBy
  NoRequest = NoRequest  NoKey = NoKey
\* Two flows, three callbacks and two codes.
  f1 = f1  f2 = f2
  Providers = {"google", "apple"}
  Flows = {f1, f2}
  Callbacks = {s1, s2, s3}
  Codes = {l1, l2}
  Allowed = {"prod", "local"}
  Asked = {"local", "alien"}
  Frontend = "prod"
  NoFlow = NoFlow  NoCode = NoCode
SPECIFICATION SpecBounded
SYMMETRY IdentitySymmetry
INVARIANTS OneAccountPerMail IdentityKeepsAccount SocialStaysSocial ServedWasValid FlowSignsInOnce
CHECK_DEADLOCK FALSE
