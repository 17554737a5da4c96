CONSTANTS
\* Two accounts that connect one token, three updates of two chats, and a
\* broadcast.
  c1 = c1  c2 = c2  c3 = c3  d1 = d1  b1 = b1  v1 = v1  v2 = v2  v3 = v3  h1 = h1  h2 = h2
  Connects = {c1, c2, c3}
  Disconnects = {d1}
  Broadcasts = {b1}
  Updates = {v1, v2, v3}
  Owner <- Owners
  Token <- OneToken
  Chats = {h1, h2}
  ChatOf <- ChatOfUpdate
  NoBot = NoBot
\* Two sends and two sockets of one phone.
  Sends = {v1, v2}
  Sockets = {c1, c2}
  Phones = {h1}
  PhoneOf <- OnePhone
  NoPhone = NoPhone
\* Three notices, one on a page.
  Notices = {c1, c2, c3}
  PageSize = 1
  Asked = {"all", "unread"}
SPECIFICATION SpecPart
SYMMETRY ChannelSymmetry
INVARIANTS BotHears NoChatTwice LedgerTellsTheTruth NudgedUnlessEarly PagingMissesNothing
CHECK_DEADLOCK FALSE
