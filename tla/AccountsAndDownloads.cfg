\* One account with two handlers, and two requests for one of its leases.
SPECIFICATION MCSpec
CONSTANTS
  ann = ann
  p = p
  q = q
  s1 = s1
  s2 = s2
  moved = moved
  same = same
  other = other
  Users = {ann}
  Passwords = {p, q}
  Sessions = {s1, s2}
  Leases = {l1}
  Requests = {r1, r2}
  NoUser = NoUser
  NoPassword = NoPassword
  NoSession = NoSession
  MaxSlots = 1
  MaxVersion = 3
  Visits = {v1, v2}
  NoVisit = NoVisit
  NoTicket = NoTicket
  Versions = {moved, same, other}
  NoVersion = NoVersion
  Look <- Looks
  Content <- Contents
  HashSlots = 1
SYMMETRY Symmetry
CHECK_DEADLOCK FALSE
INVARIANTS SessionsAreCurrent LeasesAreCurrent SlotsAreExact WaitersAreLed
PROPERTIES ChangesReplaceWhatWasVerified ServedIsLeased
