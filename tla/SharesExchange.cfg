\* Two download tokens: exchanges and downloads while the resource changes.
SPECIFICATION Spec
CONSTANTS
  Tokens = {d1, d2}
  DownloadTokens = {d1, d2}
  Leases = {l1, l2}
  Requests = {r1, r2}
  Auths = {A}
  Absent = Absent
  NoToken = NoToken
  NoLease = NoLease
  MaxUses = 2
  Quota = 3
  Sizes = {1, 2}
  MaxActiveTokens = 1
  MaxOwnerLeases = 2
  MaxTotalLeases = 1
  MaxPublications = 1
  MaxCrashes = 1
SYMMETRY SymmetryOfTokens
INVARIANT OutstandingWithinLimit
PROPERTY RevocationStopsReservations
\* Once the bounded rows are spent and gone, nobody has anything left to ask for.
CHECK_DEADLOCK FALSE
