\* createToken overlapping the removal of its resource, which is then configured again.
SPECIFICATION Spec
CONSTANTS
  Tokens = {down}
  DownloadTokens = {down}
  Leases = {l1, l2}
  Requests = {r1, r2}
  Auths = {A}
  Absent = Absent
  NoToken = NoToken
  NoLease = NoLease
  MaxUses = 2
  Quota = 3
  Sizes = {1, 2}
  MaxActiveTokens = 0
  MaxOwnerLeases = 1
  MaxTotalLeases = 0
  MaxPublications = 2
  MaxCrashes = 0
INVARIANT NoTokenOutlivesItsResource
\* Once the bounded rows are spent and gone, nobody has anything left to ask for.
CHECK_DEADLOCK FALSE
