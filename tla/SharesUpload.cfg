\* One upload token: multipart and raw uploads, releases, crashes.
SPECIFICATION Spec
CONSTANTS
  Tokens = {up}
  DownloadTokens = {}
  Leases = {l1, l2}
  Requests = {r1, r2}
  Auths = {A}
  Absent = Absent
  NoToken = NoToken
  NoLease = NoLease
  MaxUses = 2
  Quota = 3
  Sizes = {1, 2}
  MaxActiveTokens = 0
  MaxOwnerLeases = 1
  MaxTotalLeases = 0
  MaxPublications = 0
  MaxCrashes = 1
SYMMETRY Symmetry
INVARIANTS WithinLimits UsesExact BytesExact OneUploadPerLease
\* Once the bounded rows are spent and gone, nobody has anything left to ask for.
CHECK_DEADLOCK FALSE
