\* Resets in a row and giving up, failed requests, hidden pages, refused
\* sessions and other subjects.
SPECIFICATION FairSpec
CONSTANTS
  MaxMessages = 2
  CleanupBatch = 1
  Slots = {s1, s2}
  HistoryLimit = 1
  ChangesLimit = 1
  MaxChangePages = 2
  MaxResets = 1
  OwnOps = {}
  OtherOps = {"send", "delete", "clear"}
  MaxOwn = 0
  MaxDisturbances = 2
  MaxGeneration = 3
INVARIANT OnlyOwnProjection
PROPERTY FeedSettles
\* A client without a binding, or on a hidden page, may wait for its user.
CHECK_DEADLOCK FALSE
