\* A client that has given up and is brought back by retryInitial.
SPECIFICATION Spec
CONSTANTS
  MaxMessages = 2
  CleanupBatch = 1
  Slots = {s1, s2}
  HistoryLimit = 1
  ChangesLimit = 1
  MaxChangePages = 2
  MaxResets = 1
  OwnOps = {}
  OtherOps = {"send", "withdraw", "delete", "clear", "cleanup"}
  MaxOwn = 0
  MaxDisturbances = 0
  MaxGeneration = 3
SYMMETRY Symmetry
INVARIANT ShownChatPolls
\* A client without a binding, or on a hidden page, may wait for its user.
CHECK_DEADLOCK FALSE
