\* Pages of the history and of the changes, read while everybody writes and
\* removes messages, the client among them.
SPECIFICATION Spec
CONSTANTS
  MaxMessages = 2
  CleanupBatch = 1
  Slots = {s1, s2}
  HistoryLimit = 1
  ChangesLimit = 1
  MaxChangePages = 2
  MaxResets = 1
  OwnOps = {"send", "withdraw", "delete", "batch", "clear"}
  OtherOps = {"send", "withdraw", "cleanup"}
  MaxOwn = 2
  MaxDisturbances = 0
  MaxGeneration = 2
SYMMETRY Symmetry
INVARIANTS OutdatedIsPending CursorStaysGood
\* A client without a binding, or on a hidden page, may wait for its user.
CHECK_DEADLOCK FALSE
