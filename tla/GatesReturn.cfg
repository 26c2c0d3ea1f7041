\* Batches in opposite orders, creations and both kinds of writers, under the
\* fairness of the code.
SPECIFICATION FairSpec
CONSTANTS
  MaxMessages = 2
  CleanupBatch = 1
  c1 = c1
  c2 = c2
  c3 = c3
  Calls = {c1, c2, c3}
  NoCall = NoCall
  Existing = 1
  Ops <- OpsReturn
  Requested <- Batches
INVARIANT NobodyWaitsInACircle
PROPERTIES KeepsChatPromise EveryCallReturns
