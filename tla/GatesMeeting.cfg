\* Two calls that withdraw and delete in batches, and one that deletes.
SPECIFICATION Spec
CONSTANTS
  MaxMessages = 2
  CleanupBatch = 1
  c1 = c1
  c2 = c2
  c3 = c3
  Calls = {c1, c2, c3}
  NoCall = NoCall
  Existing = 2
  Ops <- OpsMeeting
  Requested <- Batches
SYMMETRY Symmetry
INVARIANTS GatesAreCounted OneWinner FirstRunsFirst
