\* Two uploads at the gate, and one in a process that sweeps and drains.
SPECIFICATION MCSpec
CONSTANTS
  u1 = u1
  u2 = u2
  u3 = u3
  d1 = d1
  d2 = d2
  open = open
  closed = closed
  Absent = Absent
  NoDir = NoDir
  NoFp = NoFp
  Uploads = {u1, u2, u3}
  Dirs = {d1, d2}
  Resources = {open, closed}
  Open = {open}
  Varying = {open, Absent}
  Fingerprint <- Paths
  Configs <- FirstVaries
  MaxFiles = 1
  Global = 2
  PerResource = 1
  PerOwner = 1
  Owner <- Owners
  MaxExiting = 1
  MaxServed = 1
SYMMETRY Symmetry
INVARIANTS LivePermitIsCurrent WithinCapacity
INVARIANTS StoreOutlivesUsers NoAddAfterWait NoCleanupIsForgotten StreamingKeepsItsTemp DrainNeverStuck
PROPERTY KeepsPromise
