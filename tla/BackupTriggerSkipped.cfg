CONSTANTS
  b1 = b1
  b2 = b2
  s1 = s1
  s2 = s2
  c1 = c1
  c2 = c2
  None = None
  Backups = {b1}
  Slugs = {s1}
  Rank <- MCRank
  Stem <- MCStem
  Concurrency <- MCForbid
  InitialSlugs <- MCUnreported
  Standing <- MCFirst
  Finished = {}
  HistoryLimit = 2
  Commands = {c1, c2}
  AsksAt <- MCAnyTime
  Outcomes = {"Succeeded", "Failed"}
  Repositories = {"initialized"}
  AdminOps = {}
  Faults = {}
  MaxClock = 2
  MaxCreations = 1
  MaxAdminOps = 0
  MaxFaults = 0
  MaxScheduled = 0
  MaxManual = 3
SPECIFICATION Spec
SYMMETRY MCSymmetry
INVARIANTS
  SuccessMeansBackup
\* The system may stop: every backup deleted, held back or waiting, and no bound left.
CHECK_DEADLOCK FALSE
