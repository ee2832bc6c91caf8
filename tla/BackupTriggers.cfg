CONSTANTS
  b1 = b1
  b2 = b2
  s1 = s1
  s2 = s2
  c1 = c1
  c2 = c2
  None = None
  Backups = {b1}
  Slugs = {s1}
  Rank <- MCRank
  Stem <- MCStem
  Concurrency <- MCAllow
  InitialSlugs <- MCUnreported
  Standing <- MCFirst
  Finished = {}
  HistoryLimit = 1
  Commands = {c1}
  AsksAt <- MCAnyTime
  Outcomes = {"Succeeded", "Failed"}
  Repositories = {"initialized"}
  AdminOps = {"cancel"}
  Faults = {"apiError", "lostWrite", "lostCreate", "patchError", "crash"}
  MaxClock = 2
  MaxCreations = 1
  MaxAdminOps = 1
  MaxFaults = 1
  MaxScheduled = 0
  MaxManual = 3
SPECIFICATION Spec
INVARIANTS
  TypeOK
  TriggerRunsOnce
  SuccessMeansBackup
PROPERTIES
  HistoryKept
\* The system may stop: every backup deleted, held back or waiting, and no bound left.
CHECK_DEADLOCK FALSE
