CONSTANTS
  b1 = b1
  b2 = b2
  s1 = s1
  s2 = s2
  c1 = c1
  c2 = c2
  None = None
  Backups = {b1, b2}
  Slugs = {s1}
  Rank <- MCRank
  Stem <- MCStem
  Concurrency <- MCForbid
  InitialSlugs <- MCElderMoves
  Standing <- MCBoth
  Finished = {b1}
  HistoryLimit = 1
  Commands = {}
  AsksAt <- MCAnyTime
  Outcomes = {}
  Repositories = {"initialized"}
  AdminOps = {"slug", "delete", "edit", "repository"}
  Faults = {}
  MaxClock = 1
  MaxCreations = 3
  MaxAdminOps = 1
  MaxFaults = 0
  MaxScheduled = 0
  MaxManual = 3
SPECIFICATION FairSpec
PROPERTIES
  EventuallyInForce
  EventuallyHeldBack
\* The system may stop: every backup deleted, held back or waiting, and no bound left.
CHECK_DEADLOCK FALSE
