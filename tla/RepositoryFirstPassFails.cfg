CONSTANTS
  r1 = r1
  app = app
  i1 = i1
  i2 = i2
  None = None
  Repos = {r1}
  RemoteIds = {i1}
  Passwords = {p1}
  Names = {app}
  RemoteName <- MCRemoteName
  Existing <- MCNone
  Seed <- MCNone
  Rank <- MCRank
  Preexisting <- MCEmpty
  Policies = {"Retain"}
  AdminOps = {}
  Faults = {"apiError"}
  MaxCreations = 1
  MaxAdminOps = 0
  MaxFaults = 1
SPECIFICATION Spec
INVARIANTS
  KnownMeansProvisioned
\* The system may stop: every Repository deleted, and no creation left.
CHECK_DEADLOCK FALSE
