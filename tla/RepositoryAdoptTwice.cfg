CONSTANTS
  r1 = r1
  r2 = r2
  app = app
  i1 = i1
  p1 = p1
  p2 = p2
  None = None
  Repos = {r1, r2}
  RemoteIds = {i1}
  Passwords = {p1, p2}
  Names = {app}
  RemoteName <- MCRemoteName
  Existing <- MCAdopting
  Seed <- MCSeeds
  Rank <- MCRank
  Preexisting <- MCAdoptable
  Policies = {"Retain"}
  AdminOps = {"delete"}
  Faults = {}
  MaxCreations = 2
  MaxAdminOps = 1
  MaxFaults = 0
SPECIFICATION Spec
PROPERTIES
  ElderNeverOverridden
\* The system may stop: every Repository deleted, and no creation left.
CHECK_DEADLOCK FALSE
