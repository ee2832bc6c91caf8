CONSTANTS
  r1 = r1
  app = app
  i1 = i1
  i2 = i2
  None = None
  Repos = {r1}
  RemoteIds = {i1, i2}
  Passwords = {p1, p2}
  Names = {app}
  RemoteName <- MCRemoteName
  Existing <- MCNone
  Seed <- MCNone
  Rank <- MCRank
  Preexisting <- MCEmpty
  Policies = {"Delete"}
  AdminOps = {"delete"}
  Faults = {}
  MaxCreations = 2
  MaxAdminOps = 1
  MaxFaults = 0
SPECIFICATION Spec
INVARIANTS
  InitializedIsUsable
\* The system may stop: every Repository deleted, and no creation left.
CHECK_DEADLOCK FALSE
