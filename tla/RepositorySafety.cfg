CONSTANTS
  r1 = r1
  app = app
  i1 = i1
  i2 = i2
  None = None
  Repos = {r1}
  RemoteIds = {i1, i2}
  Passwords = {p1, p2}
  Names = {app}
  RemoteName <- MCRemoteName
  Existing <- MCNone
  Seed <- MCNone
  Rank <- MCRank
  Preexisting <- MCNameTaken
  Policies = {"Delete", "Retain"}
  AdminOps = {"delete", "policy", "loseSecret", "removeRemote"}
  Faults = {"apiError", "lostReply", "crash", "noToken", "podFailure", "outage"}
  MaxCreations = 1
  MaxAdminOps = 2
  MaxFaults = 1
SPECIFICATION Spec
SYMMETRY MCSymmetry
INVARIANTS
  TypeOK
  DestroyedOnlyOnRequest
  NoDuplicateRemote
  OnePasswordPerRemote
  SnapshotsReadable
  InitializedIsUsable
PROPERTIES
  RecordedIdStable
  DataAsPromised
\* The system may stop: every Repository deleted, and no creation left.
CHECK_DEADLOCK FALSE
