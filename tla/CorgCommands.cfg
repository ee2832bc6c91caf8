CONSTANTS
  c1 = c1
  c2 = c2
  p0 = p0
  Commands = {c1, c2}
  Original = p0
  Kinds = {"in-place", "new-claim", "database", "rotate", "exec", "shell", "suspend", "resume", "reinit"}
  Faults = {"apiError", "lostReply", "slow", "interrupt", "kill", "jobFails", "deleteJob"}
  MaxFaults = 2
SPECIFICATION Spec
INVARIANTS
  TypeOK
  SecretOpens
  ScheduleComesBack
  OkMeansDone
PROPERTIES
  LeavesNothing
  EventuallyInitialized
\* The system may stop: every command has ended.
CHECK_DEADLOCK FALSE
