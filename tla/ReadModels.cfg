SPECIFICATION MCSpec
CONSTANTS
  Runs <- MCRuns
  GroupsOf <- MCGroupsOf
  Times = {1, 2}
  Worker = "worker"
  Commands = {"command"}
  NULL = 3
  PageSize = 1
  MaxWrites = 4
  MaxFaults = 1
INVARIANT NeverUndercounts
INVARIANT FleetWalkMissesOnlyRisen
INVARIANT ReadersMissNothing
PROPERTY RollupsConverge
CHECK_DEADLOCK FALSE
