SPECIFICATION MCSpec
CONSTANTS
  Runs <- MCRuns
  GroupsOf <- MCGroupsOf
  Times = {1, 2}
  Worker = "worker"
  Commands = {"command"}
  NULL = 3
  PageSize = 1
  MaxWrites = 1
  MaxFaults = 0
PROPERTY CohortsConverge
CHECK_DEADLOCK FALSE
