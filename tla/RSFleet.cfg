SPECIFICATION FairSpec
CONSTANTS
  N = 2
  MaxConcurrency = 1
  MaxFailures = 0
  MaxUID = 1
  Strangers = {1}
  MaxChanges = 1
INVARIANTS TypeOK
PROPERTIES WindowRespected  FleetConverges ObstacleReported DeletionDrains
CHECK_DEADLOCK FALSE
