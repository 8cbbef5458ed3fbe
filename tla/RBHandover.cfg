SPECIFICATION FairSpec
CONSTANTS
  Roles = {r1, r2}
  Deletable = {r1}
  ConfigTypes = {"EKSIRSA"}
  RepairEnabled = FALSE
  Disturbances = {}
  MaxDisturbances = 0
PROPERTIES SoleBindingDelivered ConflictSurfaced
CHECK_DEADLOCK FALSE
