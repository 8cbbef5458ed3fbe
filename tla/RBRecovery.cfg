SPECIFICATION FairSpec
CONSTANTS
  Roles = {r1}
  Deletable = {r1}
  ConfigTypes = {"EKSIRSA", "EKSPodIdentity"}
  RepairEnabled = TRUE
  Disturbances = {"error", "config", "drift", "ackloss"}
  MaxDisturbances = 1
INVARIANT TypeOK
PROPERTIES DeletionCompletes SoleBindingDelivered
CHECK_DEADLOCK FALSE
