SPECIFICATION Spec
CONSTANTS
  Roles = {r1, r2}
  Deletable = {r1}
  ConfigTypes = {"SelfHostedIRSA"}
  RepairEnabled = FALSE
  Disturbances = {"error", "config", "drift"}
  MaxDisturbances = 1
INVARIANTS NoLeakedAnnotation RecordedBeforeDelivered CustodyInvariant
PROPERTIES DeliveryRemovedFirst CleanupSparesOthers RefinesCustody
CHECK_DEADLOCK FALSE
