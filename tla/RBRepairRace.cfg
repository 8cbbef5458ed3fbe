SPECIFICATION Spec
CONSTANTS
  Roles = {r1}
  Deletable = {r1}
  ConfigTypes = {"SelfHostedIRSA"}
  RepairEnabled = TRUE
  Disturbances = {"drift"}
  MaxDisturbances = 1
INVARIANT NoLeakedAnnotation
CHECK_DEADLOCK FALSE
