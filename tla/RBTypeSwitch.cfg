SPECIFICATION Spec
CONSTANTS
  Roles = {r1}
  Deletable = {r1}
  ConfigTypes = {"SelfHostedIRSA", "EKSPodIdentity"}
  RepairEnabled = FALSE
  Disturbances = {"config"}
  MaxDisturbances = 1
INVARIANT NoLeakedAnnotation
CHECK_DEADLOCK FALSE
