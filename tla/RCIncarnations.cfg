SPECIFICATION Spec
CONSTANTS
  Deliveries = {"EKSPodIdentity"}
  MaxUID = 2
  MaxChanges = 1
  Strangers = {}
INVARIANT TypeOK
PROPERTIES LiveChildrenKept
CHECK_DEADLOCK FALSE
