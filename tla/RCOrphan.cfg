SPECIFICATION Spec
CONSTANTS
  Deliveries = {"EKSPodIdentity"}
  MaxUID = 1
  MaxChanges = 0
  Strangers = {}
INVARIANT ParentOutlivesChildren

CHECK_DEADLOCK FALSE
