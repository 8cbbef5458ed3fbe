SPECIFICATION FairSpec
CONSTANTS
  Deliveries = {"EKSPodIdentity"}
  MaxUID = 1
  MaxChanges = 1
  Strangers <- MCStrangers
PROPERTIES   NothingLeftBehind
CHECK_DEADLOCK FALSE
