CONSTANTS
  Types = {"SelfHostedIRSA", "EKSIRSAManaged", "EKSIRSAExternal", "EKSPodIdentity"}
  Successors = {"SelfHostedIRSA"}
  MaxUID = 2
  MaxKeys = 4
  Strangers = {"bucket", "provider"}
  Disturbances = {"error", "crash", "secretLost", "unlabelled", "remote", "role", "force", "successor"}
  MaxChanges = 1
SPECIFICATION FairSpec
INVARIANT TypeOK
PROPERTIES KeyKept ProviderAfterDocuments DocumentsWithdrawnFirst   ConfigDrains
CHECK_DEADLOCK FALSE
