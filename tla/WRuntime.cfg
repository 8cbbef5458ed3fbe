CONSTANTS
  MaxUID = 2
  MaxCerts = 5
  Strangers = {"rbac", "mwhc", "tls"}
  Drifting = {"ca", "tls", "deployment", "mwhc"}
  Disturbances = {"error", "crash", "delete", "unlabel", "age", "pods", "inventory", "force", "recreate"}
  MaxChanges = 1
SPECIFICATION FairSpec
INVARIANT TypeOK
PROPERTIES AdmissionBacked  RuntimeConverges 
CHECK_DEADLOCK FALSE
