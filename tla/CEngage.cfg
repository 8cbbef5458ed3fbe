CONSTANTS
  None = None
  c1 = c1
  c2 = c2
  Profiles <- MCProfiles
  Names = {"a", "b"}
  Versions <- MCVersions
  Configs = {c1, c2}
  Fields = {"f"}
  Ids = {1, 2}
  MaxChanges = 1
  MaxDisturbances = 1

SPECIFICATION FairSpec

INVARIANTS TypeOK NoLeak EngagedIsWatched IndexesComplete

PROPERTIES SharedClusterKept 
