SPECIFICATION StoreSpec
CONSTANTS
  NULL = NULL
  f1 = f1
  s1 = s1
  p1 = p1
  p2 = p2
  w1 = w1
  w2 = w2
  Field <- Fields
  Step <- Steps
  Preset <- PresetLabels
  Process <- Processes
  Request <- Requests
  Document <- Documents
  Retries = 1
  MaxCalls = 2
  LastListed = 1
  MaxSaves = 3
INVARIANTS
  PatchTypeOK
  MutualExclusion
  NumbersContiguous
PROPERTIES
  EarlierSnapshotsKept
  ImplementsAtomic
  EveryCallEnds
  LockComesFree
CHECK_DEADLOCK FALSE
