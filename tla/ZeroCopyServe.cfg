SPECIFICATION Spec
SYMMETRY RequestSymmetry
CONSTANTS
  Requests = {r1, r2}
  NoRequest = NoRequest
  LeaseDuration = 4
  LeaseFloor = 3
  WrapCeiling = 3
  RenewInterval = 1
  Lateness = 1
  BarrierMargin = 2
  MaxWraps = 2
  Chunks = 2
  MaxInstances = 2
INVARIANTS
  TypeOK
  AliasWatched
  NothingDangles
PROPERTY NoOverwrittenByteSent
