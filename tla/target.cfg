SPECIFICATION Spec
CONSTANTS
  Pages = {1, 2}
  Prots <- GameProts
  Procs = {Self, p1, p2}
  Self = Self
  Pids = {1, 2}
  SelfPid = 1
  NULL = NULL
INVARIANTS
  TargetTypeOK
  RightsBalanced
  SearchedIsTarget
  PickedIsSearched
  ProtectionRestored
  WriteReported
