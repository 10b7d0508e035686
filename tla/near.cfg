SPECIFICATION Spec
CONSTANTS
  Bases = {2}
  Size <- OneRegion
  Writable = {2}
  Stack = {}
  PageSize = 2
  Radix = 2
  Types = {"I8", "I16"}
  TypeLen <- MixedLen
  FloatTypes = {}
  MaxSearchResults = 3
  MaxAnchors = 10
  Faults = {"write", "unmap", "remap"}
  NoType = NoType
  NULL = NULL
  NumberQueries <- NumberBytes
  NearQueries <- NearMixed
  GroupQueries = {}
  EditQueries = {}
  Tolerances = {0}
  MaxList = 2
INVARIANTS
  TypeIsMatched
  TypesParallel
  NoHoleAtRest
