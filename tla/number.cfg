SPECIFICATION Spec
CONSTANTS
  Bases = {2, 6}
  Size <- TwoRegions
  Writable = {2, 6}
  Stack = {}
  PageSize = 2
  Radix = 2
  Types = {"I8", "I16"}
  TypeLen <- MixedLen
  FloatTypes = {}
  MaxSearchResults = 4
  MaxAnchors = 10
  Faults = {"write"}
  NoType = NoType
  NULL = NULL
  NumberQueries <- NumberMixed
  NearQueries = {}
  GroupQueries = {}
  EditQueries <- EditByte
  Tolerances = {0}
  MaxList = 4
INVARIANTS
  CountIsListed
  TypeIsMatched
  LimitRespected
PROPERTIES
  RefineOnlyShrinks
