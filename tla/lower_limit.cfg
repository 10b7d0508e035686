SPECIFICATION Spec
CONSTANTS
  Bases = {2}
  Size <- OneRegion
  Writable = {2}
  Stack = {}
  PageSize = 2
  Radix = 2
  Types = {"I8", "I16"}
  TypeLen <- MixedLen
  FloatTypes = {}
  MaxSearchResults = 4
  MaxAnchors = 10
  Faults = {}
  NoType = NoType
  NULL = NULL
  NumberQueries <- NumberLower
  NearQueries = {}
  GroupQueries = {}
  EditQueries = {}
  Tolerances = {0}
  MaxList = 4
PROPERTIES
  FirstFindsAll
