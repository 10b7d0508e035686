SPECIFICATION Spec
CONSTANTS
  Bases = {2, 6, 8, 12}
  Size <- FourRegions
  Writable = {2, 8, 12}
  Stack = {8}
  PageSize = 2
  Radix = 2
  Types = {"I32", "F32"}
  TypeLen <- WordLen
  FloatTypes = {"F32"}
  MaxSearchResults = 4
  MaxAnchors = 10
  Faults = {}
  NoType = NoType
  NULL = NULL
  NumberQueries <- NumberQuiet
  NearQueries = {}
  GroupQueries = {}
  EditQueries <- EditWord
  Tolerances = {0, 1}
  MaxList = 4
INVARIANTS
  ResultsMatch
  NoCrash
  EditWritesAll
PROPERTIES
  FirstFindsAll
  ListImplemented
