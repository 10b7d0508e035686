SPECIFICATION FairSpec
CONSTANTS
  Bases = {2, 4}
  Size <- Adjacent
  Writable = {2}
  Stack = {}
  PageSize = 1
  Radix = 2
  Types = {"I8", "I16"}
  TypeLen <- MixedLen
  FloatTypes = {}
  MaxSearchResults = 2
  MaxAnchors = 10
  Faults = {"nomem", "timeout"}
  NoType = NoType
  NULL = NULL
  NumberQueries <- NumberNarrow
  NearQueries <- NearByte
  GroupQueries <- GroupMixed
  EditQueries <- EditByte
  Tolerances = {0}
  MaxList = 1
INVARIANTS
  TypeOK
  SessionFresh
  GroupFindsAll
  EditWritesAll
PROPERTIES
  CallReturns
