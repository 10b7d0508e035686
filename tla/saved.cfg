SPECIFICATION FairSpec
CONSTANTS
  Found = {0, 1}
  Offsets <- UpAndDown
  Batch = 2
  Space <- Near
  MaxSaved = 3
INVARIANTS
  SavedTypeOK
  SavedOnce
  RestIsSorted
PROPERTIES
  StoredIsWhole
  OffsetMoves
  JobEnds
