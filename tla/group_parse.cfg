SPECIFICATION Spec
CONSTANTS
  Texts <- Examples
  DefaultTypes = {Absent, "I32"}
  AnchorArgs = {Absent}
  Absent = Absent
INVARIANT
  ParsedAsWritten
