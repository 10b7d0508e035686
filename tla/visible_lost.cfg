SPECIFICATION Spec
CONSTANTS
  Orientations = {1}
  Images = {"icon"}
  DefaultImage = "icon"
  MaxStarts = 1
  MaxPages = 1
  MaxClicks = 1
PROPERTIES
  VisibleAsAsked
