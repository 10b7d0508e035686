SPECIFICATION FairSpec
CONSTANTS
  Orientations = {1}
  Images = {"icon"}
  DefaultImage = "icon"
  MaxStarts = 2
  MaxPages = 2
  MaxClicks = 1
INVARIANTS
  ViewTypeOK
  HostedOnlyWithHost
  OneCallPerClick
PROPERTIES
  LoadingEnds
  RequestsServed
