\* The frame path: what the browser is shown, and in which order. One of the
\* resizes keeps the number of pixels; the session may end at any point.
SPECIFICATION Spec
CONSTANTS
  Tile = 2
  Screens <- DesktopSizes
  Asked <- AskedSize
  OutCap = 1
  WsCap = 1
  MaxFrames = 3
  MaxOthers = 1
  MaxPings = 0
INVARIANTS
  CacheIsShown
  LatestFrameShown
PROPERTY
  DisplayRefined
\* A session that is over takes no further step.
CHECK_DEADLOCK FALSE
