\* The life of an RDP session: how it ends, whoever ends it.
SPECIFICATION Spec
CONSTANTS
  Tile = 2
  Screens <- OneDesktop
  Asked <- AskedSize
  OutCap = 2
  WsCap = 1
  MaxFrames = 2
  MaxOthers = 1
  MaxPings = 1
INVARIANT
  RestIsIdle
PROPERTIES
  SessionEnds
  ErrorQueued
\* A session that is over takes no further step.
CHECK_DEADLOCK FALSE
