\* SSH session: is a keystroke written while the shell is silent?
SPECIFICATION Spec
CONSTANTS
  Kinds = {"ssh"}
  Cap = 1
  InRoom = 1
  OutRoom = 1
  MaxOut = 1
  MaxIn = 1
PROPERTY KeystrokeWritten
CHECK_DEADLOCK FALSE
