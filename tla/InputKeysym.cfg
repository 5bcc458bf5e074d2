\* A key of a VNC session.
SPECIFICATION Spec
CONSTANTS
  Protocols = {"vnc"}
  Points = {p}
  Buttons = {"left"}
  Keys <- OnlyA
  Outside = Outside
  MaxWire = 2
  MaxTurns = 0
INVARIANT KeysymsAreRight
\* The user may stop, and the counted inputs run out.
CHECK_DEADLOCK FALSE
