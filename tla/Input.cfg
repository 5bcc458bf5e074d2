\* Mouse and keyboard of an RDP or a VNC session.
SPECIFICATION Spec
CONSTANTS
  Protocols = {"rdp", "vnc"}
  Points = {p, q}
  Buttons = {"left", "right"}
  Keys <- OnlyControl
  Outside = Outside
  MaxWire = 2
  MaxTurns = 1
INVARIANTS ButtonsFollow PointerFollows EachTurnScrollsOnce KeysFollow
\* The user may stop, and the counted inputs run out.
CHECK_DEADLOCK FALSE
