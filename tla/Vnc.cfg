\* Two cells, two colours; the queue is full with one packet.
SPECIFICATION Spec
CONSTANTS
  Size = 2
  Colours = {0, 1}
  Black = 0
  Cap = 1
  MaxChanges = 1
INVARIANTS PictureInStep AlwaysAsked NeverOutOfStep RestIsIdle
PROPERTIES LastPictureShown HangupAndEofEndTasks
\* A session that is over takes no further step.
CHECK_DEADLOCK FALSE
