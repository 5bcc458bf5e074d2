\* Both kinds of session: SSH with one channel object behind a mutex, PTY with
\* separate reader and writer and a child that is killed.
SPECIFICATION Spec
CONSTANTS
  Kinds = {"ssh", "pty"}
  Cap = 1
  InRoom = 1
  OutRoom = 1
  MaxOut = 2
  MaxIn = 2
INVARIANTS
  NothingLost
  EndsAfterStop
  ChannelExclusive
  RestIsIdle
PROPERTIES
  PipeRefined
  HangupEndsTasks
  PtyKeystrokeWritten
\* A session that is over takes no further step.
CHECK_DEADLOCK FALSE
