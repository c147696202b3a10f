SPECIFICATION MCSpec
CONSTANTS
  MaxSockets = 5
  MaxDrops = 2
  MaxClosing = 2
  MaxAttempts = 3
  Push = {p1}
  Pull = {q1}
  Chunks = 2
  Troubles = {{}, {"loss", "locks", "disk"}}
INVARIANTS SocketTypeOK OneSocket StaysClosed TypeOK ChunksInSequence StopAndWait CompletedIsThere
PROPERTIES Reconnects ImplementsHandover PushEnds
CHECK_DEADLOCK FALSE
