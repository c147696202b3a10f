SPECIFICATION Spec
CONSTANTS
  Push = {}
  Pull = {q1}
  Chunks = 1
  Troubles = {{}}
PROPERTIES PullStarts
CHECK_DEADLOCK FALSE
