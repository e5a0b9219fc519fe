\* A save can fail at every request.
CONSTANTS
  r1 = r1
  r2 = r2
  Requests <- TwoRequests
  QueueBound = 1
SPECIFICATION Spec
INVARIANT ConnectedAreAnswered
\* A stream ends.
CHECK_DEADLOCK FALSE
