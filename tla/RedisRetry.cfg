CONSTANTS
  Keys = {k1}
  Values = {v1}
  Nil = Nil
  MAX_RETRY_TIMES = 3
  MaxContexts = 2
  MaxChanges = 2
SPECIFICATION Spec
INVARIANT AllFailedIsTrue
CHECK_DEADLOCK FALSE
