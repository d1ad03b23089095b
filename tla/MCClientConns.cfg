SPECIFICATION LiveSpec
CONSTANTS
  Client = {c1, c2}
  Connecting = {c1}
  MaxConnsKeptAlive = 1
  MaxUncounted = 1
  Nil = Nil
INVARIANTS TypeOK CountsConserved SetsFollowConns IdleClockRight FinishedIsClosed NilIsOver
PROPERTIES IdleReaped ClosedIsForgotten
CHECK_DEADLOCK FALSE
