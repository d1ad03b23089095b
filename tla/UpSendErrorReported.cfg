SPECIFICATION Spec
CONSTANTS
  Host = {h1, h2}
  ConnId = {c1, c2}
  TimerId = {t1, t2}
  MaxConns = 0
  InterimHost = {}
  Nil = Nil
INVARIANT SendErrorReported
CHECK_DEADLOCK FALSE
