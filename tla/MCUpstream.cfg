SPECIFICATION Spec
CONSTANTS
  Host = {h1, h2, h3}
  ConnId = {c1, c2, c3}
  TimerId = {t1, t2}
  MaxConns = 1
  InterimHost = {h1}
  Nil = Nil
SYMMETRY Symmetry
INVARIANTS TypeOK PoolBound NoLeak RightHost NoStaleAnswer NoStaleTimeout BodySentWhole CrashNeedsFailure AnswerWhole
PROPERTY AnswerUndisturbed
CHECK_DEADLOCK FALSE
