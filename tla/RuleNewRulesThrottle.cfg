SPECIFICATION Spec
CONSTANTS
  Task = {t1, t2}
  Ip = {i1}
  RuleSet = {R1, R2}
  Uploads = {R1}
  Downloads = {R1, R2}
  Registry = {g1, g2}
  QuietIp = {}
  Nil = Nil
SYMMETRY Symmetry
INVARIANT NewRulesThrottle
CHECK_DEADLOCK FALSE
