SPECIFICATION LiveSpec
CONSTANTS
  Nil = Nil
  Symbol <- MCSymbol
  NewLine = "nl"
  Number = {"200", "418"}
  BadPattern <- MCBadPattern
  BadUrl <- MCBadUrl
  Config <- MCConfig
  Request <- MCRequest
  Response <- MCResponse
  MaxAccidents = 2
INVARIANTS TypeOK OnlyMatchingRules StatusAgrees LengthTrue HeaderLinesKept ServesItsPair OneCa
PROPERTY Recovers
CHECK_DEADLOCK FALSE
