SPECIFICATION LiveSpec
CONSTANT MaxRequests = 3
INVARIANTS TypeOK Delimited LossNeedsHaste
PROPERTY AnsweredOrClosed
CHECK_DEADLOCK FALSE
