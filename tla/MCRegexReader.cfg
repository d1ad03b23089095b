SPECIFICATION Spec
CONSTANTS
  a = a
  b = b
  c = c
  MaxBody = 8
  Byte <- MCByte
  Body <- MCBody
  Find <- MCFind
  Replace <- MCReplace
  Zero = Zero
  BufferSize = 2
  Room = {3}
INVARIANTS TypeOK UnmatchedIsVerbatim SimpleIsExact PanicNeedsGrowth
PROPERTY ImplementsReader
CHECK_DEADLOCK FALSE
