SPECIFICATION Spec
CONSTANTS
  a = a
  b = b
  c = c
  MaxBody = 6
  Byte <- MCByte
  Body <- MCBody
  Find <- MCFind
  Replace <- MCReplace
  Zero = Zero
  BufferSize = 2
  Room = {3}
INVARIANT WholeBodyReplaced
CHECK_DEADLOCK FALSE
