CONSTANTS
  file = file
  small = small
  pipe = pipe
  Device = {file, small, pipe}
  Sequential = {pipe}
  Size <- MCSize
  BufferSize = 2
  WordMod = 16
SPECIFICATION Spec
CHECK_DEADLOCK FALSE
INVARIANT ReadErrorReported
