SPECIFICATION Spec
CONSTANTS
  BUFFER_MAX = 8
  Texts = {1, 2}
  Sizes = {1, 2, 3, 5, 7, 8, 9}
INVARIANTS
  PrintsNewest
  StaysInBuffer
PROPERTIES
  PushEnds
