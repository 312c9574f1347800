SPECIFICATION MCSpec
CONSTANTS
  IntBits = 2
  ByteBits = 1
  Signatures <- Methods
  Entry <- Main
  Infinity = 3
  NaN = 4
  ShortForms = 1
  PushedInts = {1}
  PushedFloats = {4}
  Refs = {0, 1}
  Selected <- Selection
  MaxOperands = 3
  MaxFrames = 2
INVARIANTS
  CountsEachParameterOnce
CHECK_DEADLOCK FALSE
