CONSTANTS
  width = 4
  ByteWidth = 8
  Images <- MCImages
CHECK_DEADLOCK FALSE
SPECIFICATION StimuliSpec
INVARIANTS StimuliTypeOK PackedExactly
