CONSTANTS
  CommandLines <- MCCommandLines
  Targets <- MCTargets
  IntOf <- MCIntOf
  None = None
  Malformed = Malformed
  AnyString = AnyString
  DefaultContent <- MCDefaultContent
CHECK_DEADLOCK FALSE
SPECIFICATION Spec
INVARIANT InlinedTakesEffect
