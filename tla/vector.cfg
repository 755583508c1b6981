SPECIFICATION Spec
VIEW Object
CONSTANTS
  Values = {x, y, z}
  Default = x
  Unspecified = Unspecified
  Raw = Raw
  MaxSize = 5
  MaxArgs = 3
INVARIANTS LifetimesOK
PROPERTIES DoesAsTold ThrowsSafely
CHECK_DEADLOCK FALSE
