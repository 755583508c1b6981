SPECIFICATION Spec
VIEW Object
CONSTANTS
  Values = {x, y, z}
  Default = x
  Unspecified = Unspecified
  Raw = Raw
  MaxSize = 5
  MaxArgs = 3
PROPERTIES AppendIsStrong
CHECK_DEADLOCK FALSE
