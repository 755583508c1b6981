SPECIFICATION FunctionsSpec
CONSTANTS
  SortValues = {0,1,2}
  Lengths = {0,1,2,3,4,5,6,7,8}
  NetworkSizes = {2,3}
  Limit = 5
  FiveFrom = 7
  InsertLimit = 2
  Digits = 2
  Letters = {a, b}
  Spaces = {b}
  Nul = Nul
  BoundedCapacity = 0
  ArraySizes = {0, 1, 2, 3}
  Bits8 = 2
  Bits16 = 4
  Bits32 = 6
  Bits64 = 8
  MaxSteps = 2
  RangeValues = {0,1,2}
  ClassSize = 2
  RangeLength = 4
  NeedleLength = 2
  PtrdiffMax = 7
  CountMax = 4
  Items = {0,1}
  ArrayLengths = {0,1,2,3}
  SizeRange = 64
  PipeValues = {0, 1}
  PipeLength = 4
  PipeRanges = 3
  IotaValues = 4
  IterLength = 3
  IterJump = 3
  IterLaps = 2
  ParseLength = 5
  WordBits = 3
  BitWidths = {2, 3, 5, 6}
INVARIANTS SortsInPlace TextParts StringsAgree NumbersCompute RangesDoAsNamed ViewsSound PipelinesSound IteratorsSound ParsesRight
CHECK_DEADLOCK FALSE
