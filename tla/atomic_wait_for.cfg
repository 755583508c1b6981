SPECIFICATION Spec
CONSTANTS
  Values = {zero, wanted}
  Satisfying = {wanted}
  RelTimes = {0, 2, 4}
  Deadlines = {0, 3}
  Spins = 2
  Polls = 1
  HalfAfter = 1
  LongAfter = 2
  LongSleep = 1
  LastCall = 1
  LastSleep = 9
  MaxNow = 11
INVARIANTS ResultIsTrue NeverEarly OversleepBounded
PROPERTIES Returns
