SPECIFICATION Spec
CONSTANTS
  early = early
  late = late
  zero = zero
  one = one
  two = two
  Waiters <- MCWaiters
  Writers = {p1, p2}
  Values <- MCValues
  Unloaded = Unloaded
  Satisfying <- MCSatisfying
INVARIANTS WaitsForPredicate NoLostWakeup
PROPERTIES StandingValueIsSeen
