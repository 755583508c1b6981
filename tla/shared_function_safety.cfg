SPECIFICATION Spec
CONSTANTS
  Threads = {t1, t2, t3}
  Strong = {s1, s2, s3}
  Weak = {w1, w2}
  Blocks = {b1, b2}
  NULL = NULL
SYMMETRY Symmetry
INVARIANTS CountsExact NoUseAfterDelete SingleReaper NoLeak
PROPERTIES NoResurrection LockFailsOnlyWhenExpired
CHECK_DEADLOCK FALSE
