SPECIFICATION Spec
CONSTANTS
  Threads = {t1, t2}
  Strong = {s1, s2, s3}
  Weak = {w1, w2}
  Blocks = {b1}
  NULL = NULL
PROPERTIES ImplementsOwnership
CHECK_DEADLOCK FALSE
