SPECIFICATION StructuresSpec
CONSTANTS
  PerfectSizes = {1, 3, 6}
  MaxVertices = 2
  GraphIds = 3
  Handles = {a, b, c}
  Objects = {x, y, z}
  None = None
  Mapped = {m1, m2}
  Slots = {1, 2}
  Nothing = Nothing
  MapFailed = MapFailed
  RingValues = {u, v}
  Capacities = {1, 2, 4}
  SizeMax = 7
  Unset = Unset
  QueueBits = 5
  ValueBits = 2
  Keys = {1, 2, 3, 4}
  TableValues = {Default, other}
  Cells = 3
  Empty = Empty
  Default = Default
  VectorValues = {p, q}
  VectorRoom = 3
  Zero = Zero
  HeldValues = {f, g}
  Expected = {e1}
  Unexpected = {e2}
  Moved = Moved
  Nil = Nil
  VectorNames = {v1, v2}
  Allocators = {a1, a2}
  Elements = {p1}
  Gone = Gone
  Blocks = {1, 2}
  Room = 2
  Absent = Absent
  Unknown = Unknown
  OptionalValues = {0, 1, 2}
  Nullopt = Nullopt
  AddressCount = 8
  ArrayAt = 2
  ArrayCount = 3
  PointerJump = 3
  OrderedKeys = {0, 1, 2}
  KeysPerClass = 2
  OrderedValues = {0, 1}
  OrderedCalls = 4
  SplitAllocators = {a1, a2}
  Raw = Raw
  Hollow = Hollow
  SplitRoom = 4
  FirstGrowth = 3
  InputLength = 2
  SplitCalls = 4
INVARIANTS PointersSound RaiiOnPosix QueuesInOrder TablesHold BoundedHolds HoldersSound StorageOwned
CHECK_DEADLOCK FALSE
