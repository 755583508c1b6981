SPECIFICATION MappedSpec
CONSTANTS
  Mapped = {m1, m2}
  Slots = {1, 2}
  Nothing = Nothing
  MapFailed = MapFailed
INVARIANTS RaiiMappedFile
CHECK_DEADLOCK FALSE
