SPECIFICATION WireSpec
CONSTANTS
  Mb = {0, 1}
  none = none
  Device = {0, 1}
  Place = {p0, p1}
INVARIANTS HistoryIsAListOrNull
CHECK_DEADLOCK FALSE
