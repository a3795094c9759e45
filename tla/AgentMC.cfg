\* Each machine alone; their bounds are explained in README.md.
SPECIFICATION PartSpec
CONSTANTS
  Task = {1, 2, 3}
  Foreground = {3}
  Priority = {10}
  MaxTerminal = 2
  Pid = {p1, p2}
  Command = {c1, c2}
  nobody = nobody
  stale = stale
  Alarm = {al1, al2}
  Tabs = {"all", "active"}
  PAGE_SIZE = 1
  MaxAsks = 2
  MaxOffset = 1
  Alphabet <- AllOwners
  Hash <- SameHash
  Palette = 3
  Hues = 2
  MaxMb = 2
  MaxRows = 3
INVARIANTS
  QueueConsistent
  BackgroundProcessOwned
  ForegroundProcessKnown
  DaemonIsReachable
  AlertsPageIsTrue
  SharesAddUp
PROPERTIES
  EndIsTrue
  NoSilentForgetting
  LifecycleSpec
SYMMETRY Alike
