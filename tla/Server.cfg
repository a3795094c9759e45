\* Five machines, each alone; their bounds are explained in README.md.
SPECIFICATION ServerSpec
CONSTANTS
  Always = {cpu}
  Sometimes = {disk}
  Card = {0}
  Pid = {1}
  Duration = 2
  IdleDuration = 1
  OfflineAfter = 1
  Touched = {cpu}
  MaxRestarts = 1
  Task = {1}
  MaxConn = 3
  MaxInFlight = 2
  DaemonRestarts = 1
  ServerRestarts = 2
  Overlap = FALSE
  Setting = {t1, t2}
  Value = {0, 1}
  Default = 0
  MaxSaves = 2
  MaxKills = 2
  MaxMoves = 1
  Mb = {0, 1}
  Device = {0, 1}
  none = none
  Place = {p0, p1}
INVARIANTS
  ActiveIsKnown
  TableIsTrue
  AnnouncementsAgree
  DatabaseIsKept
  TaskIsShownAsReported
PROPERTIES
  RaisedAfterDuration
  RecoveryHasCause
  LifecycleSpec
  TroubleIsAlerted
  TerminalStays
  EndReachesTheTable
  SaveKeepsTheRest
