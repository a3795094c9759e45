SPECIFICATION FairReportingSpec
CONSTANTS
  Task = {1}
  MaxConn = 2
  MaxInFlight = 2
  DaemonRestarts = 0
  ServerRestarts = 0
  Overlap = TRUE
PROPERTIES
  SessionLasts
