SPECIFICATION FairSpec
CONSTANTS
  Task = {1, 2}
  Foreground = {2}
  Priority = {10}
  MaxTerminal = 64
PROPERTIES
  BackgroundReservationResolved
