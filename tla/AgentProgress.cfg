\* The daemon with a background and a foreground task, and the admission of
\* three tasks to two GPUs.
SPECIFICATION ProgressSpec
CONSTANTS
  Task = {1, 2}
  Foreground = {2}
  Priority = {10}
  MaxTerminal = 64
  Wanting = {1, 2, 3}
  Typed = {1}
  Device = {0, 1}
  Level = {10}
  Seen = {0, 3000}
PROPERTIES
  ForegroundReservationResolved
  EndBecomesKnown
  AcceptedEventuallyRuns
