\* One server is enough: a refresh between two reports.
SPECIFICATION IdleSpec
CONSTANTS
  Server = {s1}
  Gpu = {0}
  MinIdle = 1
  WindowAge = 2
  Cooldown = 3
  MaxAnswers = 1
PROPERTIES
  OneNoticePerCooldown
