\* Each machine alone; their bounds are explained in README.md.
SPECIFICATION Spec
CONSTANTS
  Account = {a1, a2}
  none = none
  MaxIntents = 2
  Server = {s1, s2}
  Gpu = {0}
  MinIdle = 1
  WindowAge = 2
  Cooldown = 2
  MaxAnswers = 2
  Machine = {m1, m2}
  Cards = 2
  Typed = {160, 1234, 20000, junk}
  junk = junk
  MAX_NOTIFICATION_INBOX_ITEMS = 2
  MaxSteps = 3
INVARIANTS
  SessionIsServed
  PhoneRemembers
PROPERTIES
  IdleNoticeIsEarned
SYMMETRY Alike
