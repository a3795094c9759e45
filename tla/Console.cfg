\* Each machine alone; their bounds are explained in README.md.
SPECIFICATION Spec
CONSTANTS
  Filter = {f1, f2}
  FirstFilter = f1
  MaxVersion = 2
  MaxRequests = 3
  Acct = {b1, b2}
  Owner = {o1}
  nil = nil
  Person = {u1}
  Machine = {m1}
  Password = {w1, w2}
  admin = admin
  guest = guest
  MaxTokens = 2
  MaxRestarts = 2
  Node = {n1, n2}
  MaxClock = 4
  Window = 3
  MaxReports <- OfOneNode
  MaxOverviews = 1
  MaxSeeds = 2
  Host = {n1, n2}
  FirstPreset = 1
  OtherPreset = 2
  LastTime = 3
  MaxAsked = 2
  Human = {h1, h2}
  MaxKeys = 2
  MaxUnderWay = 2
INVARIANTS
  PageIsCurrent
  SessionIsOne
  ChartsAreWhole
  PastIsWhatWasAsked
  PersonPageIsTrue
PROPERTIES
  WizardDoesWhatWasAgreed
\* The wizard stops when its page has been left.
CHECK_DEADLOCK FALSE
