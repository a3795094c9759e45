\* Four machines, each alone; their bounds are explained in README.md.
SPECIFICATION Spec
VIEW ApartFromAnswer
CONSTANTS
    Task = {1, 2, 3}
    Foreground = {}
    MayFail = {1}
    Exclusive = {2}
    Need <- MixedNeed
    Count <- MixedCount
    Priority = {5, 10}
    Gpu = {0, 1}
    Total <- MCTotal
    Noisy = {0}
    Foreign = {0, 5000}
    Usage = {0, 3000}
    MaxSamples = 2
    f1 = f1
    Finding = {f1}
    MaxEvents = 4
    RecentInterval = 2
    ArchiveInterval = 3
    KeepCount = 2
    WindowSeconds = 1
    WindowRetentionSeconds = 2
    ArchiveSeconds = 3
    Behinds = {0, 1}
    MaxTime = 5
    MaxRestarts = 1
    MaxRepeats = 2
    user = user
    root = root
    s1 = s1
    s2 = s2
    Account <- MCAccount
    Chosen <- MCChosen
    UserOf <- MCUserOf
    Root = root
    ServerOf <- MCServerOf
    TaskRow <- MCTaskRow
    Using <- MCUsing
    DefaultPageSize = 2
    MaxPageSize = 3
    MaxPersons = 2
    MaxBindings = 3
    Agent = {n1, n2}
    Job = {n1}
    NodeOf <- MCNodeOf
    gone = gone
    MaxRows = 2
INVARIANTS
    ViewsAgree
    PromisesCanBeKept
    EventsAreSound
    CommandsReachTheirNode
PROPERTIES
    NoOvertaking
    RetentionIsRight
    BindingsAreChosen
