SPECIFICATION FairSpec
CONSTANTS
    Unknown = Unknown
    MaxWrites = 2
    MaxJobs = 2
    MaxReads = 2
    Eager = FALSE
    Nothing = Nothing
    MaxTexts = 2
    Race = FALSE
    Platforms = {"darwin", "win32"}
    Slow = FALSE
    Lag = FALSE
    Stacks = FALSE
    log1 = log1
    log2 = log2
    Logs <- LogOrder
    Absent = Absent
    Sealed = Sealed
    MaxLines <- LineBound
    MaxFailures = 2
    Spoilt = {log1}
    MaxReforks = 1
    Reseal = FALSE
    Regrow = FALSE
    NoWorker = NoWorker
    MaxSpans = 3
    MaxTransitions = 2
    MaxBoots = 1
    EarlyExit = FALSE
    MaxPatches = 3
    Peeks = FALSE
    repo1 = repo1
    repo2 = repo2
    tree1 = tree1
    tree2 = tree2
    Repos = {repo1, repo2}
    Trees = {tree1, tree2}
    Chosen = tree1
    NoRepo = NoRepo
    MaxQueue = 2
    Reopens = FALSE
    cm1 = cm1
    cm2 = cm2
    Comments = {cm1, cm2}
    Places = {tree1, tree2}
    NoComment = NoComment
    MaxChanges = 4
    MaxInbox = 1
    Piles = FALSE
    MaxCalls = 2
    Paths = {tree1}
    MaxListings = 2
    MaxPages = 2
    Jumbled = FALSE
    a1 = a1
    a2 = a2
    Agents = {a1, a2}
    MaxListing = 1
    MaxHands = 1
    Meddles = FALSE
    Overtakes = FALSE
    Early = FALSE
    Interrupts = FALSE
INVARIANTS
    TypeOK
    PluginIsHonest
    TelemetryIsExact
PROPERTIES
    StateIsKept
    InstallIsSafe
    ClosingIsSafe
    ReviewsAreShared
CHECK_DEADLOCK FALSE
