SPECIFICATION Spec
CONSTANTS
    tree1 = tree1
    tree2 = tree2
    path1 = path1
    path2 = path2
    remark1 = remark1
    remark2 = remark2
    remark3 = remark3
    Checkouts = {tree1, tree2}
    Files = {path1, path2}
    Blank = Blank
    MaxEdits = 2
    MaxCommits = 3
    MaxLoads = 2
    Nimble = FALSE
    Names = {tree1, tree2}
    NoName = NoName
    MaxOutside = 1
    MaxTyped = 2
    Late = FALSE
    MaxChunks = 2
    MaxWatches = 2
    MaxWire = 2
    MaxMoves = 3
    MaxReplay = 1
    Zooms = FALSE
    MaxFetches = 2
    MaxStoreMoves = 1
    MaxTimeouts = 1
    Ranges = {"today", "7d", "all"}
    MaxPushes = 1
    Quick = FALSE
    MaxTree = 2
    MaxDeeds = 3
    MaxIndex = 2
    MaxQuery = 2
    MaxSent = 2
    Returns = FALSE
    Joins = FALSE
    GateRaces = FALSE
    Sheets = {tree1, tree2}
    Sources <- SourceOrder
    NoSource = NoSource
    ModelCap = 1
    BackCap = 2
    Swaps = FALSE
    Crosses = FALSE
    MaxStore = 3
    MaxChain = 2
    MaxFaults = 1
    MaxSnaps = 2
    Deaf = FALSE
    MaxOrders = 3
    Talks = FALSE
    Leaves = FALSE
    MaxClock = 3
    Tardy = FALSE
    Reverts = FALSE
    Budget = 2
    MaxRecords = 5
    MaxDay = 3
    Reuses = FALSE
    Docs = {path1, path2}
    NoDoc = NoDoc
    HeldBy <- CommitFiles
    Remarks = {remark1, remark2, remark3}
    NoRemark = NoRemark
    PlaceOf <- RemarkPlaces
    MaxTurns = 5
    MaxTexts = 1
    Crosswise = FALSE
    Hurried = FALSE
INVARIANTS
    TypeOK
    ReviewIsTrue
    PanesAreFaithful
    RecordsAreTrue
    NavIsHonest
PROPERTIES
    WorktreesAreSafe
CHECK_DEADLOCK FALSE
