SPECIFICATION FairSpec
CONSTANTS
    None = None
    MaxFloating = 1
    MaxTerms = 3
    MaxFlows = 2
    Picks = {"2-h"}
    Hasty = FALSE
    agent = agent
    plain = plain
    Shells = {agent, plain}
    AgentCommand = {agent}
    Quiet = Quiet
    tree1 = tree1
    tree2 = tree2
    Trees = {tree1, tree2}
    Unset = Unset
    Roams = FALSE
    Slow = FALSE
    ws1 = ws1
    ws2 = ws2
    ws3 = ws3
    Order <- Sidebar
    Nobody = Nobody
    Overlap = FALSE
    Noisy = {ws1}
    Stale = FALSE
INVARIANTS
    TypeOK
    ShellsAreReachable
    DotIsHonest
    NeverOverbooked
    NothingSavedIsLost
PROPERTIES
    StepsUndoNothing
    RestoringFinishes
CHECK_DEADLOCK FALSE
