SPECIFICATION FairSpec
CONSTANTS
    calm = calm
    alarm = alarm
    conn1 = conn1
    conn2 = conn2
    cmd1 = cmd1
    cmd2 = cmd2
    req1 = req1
    Worlds = {calm, alarm}
    Speech = {alarm}
    Nothing = Nothing
    Conns = {conn1, conn2}
    MaxTrouble = 3
    StopBusy = TRUE
    EarlyClick = FALSE
    Commands = {cmd1, cmd2}
    KindOf <- Kinds2
    MaxCached = 1
    Requests = {req1}
    Grants <- GrantSets
    MaxEvents = 2
INVARIANTS
    TypeOK
    RemoteIsAccounted
PROPERTIES
    CatchesUp
