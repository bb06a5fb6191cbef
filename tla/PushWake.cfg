SPECIFICATION FairSpec
CONSTANTS
    NoToken = NoToken
    NoPost = NoPost
    Null = Null
    Unloaded = Unloaded
    Sessions = {session1}
    Workflows = {workflow1}
    Chains = {chain1}
    Tokens = {token1}
    MaxAttempts = 2
    Window = 2
    MaxTime = 2
    MaxChanges = 2
    MaxTrouble = 2
INVARIANTS
    TypeOK
PROPERTIES
    PingsAreAccounted
    TransitionsSettle
