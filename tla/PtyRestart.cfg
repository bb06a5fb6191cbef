SPECIFICATION Spec
CONSTANTS
    agent1 = agent1
    agent2 = agent2
    Agents = {agent1}
    Terms = {1, 2}
    SpawnSize = 3
    DesktopSizes = {1, 3}
    PhoneSizes = {1, 4}
    Floor = 2
    NoSize = NoSize
    NoAgent = NoAgent
    NoWatch = NoWatch
    NoEntry = NoEntry
    AgentOf <- RestartAgentOf
    RestartOverlap = TRUE
    StalePublish = TRUE
INVARIANTS
    TypeOK
    GateFollowsWatch
    DesktopSizeRestored
    ViewportIsHonest
