SPECIFICATION FairSpec
CONSTANTS
    agent1 = agent1
    agent2 = agent2
    Agents = {agent1, agent2}
    Terms = {1, 2}
    SpawnSize = 3
    DesktopSizes = {1}
    PhoneSizes = {4}
    Floor = 2
    NoSize = NoSize
    NoAgent = NoAgent
    NoWatch = NoWatch
    NoEntry = NoEntry
    AgentOf <- SwitchAgentOf
    RestartOverlap = FALSE
    StalePublish = FALSE
PROPERTIES
    ImplementsOwnership
    PromisesAreKept
