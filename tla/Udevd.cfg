CONSTANTS
    Names <- MCModules
    Modules <- MCModules
    Depends <- MCDepends
    Refused = {}
    Loaders <- MCLoaders
    Wanted <- MCWanted
    NoModule = NoModule
    Cold <- MCCold
    Hot <- MCHot
    Driver <- MCDriver
    Walks <- MCWalks
    SocketSize = 1
    Workers = {w1, w2}
    QueueSize = 1
    NoJob = NoJob
SPECIFICATION UFairSpec
CHECK_DEADLOCK FALSE
INVARIANTS
    DependenciesFirst
    NoSharedDependency
    LoadsHaveWorkers
PROPERTIES
    StayingIsDriven
