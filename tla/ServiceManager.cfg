CONSTANTS
    Services <- AllServices
    Stages = 2
    Stage <- AllStage
    Kind <- AllKind
    Depends <- AllDepends
    Restart <- AllRestart
    Guarded <- AllGuarded
    Nil = Nil
SPECIFICATION FairSpec
CHECK_DEADLOCK FALSE
INVARIANTS
    DependsLaunched
    StageBarrier
    NoOrphanOnReturn
PROPERTIES
    ImplementsStagedBoot
    BootStallsOnlyOnFailingRestart
    RestartRelaunches
