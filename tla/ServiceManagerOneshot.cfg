CONSTANTS
    Services <- AllServices
    Stages = 2
    Stage <- AllStage
    Kind <- AllKind
    Depends <- AllDepends
    Restart <- AllRestart
    Guarded <- AllGuarded
    Nil = Nil
SPECIFICATION Spec
CHECK_DEADLOCK FALSE
INVARIANT OneshotErrorIsFailed
