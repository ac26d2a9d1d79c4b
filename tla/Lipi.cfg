CONSTANTS
    Texts <- T
    Holes <- H
    Lines <- Typed
    MaxInt = 20
    MaxLines = 4
SPECIFICATION Spec
CHECK_DEADLOCK FALSE
INVARIANTS
    AsksOnlyForMore
PROPERTIES
    ImplementsLisp
