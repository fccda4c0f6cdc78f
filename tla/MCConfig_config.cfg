CONSTANTS
    Files <- Some
SPECIFICATION Spec
CHECK_DEADLOCK FALSE
INVARIANTS
    AcceptedAsMeant NoneRefused
