CONSTANTS
    base = base
    t = t
    a = a
    b = b
    f = f
    g = g
    x = x
    y = y
    Nodes = {t, a, b, f, g, x, y}
    Base = base
    Parent <- Parents
    Depth <- Depths
    Trees <- SomeTrees
    MaxRequests = 2
SPECIFICATION Spec
CHECK_DEADLOCK FALSE
INVARIANTS
    AnswerTells SameInAnyOrder
PROPERTY
    OnlyWhatPasses
