CONSTANTS
    c1 = c1
    c2 = c2
    c3 = c3
    Conns <- TwoConns
    Kinds = {"cgipost", "cgiget"}
    FirstFd = 3
    MaxFd = 7
    NBlocks = 1
    PostLen = 1
    Free = Free
    File = File
    Listener = Listener
    NoConn = NoConn
    NServers = 2
    SndCap = 1
    MaxGhosts = 1
    AcceptAborts = FALSE
SYMMETRY Symmetry2
SPECIFICATION Spec
INVARIANT NoLeak
PROPERTY ClosedByOwnerOrCgi
