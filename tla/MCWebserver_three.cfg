CONSTANTS
    c1 = c1
    c2 = c2
    c3 = c3
    Conns <- ThreeConns
    Kinds = {"get"}
    FirstFd = 3
    MaxFd = 6
    NBlocks = 1
    PostLen = 1
    Free = Free
    File = File
    Listener = Listener
    NoConn = NoConn
    NServers = 1
    SndCap = 1
    MaxGhosts = 1
    AcceptAborts = FALSE
SYMMETRY Symmetry3
SPECIFICATION Spec
INVARIANTS
    ClientsAreOpen NoLeak FilesAreOwned
PROPERTY ClosedByOwner
