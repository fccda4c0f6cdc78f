CONSTANTS
    c3 = c3
    c1 = c1
    c2 = c2
    Conns <- TwoConns
    Kinds = {"get", "post", "status", "throw", "postthrow", "cgiget"}
    FirstFd = 3
    MaxFd = 7
    NBlocks = 2
    PostLen = 1
    Free = Free
    File = File
    Listener = Listener
    NoConn = NoConn
    NServers = 2
    SndCap = 1
    MaxGhosts = 1
    AcceptAborts = TRUE
SYMMETRY Symmetry2
SPECIFICATION Spec
INVARIANTS
    TypeOK StaleEntryCause OwnResponse OneResponse Answered UploadExact
    ClientsAreOpen ListenerWatched
