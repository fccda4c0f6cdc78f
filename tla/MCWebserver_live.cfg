CONSTANTS
    c1 = c1
    c2 = c2
    c3 = c3
    Conns <- TwoConns
    Kinds = {"post", "get", "throw", "postthrow", "redirect"}
    FirstFd = 3
    MaxFd = 7
    NBlocks = 1
    PostLen = 1
    Free = Free
    File = File
    Listener = Listener
    NoConn = NoConn
    NServers = 1
    SndCap = 1
    MaxGhosts = 1
    AcceptAborts = FALSE
SPECIFICATION FairSpec
PROPERTIES NoStarvation ImplementsService
