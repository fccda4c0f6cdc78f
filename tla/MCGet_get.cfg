CONSTANTS
    c1 = c1
    c2 = c2
    c3 = c3
    Clients = {c1, c2, c3}
    Characters <- Alphabet
    NameChars = {"/", "?", "a", "b", "f", "g", "h", "R", "S"}
    Scenarios <- Some
    Disk <- Files
    ListLen = 2
    Block = 2
    MaxPages = 2
SYMMETRY Same
SPECIFICATION Spec
CHECK_DEADLOCK FALSE
INVARIANTS
    BodyAsAnnounced ListingIsOwn  RoutesAgree
