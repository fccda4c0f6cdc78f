CONSTANTS
    s1 = s1
    s2 = s2
    u1 = u1
    Clients = {s1, s2}
    Uploads = {u1}
    Limit = 1
    MaxLines = 1
    MaxData = 2
SPECIFICATION Spec
CHECK_DEADLOCK FALSE
INVARIANTS
    AnswerMatchesEnd LeftBehind UploadsIntact
PROPERTY
    AnswersEnd
