CONSTANTS
    p1 = p1
    p2 = p2
    w1 = w1
    w2 = w2
    NoPath = NoPath
    Path = {p1, p2}
    ReadBack <- Reads
    Broken = {p2}
    Workers = {w1, w2}
    MaxTime = 2
    MaxRequests = 3
    UserQuiet = TRUE
    IoFails = TRUE
SPECIFICATION Spec
SYMMETRY WorkerSymmetry
INVARIANT LogIsTrue
PROPERTY OwnFilesOnly
PROPERTY LoneRequestsEnd
PROPERTY LogSurvives
