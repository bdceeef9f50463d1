CONSTANTS
    c1 = c1
    c2 = c2
    Conns = {c1, c2}
    Patient = {c1, c2}
    Directives = FALSE
    MaxGames = 1
    MaxRequests = 1
    Engines = {"posix"}
SPECIFICATION FairSpec
INVARIANT OnlyCloseCrashes
PROPERTY OpenIsHeard
PROPERTY CloseIsHeard
PROPERTY Stops
