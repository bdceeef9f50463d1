CONSTANTS
    c1 = c1
    c2 = c2
    Conns = {c1}
    Patient = {c1}
    Directives = TRUE
    MaxGames = 1
    MaxRequests = 1
    Engines = {"posix"}
SPECIFICATION FairSpec
PROPERTY Stops
