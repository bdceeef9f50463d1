CONSTANTS
    c1 = c1
    c2 = c2
    Conns = {c1, c2}
    Patient = {}
    Directives = TRUE
    MaxGames = 2
    MaxRequests = 1
    Engines = {"shm", "dde", "ddeNoPid"}
SPECIFICATION Spec
SYMMETRY ConnSymmetry
INVARIANT TypeOK
INVARIANT PointersLive
INVARIANT FeedCurrent
INVARIANT FeedAlternates
INVARIANT ShutdownOrder
INVARIANT ShmClosedMeansExited
PROPERTY FeedSpec
