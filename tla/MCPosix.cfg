CONSTANTS
    Port <- Ports
    MaxGames = 3
    Manners = {TRUE, FALSE}
SPECIFICATION FairSpec
INVARIANT NeverMissed
PROPERTY GameReached
PROPERTY ExitNoticed
