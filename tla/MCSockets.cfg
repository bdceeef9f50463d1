CONSTANTS
    w1 = w1
    s1 = s1
    s2 = s2
    s3 = s3
    s4 = s4
    b = b
    a = a
    p = p
    q = q
    Webapps = {w1}
    Sockets = {s1, s2, s3, s4}
    Peers = {a, b}
    Protocols = {p, q}
    MaxEvents = 3
SPECIFICATION FairSpec
CHECK_DEADLOCK FALSE
INVARIANT OnlyEntangledStuck
INVARIANT OneSocketPerPeer
INVARIANT EntriesAgree
INVARIANT CrashOnlyAtExit
INVARIANT NoJoinUnderLock
PROPERTY ExitCompletes
