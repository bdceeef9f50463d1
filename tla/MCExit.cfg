CONSTANTS
    w1 = w1
    s1 = s1
    s2 = s2
    s3 = s3
    a = a
    p = p
    Webapps = {w1}
    Sockets = {s1, s2, s3}
    Peers = {a}
    Protocols = {p}
    MaxEvents = 3
SPECIFICATION FairSpec
CHECK_DEADLOCK FALSE
PROPERTY ServerCanBeStopped
