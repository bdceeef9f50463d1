CONSTANTS
    main = main
    c1 = c1
    Threads = {main, c1}
    Webapps = {c1}
    MaxSends = 4
SPECIFICATION FairSpec
INVARIANT NoStaleAnswer
PROPERTY PosixImplements
PROPERTY CallReturns
