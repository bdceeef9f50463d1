CONSTANTS
    main = main
    c1 = c1
    Threads = {main, c1}
    Main = main
    MaxSends = 4
SPECIFICATION FairSpec
INVARIANT MutexGivenBack
INVARIANT AnswersMatch
PROPERTY ShmImplements
PROPERTY SendReturns
