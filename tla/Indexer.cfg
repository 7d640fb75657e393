CONSTANTS
    c1 = c1  c2 = c2  m1 = m1  t1 = t1  tm1 = tm1  s1 = s1  x1 = x1
    poolA = poolA  poolB = poolB
    sui = sui  bad = bad
    NotACall = NotACall  NULL = NULL
    MainnetPackages = {c1, c2}
    TestnetPackages = {t1}
    MainnetMarginPackages = {m1, bad}
    TestnetMarginPackages = {tm1}
    SuiPackage = sui
    Unparsable = {bad}
    Word = 16
    Watched <- AllWatched
    Blocks <- AllBlocks
    Modes <- AllModes
    Fanout = 2
    MaxCheckpoints = 2
    MaxCrashes = 1
SPECIFICATION MCFairSpec
CHECK_DEADLOCK FALSE
INVARIANTS
    NothingMissing
    NothingInvented
    OneHome
PROPERTIES
    EventuallyIndexed
    ImplementsLog
