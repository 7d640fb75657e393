CONSTANTS
    c1 = c1  m1 = m1  t1 = t1  tm1 = tm1  s1 = s1  sui = sui  bad = bad
    NotACall = NotACall  NULL = NULL
    MainnetPackages = {c1}
    TestnetPackages = {t1}
    MainnetMarginPackages = {m1, bad}
    TestnetMarginPackages = {tm1}
    SuiPackage = sui
    Unparsable = {bad}
    Word = 16
    Configs <- AllConfigs
SPECIFICATION Spec
CHECK_DEADLOCK FALSE
INVARIANTS ClaimsAreIndexed
