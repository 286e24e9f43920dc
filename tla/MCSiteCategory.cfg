CONSTANTS
    c1 = c1
    c2 = c2
    s1 = s1
    s2 = s2
    Client = {c1, c2}
    Site = {s1, s2}
    Verdict <- MCVerdict
    Stored <- MCStored
    MaxCalls = 3
    MaxFailures = 1
    MaxAgings = 1
SPECIFICATION FairSpec
INVARIANTS CategoryJustified  CacheBehindDatabase
PROPERTIES EveryCallReturns
CHECK_DEADLOCK FALSE
