SPECIFICATION Spec
CONSTANTS
    s1 = s1
    s2 = s2
    Sessions <- OneSession
    MAX_CREDIT_CNT = 33
    INITIAL_CREDITS = 7
    PfCost = 0
    MaxUnderWay = 4
INVARIANTS
    TypeOK
    NeverStarved
    GrantsBounded
PROPERTY StreamFlows
CHECK_DEADLOCK FALSE
