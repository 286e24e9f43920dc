CONSTANTS
    Thread = {t1, t2}
    Scenario <- MCScenario
SPECIFICATION Spec
INVARIANTS
    PassedWithinLimit
    OvershootBounded
    SynRuleOnlyOpens
    AnswerCountedOpposite
SYMMETRY MCSymmetry
CHECK_DEADLOCK FALSE
