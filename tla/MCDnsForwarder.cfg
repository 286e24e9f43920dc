SPECIFICATION Spec
CONSTANTS
    Allowed = {"c1", "c2"}
    Refused = {"c3"}
    Id = {"7", "8"}
    Ext = {"a", "b"}
    Host = {"7"}
    Servers = 2
    QueueTime = 2
    SelectTime = 2
    Ttl = {1}
    LeaseTime = 2
    World <- MCWorld
INVARIANTS RightAnswer ServedInTime
PROPERTIES AnsweredOnce EventuallyAnswered
