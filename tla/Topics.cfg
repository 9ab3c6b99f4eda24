SPECIFICATION MCSpec
CONSTANTS
    Clients = {"c1", "c2"}
    Scenarios <- SomeScenarios
    NoPayload = "none"
    Denied <- SomeDenied
    Refused <- SomeRefused
    Mqtt5 = {"c2"}
    MaxSubs = 2
    MaxTurns = 2
INVARIANTS
    RecordsAgree
    GroupsTakeTurns
    MatchExact
PROPERTIES
    TreeImplementsFlat
CHECK_DEADLOCK FALSE
