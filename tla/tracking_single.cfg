CONSTANTS
    Requests = {"r1"}
    Traffic <- Mixed
    Messages = {m1, m2}
    Consumers = {c1}
    NoMessage = NoMessage
    BatchSize = 2
    MaxReceives = 3
SPECIFICATION FairSpec
INVARIANTS
    TypeOK
    AcknowledgedIsSettled
    StatusIsExplained
PROPERTIES
    TerminalIsFinal
    ImplementsLifecycle
    OutcomeSurfaces
CHECK_DEADLOCK FALSE
