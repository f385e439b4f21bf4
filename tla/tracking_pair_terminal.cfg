CONSTANTS
    Requests = {"r1"}
    Traffic <- OneOutcome
    Messages = {m1, m2}
    Consumers = {c1, c2}
    NoMessage = NoMessage
    BatchSize = 1
    MaxReceives = 2
SPECIFICATION Spec
PROPERTY TerminalIsFinal
CHECK_DEADLOCK FALSE
