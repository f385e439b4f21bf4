CONSTANTS
    m1 = m1
    r1 = r1
    Requests = {r1}
    Relays = {x1}
    Batch = 1
    MaxId = 1
    WorkMessages = {m1}
    RequestOf <- Once
    Workers = {w1}
    RunErrors = {"transient"}
    MaxAttempts = 1
    Faults = {}
    ApiMessages = {1, 2}
    Consumers = {c1, c2}
    BatchSize = 1
    NoMessage = NoMessage
    WorkReceives = 1
    ApiReceives = 2
SYMMETRY SymmetricPods
SPECIFICATION Spec
INVARIANTS
    TerminalIsTrue
    MailedIsRecorded
PROPERTIES
    AppliedOnce
    ReportsHonestly
CHECK_DEADLOCK FALSE
