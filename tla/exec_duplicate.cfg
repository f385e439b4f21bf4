CONSTANTS
    m1 = m1
    m2 = m2
    m3 = m3
    r1 = r1
    Requests = {r1}
    Messages = {m1, m2}
    RequestOf <- Duplicated
    Workers = {w1, w2}
    NoMessage = NoMessage
    RunErrors = {"transient"}
    MaxAttempts = 2
    MaxReceives = 2
    Faults = {"call", "crash", "lapse"}
SYMMETRY SymmetricWorkers
SPECIFICATION Spec
INVARIANTS
    DeletedIsDelivered
    CompletedHasZip
CHECK_DEADLOCK FALSE
