CONSTANTS
    m1 = m1
    m2 = m2
    m3 = m3
    r1 = r1
    Requests = {r1}
    Messages = {m1}
    RequestOf <- OneMessage
    Workers = {w1}
    NoMessage = NoMessage
    RunErrors = {"transient", "unprocessable", "missing"}
    MaxAttempts = 3
    MaxReceives = 3
    Faults = {"call"}
SPECIFICATION Spec
INVARIANT OneMail
CHECK_DEADLOCK FALSE
