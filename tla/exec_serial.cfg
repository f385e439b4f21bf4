CONSTANTS
    m1 = m1
    m2 = m2
    m3 = m3
    r1 = r1
    Requests = {r1}
    Messages = {m1, m3}
    RequestOf <- OnePerRequest
    Workers = {w1, w2}
    NoMessage = NoMessage
    RunErrors = {"transient", "unprocessable", "missing"}
    MaxAttempts = 3
    MaxReceives = 3
    Faults = {"call", "lost", "crash"}
SPECIFICATION FairSpec
INVARIANTS
    TypeOK
    AnnouncedIsRecorded
    RetryIsDelivered
PROPERTIES
    OutcomeIsFinal
    AttemptsAdvance
    EveryOutcomeIsTold
CHECK_DEADLOCK FALSE
