CONSTANTS
    Spellings = {"ana@x", "Ana@X ", "bia"}
    EmailOf <- Addresses
    Invalid = "invalid"
    Passwords = {"p1", "p2", "short"}
    Weak = {"short"}
    Calls = {c1, c2, c3, c4}
    Ttl = 3
    CacheTtl = 2
    Second = 2
    MaxTime = 5
SYMMETRY Symmetric
SPECIFICATION Spec
INVARIANTS
    TypeOK
    OneAccountPerEmail
    ServedIsTheAccount
PROPERTIES
    EverySpellingLogsIn
    SessionsEnd
CHECK_DEADLOCK FALSE
