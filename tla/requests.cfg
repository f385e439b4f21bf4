CONSTANTS
    Users = {u1, u2}
    Videos = {v1, v2}
    Calls = {c1, c2, c3, c4}
    None = None
SYMMETRY Symmetric
SPECIFICATION Spec
INVARIANTS
    TypeOK
    AcceptedIsTheRequest
    OneEventPerRequest
    RequestHadUpload
    OnlyOwnersAreServed
PROPERTY AcceptedIsListed
CHECK_DEADLOCK FALSE
