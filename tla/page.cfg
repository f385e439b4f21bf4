CONSTANTS
    Users = {u1, u2}
    None = None
    MaxSession = 2
    MaxVersion = 1
    DoneVersion = 1
    Polls = {p1, p2}
SPECIFICATION FairSpec
INVARIANTS
    TypeOK
    OnePoller
    ScreenFollowsState
PROPERTY SessionSettles
CHECK_DEADLOCK FALSE
