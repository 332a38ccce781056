SPECIFICATION Spec
CONSTANTS
    Requests <- MCRequests
    BufSize = 4
    HandlerBuf = 3
    DiscardBuf = 2
INVARIANTS
    TypeOK
    TakenInOrder
    BodyTakenWhole
    NothingLeftUnread
PROPERTY
    Released
