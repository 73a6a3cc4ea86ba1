CONSTANTS
    c1 = c1
    c2 = c2
    k1 = k1
    k2 = k2
    e1 = e1
    e2 = e2
    ALL = ALL
    None = None
    Client = {c1, c2}
    Key = {k1, k2}
    EvtID = {e1, e2}
    MaxSuberNum = 2
    EVTQUEUE_MAX = 1
    EVTCACHED_MAX = 1
    ULONG_MOD = 8
    MaxFaults = 0
    MaxDepth = 3
    MaxAccepted = 3
    MayDrop = {}
    SubArgs <- MCSubArgs
    Msg <- LiveMsg
    EvtOf <- LiveEvtOf
    PostedBy <- LivePostedBy
    Options <- ClientOptions

SPECIFICATION HungSpec

PROPERTIES
    CtxMutexReleased
    QueuedIsTaken
    NonBlockReturns
