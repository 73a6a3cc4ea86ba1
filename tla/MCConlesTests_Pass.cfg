CONSTANTS
    main = main
    T1 = T1
    T2 = T2
    T3 = T3
    ALL = ALL
    None = None
    Client = {main, T1, T2, T3}
    Key <- TestKey
    EvtID <- TestEvtID
    MaxSuberNum = 3
    EVTQUEUE_MAX = 1
    EVTCACHED_MAX = 1
    ULONG_MOD = 8
    MaxFaults = 0
    MaxDepth = 3
    MaxAccepted = 9
    MayDrop = {}
    SubArgs <- TestSubArgs
    Msg <- TestMsg
    EvtOf <- TestEvtOf
    PostedBy <- TestPostedBy
    Options <- TestOptions
    Rounds = 3
    Moves = 1
    Collisions = 1
    Cases <- PassingCases

SPECIFICATION TestSpec

INVARIANTS
    CallsReturnAsAsserted
    CountsAsAsserted
    CallbackAlone

PROPERTY
    TestsEnd

CHECK_DEADLOCK FALSE
