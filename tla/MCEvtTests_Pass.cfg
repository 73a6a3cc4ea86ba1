CONSTANTS
    None = None
    Client = {"main", "A", "B", "C", "D", "E", "X1", "X2", "X3", "X4"}
    EvtProcer = "proc"
    Manager = {"main", "A", "B", "C", "D", "E", "X1", "X2", "X3", "X4"}
    RegMax = 4
    PubMax = 3
    SubMax = 4
    Depth = 3
    Address = {"queue"}
    EvtID <- TestEvtID
    SubArgs <- TestSubArgs
    Msg <- TestMsg
    EvtOf <- TestEvtOf
    PostedBy <- TestPostedBy
    Rounds = 4
    ObjRounds = 1
    Cases = {"Case01", "CaseC01", "Case02", "Case03", "Case04"}
    ObjSets = {{"A", "B"}, {"A", "D", "E"}}
    MaxRacing = 2

SPECIFICATION TestSpec

INVARIANTS
    CallsReturnAsAsserted
    EventsAsAsserted
    NothingLeftBehind

PROPERTY
    TestsEnd

CHECK_DEADLOCK FALSE
