CONSTANTS
    c1 = c1
    c2 = c2
    proc = proc
    None = None
    Client = {c1, c2}
    EvtProcer = proc
    Manager = {c1}
    RegMax = 1
    PubMax = 1
    SubMax = 2
    Depth = 2
    Address = {"queue"}
    EvtID <- MCEvtID
    SubArgs <- MCSubArgs
    Msg <- WrapMsg
    EvtOf <- WrapEvtOf
    PostedBy <- WrapPostedBy

SPECIFICATION FairSpec

PROPERTY
    UnsubReturns

CHECK_DEADLOCK FALSE
