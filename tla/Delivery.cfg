SPECIFICATION DeliverySpec
CONSTANTS
    Fd = {4, 5, 6}
    Addr = {a1, a2, a3}
    Nil = Nil
    NickWord = {amy, bob, cat}
    Lower <- MCLower
    UserWord = {"u"}
    PassWord = {}
    ServerPass = ""
    Chan = {"#x"}
    LowerChan <- MCLowerChan
    KeyWord = {}
    TopicText = {}
    LimitArg = {}
    ModeFlag = {}
    ChanLimit = 10
SYMMETRY NameSymmetry
INVARIANTS
    NoGhosts
    SeeEachOther
PROPERTY
    LeaveAuthority
CHECK_DEADLOCK FALSE
