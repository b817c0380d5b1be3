SPECIFICATION Spec
CONSTANTS
    Fd = {4, 5}
    Addr = {a1, a2, a3}
    Nil = Nil
    NickWord = {"amy", "bob"}
    Lower <- MCLower
    UserWord = {"u"}
    PassWord = {"pw"}
    ServerPass = ""
    Chan = {"#x"}
    LowerChan <- MCLowerChan
    KeyWord = {"k"}
    TopicText = {"t"}
    LimitArg = {0, 1, 2}
    ModeFlag = {"i", "k", "l", "t"}
    ChanLimit = 10
SYMMETRY AddrSymmetry
PROPERTIES
    GrowthRespectsLimit
    EntryNeedsInvitation
CHECK_DEADLOCK FALSE
