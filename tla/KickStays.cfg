SPECIFICATION Spec
CONSTANTS
    Fd = {4, 5}
    Addr = {a1, a2, a3}
    Nil = Nil
    NickWord = {"amy", "bob"}
    Lower <- MCLower
    UserWord = {"u"}
    PassWord = {"pw"}
    ServerPass = ""
    Chan = {"#x"}
    LowerChan <- MCLowerChan
    KeyWord = {}
    TopicText = {}
    LimitArg = {}
    ModeFlag = {}
    ChanLimit = 10
SYMMETRY AddrSymmetry
PROPERTY KickExpels
CHECK_DEADLOCK FALSE
