SPECIFICATION Spec
CONSTANTS
    Fd = {4, 5, 6}
    Addr = {a1, a2, a3}
    Nil = Nil
    NickWord = {"amy", "bob", "cat"}
    Lower <- MCLower
    UserWord = {"u"}
    PassWord = {"pw"}
    ServerPass = ""
    Chan = {"#x"}
    LowerChan <- MCLowerChan
    KeyWord = {}
    TopicText = {}
    LimitArg = {}
    ModeFlag = {"i"}
    ChanLimit = 10
SYMMETRY AddrSymmetry
PROPERTY InviteNeedsOperator
CHECK_DEADLOCK FALSE
