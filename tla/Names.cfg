SPECIFICATION DeliverySpec
CONSTANTS
    Fd = {4, 5}
    Addr = {a1, a2}
    Nil = Nil
    NickWord = {"amy", "AMY", "bob"}
    Lower <- MCLower
    UserWord = {"u"}
    PassWord = {"pw"}
    ServerPass = ""
    Chan = {"#x", "#y"}
    LowerChan <- MCLowerChan
    KeyWord = {}
    TopicText = {}
    LimitArg = {}
    ModeFlag = {}
    ChanLimit = 3
SYMMETRY AddrSymmetry
INVARIANTS
    DeliveryTypeOK
    PrivmsgReachesSeen
PROPERTY JoinsRespectChannelLimit
CHECK_DEADLOCK FALSE
