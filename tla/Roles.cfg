SPECIFICATION Spec
CONSTANTS
    Fd = {4, 5}
    Addr = {a1, a2, a3}
    Nil = Nil
    NickWord = {"amy", "AMY", "bob"}
    Lower <- MCLower
    UserWord = {"u"}
    PassWord = {"pw"}
    ServerPass = ""
    Chan = {"#x", "#X"}
    LowerChan <- MCLowerChan
    KeyWord = {}
    TopicText = {}
    LimitArg = {}
    ModeFlag = {"o"}
    ChanLimit = 10
SYMMETRY AddrSymmetry
INVARIANTS
    TypeOK
    MembersLive
    NickIsIdentity
    ModeKeepsChannel
    ChannelNamesUnique
    NoEmptyChannel
PROPERTIES
    LeavingIsComplete
    ImplementsMembership
CHECK_DEADLOCK FALSE
