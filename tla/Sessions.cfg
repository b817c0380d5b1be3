SPECIFICATION SessionSpec
CONSTANTS
    Fd = {4, 5, 6}
    Addr = {a1, a2, a3, a4}
    Nil = Nil
    NickWord <- MCNickWord
    Lower <- MCLower
    UserWord = {"u"}
    PassWord = {"pw", "bad"}
    ServerPass = "pw"
SYMMETRY AddrSymmetry
INVARIANTS
    SessionTypeOK
    RegistryConsistent
    NicksUnique
    Credentialed
