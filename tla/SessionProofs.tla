--------------------------- MODULE SessionProofs ---------------------------
(***************************************************************************)
(* The registry's invariant holds in every reachable state, for every set  *)
(* of descriptors, cells and words and every password.  SessionInv is      *)
(* inductive as it stands: a command writes through the pointer filed      *)
(* under its client's descriptor, so the proof of each step needs that no  *)
(* other descriptor holds that pointer, and this is RegistryConsistent.    *)
(***************************************************************************)
EXTENDS Sessions, TLAPS

\* A fresh Client object, as AcceptNewClient makes it, has the type.
LEMMA NewClientType == NewClient \in Client /\ \A fd \in Fd : [NewClient EXCEPT !.fd = fd] \in Client
BY DEF NewClient, Client

\* The descriptor of no client is not a descriptor.
LEMMA NoFdIsNone == NoFd \notin Fd
BY FdAssumption DEF NoFd

\* The type of a connected client's pointer and object.
LEMMA ConnectedType ==
    ASSUME SessionTypeOK, NEW fd \in Connected
    PROVE  /\ fd \in Fd
           /\ clients[fd] \in Addr
           /\ GetClient(fd) \in Client
BY DEF SessionTypeOK, Connected, Keys, Pointer, GetClient

\* Two descriptors never hold the same pointer.
LEMMA NoSharing ==
    ASSUME SessionTypeOK, RegistryConsistent,
           NEW f \in Connected, NEW g \in Connected, clients[f] = clients[g]
    PROVE  f = g
BY DEF RegistryConsistent, GetClient

\* A command that rewrites the object of one connected client leaves the
\* registry and the objects of all the others as they were.
LEMMA WriteOne ==
    ASSUME SessionTypeOK, RegistryConsistent,
           NEW fd \in Connected, NEW obj,
           SetClient(fd, obj), UNCHANGED clients
    PROVE  /\ Connected' = Connected
           /\ heap'[clients[fd]] = obj
           /\ GetClient(fd)' = obj
           /\ \A g \in Connected \ {fd} : GetClient(g)' = GetClient(g)
           /\ DOMAIN heap' = Addr
<1>1. clients[fd] \in Addr /\ heap \in [Addr -> Client]
  BY ConnectedType DEF SessionTypeOK
<1>2. heap' = [heap EXCEPT ![clients[fd]] = obj]
  BY DEF SetClient
<1>3. Connected' = Connected
  BY DEF Connected, Keys
<1>4. heap'[clients[fd]] = obj /\ DOMAIN heap' = Addr
  BY <1>1, <1>2
<1>5. GetClient(fd)' = obj
  BY <1>4 DEF GetClient
<1>6. ASSUME NEW g \in Connected \ {fd} PROVE GetClient(g)' = GetClient(g)
  <2>1. clients[g] # clients[fd]
    BY NoSharing
  <2>2. clients[g] \in Addr
    BY ConnectedType
  <2> QED BY <1>1, <1>2, <2>1, <2>2 DEF GetClient
<1> QED BY <1>3, <1>4, <1>5, <1>6

\* The type invariant holds at the start.
LEMMA SessionInitType == SessionInit => SessionTypeOK
<1> SUFFICES ASSUME SessionInit PROVE SessionTypeOK
  OBVIOUS
<1>1. clients \in [Fd -> Pointer]
  BY DEF SessionInit, Pointer
<1>2. heap \in [Addr -> Client]
  BY NewClientType DEF SessionInit
<1>3. turn \in Connected \cup {NoFd}
  BY DEF SessionInit
<1> QED BY <1>1, <1>2, <1>3 DEF SessionTypeOK

\* So does the whole invariant: nobody is connected.
LEMMA SessionInitInv == SessionInit => SessionInv
<1> SUFFICES ASSUME SessionInit PROVE SessionInv
  OBVIOUS
<1>1. Connected = {}
  BY DEF SessionInit, Connected, Keys
<1> QED BY <1>1, SessionInitType DEF SessionInv, RegistryConsistent, NicksUnique, Credentialed

\* A new connection takes a free descriptor and a cell no client is in.
LEMMA AcceptInv ==
    ASSUME SessionInv, NEW fd \in Fd, NEW a \in Addr, AcceptNewClient(fd, a)
    PROVE  SessionInv'
<1> USE DEF SessionInv
<1>1. /\ clients \in [Fd -> Pointer]
      /\ heap \in [Addr -> Client]
      /\ turn = NoFd /\ turn' = NoFd
      /\ fd \notin Connected
      /\ a \notin Live
      /\ clients' = [clients EXCEPT ![fd] = a]
      /\ heap' = [heap EXCEPT ![a] = [NewClient EXCEPT !.fd = fd]]
  BY DEF AcceptNewClient, SessionTypeOK
<1>2. a # Nil
  BY AddrAssumption
<1>3. Connected' = Connected \cup {fd}
  BY <1>1, <1>2 DEF Connected, Keys
<1>4. GetClient(fd)' = [NewClient EXCEPT !.fd = fd]
  BY <1>1 DEF GetClient
<1>5. ASSUME NEW g \in Connected PROVE g # fd /\ GetClient(g)' = GetClient(g)
  <2>1. clients[g] # a /\ clients[g] \in Addr /\ g \in Fd
    BY <1>1, ConnectedType DEF Live
  <2> QED BY <1>1, <2>1 DEF GetClient
<1>6. SessionTypeOK'
  <2>1. clients' \in [Fd -> Pointer]
    BY <1>1 DEF Pointer
  <2>2. heap' \in [Addr -> Client]
    BY <1>1, NewClientType
  <2> QED BY <1>1, <2>1, <2>2 DEF SessionTypeOK
<1>7. RegistryConsistent'
  <2> SUFFICES ASSUME NEW g \in Connected' PROVE GetClient(g)'.fd = g
    BY DEF RegistryConsistent
  <2>1. CASE g = fd
    BY <2>1, <1>4 DEF NewClient
  <2>2. CASE g \in Connected
    BY <2>2, <1>5 DEF RegistryConsistent
  <2> QED BY <1>3, <2>1, <2>2
<1>8. GetClient(fd)'.nickname = "" /\ GetClient(fd)'.username = "" /\ ~GetClient(fd)'.log
  BY <1>4 DEF NewClient
<1>9. NicksUnique'
  <2> SUFFICES ASSUME NEW f \in Connected', NEW g \in Connected',
                      GetClient(f)'.nickname # "",
                      Lower[GetClient(f)'.nickname] = Lower[GetClient(g)'.nickname]
               PROVE  f = g
    BY DEF NicksUnique
  <2>1. f \in Connected /\ f # fd
    BY <1>3, <1>8
  <2>2. GetClient(f)' = GetClient(f) /\ GetClient(f).nickname \in NickWord
    BY <2>1, <1>5, ConnectedType DEF Client
  <2>3. CASE g = fd
    <3>1. Lower[""] = "" /\ Lower[GetClient(f).nickname] # ""
      BY <2>2, LowerAssumption
    <3> QED BY <3>1, <2>2, <2>3, <1>8
  <2>4. CASE g \in Connected
    BY <2>1, <2>2, <2>4, <1>5 DEF NicksUnique
  <2> QED BY <1>3, <2>3, <2>4
<1>10. Credentialed'
  <2> SUFFICES ASSUME NEW g \in Connected'
               PROVE  LET c == GetClient(g)'
                      IN  /\ c.nickname # "" \/ c.username # "" => PasswordOk(c)
                          /\ c.log => c.nickname # "" /\ c.username # ""
    BY DEF Credentialed, PasswordOk
  <2>1. CASE g = fd
    BY <2>1, <1>8
  <2>2. CASE g \in Connected
    BY <2>2, <1>5 DEF Credentialed
  <2> QED BY <1>3, <2>1, <2>2
<1> QED BY <1>6, <1>7, <1>9, <1>10

\* A command that only changes what its client's own object says keeps the
\* type and the registry; the nickname and the login need an argument each.
LEMMA WriteInv ==
    ASSUME SessionInv, NEW fd \in Connected, NEW obj \in Client,
           SetClient(fd, obj), UNCHANGED clients,
           turn' \in Connected \cup {NoFd},
           obj.fd = GetClient(fd).fd,
           obj.nickname # GetClient(fd).nickname => ~NickInUse(fd, obj.nickname),
           obj.nickname # "" \/ obj.username # "" => PasswordOk(obj),
           obj.log => obj.nickname # "" /\ obj.username # ""
    PROVE  SessionInv'
<1> USE DEF SessionInv
<1>1. /\ Connected' = Connected
      /\ GetClient(fd)' = obj
      /\ \A g \in Connected \ {fd} : GetClient(g)' = GetClient(g)
  BY WriteOne
<1>2. SessionTypeOK'
  <2>1. heap' \in [Addr -> Client]
    BY ConnectedType DEF SetClient, SessionTypeOK
  <2>2. clients' \in [Fd -> Pointer] /\ turn' \in Connected' \cup {NoFd}
    BY <1>1 DEF SessionTypeOK
  <2> QED BY <2>1, <2>2 DEF SessionTypeOK
<1>3. RegistryConsistent'
  <2> SUFFICES ASSUME NEW g \in Connected PROVE GetClient(g)'.fd = g
    BY <1>1 DEF RegistryConsistent
  <2>1. CASE g = fd
    BY <2>1, <1>1 DEF RegistryConsistent
  <2>2. CASE g # fd
    BY <2>2, <1>1 DEF RegistryConsistent
  <2> QED BY <2>1, <2>2
<1>4. \A g \in Connected \ {fd} :
          Lower[GetClient(g).nickname] = Lower[obj.nickname] => obj.nickname = ""
  <2> SUFFICES ASSUME NEW g \in Connected \ {fd},
                      Lower[GetClient(g).nickname] = Lower[obj.nickname],
                      obj.nickname # ""
               PROVE  FALSE
    OBVIOUS
  <2>1. GetClient(g).fd # fd
    BY DEF RegistryConsistent
  <2>2. CASE obj.nickname = GetClient(fd).nickname
    BY <2>2 DEF NicksUnique
  <2>3. CASE obj.nickname # GetClient(fd).nickname
    BY <2>1, <2>3 DEF NickInUse
  <2> QED BY <2>2, <2>3
<1>5. NicksUnique'
  <2> SUFFICES ASSUME NEW f \in Connected, NEW g \in Connected,
                      GetClient(f)'.nickname # "",
                      Lower[GetClient(f)'.nickname] = Lower[GetClient(g)'.nickname],
                      f # g
               PROVE  FALSE
    BY <1>1 DEF NicksUnique
  <2>1. CASE f # fd /\ g # fd
    BY <2>1, <1>1 DEF NicksUnique
  <2>2. CASE f = fd
    <3>1. GetClient(f)' = obj /\ GetClient(g)' = GetClient(g) /\ g \in Connected \ {fd}
      BY <2>2, <1>1
    <3>2. Lower[GetClient(g).nickname] = Lower[obj.nickname] /\ obj.nickname # ""
      BY <3>1
    <3> QED BY <3>1, <3>2, <1>4
  <2>3. CASE g = fd
    <3>1. GetClient(f)' = GetClient(f) /\ GetClient(f).nickname \in NickWord
      BY <2>3, <1>1, ConnectedType DEF Client
    <3>2. Lower[GetClient(f).nickname] # "" /\ Lower[""] = ""
      BY <3>1, LowerAssumption
    <3>3. obj.nickname = ""
      BY <2>3, <3>1, <1>1, <1>4
    <3> QED BY <2>3, <3>1, <3>2, <3>3, <1>1
  <2> QED BY <2>1, <2>2, <2>3
<1>6. Credentialed'
  <2> SUFFICES ASSUME NEW g \in Connected
               PROVE  LET c == GetClient(g)'
                      IN  /\ c.nickname # "" \/ c.username # "" => PasswordOk(c)
                          /\ c.log => c.nickname # "" /\ c.username # ""
    BY <1>1 DEF Credentialed, PasswordOk
  <2>1. CASE g = fd
    BY <2>1, <1>1
  <2>2. CASE g # fd
    BY <2>2, <1>1 DEF Credentialed
  <2> QED BY <2>1, <2>2
<1> QED BY <1>2, <1>3, <1>5, <1>6

\* The client whose lines are executed is connected.
LEMMA TurnConnected ==
    ASSUME SessionInv, NEW fd \in Fd, turn = fd
    PROVE  fd \in Connected
BY NoFdIsNone DEF SessionInv, SessionTypeOK

\* PASS changes only the password, and to the right one.
LEMMA PassInv ==
    ASSUME SessionInv, NEW fd \in Fd, NEW word \in PassWord, Pass(fd, word)
    PROVE  SessionInv'
<1> DEFINE obj == [GetClient(fd) EXCEPT !.password = word]
<1>1. fd \in Connected
  BY TurnConnected DEF Pass
<1>2. GetClient(fd) \in Client
  BY <1>1, ConnectedType DEF SessionInv
<1>3. word = ServerPass /\ SetClient(fd, obj) /\ UNCHANGED <<clients, turn>>
  BY DEF Pass
<1>4. /\ obj \in Client
      /\ obj.fd = GetClient(fd).fd
      /\ obj.nickname = GetClient(fd).nickname
      /\ obj.username = GetClient(fd).username
      /\ obj.log = GetClient(fd).log
      /\ PasswordOk(obj)
  BY <1>2, <1>3 DEF Client, PasswordOk
<1>5. obj.log => obj.nickname # "" /\ obj.username # ""
  BY <1>1, <1>4 DEF SessionInv, Credentialed
<1>6. turn' \in Connected \cup {NoFd}
  BY <1>3 DEF SessionInv, SessionTypeOK
<1> QED BY <1>1, <1>3, <1>4, <1>5, <1>6, WriteInv

\* NICK takes a nickname only if no other client has it, case folded.
LEMMA NickInv ==
    ASSUME SessionInv, NEW fd \in Fd, NEW word \in NickWord, Nick(fd, word)
    PROVE  SessionInv'
<1> DEFINE obj == [GetClient(fd) EXCEPT !.nickname = word]
<1>1. fd \in Connected
  BY TurnConnected DEF Nick
<1>2. GetClient(fd) \in Client
  BY <1>1, ConnectedType DEF SessionInv
<1>3. /\ PasswordOk(GetClient(fd))
      /\ ~NickInUse(fd, word)
      /\ SetClient(fd, obj)
      /\ UNCHANGED <<clients, turn>>
  BY DEF Nick
<1>4. /\ obj \in Client
      /\ obj.fd = GetClient(fd).fd
      /\ obj.nickname = word
      /\ obj.username = GetClient(fd).username
      /\ obj.log = GetClient(fd).log
      /\ obj.password = GetClient(fd).password
  BY <1>2 DEF Client
<1>5. PasswordOk(obj)
  BY <1>3, <1>4 DEF PasswordOk
<1>6. obj.log => obj.nickname # "" /\ obj.username # ""
  BY <1>1, <1>4, WordAssumption DEF SessionInv, Credentialed
<1>7. turn' \in Connected \cup {NoFd}
  BY <1>3 DEF SessionInv, SessionTypeOK
<1> QED BY <1>1, <1>3, <1>4, <1>5, <1>6, <1>7, WriteInv

\* USER sets the user name of a client that has not logged in.
LEMMA UserInv ==
    ASSUME SessionInv, NEW fd \in Fd, NEW word \in UserWord, User(fd, word)
    PROVE  SessionInv'
<1> DEFINE obj == [GetClient(fd) EXCEPT !.username = word]
<1>1. fd \in Connected
  BY TurnConnected DEF User
<1>2. GetClient(fd) \in Client
  BY <1>1, ConnectedType DEF SessionInv
<1>3. /\ PasswordOk(GetClient(fd))
      /\ ~GetClient(fd).log
      /\ SetClient(fd, obj)
      /\ UNCHANGED <<clients, turn>>
  BY DEF User
<1>4. /\ obj \in Client
      /\ obj.fd = GetClient(fd).fd
      /\ obj.nickname = GetClient(fd).nickname
      /\ ~obj.log
      /\ obj.password = GetClient(fd).password
  BY <1>2, <1>3 DEF Client
<1>5. PasswordOk(obj)
  BY <1>3, <1>4 DEF PasswordOk
<1>6. turn' \in Connected \cup {NoFd}
  BY <1>3 DEF SessionInv, SessionTypeOK
<1> QED BY <1>1, <1>3, <1>4, <1>5, <1>6, WriteInv

\* The end of a turn logs its client in when it has both names and the
\* password.
LEMMA EndTurnInv ==
    ASSUME SessionInv, NEW fd \in Fd, EndTurn(fd)
    PROVE  SessionInv'
<1> DEFINE obj == [GetClient(fd) EXCEPT !.log = @ \/ MayLogIn(GetClient(fd))]
<1>1. fd \in Connected
  BY TurnConnected DEF EndTurn
<1>2. GetClient(fd) \in Client
  BY <1>1, ConnectedType DEF SessionInv
<1>3. SetClient(fd, obj) /\ turn' = NoFd /\ UNCHANGED clients
  BY DEF EndTurn
<1>4. MayLogIn(GetClient(fd)) \in BOOLEAN
  BY DEF MayLogIn
<1>5. /\ obj \in Client
      /\ obj.fd = GetClient(fd).fd
      /\ obj.nickname = GetClient(fd).nickname
      /\ obj.username = GetClient(fd).username
      /\ obj.password = GetClient(fd).password
      /\ obj.log <=> GetClient(fd).log \/ MayLogIn(GetClient(fd))
  BY <1>2, <1>4 DEF Client
<1>6. obj.nickname # "" \/ obj.username # "" => PasswordOk(obj)
  BY <1>1, <1>5 DEF SessionInv, Credentialed, PasswordOk
<1>7. obj.log => obj.nickname # "" /\ obj.username # ""
  BY <1>1, <1>5 DEF SessionInv, Credentialed, MayLogIn
<1> QED BY <1>1, <1>3, <1>5, <1>6, <1>7, WriteInv

\* A client that is gone leaves the others as they were.
LEMMA DropInv ==
    ASSUME SessionInv, NEW fd \in Fd, DropClient(fd)
    PROVE  SessionInv'
<1> USE DEF SessionInv
<1>1. /\ turn = NoFd /\ turn' = NoFd
      /\ fd \in Connected
      /\ clients' = [clients EXCEPT ![fd] = Nil]
      /\ heap' = [heap EXCEPT ![clients[fd]] = NewClient]
  BY DEF DropClient, SetClient
<1>2. Connected' = Connected \ {fd}
  BY <1>1 DEF Connected, Keys, SessionTypeOK
<1>3. ASSUME NEW g \in Connected' PROVE GetClient(g)' = GetClient(g)
  <2>1. g \in Connected /\ g # fd /\ clients[g] # clients[fd]
    BY <1>1, <1>2, NoSharing
  <2> QED BY <1>1, <2>1, ConnectedType DEF GetClient, SessionTypeOK
<1>4. SessionTypeOK'
  <2>1. clients' \in [Fd -> Pointer]
    BY <1>1 DEF SessionTypeOK, Pointer
  <2>2. heap' \in [Addr -> Client]
    BY <1>1, NewClientType DEF SessionTypeOK
  <2> QED BY <1>1, <2>1, <2>2 DEF SessionTypeOK
<1>5. RegistryConsistent'
  BY <1>2, <1>3 DEF RegistryConsistent
<1>6. NicksUnique'
  <2> SUFFICES ASSUME NEW f \in Connected', NEW g \in Connected',
                      GetClient(f)'.nickname # "",
                      Lower[GetClient(f)'.nickname] = Lower[GetClient(g)'.nickname]
               PROVE  f = g
    BY DEF NicksUnique
  <2>1. f \in Connected /\ g \in Connected
    BY <1>2
  <2>2. GetClient(f)' = GetClient(f) /\ GetClient(g)' = GetClient(g)
    BY <1>3
  <2> QED BY <2>1, <2>2 DEF NicksUnique
<1>7. Credentialed'
  BY <1>2, <1>3 DEF Credentialed, PasswordOk
<1> QED BY <1>4, <1>5, <1>6, <1>7

\* Handing the turn over touches nothing else the invariant speaks of.
LEMMA TurnInv ==
    ASSUME SessionInv, UNCHANGED <<clients, heap>>, turn' \in Connected \cup {NoFd}
    PROVE  SessionInv'
<1>1. Connected' = Connected /\ \A fd : GetClient(fd)' = GetClient(fd)
  BY DEF Connected, Keys, GetClient
<1>2. SessionTypeOK'
  BY <1>1 DEF SessionInv, SessionTypeOK
<1>3. RegistryConsistent'
  BY <1>1 DEF SessionInv, RegistryConsistent
<1>4. NicksUnique'
  BY <1>1 DEF SessionInv, NicksUnique
<1>5. Credentialed'
  BY <1>1 DEF SessionInv, Credentialed, PasswordOk
<1> QED BY <1>2, <1>3, <1>4, <1>5 DEF SessionInv

\* Every step of the registry keeps its invariant.
THEOREM SessionStep == SessionInv /\ [SessionNext]_sessionVars => SessionInv'
<1> SUFFICES ASSUME SessionInv, [SessionNext]_sessionVars PROVE SessionInv'
  OBVIOUS
<1>1. CASE UNCHANGED sessionVars
  <2>1. UNCHANGED <<clients, heap>> /\ turn' \in Connected \cup {NoFd}
    BY <1>1 DEF sessionVars, SessionInv, SessionTypeOK
  <2> QED BY <2>1, TurnInv
<1>2. CASE SessionNext
  <2> PICK fd \in Fd : \/ \E a \in Addr : AcceptNewClient(fd, a)
                       \/ BeginTurn(fd)
                       \/ Register(fd)
                       \/ EndTurn(fd)
                       \/ DropClient(fd)
    BY <1>2 DEF SessionNext
  <2>1. CASE \E a \in Addr : AcceptNewClient(fd, a)
    BY <2>1, AcceptInv
  <2>2. CASE BeginTurn(fd)
    <3>1. UNCHANGED <<clients, heap>> /\ turn' \in Connected \cup {NoFd}
      BY <2>2 DEF BeginTurn
    <3> QED BY <3>1, TurnInv
  <2>3. CASE Register(fd)
    BY <2>3, PassInv, NickInv, UserInv DEF Register
  <2>4. CASE EndTurn(fd)
    BY <2>4, EndTurnInv
  <2>5. CASE DropClient(fd)
    BY <2>5, DropInv
  <2> QED BY <2>1, <2>2, <2>3, <2>4, <2>5
<1> QED BY <1>1, <1>2

\* In every reachable state of the registry on its own: the variables have
\* their types, the map and the objects agree, nicknames are unique up to
\* case, and nobody has a name or a login without the password.
THEOREM SessionCorrect ==
    SessionSpec => [](SessionTypeOK /\ RegistryConsistent /\ NicksUnique /\ Credentialed)
<1>1. SessionSpec => []SessionInv
  BY SessionInitInv, SessionStep, PTL DEF SessionSpec
<1>2. SessionInv => SessionTypeOK /\ RegistryConsistent /\ NicksUnique /\ Credentialed
  BY DEF SessionInv
<1> QED BY <1>1, <1>2, PTL

\* Every variable of the registry keeps its type.
THEOREM SessionTypeCorrect == SessionSpec => []SessionTypeOK
BY SessionCorrect, PTL

\* The map's keys and the descriptors in the objects never drift apart.
THEOREM RegistryStaysConsistent == SessionSpec => []RegistryConsistent
BY SessionCorrect, PTL

\* Nobody has a name or a login without the password, in whatever order and
\* however often PASS, NICK and USER are sent.
THEOREM NobodySlipsIn == SessionSpec => []Credentialed
BY SessionCorrect, PTL
=============================================================================
