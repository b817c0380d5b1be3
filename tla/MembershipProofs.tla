-------------------------- MODULE MembershipProofs --------------------------
(***************************************************************************)
(* Channel management implements Membership, nobody is put out of a        *)
(* channel without authority, and PART and QUIT leave nothing behind, for  *)
(* all values of the constants.                                            *)
(*                                                                         *)
(* Both arguments follow the steps of Channels from a state that satisfies *)
(* ChannelInv.  What a step does to the maps of a channel is first turned  *)
(* into what it does to the sets of its members and operators; ChannelInv  *)
(* is needed because the code removes entries by nickname and Membership   *)
(* removes users.                                                          *)
(***************************************************************************)
EXTENDS ChannelProofs

\* A step of Membership, or none.
Simulated == Implemented!Next \/ UNCHANGED Implemented!membershipVars

-----------------------------------------------------------------------------
\* What the updates of a channel do to its members and operators

\* The mapped variables, read at a channel.
LEMMA MappedAt ==
    /\ \A c \in Chan : MembersOf[c] = Members(chan[c])
    /\ \A c \in Chan : OperatorsOf[c] = Keys(chan[c].admins)
    /\ \A c \in Chan : MembersOf'[c] = Members(chan'[c])
    /\ \A c \in Chan : OperatorsOf'[c] = Keys(chan'[c].admins)
BY DEF MembersOf, OperatorsOf

\* Nobody is in a vacant channel.
LEMMA VacantIsEmpty ==
    \A ch : /\ Vacant(ch) <=> Members(ch) = {}
            /\ Vacant(ch) => Keys(ch.admins) = {}
BY DEF Vacant, Members

\* Every room of the abstract state has a member.
LEMMA RoomsNotEmpty ==
    ASSUME ChannelInv
    PROVE  /\ channels \subseteq Chan
           /\ \A c \in channels : MembersOf[c] # {}
<1>1. channels \subseteq Chan /\ \A c \in channels : ~Vacant(chan[c])
  BY DEF ChannelInv, TypeOK, NoEmptyChannel
<1> QED BY <1>1, MappedAt, VacantIsEmpty

\* Members of a channel are clients.
LEMMA MemberIsPerson ==
    ASSUME NEW ch, LiveChannel(ch), NEW k \in Members(ch)
    PROVE  k \in Fd
<1>1. ch.admins \in PointerMap /\ ch.clients \in PointerMap
  BY DEF LiveChannel, LiveMap
<1> QED BY <1>1, KeysOfMap DEF Members

\* Replacing one channel by another value.
LEMMA SetChannelRooms ==
    ASSUME ChannelInv, NEW c \in channels, NEW ch, SetChannel(c, ch)
    PROVE  /\ channels' = channels
           /\ \A d \in Chan : MembersOf'[d] = IF d = c THEN Members(ch) ELSE MembersOf[d]
           /\ \A d \in Chan : OperatorsOf'[d] = IF d = c THEN Keys(ch.admins)
                                                         ELSE OperatorsOf[d]
<1>1. chan' = [chan EXCEPT ![c] = ch] /\ channels' = channels
  BY DEF SetChannel
<1>2. chan \in [Chan -> Channel]
  BY DEF ChannelInv, TypeOK
<1>3. \A d \in Chan : chan'[d] = IF d = c THEN ch ELSE chan[d]
  BY <1>1, <1>2
<1> QED BY <1>1, <1>3, MappedAt

\* Replacing it, and removing it if nobody is left.
LEMMA SetOrRemoveRooms ==
    ASSUME ChannelInv, NEW c \in channels, NEW ch, SetOrRemoveChannel(c, ch)
    PROVE  /\ channels' = {d \in channels : MembersOf'[d] # {}}
           /\ \A d \in Chan : MembersOf'[d] = IF d = c THEN Members(ch) ELSE MembersOf[d]
           /\ \A d \in Chan : OperatorsOf'[d] = IF d = c THEN Keys(ch.admins)
                                                         ELSE OperatorsOf[d]
<1>1. channels \subseteq Chan /\ \A d \in channels : MembersOf[d] # {}
  BY RoomsNotEmpty
<1>2. CASE ~Vacant(ch)
  <2>1. SetChannel(c, ch) /\ Members(ch) # {}
    BY <1>2, VacantIsEmpty DEF SetOrRemoveChannel
  <2>2. /\ channels' = channels
        /\ \A d \in Chan : MembersOf'[d] = IF d = c THEN Members(ch) ELSE MembersOf[d]
        /\ \A d \in Chan : OperatorsOf'[d] = IF d = c THEN Keys(ch.admins)
                                                      ELSE OperatorsOf[d]
    BY <2>1, SetChannelRooms
  <2> QED BY <1>1, <2>1, <2>2
<1>3. CASE Vacant(ch)
  <2>1. channels' = channels \ {c} /\ chan' = [chan EXCEPT ![c] = NewChannel]
    BY <1>3 DEF SetOrRemoveChannel
  <2>2. chan \in [Chan -> Channel]
    BY DEF ChannelInv, TypeOK
  <2>3. \A d \in Chan : chan'[d] = IF d = c THEN NewChannel ELSE chan[d]
    BY <2>1, <2>2
  <2>4. /\ Members(NewChannel) = {} /\ Keys(NewChannel.admins) = {}
        /\ Members(ch) = {} /\ Keys(ch.admins) = {}
    BY <1>3, NewChannelLive, VacantIsEmpty
  <2>5. \A d \in Chan : MembersOf'[d] = IF d = c THEN Members(ch) ELSE MembersOf[d]
    BY <2>3, <2>4, MappedAt
  <2>6. \A d \in Chan : OperatorsOf'[d] = IF d = c THEN Keys(ch.admins) ELSE OperatorsOf[d]
    BY <2>3, <2>4, MappedAt
  <2>7. channels' = {d \in channels : MembersOf'[d] # {}}
    BY <1>1, <2>1, <2>4, <2>5
  <2> QED BY <2>5, <2>6, <2>7
<1> QED BY <1>2, <1>3

\* QUIT and the loss of a connection take one client out of every channel,
\* and no other one.
LEMMA LeaveAllRooms ==
    ASSUME ChannelInv, NEW fd \in Connected, LeaveAll(fd)
    PROVE  /\ channels' = {c \in channels : MembersOf'[c] # {}}
           /\ \A c \in Chan : MembersOf'[c] = MembersOf[c] \ {fd}
           /\ \A c \in Chan : OperatorsOf'[c] = OperatorsOf[c] \ {fd}
<1> DEFINE after == [c \in Chan |-> IF c \in channels
                                    THEN Without(chan[c], fd, GetClient(fd).nickname)
                                    ELSE chan[c]]
           gone  == {c \in channels : Vacant(after[c])}
<1>1. /\ channels' = channels \ gone
      /\ chan' = [c \in Chan |-> IF c \in gone THEN NewChannel ELSE after[c]]
  BY DEF LeaveAll
<1>2. channels \subseteq Chan /\ \A c \in Chan \ channels : chan[c] = NewChannel
  BY DEF ChannelInv, TypeOK
<1>3. Members(NewChannel) = {} /\ Keys(NewChannel.admins) = {}
  BY NewChannelLive, VacantIsEmpty
<1>4. ASSUME NEW c \in Chan
      PROVE  /\ Members(after[c]) = Members(chan[c]) \ {fd}
             /\ Keys(after[c].admins) = Keys(chan[c].admins) \ {fd}
  <2>1. CASE c \in channels
    <3>1. LiveChannel(chan[c]) /\ SessionInv
      BY <2>1, InvLive DEF ChannelInv
    <3>2. after[c] = Without(chan[c], fd, GetClient(fd).nickname)
      BY <2>1
    <3> HIDE DEF after
    <3>3. /\ Keys(after[c].admins) = Keys(chan[c].admins) \ {fd}
          /\ Keys(after[c].clients) = Keys(chan[c].clients) \ {fd}
      BY <3>1, <3>2, WithoutRemoves
    <3> QED BY <3>3 DEF Members
  <2>2. CASE c \notin channels
    <3>1. after[c] = NewChannel /\ chan[c] = NewChannel
      BY <2>2, <1>2
    <3> QED BY <3>1, <1>3
  <2> QED BY <2>1, <2>2
<1> HIDE DEF after
<1>5. ASSUME NEW c \in Chan
      PROVE  /\ Members(chan'[c]) = Members(after[c])
             /\ Keys(chan'[c].admins) = Keys(after[c].admins)
  <2>1. CASE c \in gone
    <3>1. chan'[c] = NewChannel /\ Vacant(after[c])
      BY <1>1, <2>1
    <3> QED BY <3>1, <1>3, VacantIsEmpty
  <2>2. CASE c \notin gone
    BY <1>1, <2>2
  <2> QED BY <2>1, <2>2
<1>6. \A c \in Chan : MembersOf'[c] = MembersOf[c] \ {fd}
  BY <1>4, <1>5, MappedAt
<1>7. \A c \in Chan : OperatorsOf'[c] = OperatorsOf[c] \ {fd}
  BY <1>4, <1>5, MappedAt
<1>8. \A c \in channels : Vacant(after[c]) <=> MembersOf'[c] = {}
  BY <1>2, <1>5, MappedAt, VacantIsEmpty
<1>9. channels' = {c \in channels : MembersOf'[c] # {}}
  BY <1>1, <1>8
<1> QED BY <1>6, <1>7, <1>9

\* Equal at every channel, the mapped functions are equal.
LEMMA MappedUnchanged ==
    /\ (\A c \in Chan : MembersOf'[c] = MembersOf[c]) => MembersOf' = MembersOf
    /\ (\A c \in Chan : OperatorsOf'[c] = OperatorsOf[c]) => OperatorsOf' = OperatorsOf
BY DEF MembersOf, OperatorsOf

\* Where nobody leaves, no authority is needed.
LEMMA NobodyRemoved ==
    ASSUME channels \subseteq Chan,
           \A c \in Chan : Members(chan[c]) \subseteq Members(chan'[c])
    PROVE  RemovedWithAuthority
BY DEF RemovedWithAuthority

\* A step that moves nobody.
LEMMA NobodyMoves ==
    ASSUME ChannelInv, UNCHANGED <<sessionVars, channels, chan>>
    PROVE  Simulated /\ RemovedWithAuthority
<1>1. UNCHANGED <<Connected, turn, channels, MembersOf, OperatorsOf>>
  BY DEF sessionVars, Connected, Keys, MembersOf, OperatorsOf, Members
<1>2. Simulated
  BY <1>1 DEF Simulated, Implemented!membershipVars
<1>3. RemovedWithAuthority
  BY DEF RemovedWithAuthority
<1> QED BY <1>2, <1>3

\* Nor does a step that gives one channel the same members and operators.
LEMMA SameMembers ==
    ASSUME ChannelInv, UNCHANGED sessionVars, NEW c \in channels, NEW ch,
           SetChannel(c, ch),
           Members(ch) = Members(chan[c]), Keys(ch.admins) = Keys(chan[c].admins)
    PROVE  Simulated /\ RemovedWithAuthority
<1>1. channels \subseteq Chan
  BY RoomsNotEmpty
<1>2. /\ channels' = channels
      /\ \A d \in Chan : MembersOf'[d] = MembersOf[d]
      /\ \A d \in Chan : OperatorsOf'[d] = OperatorsOf[d]
  BY <1>1, SetChannelRooms, MappedAt
<1>3. UNCHANGED <<Connected, turn, channels, MembersOf, OperatorsOf>>
  BY <1>2, MappedUnchanged DEF sessionVars, Connected, Keys
<1>4. Simulated
  BY <1>3 DEF Simulated, Implemented!membershipVars
<1>5. RemovedWithAuthority
  BY <1>1, <1>2, MappedAt DEF RemovedWithAuthority
<1> QED BY <1>4, <1>5

-----------------------------------------------------------------------------
\* The steps of the registry

\* Connections, turns and the handshake move nobody.
LEMMA RegistrySimulated ==
    ASSUME ChannelInv, NEW fd \in Fd,
           \/ \E a \in Addr : Accept(fd, a)
           \/ Begin(fd)
           \/ Handshake(fd)
           \/ End(fd)
    PROVE  Simulated /\ RemovedWithAuthority
<1>1. UNCHANGED <<channels, chan>>
  BY DEF Accept, Begin, Handshake, End, channelVars
<1>2. UNCHANGED <<MembersOf, OperatorsOf>> /\ RemovedWithAuthority
  BY <1>1 DEF MembersOf, OperatorsOf, Members, Keys, RemovedWithAuthority
<1>3. clients \in [Fd -> Pointer] /\ Connected = {k \in Fd : clients[k] # Nil}
  BY DEF ChannelInv, SessionInv, SessionTypeOK, Connected, Keys
<1>4. CASE \E a \in Addr : Accept(fd, a)
  <2> PICK a \in Addr : Accept(fd, a)
    BY <1>4
  <2>1. /\ turn = NoFd /\ turn' = turn
        /\ fd \notin Connected
        /\ clients' = [clients EXCEPT ![fd] = a]
    BY DEF Accept, AcceptNewClient
  <2>2. Connected' = Connected \cup {fd}
    BY <1>3, <2>1, AddrAssumption DEF Connected, Keys
  <2>3. Implemented!Arrive(fd)
    BY <1>1, <1>2, <2>1, <2>2 DEF Implemented!Arrive
  <2> QED BY <1>2, <2>3 DEF Simulated, Implemented!Next
<1>5. CASE Begin(fd)
  <2>1. /\ turn = NoFd /\ turn' = fd /\ fd \in Connected
        /\ Connected' = Connected
    BY <1>5 DEF Begin, BeginTurn, Connected, Keys
  <2>2. Implemented!TurnBegins(fd)
    BY <1>1, <1>2, <2>1 DEF Implemented!TurnBegins
  <2> QED BY <1>2, <2>2 DEF Simulated, Implemented!Next
<1>6. CASE Handshake(fd)
  <2>1. UNCHANGED <<clients, turn>>
    BY <1>6 DEF Handshake, Register, Pass, Nick, User
  <2>2. UNCHANGED <<Connected, turn, channels, MembersOf, OperatorsOf>>
    BY <1>1, <1>2, <2>1 DEF Connected, Keys
  <2> QED BY <1>2, <2>2 DEF Simulated, Implemented!membershipVars
<1>7. CASE End(fd)
  <2>1. /\ turn # NoFd /\ turn' = NoFd
        /\ Connected' = Connected
    BY <1>7, NoFdIsNone DEF End, EndTurn, Connected, Keys
  <2>2. Implemented!TurnEnds
    BY <1>1, <1>2, <2>1 DEF Implemented!TurnEnds
  <2> QED BY <1>2, <2>2 DEF Simulated, Implemented!Next
<1> QED BY <1>4, <1>5, <1>6, <1>7

\* One client leaves every room: the common part of QUIT and of the loss of
\* a connection.
LEMMA LeaveAllIsRemove ==
    ASSUME ChannelInv, NEW fd \in Connected, LeaveAll(fd)
    PROVE  /\ Implemented!Remove(fd, Chan)
           /\ \A c \in channels : Members(chan[c]) \ Members(chan'[c]) \subseteq {fd}
<1>1. /\ channels' = {c \in channels : MembersOf'[c] # {}}
      /\ \A c \in Chan : MembersOf'[c] = MembersOf[c] \ {fd}
      /\ \A c \in Chan : OperatorsOf'[c] = OperatorsOf[c] \ {fd}
  BY LeaveAllRooms
<1>2. /\ MembersOf' = [c \in Chan |-> MembersOf[c] \ {fd}]
      /\ OperatorsOf' = [c \in Chan |-> OperatorsOf[c] \ {fd}]
  BY <1>1 DEF MembersOf, OperatorsOf
<1>3. Implemented!Remove(fd, Chan)
  BY <1>1, <1>2 DEF Implemented!Remove
<1>4. \A c \in channels : Members(chan[c]) \ Members(chan'[c]) \subseteq {fd}
  BY <1>1, RoomsNotEmpty, MappedAt
<1> QED BY <1>3, <1>4

\* The loss of a connection is Depart.
LEMMA DisconnectSimulated ==
    ASSUME ChannelInv, NEW fd \in Fd, Disconnect(fd)
    PROVE  Simulated /\ RemovedWithAuthority
<1>1. /\ LeaveAll(fd)
      /\ fd \in Connected /\ turn = NoFd /\ turn' = turn
      /\ clients' = [clients EXCEPT ![fd] = Nil]
  BY DEF Disconnect, DropClient
<1>2. Connected' = Connected \ {fd}
  BY <1>1 DEF Connected, Keys
<1>3. /\ Implemented!Remove(fd, Chan)
      /\ \A c \in channels : Members(chan[c]) \ Members(chan'[c]) \subseteq {fd}
  BY <1>1, LeaveAllIsRemove
<1>4. Implemented!Depart(fd)
  BY <1>1, <1>2, <1>3 DEF Implemented!Depart
<1>5. RemovedWithAuthority
  BY <1>2, <1>3 DEF RemovedWithAuthority, MayRemove
<1> QED BY <1>4, <1>5 DEF Simulated, Implemented!Next

-----------------------------------------------------------------------------
\* JOIN, PART and QUIT

\* QUIT leaves every room.
LEMMA QuitSimulated ==
    ASSUME ChannelInv, NEW fd \in Fd, Quit(fd)
    PROVE  /\ Simulated /\ RemovedWithAuthority
           /\ \A c \in channels' : fd \notin Members(chan'[c])
<1>1. Commanded(fd) /\ LeaveAll(fd) /\ UNCHANGED sessionVars
  BY DEF Quit
<1>2. fd \in Connected /\ turn = fd /\ fd # NoFd
  BY <1>1, Issuer, NoFdIsNone
<1>3. /\ Implemented!Remove(fd, Chan)
      /\ \A c \in channels : Members(chan[c]) \ Members(chan'[c]) \subseteq {fd}
  BY <1>1, <1>2, LeaveAllIsRemove
<1>4. Connected' = Connected /\ turn' = turn
  BY <1>1 DEF sessionVars, Connected, Keys
<1>5. Implemented!Leave(Chan)
  BY <1>2, <1>3, <1>4 DEF Implemented!Leave
<1>6. RemovedWithAuthority
  BY <1>2, <1>3 DEF RemovedWithAuthority, MayRemove
<1>7. \A c \in channels' : fd \notin Members(chan'[c])
  BY <1>1, <1>2, LeaveAllChannels
<1> QED BY <1>5, <1>6, <1>7 DEF Simulated, Implemented!Next

\* PART leaves one room.
LEMMA PartSimulated ==
    ASSUME ChannelInv, NEW fd \in Fd, NEW c \in Chan, Part(fd, c)
    PROVE  Simulated /\ RemovedWithAuthority /\ fd \notin Members(chan'[c])
<1> DEFINE after == Without(chan[c], fd, GetClient(fd).nickname)
<1>1. /\ Commanded(fd) /\ c \in channels
      /\ SetOrRemoveChannel(c, after)
      /\ UNCHANGED sessionVars
  BY DEF Part
<1>2. fd \in Connected /\ turn = fd /\ fd # NoFd
  BY <1>1, Issuer, NoFdIsNone
<1>3. LiveChannel(chan[c]) /\ SessionInv
  BY <1>1, InvLive DEF ChannelInv
<1>4. /\ Members(after) = Members(chan[c]) \ {fd}
      /\ Keys(after.admins) = Keys(chan[c].admins) \ {fd}
  BY <1>2, <1>3, WithoutRemoves DEF Members
<1> HIDE DEF after
<1>5. /\ channels' = {d \in channels : MembersOf'[d] # {}}
      /\ \A d \in Chan : MembersOf'[d] = IF d = c THEN MembersOf[d] \ {fd} ELSE MembersOf[d]
      /\ \A d \in Chan : OperatorsOf'[d] = IF d = c THEN OperatorsOf[d] \ {fd}
                                                    ELSE OperatorsOf[d]
  <2>1. /\ channels' = {d \in channels : MembersOf'[d] # {}}
        /\ \A d \in Chan : MembersOf'[d] = IF d = c THEN Members(after) ELSE MembersOf[d]
        /\ \A d \in Chan : OperatorsOf'[d] = IF d = c THEN Keys(after.admins)
                                                      ELSE OperatorsOf[d]
    BY <1>1, SetOrRemoveRooms
  <2>2. MembersOf[c] = Members(chan[c]) /\ OperatorsOf[c] = Keys(chan[c].admins)
    BY MappedAt
  <2> QED BY <1>4, <2>1, <2>2
<1>6. /\ MembersOf' = [d \in Chan |-> IF d \in {c} THEN MembersOf[d] \ {fd} ELSE MembersOf[d]]
      /\ OperatorsOf' = [d \in Chan |-> IF d \in {c} THEN OperatorsOf[d] \ {fd}
                                                     ELSE OperatorsOf[d]]
  BY <1>5 DEF MembersOf, OperatorsOf
<1>7. Connected' = Connected /\ turn' = turn
  BY <1>1 DEF sessionVars, Connected, Keys
<1>8. Implemented!Leave({c})
  BY <1>2, <1>5, <1>6, <1>7 DEF Implemented!Leave, Implemented!Remove
<1>9. RemovedWithAuthority
  <2>1. \A d \in Chan : MembersOf[d] \ MembersOf'[d] \subseteq {fd}
    BY <1>5
  <2>2. \A d \in channels : Members(chan[d]) \ Members(chan'[d]) \subseteq {fd}
    BY <2>1, RoomsNotEmpty, MappedAt
  <2> QED BY <1>2, <2>2 DEF RemovedWithAuthority, MayRemove
<1>10. fd \notin Members(chan'[c])
  BY <1>5, MappedAt
<1> QED BY <1>8, <1>9, <1>10 DEF Simulated, Implemented!Next

\* JOIN of a channel that exists enters it, if it is admitted.
LEMMA JoinSimulated ==
    ASSUME ChannelInv, NEW fd \in Fd, NEW c \in Chan, NEW key, Join(fd, c, key)
    PROVE  Simulated /\ RemovedWithAuthority
<1> DEFINE ch == [chan[c] EXCEPT !.clients = Insert(@, clients[fd])]
<1>1. Commanded(fd) /\ c \in channels /\ UNCHANGED sessionVars
  BY DEF Join
<1>2. fd \in Connected /\ GetClient(fd).log /\ turn = fd /\ fd # NoFd
  BY <1>1, Issuer, NoFdIsNone
<1>3. CASE UNCHANGED <<channels, chan>>
  BY <1>1, <1>3, NobodyMoves
<1>4. CASE SetChannel(c, ch)
  <2>1. LiveChannel(chan[c]) /\ SessionInv
    BY <1>1, InvLive DEF ChannelInv
  <2>2. LiveMap(chan[c].clients) /\ chan[c] \in Channel
    BY <2>1 DEF LiveChannel
  <2>3. Keys(Insert(chan[c].clients, clients[fd])) = Keys(chan[c].clients) \cup {fd}
    BY <1>2, <2>1, <2>2, InsertLive
  <2>4. /\ Keys(ch.clients) = Keys(chan[c].clients) \cup {fd}
        /\ ch.admins = chan[c].admins
    BY <2>2, <2>3 DEF Channel
  <2> HIDE DEF ch
  <2>5. Members(ch) = Members(chan[c]) \cup {fd}
    BY <2>4 DEF Members
  <2>6. /\ channels' = channels
        /\ \A d \in Chan : MembersOf'[d] = IF d = c THEN MembersOf[d] \cup {fd} ELSE MembersOf[d]
        /\ \A d \in Chan : OperatorsOf'[d] = OperatorsOf[d]
    <3>1. /\ channels' = channels
          /\ \A d \in Chan : MembersOf'[d] = IF d = c THEN Members(ch) ELSE MembersOf[d]
          /\ \A d \in Chan : OperatorsOf'[d] = IF d = c THEN Keys(ch.admins)
                                                        ELSE OperatorsOf[d]
      BY <1>1, <1>4, SetChannelRooms
    <3>2. MembersOf[c] = Members(chan[c]) /\ OperatorsOf[c] = Keys(chan[c].admins)
      BY MappedAt
    <3> QED BY <2>4, <2>5, <3>1, <3>2
  <2>7. /\ MembersOf' = [MembersOf EXCEPT ![c] = @ \cup {fd}]
        /\ OperatorsOf' = OperatorsOf
    BY <2>6 DEF MembersOf, OperatorsOf
  <2>8. Connected' = Connected /\ turn' = turn
    BY <1>1 DEF sessionVars, Connected, Keys
  <2>9. Implemented!Enter(c)
    BY <1>1, <1>2, <2>6, <2>7, <2>8 DEF Implemented!Enter
  <2>10. RemovedWithAuthority
    <3>1. ASSUME NEW d \in Chan PROVE Members(chan[d]) \subseteq Members(chan'[d])
      <4>1. MembersOf[d] = Members(chan[d]) /\ MembersOf'[d] = Members(chan'[d])
        BY MappedAt
      <4>2. MembersOf[d] \subseteq MembersOf'[d]
        BY <2>6
      <4> QED BY <4>1, <4>2
    <3> QED BY <3>1, RoomsNotEmpty, NobodyRemoved
  <2> QED BY <2>9, <2>10 DEF Simulated, Implemented!Next
<1> QED BY <1>3, <1>4 DEF Join

\* JOIN of a channel that does not exist opens it.
LEMMA JoinCreateSimulated ==
    ASSUME ChannelInv, NEW fd \in Fd, NEW name \in Chan, NEW key \in KeyWord \cup {""},
           JoinCreate(fd, name, key)
    PROVE  Simulated /\ RemovedWithAuthority
<1> DEFINE ch == [NewChannel EXCEPT !.password = key,
                                    !.admins = Insert(EmptyMap, clients[fd])]
<1>1. /\ Commanded(fd)
      /\ GetChannelByName(name) = {}
      /\ channels' = channels \cup {name}
      /\ chan' = [chan EXCEPT ![name] = ch]
      /\ UNCHANGED sessionVars
  BY DEF JoinCreate
<1>2. fd \in Connected /\ GetClient(fd).log /\ turn = fd /\ fd # NoFd
  BY <1>1, Issuer, NoFdIsNone
<1>3. SessionInv /\ LiveMap(EmptyMap) /\ Keys(EmptyMap) = {}
  BY EmptyMapLive DEF ChannelInv
<1>4. Keys(Insert(EmptyMap, clients[fd])) = {fd}
  <2>1. Keys(Insert(EmptyMap, clients[fd])) = Keys(EmptyMap) \cup {fd}
    BY <1>2, <1>3, InsertLive
  <2> QED BY <2>1, <1>3
<1>5. ch.admins = Insert(EmptyMap, clients[fd]) /\ ch.clients = EmptyMap
  BY DEF NewChannel
<1>6. Keys(ch.admins) = {fd} /\ Members(ch) = {fd}
  BY <1>3, <1>4, <1>5 DEF Members
<1> HIDE DEF ch
<1>7. name \notin channels
  BY <1>1 DEF GetChannelByName
<1>8. chan \in [Chan -> Channel]
  BY DEF ChannelInv, TypeOK
<1>9. \A d \in Chan : chan'[d] = IF d = name THEN ch ELSE chan[d]
  BY <1>1, <1>8
<1>10. /\ MembersOf' = [MembersOf EXCEPT ![name] = {fd}]
       /\ OperatorsOf' = [OperatorsOf EXCEPT ![name] = {fd}]
  BY <1>6, <1>9 DEF MembersOf, OperatorsOf
<1>11. Connected' = Connected /\ turn' = turn
  BY <1>1 DEF sessionVars, Connected, Keys
<1>12. Implemented!Open(name)
  BY <1>1, <1>2, <1>7, <1>10, <1>11 DEF Implemented!Open
<1>13. RemovedWithAuthority
  BY <1>7, <1>9, RoomsNotEmpty DEF RemovedWithAuthority
<1> QED BY <1>12, <1>13 DEF Simulated, Implemented!Next

-----------------------------------------------------------------------------
\* INVITE, TOPIC, and the modes other than o

\* A channel with the same entries has the same members and operators.
LEMMA SameEntries ==
    ASSUME ChannelInv, UNCHANGED sessionVars, NEW c \in channels, NEW ch,
           SetChannel(c, ch), ch.admins = chan[c].admins, ch.clients = chan[c].clients
    PROVE  Simulated /\ RemovedWithAuthority
<1>1. Members(ch) = Members(chan[c]) /\ Keys(ch.admins) = Keys(chan[c].admins)
  BY DEF Members
<1> QED BY <1>1, SameMembers

\* INVITE and TOPIC move nobody.
LEMMA InviteTopicSimulated ==
    ASSUME ChannelInv, NEW fd \in Fd, NEW name \in Chan,
           \/ \E word \in NickWord : Invite(fd, word, name)
           \/ \E text \in TopicText \cup {""} : Topic(fd, name, text)
    PROVE  Simulated /\ RemovedWithAuthority
<1>1. CASE \E word \in NickWord : Invite(fd, word, name)
  <2> PICK word \in NickWord, c \in GetChannelByName(name) :
        /\ SetChannel(c, [chan[c] EXCEPT !.invited =
                              Insert(@, clients[Min(GetClientByNickname(word))])])
        /\ UNCHANGED sessionVars
    BY <1>1 DEF Invite
  <2> DEFINE ch == [chan[c] EXCEPT !.invited =
                        Insert(@, clients[Min(GetClientByNickname(word))])]
  <2>1. c \in channels /\ chan[c] \in Channel
    BY InvLive DEF GetChannelByName, LiveChannel
  <2>2. ch.admins = chan[c].admins /\ ch.clients = chan[c].clients
    BY <2>1 DEF Channel
  <2>3. SetChannel(c, ch) /\ UNCHANGED sessionVars
    OBVIOUS
  <2> HIDE DEF ch
  <2> QED BY <2>1, <2>2, <2>3, SameEntries
<1>2. CASE \E text \in TopicText \cup {""} : Topic(fd, name, text)
  <2> PICK text \in TopicText \cup {""}, c \in GetChannelByName(name) :
        SetChannel(c, [chan[c] EXCEPT !.topic = text]) /\ UNCHANGED sessionVars
    BY <1>2 DEF Topic
  <2> DEFINE ch == [chan[c] EXCEPT !.topic = text]
  <2>1. c \in channels /\ chan[c] \in Channel
    BY InvLive DEF GetChannelByName, LiveChannel
  <2>2. ch.admins = chan[c].admins /\ ch.clients = chan[c].clients
    BY <2>1 DEF Channel
  <2>3. SetChannel(c, ch) /\ UNCHANGED sessionVars
    OBVIOUS
  <2> HIDE DEF ch
  <2> QED BY <2>1, <2>2, <2>3, SameEntries
<1> QED BY <1>1, <1>2

\* So do the letters i, t, k and l.
LEMMA ModeFieldSimulated ==
    ASSUME ChannelInv,
           \/ ModeInviteOnly
           \/ ModeTopic
           \/ \E key \in KeyWord : ModeKey(key)
           \/ \E limit \in LimitArg : ModeLimit(limit)
           \/ ModeNoLimit
    PROVE  Simulated /\ RemovedWithAuthority
<1> DEFINE c == loop.chan
<1>1. loop.op = "MODE"
  BY DEF ModeInviteOnly, ModeTopic, ModeKey, ModeLimit, ModeNoLimit, InMode, InLoop
<1>2. c \in channels /\ chan[c] \in Channel
  BY <1>1, ModeState
<1>3. ASSUME NEW ch, SetModed(ch), ch.admins = chan[c].admins, ch.clients = chan[c].clients
      PROVE  Simulated /\ RemovedWithAuthority
  <2>1. SetChannel(c, ch) /\ UNCHANGED sessionVars
    BY <1>3 DEF SetModed
  <2> QED BY <1>2, <1>3, <2>1, SameEntries
<1>4. CASE ModeInviteOnly
  <2> DEFINE ch == [chan[c] EXCEPT !.inv_only = loop.plus]
  <2>1. SetModed(ch) /\ ch.admins = chan[c].admins /\ ch.clients = chan[c].clients
    BY <1>2, <1>4 DEF ModeInviteOnly, Channel
  <2> HIDE DEF ch
  <2> QED BY <1>3, <2>1
<1>5. CASE ModeTopic
  <2> DEFINE ch == [chan[c] EXCEPT !.topic_restricted = loop.plus]
  <2>1. SetModed(ch) /\ ch.admins = chan[c].admins /\ ch.clients = chan[c].clients
    BY <1>2, <1>5 DEF ModeTopic, Channel
  <2> HIDE DEF ch
  <2> QED BY <1>3, <2>1
<1>6. CASE \E key \in KeyWord : ModeKey(key)
  <2> PICK key \in KeyWord : ModeKey(key)
    BY <1>6
  <2> DEFINE ch == [chan[c] EXCEPT !.password = IF loop.plus THEN key ELSE ""]
  <2>1. SetModed(ch) /\ ch.admins = chan[c].admins /\ ch.clients = chan[c].clients
    BY <1>2 DEF ModeKey, Channel
  <2> HIDE DEF ch
  <2> QED BY <1>3, <2>1
<1>7. CASE \E limit \in LimitArg : ModeLimit(limit)
  <2> PICK limit \in LimitArg : ModeLimit(limit)
    BY <1>7
  <2> DEFINE ch == [chan[c] EXCEPT !.usr_limit = limit]
  <2>1. SetModed(ch) /\ ch.admins = chan[c].admins /\ ch.clients = chan[c].clients
    BY <1>2 DEF ModeLimit, Channel
  <2> HIDE DEF ch
  <2> QED BY <1>3, <2>1
<1>8. CASE ModeNoLimit
  <2> DEFINE ch == [chan[c] EXCEPT !.usr_limit = -1]
  <2>1. SetModed(ch) /\ ch.admins = chan[c].admins /\ ch.clients = chan[c].clients
    BY <1>2, <1>8 DEF ModeNoLimit, Channel
  <2> HIDE DEF ch
  <2> QED BY <1>3, <2>1
<1> QED BY <1>4, <1>5, <1>6, <1>7, <1>8

-----------------------------------------------------------------------------
\* KICK and MODE o

\* Somebody else's removal from one channel, as a step of Membership.
LEMMA KickEffect ==
    ASSUME ChannelInv, UNCHANGED sessionVars, NEW c \in channels, NEW ch, NEW u \in Fd,
           SetOrRemoveChannel(c, ch),
           turn # NoFd, turn \in Keys(chan[c].admins), loop.op = "KICK",
           u \in Members(chan[c]),
           Members(ch) \in {Members(chan[c]), Members(chan[c]) \ {u}},
           Keys(ch.admins) = Keys(chan[c].admins) \ {u}
    PROVE  Simulated /\ RemovedWithAuthority
<1>1. /\ channels' = {d \in channels : MembersOf'[d] # {}}
      /\ \A d \in Chan : MembersOf'[d] = IF d = c THEN Members(ch) ELSE MembersOf[d]
      /\ \A d \in Chan : OperatorsOf'[d] = IF d = c THEN Keys(ch.admins) ELSE OperatorsOf[d]
  BY SetOrRemoveRooms
<1>2. /\ c \in Chan /\ \A d \in channels : d \in Chan /\ MembersOf[d] # {}
      /\ MembersOf[c] = Members(chan[c]) /\ OperatorsOf[c] = Keys(chan[c].admins)
  BY RoomsNotEmpty, MappedAt
<1>3. Connected' = Connected /\ turn' = turn
  BY DEF sessionVars, Connected, Keys
<1>4. turn \in Members(chan[c])
  BY DEF Members
<1>5. ASSUME Members(ch) = Members(chan[c]) \ {u} PROVE Simulated
  <2>1. /\ MembersOf' = [d \in Chan |-> IF d \in {c} THEN MembersOf[d] \ {u} ELSE MembersOf[d]]
        /\ OperatorsOf' = [d \in Chan |-> IF d \in {c} THEN OperatorsOf[d] \ {u}
                                                       ELSE OperatorsOf[d]]
    BY <1>1, <1>2, <1>5 DEF MembersOf, OperatorsOf
  <2>2. Implemented!Expel(c, u)
    BY <1>1, <1>2, <1>3, <2>1 DEF Implemented!Expel, Implemented!Remove
  <2> QED BY <1>2, <2>2 DEF Simulated, Implemented!Next
<1>6. ASSUME Members(ch) = Members(chan[c]) PROVE Simulated
  <2>1. /\ MembersOf' = MembersOf
        /\ OperatorsOf' = [OperatorsOf EXCEPT ![c] = @ \ {u}]
    BY <1>1, <1>2, <1>6 DEF MembersOf, OperatorsOf
  <2>2. channels' = channels
    BY <1>1, <1>2, <2>1
  <2>3. Implemented!Demote(c, u)
    BY <1>2, <1>3, <1>4, <2>1, <2>2 DEF Implemented!Demote
  <2> QED BY <1>2, <2>3 DEF Simulated, Implemented!Next
<1>7. RemovedWithAuthority
  BY <1>1, <1>2, MappedAt DEF RemovedWithAuthority, MayRemove
<1> QED BY <1>5, <1>6, <1>7

\* One name of a KICK: an operator's removal of one client, as Expel when
\* that was its only entry and as Demote when it had another one.
LEMMA KickTargetSimulated ==
    ASSUME ChannelInv, NEW word \in NickWord, KickTarget(word)
    PROVE  Simulated /\ RemovedWithAuthority
<1> DEFINE c == loop.chan
           g == Min(GetClientByNickname(word))
           n == GetClient(g).nickname
           ch == Kicked(chan[c], n)
<1>1. /\ loop.op = "KICK" /\ c \in channels
      /\ UNCHANGED sessionVars
  BY DEF KickTarget, InLoop
<1>2. LiveChannel(chan[c]) /\ SessionInv
  BY <1>1, InvLive DEF ChannelInv
<1>3. turn \in Connected /\ turn # NoFd
  BY <1>1 DEF ChannelInv, TypeOK, SessionTypeOK
<1>4. LiveMap(chan[c].admins) /\ LiveMap(chan[c].clients) /\ chan[c] \in Channel
  BY <1>2 DEF LiveChannel
<1>5. CASE LoopReturns
  BY <1>1, <1>5, NobodyMoves DEF LoopReturns
<1>6. CASE MayKick(chan[c], turn, word) /\ SetOrRemoveChannel(c, ch)
  <2>1. /\ GetClientByNickname(word) # {}
        /\ ByNick(chan[c].admins, GetClient(turn).nickname) # {}
    BY <1>6 DEF MayKick
  <2>2. g \in Connected /\ g \in Fd
    BY <1>2, <2>1, FoundClient, ConnectedType DEF SessionInv
  <2>3. turn \in Keys(chan[c].admins)
    BY <1>2, <1>3, <1>4, <2>1, NoNick
  <2> HIDE DEF g
  <2>4. /\ ByNick(chan[c].admins, n) = Keys(chan[c].admins) \cap {g}
        /\ ByExactNick(chan[c].admins, n) = Keys(chan[c].admins) \cap {g}
        /\ ByExactNick(chan[c].clients, n) = Keys(chan[c].clients) \cap {g}
    BY <1>2, <1>4, <2>2, NoNick
  <2> HIDE DEF n
  <2>5. /\ Keys(EraseNick(chan[c].admins, n)) = Keys(chan[c].admins) \ {g}
        /\ Keys(EraseNick(chan[c].clients, n)) = Keys(chan[c].clients) \ {g}
    <3>1. /\ Keys(EraseNick(chan[c].admins, n))
             = Keys(chan[c].admins) \ ByExactNick(chan[c].admins, n)
          /\ Keys(EraseNick(chan[c].clients, n))
             = Keys(chan[c].clients) \ ByExactNick(chan[c].clients, n)
      BY <1>2, <1>4, EraseLive
    <3> QED BY <2>4, <3>1
  <2>6. /\ Keys(ch.admins) = Keys(chan[c].admins) \ {g}
        /\ Members(ch) \in {Members(chan[c]), Members(chan[c]) \ {g}}
    <3>1. CASE g \in Keys(chan[c].admins)
      <4>1. ch = [chan[c] EXCEPT !.admins = EraseNick(@, n)]
        BY <2>4, <3>1 DEF Kicked
      <4>2. ch.admins = EraseNick(chan[c].admins, n) /\ ch.clients = chan[c].clients
        BY <1>4, <4>1 DEF Channel
      <4> HIDE DEF ch
      <4>3. /\ Keys(ch.admins) = Keys(chan[c].admins) \ {g}
            /\ Keys(ch.clients) = Keys(chan[c].clients)
        BY <2>5, <4>2
      <4> QED BY <4>3 DEF Members
    <3>2. CASE g \notin Keys(chan[c].admins)
      <4>1. ch = [chan[c] EXCEPT !.clients = EraseNick(@, n)]
        BY <2>4, <3>2 DEF Kicked
      <4>2. ch.clients = EraseNick(chan[c].clients, n) /\ ch.admins = chan[c].admins
        BY <1>4, <4>1 DEF Channel
      <4> HIDE DEF ch
      <4>3. /\ Keys(ch.admins) = Keys(chan[c].admins) \ {g}
            /\ Keys(ch.clients) = Keys(chan[c].clients) \ {g}
        BY <2>5, <3>2, <4>2
      <4> QED BY <3>2, <4>3 DEF Members
    <3> QED BY <3>1, <3>2
  <2> HIDE DEF ch
  <2>7. CASE g \in Members(chan[c])
    BY <1>1, <1>3, <1>6, <2>2, <2>3, <2>6, <2>7, KickEffect
  <2>8. CASE g \notin Members(chan[c])
    <3>1. /\ Keys(ch.admins) = Keys(chan[c].admins)
          /\ Members(ch) = Members(chan[c])
      BY <2>6, <2>8 DEF Members
    <3>2. Members(ch) # {}
      BY <2>3, <3>1 DEF Members
    <3>3. SetChannel(c, ch)
      BY <1>6, <3>2, VacantIsEmpty DEF SetOrRemoveChannel
    <3> QED BY <1>1, <3>1, <3>3, SameMembers
  <2> QED BY <2>7, <2>8
<1> QED BY <1>5, <1>6 DEF KickTarget

\* +o is Promote; -o is Demote, or nothing when the removal misses.
LEMMA ModeOperatorSimulated ==
    ASSUME ChannelInv, NEW word, ModeOperator(word)
    PROVE  Simulated /\ RemovedWithAuthority
<1> DEFINE c == loop.chan
<1>1. loop.op = "MODE"
  BY DEF ModeOperator, InMode, InLoop
<1>2. /\ LiveChannel(chan[c]) /\ SessionInv
      /\ c \in channels /\ c \in Chan /\ channels \subseteq Chan
      /\ turn \in Members(chan[c])
  BY <1>1, ModeState, RoomsNotEmpty DEF ChannelInv
<1>3. /\ turn # NoFd
      /\ MembersOf[c] = Members(chan[c]) /\ OperatorsOf[c] = Keys(chan[c].admins)
  BY <1>1, <1>2, MappedAt DEF ChannelInv, TypeOK
<1>4. ASSUME NEW ch, SetModed(ch), Members(ch) = Members(chan[c])
      PROVE  /\ UNCHANGED <<Connected, turn, channels, MembersOf>>
             /\ OperatorsOf' = [OperatorsOf EXCEPT ![c] = Keys(ch.admins)]
             /\ RemovedWithAuthority
  <2>1. SetChannel(c, ch) /\ UNCHANGED sessionVars
    BY <1>4 DEF SetModed
  <2>2. /\ channels' = channels
        /\ \A d \in Chan : MembersOf'[d] = IF d = c THEN Members(ch) ELSE MembersOf[d]
        /\ \A d \in Chan : OperatorsOf'[d] = IF d = c THEN Keys(ch.admins)
                                                      ELSE OperatorsOf[d]
    BY <1>2, <2>1, SetChannelRooms
  <2>3. \A d \in Chan : MembersOf'[d] = MembersOf[d]
    BY <1>3, <1>4, <2>2
  <2>4. OperatorsOf' = [OperatorsOf EXCEPT ![c] = Keys(ch.admins)]
    BY <2>2 DEF OperatorsOf
  <2>5. RemovedWithAuthority
    BY <1>2, <2>3, MappedAt DEF RemovedWithAuthority
  <2>6. UNCHANGED <<Connected, turn>>
    BY <2>1 DEF sessionVars, Connected, Keys
  <2> QED BY <2>2, <2>3, <2>4, <2>5, <2>6, MappedUnchanged
<1>5. ASSUME NEW ch, SetModed(ch), Members(ch) = Members(chan[c]),
             Keys(ch.admins) = Keys(chan[c].admins)
      PROVE  Simulated /\ RemovedWithAuthority
  <2>1. SetChannel(c, ch) /\ UNCHANGED sessionVars
    BY <1>5 DEF SetModed
  <2> QED BY <1>2, <1>5, <2>1, SameMembers
<1>6. CASE ByNick(chan[c].clients, word) # {} /\ SetModed(Promoted(chan[c], word))
  <2> DEFINE ch == Promoted(chan[c], word)
  <2>1. /\ Members(ch) = Members(chan[c])
        /\ \E k \in Members(chan[c]) : Keys(ch.admins) = Keys(chan[c].admins) \cup {k}
    BY <1>2, <1>6, PromotedLive
  <2> HIDE DEF ch
  <2> PICK k \in Members(chan[c]) : Keys(ch.admins) = Keys(chan[c].admins) \cup {k}
    BY <2>1
  <2>2. k \in Fd
    BY <1>2, MemberIsPerson
  <2>3. /\ UNCHANGED <<Connected, turn, channels, MembersOf>>
        /\ OperatorsOf' = [OperatorsOf EXCEPT ![c] = Keys(ch.admins)]
        /\ RemovedWithAuthority
    BY <1>4, <1>6, <2>1 DEF ch
  <2>4. OperatorsOf' = [OperatorsOf EXCEPT ![c] = @ \cup {k}]
    BY <1>3, <2>3
  <2>5. Implemented!Promote(c, k)
    BY <1>2, <1>3, <2>3, <2>4 DEF Implemented!Promote
  <2>6. Implemented!Next
    BY <1>2, <2>2, <2>5 DEF Implemented!Next
  <2> QED BY <2>3, <2>6 DEF Simulated
<1>7. CASE ByNick(chan[c].admins, word) # {} /\ SetModed(Demoted(chan[c], word))
  <2> DEFINE ch == Demoted(chan[c], word)
  <2>1. /\ Members(ch) = Members(chan[c])
        /\ \/ Keys(ch.admins) = Keys(chan[c].admins)
           \/ \E k \in Members(chan[c]) : Keys(ch.admins) = Keys(chan[c].admins) \ {k}
    BY <1>2, <1>7, DemotedLive
  <2>2. SetModed(ch)
    BY <1>7
  <2> HIDE DEF ch
  <2>3. CASE Keys(ch.admins) = Keys(chan[c].admins)
    BY <1>5, <2>1, <2>2, <2>3
  <2>4. CASE \E k \in Members(chan[c]) : Keys(ch.admins) = Keys(chan[c].admins) \ {k}
    <3> PICK k \in Members(chan[c]) : Keys(ch.admins) = Keys(chan[c].admins) \ {k}
      BY <2>4
    <3>1. k \in Fd
      BY <1>2, MemberIsPerson
    <3>2. /\ UNCHANGED <<Connected, turn, channels, MembersOf>>
          /\ OperatorsOf' = [OperatorsOf EXCEPT ![c] = Keys(ch.admins)]
          /\ RemovedWithAuthority
      BY <1>4, <2>1, <2>2
    <3>3. OperatorsOf' = [OperatorsOf EXCEPT ![c] = @ \ {k}]
      BY <1>3, <3>2
    <3>4. Implemented!Demote(c, k)
      BY <1>2, <1>3, <3>2, <3>3 DEF Implemented!Demote
    <3>5. Implemented!Next
      BY <1>2, <3>1, <3>4 DEF Implemented!Next
    <3> QED BY <3>2, <3>5 DEF Simulated
  <2> QED BY <2>1, <2>3, <2>4
<1>8. CASE LoopReturns /\ UNCHANGED sessionVars
  BY <1>8, NobodyMoves DEF LoopReturns
<1> QED BY <1>6, <1>7, <1>8 DEF ModeOperator

-----------------------------------------------------------------------------
\* The theorems

\* Every step of Channels is one of Membership or moves nobody, and removes
\* members only with authority.
LEMMA StepSimulated ==
    ASSUME ChannelInv, [Next]_vars
    PROVE  Simulated /\ RemovedWithAuthority
<1>1. CASE UNCHANGED vars
  BY <1>1, NobodyMoves DEF vars, channelVars
<1>2. ASSUME NEW fd \in Fd, RegistryStep(fd) PROVE Simulated /\ RemovedWithAuthority
  BY <1>2, RegistrySimulated, DisconnectSimulated DEF RegistryStep
<1>3. ASSUME NEW fd \in Fd, NEW name \in Chan, JoinStep(fd, name)
      PROVE  Simulated /\ RemovedWithAuthority
  <2>1. CASE \E key \in KeyWord \cup {""} : Join(fd, name, key) \/ JoinCreate(fd, name, key)
    BY <2>1, JoinSimulated, JoinCreateSimulated
  <2>2. CASE JoinThrows(fd, name)
    BY <2>2, NobodyMoves DEF JoinThrows
  <2> QED BY <1>3, <2>1, <2>2 DEF JoinStep
<1>4. ASSUME NEW fd \in Fd, NEW name \in Chan, LeaveStep(fd, name)
      PROVE  Simulated /\ RemovedWithAuthority
  <2>1. CASE Part(fd, name)
    BY <2>1, PartSimulated
  <2>2. CASE Quit(fd)
    BY <2>2, QuitSimulated
  <2>3. CASE PartThrows(fd, name)
    BY <2>3, NobodyMoves DEF PartThrows
  <2> QED BY <1>4, <2>1, <2>2, <2>3 DEF LeaveStep
<1>5. ASSUME NEW fd \in Fd, NEW name \in Chan, ChannelStep(fd, name)
      PROVE  Simulated /\ RemovedWithAuthority
  <2>1. CASE \/ \E word \in NickWord : Invite(fd, word, name)
             \/ \E text \in TopicText \cup {""} : Topic(fd, name, text)
    BY <2>1, InviteTopicSimulated
  <2>2. CASE KickBegin(fd, name) \/ ModeBegin(fd, name)
    BY <2>2, NobodyMoves DEF KickBegin, ModeBegin
  <2> QED BY <1>5, <2>1, <2>2 DEF ChannelStep
<1>6. CASE LoopStep
  <2>1. CASE \E word \in NickWord : KickTarget(word)
    BY <2>1, KickTargetSimulated
  <2>2. CASE \/ \E word \in NickWord : KickTargetFreed(word)
             \/ LoopEnd
    BY <2>2, NobodyMoves DEF KickTargetFreed, LoopEnd, LoopReturns
  <2>3. CASE \/ \E plus \in BOOLEAN : ModeSign(plus)
             \/ \E flag \in ModeFlag : ModeNoArgument(flag) \/ ModeReadsPast(flag)
    BY <2>3, NobodyMoves DEF ModeSign, ModeNoArgument, ModeReadsPast
  <2>4. CASE \/ ModeInviteOnly
             \/ ModeTopic
             \/ \E key \in KeyWord : ModeKey(key)
             \/ \E limit \in LimitArg : ModeLimit(limit)
             \/ ModeNoLimit
    BY <2>4, ModeFieldSimulated
  <2>5. CASE \E word \in NickWord : ModeOperator(word)
    BY <2>5, ModeOperatorSimulated
  <2> QED BY <1>6, <2>1, <2>2, <2>3, <2>4, <2>5 DEF LoopStep
<1> QED BY <1>1, <1>2, <1>3, <1>4, <1>5, <1>6 DEF Next

\* Channel management implements its abstract specification: no sequence of
\* commands, disconnections and reconnections changes who is in a channel or
\* who runs it otherwise than Membership allows.
THEOREM MembershipImplemented == Spec => ImplementsMembership
<1>1. Init => Implemented!Init
  <2> SUFFICES ASSUME Init PROVE Implemented!Init
    OBVIOUS
  <2>1. /\ \A c \in Chan : chan[c] = NewChannel
        /\ Members(NewChannel) = {} /\ Keys(NewChannel.admins) = {}
    BY NewChannelLive, VacantIsEmpty DEF Init
  <2>2. MembersOf = [c \in Chan |-> {}] /\ OperatorsOf = [c \in Chan |-> {}]
    BY <2>1 DEF MembersOf, OperatorsOf
  <2>3. Connected = {} /\ turn = NoFd /\ channels = {}
    BY DEF Init, SessionInit, Connected, Keys
  <2> QED BY <2>2, <2>3 DEF Implemented!Init, Implemented!Empty
<1>2. ChannelInv /\ [Next]_vars => [Implemented!Next]_Implemented!membershipVars
  BY StepSimulated DEF Simulated
<1> QED BY <1>1, <1>2, ChannelInvariant, PTL DEF Spec, ImplementsMembership, Implemented!Spec

\* Nobody is put out of a channel but by itself, by losing its connection,
\* or by a KICK of somebody who runs the channel at that moment.
THEOREM LeavesWithAuthority == Spec => LeaveAuthority
<1>1. ChannelInv /\ [Next]_vars => RemovedWithAuthority
  BY StepSimulated
<1> QED BY <1>1, ChannelInvariant, PTL DEF Spec, LeaveAuthority

\* PART and QUIT leave no entry of their client behind.
THEOREM LeavesCompletely == Spec => LeavingIsComplete
<1>1. ChannelInv => LeavesNothing
  BY QuitSimulated, PartSimulated DEF LeavesNothing
<1> QED BY <1>1, ChannelInvariant, PTL DEF Spec, LeavingIsComplete
=============================================================================
