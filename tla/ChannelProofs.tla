---------------------------- MODULE ChannelProofs ----------------------------
(***************************************************************************)
(* Channel management keeps its invariant for every set of descriptors,    *)
(* cells, nicknames and channel names.                                     *)
(*                                                                         *)
(* The inductive invariant ChannelInv joins the registry's to those of the *)
(* channels.  MembersLive cannot be proved alone: a command removes the    *)
(* entries its lookup by nickname finds, and that they are the entries of  *)
(* the right client needs NicksUnique and RegistryConsistent, while a      *)
(* disconnection keeps MembersLive only because the same lookups find      *)
(* every entry of the client that leaves.                                  *)
(***************************************************************************)
EXTENDS Channels, SessionProofs

ChannelInv ==
    /\ SessionInv
    /\ TypeOK
    /\ MembersLive
    /\ ChannelNamesUnique
    /\ NoEmptyChannel
    /\ ModeKeepsChannel

\* A pointer map whose entries are logged-in clients under their descriptors.
LiveMap(m) ==
    /\ m \in PointerMap
    /\ \A k \in Keys(m) : k \in Connected /\ m[k] = clients[k] /\ GetClient(k).log

LiveChannel(ch) ==
    /\ ch \in Channel
    /\ LiveMap(ch.admins)
    /\ LiveMap(ch.clients)

-----------------------------------------------------------------------------
\* Pointer maps

\* The keys of a pointer map are descriptors.
LEMMA KeysOfMap == \A m \in PointerMap : Keys(m) = {k \in Fd : m[k] # Nil}
BY DEF PointerMap, Keys

LEMMA EmptyMapLive == LiveMap(EmptyMap) /\ Keys(EmptyMap) = {} /\ EmptyMap \in PointerMap
BY DEF LiveMap, EmptyMap, PointerMap, Pointer, Keys

\* A channel as the constructor leaves it.
LEMMA NewChannelLive ==
    NewChannel \in Channel /\ LiveChannel(NewChannel) /\ Vacant(NewChannel)
BY EmptyMapLive DEF NewChannel, Channel, LiveChannel, Vacant

\* What an entry of a live map says about its client.
LEMMA LiveEntry ==
    ASSUME SessionInv, NEW m, LiveMap(m), NEW k \in Keys(m)
    PROVE  /\ k \in Fd /\ k \in Connected /\ k \in Int
           /\ m[k] = clients[k]
           /\ m[k] \in Addr
           /\ heap[m[k]] = GetClient(k)
           /\ heap[m[k]].fd = k
           /\ GetClient(k).log
           /\ GetClient(k).nickname \in NickWord
           /\ GetClient(k).nickname # ""
<1>1. k \in Connected /\ m[k] = clients[k] /\ GetClient(k).log
  BY DEF LiveMap
<1>2. k \in Fd /\ clients[k] \in Addr /\ GetClient(k) \in Client
  BY <1>1, ConnectedType DEF SessionInv
<1>3. heap[m[k]] = GetClient(k) /\ GetClient(k).fd = k
  BY <1>1 DEF SessionInv, RegistryConsistent, GetClient
<1>4. GetClient(k).nickname \in NickWord
  BY <1>1, <1>2 DEF SessionInv, Credentialed, Client
<1>5. GetClient(k).nickname # ""
  BY <1>4, WordAssumption
<1>6. k \in Int
  BY <1>2, FdAssumption
<1> QED BY <1>1, <1>2, <1>3, <1>4, <1>5, <1>6

\* NicksUnique, for citation.
LEMMA SameNick ==
    ASSUME SessionInv, NEW f \in Connected, NEW g \in Connected,
           GetClient(f).nickname # "",
           Lower[GetClient(f).nickname] = Lower[GetClient(g).nickname]
    PROVE  f = g
<1>1. NicksUnique
  BY DEF SessionInv
<1> QED BY <1>1 DEF NicksUnique

\* The only element of a set is its minimum.
LEMMA MinOfOne ==
    ASSUME NEW S, NEW x \in S, x \in Int, \A y \in S : y = x
    PROVE  Min(S) = x
<1>1. \E z \in S : \A y \in S : z <= y
  BY DEF Min
<1>2. Min(S) \in S
  BY <1>1 DEF Min
<1> QED BY <1>2

\* Two entries a lookup by nickname could stop at are the same.
LEMMA OneByNick ==
    ASSUME SessionInv, NEW m, LiveMap(m), NEW n, NEW k \in ByNick(m, n)
    PROVE  /\ k \in Keys(m)
           /\ \A j \in ByNick(m, n) : j = k
           /\ Min(ByNick(m, n)) = k
<1>1. /\ k \in Keys(m)
      /\ Lower[heap[m[k]].nickname] = Lower[n]
  BY DEF ByNick
<1>2. ASSUME NEW j \in ByNick(m, n) PROVE j = k
  <2>1. /\ j \in Keys(m)
        /\ Lower[heap[m[j]].nickname] = Lower[n]
    BY DEF ByNick
  <2>2. j \in Connected /\ heap[m[j]] = GetClient(j)
    BY <2>1, LiveEntry
  <2>3. k \in Connected /\ heap[m[k]] = GetClient(k) /\ GetClient(k).nickname # ""
    BY <1>1, LiveEntry
  <2>4. Lower[GetClient(k).nickname] = Lower[GetClient(j).nickname]
    BY <1>1, <2>1, <2>2, <2>3
  <2> QED BY <2>2, <2>3, <2>4, SameNick
<1>3. Min(ByNick(m, n)) = k
  BY <1>1, <1>2, LiveEntry, MinOfOne
<1> QED BY <1>1, <1>2, <1>3

\* What an exact comparison finds, a folded one finds as well.
LEMMA ExactIsByNick ==
    ASSUME NEW m, NEW n PROVE ByExactNick(m, n) \subseteq ByNick(m, n)
BY DEF ByExactNick, ByNick

\* RemoveAdmin and RemoveClientNick remove exactly what they find.
LEMMA EraseLive ==
    ASSUME SessionInv, NEW m, LiveMap(m), NEW n
    PROVE  /\ LiveMap(EraseNick(m, n))
           /\ Keys(EraseNick(m, n)) = Keys(m) \ ByExactNick(m, n)
           /\ \A k \in ByExactNick(m, n) : EraseNick(m, n) = [m EXCEPT ![k] = Nil]
<1>1. CASE ByExactNick(m, n) = {}
  BY <1>1 DEF EraseNick
<1>2. CASE ByExactNick(m, n) # {}
  <2> PICK k \in ByExactNick(m, n) : TRUE
    BY <1>2
  <2>1. k \in ByNick(m, n) /\ k \in Keys(m)
    BY ExactIsByNick, OneByNick
  <2>2. \A j \in ByExactNick(m, n) : j = k
    BY <2>1, ExactIsByNick, OneByNick
  <2>3. Min(ByExactNick(m, n)) = k
    BY <2>1, <2>2, LiveEntry, MinOfOne
  <2>4. EraseNick(m, n) = [m EXCEPT ![k] = Nil]
    <3>1. heap[m[k]].fd = k
      BY <2>1, LiveEntry
    <3> QED BY <1>2, <2>3, <3>1 DEF EraseNick
  <2>5. m \in PointerMap /\ k \in Fd
    BY <2>1, LiveEntry DEF LiveMap
  <2>6. [m EXCEPT ![k] = Nil] \in PointerMap
    BY <2>5 DEF PointerMap, Pointer
  <2>7. Keys([m EXCEPT ![k] = Nil]) = Keys(m) \ {k}
    BY <2>5 DEF Keys, PointerMap
  <2>8. LiveMap([m EXCEPT ![k] = Nil])
    BY <2>5, <2>6, <2>7 DEF LiveMap, PointerMap, Keys
  <2> QED BY <2>2, <2>4, <2>7, <2>8
<1> QED BY <1>1, <1>2

\* AddClient and AddAdmin of a logged-in client.
LEMMA InsertLive ==
    ASSUME SessionInv, NEW m, LiveMap(m), NEW fd \in Connected, GetClient(fd).log
    PROVE  /\ LiveMap(Insert(m, clients[fd]))
           /\ Keys(Insert(m, clients[fd])) = Keys(m) \cup {fd}
<1>1. /\ heap[clients[fd]].fd = fd
      /\ fd \in Fd
      /\ clients[fd] \in Addr
      /\ clients[fd] # Nil
      /\ m \in PointerMap
  BY ConnectedType, AddrAssumption DEF SessionInv, RegistryConsistent, GetClient, LiveMap
<1>2. CASE m[fd] # Nil
  <2>1. Insert(m, clients[fd]) = m
    BY <1>1, <1>2 DEF Insert
  <2>2. fd \in Keys(m)
    BY <1>1, <1>2, KeysOfMap
  <2> QED BY <2>1, <2>2
<1>3. CASE m[fd] = Nil
  <2>1. Insert(m, clients[fd]) = [m EXCEPT ![fd] = clients[fd]]
    BY <1>1, <1>3 DEF Insert
  <2>2. [m EXCEPT ![fd] = clients[fd]] \in PointerMap
    BY <1>1 DEF PointerMap, Pointer
  <2>3. Keys([m EXCEPT ![fd] = clients[fd]]) = Keys(m) \cup {fd}
    BY <1>1 DEF Keys, PointerMap
  <2>4. LiveMap([m EXCEPT ![fd] = clients[fd]])
    BY <1>1, <2>2, <2>3 DEF LiveMap, PointerMap, Keys
  <2> QED BY <2>1, <2>3, <2>4
<1> QED BY <1>2, <1>3

\* Looking a logged-in client up by its nickname finds its own entry.
LEMMA OwnNick ==
    ASSUME SessionInv, NEW m, LiveMap(m), NEW fd \in Connected, GetClient(fd).nickname # ""
    PROVE  /\ ByNick(m, GetClient(fd).nickname) = Keys(m) \cap {fd}
           /\ ByExactNick(m, GetClient(fd).nickname) = Keys(m) \cap {fd}
<1> DEFINE n == GetClient(fd).nickname
<1>1. ASSUME NEW k \in ByNick(m, n) PROVE k \in Keys(m) \cap {fd}
  <2>1. k \in Keys(m)
    BY DEF ByNick
  <2>2. k \in Connected /\ heap[m[k]] = GetClient(k)
    BY <2>1, LiveEntry
  <2>3. Lower[GetClient(fd).nickname] = Lower[GetClient(k).nickname]
    BY <2>2 DEF ByNick
  <2>4. k = fd
    BY <2>2, <2>3, SameNick
  <2> QED BY <2>1, <2>4
<1>2. ASSUME NEW k \in Keys(m) \cap {fd} PROVE k \in ByExactNick(m, n)
  <2>1. k = fd /\ k \in Keys(m) /\ heap[m[k]] = GetClient(k)
    BY LiveEntry
  <2> QED BY <2>1 DEF ByExactNick
<1> QED BY <1>1, <1>2, ExactIsByNick

\* A client that has not logged in is found nowhere.
LEMMA NoNick ==
    ASSUME SessionInv, NEW m, LiveMap(m), NEW fd \in Connected
    PROVE  /\ ByNick(m, GetClient(fd).nickname) = Keys(m) \cap {fd}
           /\ ByExactNick(m, GetClient(fd).nickname) = Keys(m) \cap {fd}
<1>1. CASE GetClient(fd).nickname # ""
  BY <1>1, OwnNick
<1>2. CASE GetClient(fd).nickname = ""
  <2>1. ASSUME NEW k \in ByNick(m, "") PROVE FALSE
    <3>1. k \in Keys(m) /\ Lower[heap[m[k]].nickname] = Lower[""]
      BY DEF ByNick
    <3>2. heap[m[k]] = GetClient(k) /\ GetClient(k).nickname \in NickWord
      BY <3>1, LiveEntry
    <3>3. Lower[""] = "" /\ \A n \in NickWord : Lower[n] = "" <=> n = ""
      BY LowerAssumption
    <3> QED BY <3>1, <3>2, <3>3, WordAssumption
  <2>2. fd \notin Keys(m)
    BY <1>2, LiveEntry, WordAssumption
  <2>3. ByNick(m, "") = {}
    BY <2>1
  <2> QED BY <1>2, <2>2, <2>3, ExactIsByNick
<1> QED BY <1>1, <1>2

-----------------------------------------------------------------------------
\* Steps that leave the registry alone

\* The invariant makes every channel live.
LEMMA InvLive ==
    ASSUME ChannelInv, NEW c \in channels
    PROVE  c \in Chan /\ LiveChannel(chan[c]) /\ ~Vacant(chan[c])
<1>1. c \in Chan /\ chan[c] \in Channel
  BY DEF ChannelInv, TypeOK
<1>2. chan[c].admins \in PointerMap /\ chan[c].clients \in PointerMap
  BY <1>1 DEF Channel
<1>3. ASSUME NEW m \in {chan[c].admins, chan[c].clients} PROVE LiveMap(m)
  <2> SUFFICES ASSUME NEW k \in Keys(m)
               PROVE  k \in Connected /\ m[k] = clients[k] /\ GetClient(k).log
    BY <1>2 DEF LiveMap
  <2>1. k \in Fd /\ m[k] # Nil
    BY <1>2, KeysOfMap
  <2>2. m[k] = clients[k] /\ GetClient(k).log
    BY <2>1 DEF ChannelInv, MembersLive
  <2> QED BY <2>1, <2>2 DEF Connected, Keys, ChannelInv, SessionInv, SessionTypeOK
<1> QED BY <1>1, <1>2, <1>3 DEF LiveChannel, ChannelInv, NoEmptyChannel

\* What the next value of loop has to satisfy.
LoopOK ==
    /\ loop' \in Loop
    /\ loop'.op # "none" => turn # NoFd /\ loop'.chan \in Chan
    /\ loop'.op = "MODE" => /\ loop'.chan \in channels'
                            /\ turn \in Members(chan'[loop'.chan])

\* A step that leaves the registry alone keeps the invariant if the channels
\* it ends with are live, not empty, and named apart.
LEMMA ChannelsChange ==
    ASSUME ChannelInv,
           UNCHANGED sessionVars,
           channels' \subseteq Chan,
           chan' \in [Chan -> Channel],
           \A c \in Chan \ channels' : chan'[c] = NewChannel,
           \A c \in channels' : LiveChannel(chan'[c]) /\ ~Vacant(chan'[c]),
           \A c, d \in channels' : LowerChan[c] = LowerChan[d] => c = d,
           LoopOK,
           status' \in {"running", "stopped", "undefined"}
    PROVE  ChannelInv'
<1>1. SessionInv'
  BY SessionStep DEF ChannelInv
<1>2. SessionTypeOK'
  BY <1>1 DEF SessionInv
<1>3. turn' = turn /\ clients' = clients /\ heap' = heap
  BY DEF sessionVars
<1>4. TypeOK'
  BY <1>2, <1>3 DEF TypeOK, LoopOK
<1>5. MembersLive'
  <2> SUFFICES ASSUME NEW c \in channels', NEW fd \in Fd,
                      NEW p \in {chan'[c].admins[fd], chan'[c].clients[fd]}, p # Nil
               PROVE  p = clients[fd] /\ GetClient(fd).log
    BY <1>3 DEF MembersLive, GetClient
  <2>1. LiveMap(chan'[c].admins) /\ LiveMap(chan'[c].clients)
    BY DEF LiveChannel
  <2> QED BY <2>1 DEF LiveMap, PointerMap, Keys
<1>6. ChannelNamesUnique'
  BY DEF ChannelNamesUnique
<1>7. NoEmptyChannel'
  BY DEF NoEmptyChannel, Vacant
<1>8. ModeKeepsChannel'
  BY <1>3 DEF ModeKeepsChannel, LoopOK, Members
<1> QED BY <1>1, <1>4, <1>5, <1>6, <1>7, <1>8 DEF ChannelInv

\* One channel is replaced by another live one.
LEMMA SetChannelInv ==
    ASSUME ChannelInv, UNCHANGED <<sessionVars, status>>,
           NEW c \in channels, NEW ch, LiveChannel(ch), ~Vacant(ch),
           SetChannel(c, ch), LoopOK
    PROVE  ChannelInv'
<1>1. chan' = [chan EXCEPT ![c] = ch] /\ channels' = channels
  BY DEF SetChannel
<1>2. /\ channels \subseteq Chan
      /\ chan \in [Chan -> Channel]
      /\ \A d \in Chan \ channels : chan[d] = NewChannel
      /\ status \in {"running", "stopped", "undefined"}
  BY DEF ChannelInv, TypeOK
<1>3. ch \in Channel
  BY DEF LiveChannel
<1>4. chan' \in [Chan -> Channel]
  BY <1>1, <1>2, <1>3
<1>5. \A d \in Chan \ channels' : chan'[d] = NewChannel
  BY <1>1, <1>2
<1>6. ASSUME NEW d \in channels' PROVE LiveChannel(chan'[d]) /\ ~Vacant(chan'[d])
  <2>1. CASE d = c
    BY <2>1, <1>1, <1>2
  <2>2. CASE d # c
    <3>1. chan'[d] = chan[d]
      BY <2>2, <1>1, <1>2
    <3> QED BY <3>1, <1>1, InvLive
  <2> QED BY <2>1, <2>2
<1>7. \A d, e \in channels' : LowerChan[d] = LowerChan[e] => d = e
  BY <1>1 DEF ChannelInv, ChannelNamesUnique
<1> QED BY <1>1, <1>2, <1>4, <1>5, <1>6, <1>7, ChannelsChange

\* One channel is replaced by a live one or, if it is empty, removed.
LEMMA SetOrRemoveInv ==
    ASSUME ChannelInv, UNCHANGED <<sessionVars, status>>,
           NEW c \in channels, NEW ch, LiveChannel(ch),
           SetOrRemoveChannel(c, ch), LoopOK
    PROVE  ChannelInv'
<1>1. CASE ~Vacant(ch)
  BY <1>1, SetChannelInv DEF SetOrRemoveChannel
<1>2. CASE Vacant(ch)
  <2>1. channels' = channels \ {c} /\ chan' = [chan EXCEPT ![c] = NewChannel]
    BY <1>2 DEF SetOrRemoveChannel
  <2>2. /\ channels \subseteq Chan
        /\ chan \in [Chan -> Channel]
        /\ \A d \in Chan \ channels : chan[d] = NewChannel
        /\ status \in {"running", "stopped", "undefined"}
    BY DEF ChannelInv, TypeOK
  <2>3. chan' \in [Chan -> Channel]
    BY <2>1, <2>2, NewChannelLive
  <2>4. \A d \in Chan \ channels' : chan'[d] = NewChannel
    BY <2>1, <2>2
  <2>5. ASSUME NEW d \in channels' PROVE LiveChannel(chan'[d]) /\ ~Vacant(chan'[d])
    <3>1. d \in channels /\ chan'[d] = chan[d]
      BY <2>1, <2>2
    <3> QED BY <3>1, InvLive
  <2>6. \A d, e \in channels' : LowerChan[d] = LowerChan[e] => d = e
    BY <2>1 DEF ChannelInv, ChannelNamesUnique
  <2>7. channels' \subseteq Chan
    BY <2>1, <2>2
  <2> QED BY <2>2, <2>3, <2>4, <2>5, <2>6, <2>7, ChannelsChange
<1> QED BY <1>1, <1>2

\* A step that changes neither the registry nor a channel.
LEMMA LoopOnlyInv ==
    ASSUME ChannelInv, UNCHANGED <<sessionVars, channels, chan>>, LoopOK,
           status' \in {"running", "stopped", "undefined"}
    PROVE  ChannelInv'
<1>1. /\ channels' \subseteq Chan
      /\ chan' \in [Chan -> Channel]
      /\ \A d \in Chan \ channels' : chan'[d] = NewChannel
  BY DEF ChannelInv, TypeOK
<1>2. ASSUME NEW d \in channels' PROVE LiveChannel(chan'[d]) /\ ~Vacant(chan'[d])
  BY InvLive
<1>3. \A d, e \in channels' : LowerChan[d] = LowerChan[e] => d = e
  BY DEF ChannelInv, ChannelNamesUnique
<1> QED BY <1>1, <1>2, <1>3, ChannelsChange

\* Between two commands, and when a loop ends, there is nothing to carry.
LEMMA LoopOKNone == ASSUME loop' = NoLoop PROVE LoopOK
BY DEF LoopOK, NoLoop, Loop

\* Commands that are not loops leave loop at NoLoop.
LEMMA LoopOKBetween ==
    ASSUME ChannelInv, loop.op # "MODE", UNCHANGED loop
    PROVE  LoopOK
BY DEF LoopOK, ChannelInv, TypeOK

-----------------------------------------------------------------------------
\* The commands

\* Who issues a command is connected and logged in.
LEMMA Issuer ==
    ASSUME ChannelInv, NEW fd \in Fd, Commanded(fd)
    PROVE  fd \in Connected /\ turn = fd /\ GetClient(fd).log /\ loop.op = "none"
BY TurnConnected DEF Commanded, Between, ChannelInv

\* JOIN of an existing channel files the client's own entry.
LEMMA JoinInv ==
    ASSUME ChannelInv, NEW fd \in Fd, NEW c \in Chan, NEW key, Join(fd, c, key)
    PROVE  ChannelInv'
<1>1. Commanded(fd) /\ c \in channels /\ UNCHANGED <<sessionVars, loop>>
  BY DEF Join
<1>2. fd \in Connected /\ GetClient(fd).log /\ LoopOK
  BY <1>1, Issuer, LoopOKBetween
<1>3. CASE status' = "undefined" /\ UNCHANGED <<channels, chan>>
  BY <1>1, <1>2, <1>3, LoopOnlyInv
<1>4. CASE /\ SetChannel(c, [chan[c] EXCEPT !.clients = Insert(@, clients[fd])])
           /\ UNCHANGED status
  <2> DEFINE ch == [chan[c] EXCEPT !.clients = Insert(@, clients[fd])]
  <2>1. LiveChannel(chan[c]) /\ SessionInv
    BY <1>1, InvLive DEF ChannelInv
  <2>2. LiveMap(chan[c].clients) /\ LiveMap(chan[c].admins) /\ chan[c] \in Channel
    BY <2>1 DEF LiveChannel
  <2>3. /\ LiveMap(Insert(chan[c].clients, clients[fd]))
        /\ fd \in Keys(Insert(chan[c].clients, clients[fd]))
    BY <1>2, <2>1, <2>2, InsertLive
  <2>4. Insert(chan[c].clients, clients[fd]) \in PointerMap
    BY <2>3 DEF LiveMap
  <2>5. /\ ch \in Channel
        /\ ch.admins = chan[c].admins
        /\ ch.clients = Insert(chan[c].clients, clients[fd])
    BY <2>2, <2>4 DEF Channel
  <2>6. LiveChannel(ch) /\ ~Vacant(ch)
    BY <2>2, <2>3, <2>5 DEF LiveChannel, Vacant
  <2> QED BY <1>1, <1>2, <1>4, <2>6, SetChannelInv
<1> QED BY <1>3, <1>4 DEF Join

\* JOIN of a new channel files it under a name no other one has.
LEMMA JoinCreateInv ==
    ASSUME ChannelInv, NEW fd \in Fd, NEW name \in Chan, NEW key \in KeyWord \cup {""},
           JoinCreate(fd, name, key)
    PROVE  ChannelInv'
<1> DEFINE ch == [NewChannel EXCEPT !.password = key,
                                    !.admins = Insert(EmptyMap, clients[fd])]
<1>1. /\ Commanded(fd)
      /\ GetChannelByName(name) = {}
      /\ channels' = channels \cup {name}
      /\ chan' = [chan EXCEPT ![name] = ch]
      /\ UNCHANGED <<sessionVars, loop, status>>
  BY DEF JoinCreate
<1>2. fd \in Connected /\ GetClient(fd).log /\ LoopOK
  BY <1>1, Issuer, LoopOKBetween
<1>3. SessionInv /\ LiveMap(EmptyMap)
  BY EmptyMapLive DEF ChannelInv
<1>4. /\ LiveMap(Insert(EmptyMap, clients[fd]))
      /\ fd \in Keys(Insert(EmptyMap, clients[fd]))
      /\ Insert(EmptyMap, clients[fd]) \in PointerMap
  <2>1. /\ LiveMap(Insert(EmptyMap, clients[fd]))
        /\ Keys(Insert(EmptyMap, clients[fd])) = Keys(EmptyMap) \cup {fd}
    BY <1>2, <1>3, InsertLive
  <2>2. Insert(EmptyMap, clients[fd]) \in PointerMap
    BY <2>1 DEF LiveMap
  <2> QED BY <2>1, <2>2
<1>5. /\ ch \in Channel
      /\ ch.admins = Insert(EmptyMap, clients[fd])
      /\ ch.clients = EmptyMap
  BY <1>4, NewChannelLive DEF Channel, NewChannel
<1>6. LiveChannel(ch) /\ ~Vacant(ch)
  BY <1>3, <1>4, <1>5 DEF LiveChannel, Vacant
<1>7. /\ channels \subseteq Chan
      /\ chan \in [Chan -> Channel]
      /\ \A d \in Chan \ channels : chan[d] = NewChannel
      /\ status \in {"running", "stopped", "undefined"}
  BY DEF ChannelInv, TypeOK
<1>8. channels' \subseteq Chan /\ chan' \in [Chan -> Channel]
  BY <1>1, <1>5, <1>7
<1>9. \A d \in Chan \ channels' : chan'[d] = NewChannel
  BY <1>1, <1>7
<1>10. ASSUME NEW d \in channels' PROVE LiveChannel(chan'[d]) /\ ~Vacant(chan'[d])
  <2>1. CASE d = name
    BY <2>1, <1>1, <1>6, <1>7
  <2>2. CASE d # name
    <3>1. d \in channels /\ chan'[d] = chan[d]
      BY <2>2, <1>1, <1>7
    <3> QED BY <3>1, InvLive
  <2> QED BY <2>1, <2>2
<1>11. \A d, e \in channels' : LowerChan[d] = LowerChan[e] => d = e
  <2>1. \A d \in channels : LowerChan[d] # LowerChan[name]
    BY <1>1 DEF GetChannelByName
  <2> QED BY <1>1, <2>1 DEF ChannelInv, ChannelNamesUnique
<1>12. status' \in {"running", "stopped", "undefined"}
  BY <1>1, <1>7
<1> QED BY <1>1, <1>2, <1>8, <1>9, <1>10, <1>11, <1>12, ChannelsChange

\* The lookups by nickname of PART, QUIT and ReceiveNewData remove exactly
\* the entries of the client that leaves.
LEMMA WithoutRemoves ==
    ASSUME SessionInv, NEW ch, LiveChannel(ch), NEW fd \in Connected
    PROVE  LET after == Without(ch, fd, GetClient(fd).nickname)
           IN  /\ LiveChannel(after)
               /\ Keys(after.admins) = Keys(ch.admins) \ {fd}
               /\ Keys(after.clients) = Keys(ch.clients) \ {fd}
<1> DEFINE n == GetClient(fd).nickname
           after == Without(ch, fd, n)
           cl == IF ByNick(ch.clients, n) = {} THEN ch.clients
                 ELSE [ch.clients EXCEPT ![fd] = Nil]
           ad == IF ByNick(ch.admins, n) = {} THEN ch.admins
                 ELSE EraseNick(ch.admins, n)
<1>1. ch \in Channel /\ LiveMap(ch.clients) /\ LiveMap(ch.admins) /\ fd \in Fd
  BY ConnectedType DEF LiveChannel, SessionInv
<1>2. LiveMap(cl) /\ Keys(cl) = Keys(ch.clients) \ {fd}
  <2>1. ByNick(ch.clients, n) = Keys(ch.clients) \cap {fd}
    BY <1>1, NoNick
  <2>2. CASE fd \notin Keys(ch.clients)
    BY <2>1, <2>2, <1>1
  <2>3. CASE fd \in Keys(ch.clients)
    <3>1. ByExactNick(ch.clients, n) = Keys(ch.clients) \cap {fd}
      BY <1>1, NoNick
    <3>2. fd \in ByExactNick(ch.clients, n) /\ ByNick(ch.clients, n) # {}
      BY <3>1, <2>1, <2>3
    <3>3. EraseNick(ch.clients, n) = [ch.clients EXCEPT ![fd] = Nil]
      BY <3>2, <1>1, EraseLive
    <3>4. cl = EraseNick(ch.clients, n)
      BY <3>2, <3>3
    <3>5. /\ LiveMap(EraseNick(ch.clients, n))
          /\ Keys(EraseNick(ch.clients, n)) = Keys(ch.clients) \ ByExactNick(ch.clients, n)
      BY <1>1, EraseLive
    <3>6. Keys(EraseNick(ch.clients, n)) = Keys(ch.clients) \ {fd}
      BY <3>1, <3>5
    <3> HIDE DEF cl
    <3> QED BY <3>4, <3>5, <3>6
  <2> QED BY <2>2, <2>3
<1>3. LiveMap(ad) /\ Keys(ad) = Keys(ch.admins) \ {fd}
  <2>1. /\ ByNick(ch.admins, n) = Keys(ch.admins) \cap {fd}
        /\ ByExactNick(ch.admins, n) = Keys(ch.admins) \cap {fd}
    BY <1>1, NoNick
  <2>2. CASE fd \notin Keys(ch.admins)
    BY <2>1, <2>2, <1>1
  <2>3. CASE fd \in Keys(ch.admins)
    <3>1. ad = EraseNick(ch.admins, n)
      BY <2>1, <2>3
    <3>2. /\ LiveMap(EraseNick(ch.admins, n))
          /\ Keys(EraseNick(ch.admins, n)) = Keys(ch.admins) \ ByExactNick(ch.admins, n)
      BY <1>1, EraseLive
    <3>3. Keys(EraseNick(ch.admins, n)) = Keys(ch.admins) \ {fd}
      BY <2>1, <3>2
    <3> HIDE DEF ad
    <3> QED BY <3>1, <3>2, <3>3
  <2> QED BY <2>2, <2>3
<1>4. cl \in PointerMap /\ ad \in PointerMap
  BY <1>2, <1>3 DEF LiveMap
<1>5. after = [ch EXCEPT !.clients = cl, !.admins = ad]
  BY DEF Without
<1> HIDE DEF cl, ad
<1>6. after \in Channel /\ after.clients = cl /\ after.admins = ad
  BY <1>1, <1>4, <1>5 DEF Channel
<1> HIDE DEF after
<1>7. LiveChannel(after)
  BY <1>2, <1>3, <1>6 DEF LiveChannel
<1> QED BY <1>2, <1>3, <1>6, <1>7 DEF after

\* PART removes the client and, if it was the last, the channel.
LEMMA PartInv ==
    ASSUME ChannelInv, NEW fd \in Fd, NEW c \in Chan, Part(fd, c)
    PROVE  ChannelInv'
<1>1. /\ Commanded(fd) /\ c \in channels
      /\ SetOrRemoveChannel(c, Without(chan[c], fd, GetClient(fd).nickname))
      /\ UNCHANGED <<sessionVars, loop, status>>
  BY DEF Part
<1>2. fd \in Connected /\ LoopOK
  BY <1>1, Issuer, LoopOKBetween
<1>3. LiveChannel(chan[c]) /\ SessionInv
  BY <1>1, InvLive DEF ChannelInv
<1>4. LiveChannel(Without(chan[c], fd, GetClient(fd).nickname))
  BY <1>2, <1>3, WithoutRemoves
<1> QED BY <1>1, <1>2, <1>4, SetOrRemoveInv

\* What QUIT and the loss of a connection make of the channels.
LEMMA LeaveAllChannels ==
    ASSUME ChannelInv, NEW fd \in Connected, LeaveAll(fd)
    PROVE  /\ channels' \subseteq channels
           /\ chan' \in [Chan -> Channel]
           /\ \A c \in Chan \ channels' : chan'[c] = NewChannel
           /\ \A c \in channels' :
                /\ LiveChannel(chan'[c])
                /\ ~Vacant(chan'[c])
                /\ fd \notin Members(chan'[c])
<1> DEFINE after == [c \in Chan |-> IF c \in channels
                                    THEN Without(chan[c], fd, GetClient(fd).nickname)
                                    ELSE chan[c]]
           gone  == {c \in channels : Vacant(after[c])}
<1>1. /\ channels' = channels \ gone
      /\ chan' = [c \in Chan |-> IF c \in gone THEN NewChannel ELSE after[c]]
  BY DEF LeaveAll
<1>2. /\ channels \subseteq Chan
      /\ chan \in [Chan -> Channel]
      /\ \A c \in Chan \ channels : chan[c] = NewChannel
  BY DEF ChannelInv, TypeOK
<1>3. ASSUME NEW c \in channels
      PROVE  LiveChannel(after[c]) /\ after[c] \in Channel /\ fd \notin Members(after[c])
  <2>1. LiveChannel(chan[c]) /\ SessionInv /\ c \in Chan
    BY InvLive DEF ChannelInv
  <2>2. after[c] = Without(chan[c], fd, GetClient(fd).nickname)
    BY <2>1
  <2> HIDE DEF after
  <2>3. /\ LiveChannel(after[c])
        /\ fd \notin Keys(after[c].admins)
        /\ fd \notin Keys(after[c].clients)
    BY <2>1, <2>2, WithoutRemoves
  <2> QED BY <2>3 DEF LiveChannel, Members
<1>4. \A c \in Chan \ channels : after[c] = NewChannel
  BY <1>2
<1>5. NewChannel \in Channel
  BY NewChannelLive
<1>6. \A c \in Chan : after[c] \in Channel
  BY <1>3, <1>4, <1>5
<1> HIDE DEF after
<1>7. chan' \in [Chan -> Channel]
  BY <1>1, <1>5, <1>6
<1>8. ASSUME NEW c \in Chan \ channels' PROVE chan'[c] = NewChannel
  BY <1>1, <1>4
<1>9. ASSUME NEW c \in channels'
      PROVE  /\ LiveChannel(chan'[c])
             /\ ~Vacant(chan'[c])
             /\ fd \notin Members(chan'[c])
  <2>1. c \in channels /\ c \in Chan /\ chan'[c] = after[c] /\ ~Vacant(after[c])
    BY <1>1, <1>2
  <2> QED BY <2>1, <1>3
<1> QED BY <1>1, <1>7, <1>8, <1>9

\* QUIT takes its client out of every channel.
LEMMA QuitInv ==
    ASSUME ChannelInv, NEW fd \in Fd, Quit(fd)
    PROVE  ChannelInv'
<1>1. Commanded(fd) /\ LeaveAll(fd) /\ UNCHANGED <<sessionVars, loop, status>>
  BY DEF Quit
<1>2. fd \in Connected /\ LoopOK
  BY <1>1, Issuer, LoopOKBetween
<1>3. /\ channels' \subseteq channels
      /\ chan' \in [Chan -> Channel]
      /\ \A c \in Chan \ channels' : chan'[c] = NewChannel
      /\ \A c \in channels' : LiveChannel(chan'[c]) /\ ~Vacant(chan'[c])
  BY <1>1, <1>2, LeaveAllChannels
<1>4. /\ channels' \subseteq Chan
      /\ status' \in {"running", "stopped", "undefined"}
      /\ \A c, d \in channels' : LowerChan[c] = LowerChan[d] => c = d
  BY <1>1, <1>3 DEF ChannelInv, TypeOK, ChannelNamesUnique
<1> QED BY <1>1, <1>2, <1>3, <1>4, ChannelsChange

\* The registry's steps other than a disconnection keep every client that is
\* logged in where it is.
LEMMA RegistryKeeps ==
    ASSUME SessionInv, NEW fd \in Fd,
           \/ \E a \in Addr : AcceptNewClient(fd, a)
           \/ BeginTurn(fd)
           \/ Register(fd)
           \/ EndTurn(fd)
    PROVE  /\ turn' \in Fd \cup {NoFd}
           /\ \A k \in Connected :
                /\ clients'[k] = clients[k]
                /\ GetClient(k).log => GetClient(k)'.log
<1>1. CASE \E a \in Addr : AcceptNewClient(fd, a)
  <2> PICK a \in Addr : AcceptNewClient(fd, a)
    BY <1>1
  <2>1. ASSUME NEW k \in Connected
        PROVE  clients'[k] = clients[k] /\ GetClient(k)' = GetClient(k)
    <3>1. /\ k # fd /\ k \in Fd /\ clients[k] # a /\ clients[k] \in Addr
          /\ clients' = [clients EXCEPT ![fd] = a]
          /\ heap' = [heap EXCEPT ![a] = [NewClient EXCEPT !.fd = fd]]
          /\ clients \in [Fd -> Pointer] /\ heap \in [Addr -> Client]
      BY ConnectedType DEF AcceptNewClient, SessionInv, SessionTypeOK, Live
    <3> QED BY <3>1 DEF GetClient
  <2> QED BY <2>1 DEF AcceptNewClient
<1>2. CASE BeginTurn(fd)
  BY <1>2 DEF BeginTurn, GetClient
<1>3. CASE Register(fd) \/ EndTurn(fd)
  <2>1. /\ fd \in Connected
        /\ UNCHANGED clients
        /\ turn' \in Fd \cup {NoFd}
        /\ \E obj : SetClient(fd, obj) /\ (GetClient(fd).log => obj.log)
    <3>0. turn = fd
      BY <1>3 DEF Register, EndTurn, Pass, Nick, User
    <3>1. fd \in Connected
      BY <3>0, TurnConnected
    <3>2. GetClient(fd) \in Client
      BY <3>1, ConnectedType DEF SessionInv
    <3>3. CASE EndTurn(fd)
      BY <3>1, <3>2, <3>3 DEF EndTurn, Client
    <3>4. CASE \E word \in PassWord : Pass(fd, word)
      <4> PICK word \in PassWord : Pass(fd, word)
        BY <3>4
      <4> DEFINE obj == [GetClient(fd) EXCEPT !.password = word]
      <4>1. SetClient(fd, obj) /\ UNCHANGED <<clients, turn>>
        BY DEF Pass
      <4>2. obj.log = GetClient(fd).log
        BY <3>2 DEF Client
      <4> HIDE DEF obj
      <4> QED BY <3>0, <3>1, <4>1, <4>2
    <3>5. CASE \E word \in NickWord : Nick(fd, word)
      <4> PICK word \in NickWord : Nick(fd, word)
        BY <3>5
      <4> DEFINE obj == [GetClient(fd) EXCEPT !.nickname = word]
      <4>1. SetClient(fd, obj) /\ UNCHANGED <<clients, turn>>
        BY DEF Nick
      <4>2. obj.log = GetClient(fd).log
        BY <3>2 DEF Client
      <4> HIDE DEF obj
      <4> QED BY <3>0, <3>1, <4>1, <4>2
    <3>6. CASE \E word \in UserWord : User(fd, word)
      <4> PICK word \in UserWord : User(fd, word)
        BY <3>6
      <4> DEFINE obj == [GetClient(fd) EXCEPT !.username = word]
      <4>1. SetClient(fd, obj) /\ UNCHANGED <<clients, turn>>
        BY DEF User
      <4>2. obj.log = GetClient(fd).log
        BY <3>2 DEF Client
      <4> HIDE DEF obj
      <4> QED BY <3>0, <3>1, <4>1, <4>2
    <3> QED BY <1>3, <3>3, <3>4, <3>5, <3>6 DEF Register
  <2> PICK obj : SetClient(fd, obj) /\ (GetClient(fd).log => obj.log)
    BY <2>1
  <2>2. /\ GetClient(fd)' = obj
        /\ \A g \in Connected \ {fd} : GetClient(g)' = GetClient(g)
    BY <2>1, WriteOne DEF SessionInv
  <2>3. ASSUME NEW k \in Connected, GetClient(k).log PROVE GetClient(k)'.log
    <3>1. CASE k = fd
      BY <3>1, <2>2, <2>3
    <3>2. CASE k # fd
      BY <3>2, <2>2, <2>3
    <3> QED BY <3>1, <3>2
  <2> QED BY <2>1, <2>3
<1> QED BY <1>1, <1>2, <1>3

\* Steps of the registry that touch no channel.
LEMMA RegistryInv ==
    ASSUME ChannelInv, NEW fd \in Fd,
           \/ \E a \in Addr : Accept(fd, a)
           \/ Begin(fd)
           \/ Handshake(fd)
           \/ End(fd)
    PROVE  ChannelInv'
<1>1. /\ Between /\ UNCHANGED channelVars
      /\ \/ \E a \in Addr : AcceptNewClient(fd, a)
         \/ BeginTurn(fd)
         \/ Register(fd)
         \/ EndTurn(fd)
  BY DEF Accept, Begin, Handshake, End
<1>2. SessionInv /\ loop.op = "none"
  BY <1>1 DEF ChannelInv, Between
<1>3. /\ \A k \in Connected : /\ clients'[k] = clients[k]
                              /\ GetClient(k).log => GetClient(k)'.log
  BY <1>1, <1>2, RegistryKeeps
<1>4. SessionInv'
  BY <1>1, <1>2, SessionStep DEF SessionNext
<1>5. channels' = channels /\ chan' = chan /\ loop' = loop /\ status' = status
  BY <1>1 DEF channelVars
<1>6. TypeOK'
  BY <1>2, <1>4, <1>5 DEF TypeOK, ChannelInv, SessionInv
<1>7. MembersLive'
  <2> SUFFICES ASSUME NEW c \in channels, NEW k \in Fd,
                      NEW p \in {chan[c].admins[k], chan[c].clients[k]}, p # Nil
               PROVE  p = clients'[k] /\ GetClient(k)'.log
    BY <1>5 DEF MembersLive
  <2>1. p = clients[k] /\ GetClient(k).log
    BY DEF ChannelInv, MembersLive
  <2>2. k \in Connected
    BY <1>2, <2>1 DEF Connected, Keys, SessionInv, SessionTypeOK
  <2> QED BY <2>1, <2>2, <1>3
<1>8. ChannelNamesUnique' /\ NoEmptyChannel' /\ ModeKeepsChannel'
  BY <1>2, <1>5 DEF ChannelInv, ChannelNamesUnique, NoEmptyChannel, ModeKeepsChannel, Vacant
<1> QED BY <1>4, <1>6, <1>7, <1>8 DEF ChannelInv

\* The loss of a connection: the registry forgets the client and so does
\* every channel.
LEMMA DisconnectInv ==
    ASSUME ChannelInv, NEW fd \in Fd, Disconnect(fd)
    PROVE  ChannelInv'
<1>1. Between /\ DropClient(fd) /\ LeaveAll(fd) /\ UNCHANGED <<loop, status>>
  BY DEF Disconnect
<1>2. /\ SessionInv /\ loop.op = "none"
      /\ fd \in Connected
      /\ clients' = [clients EXCEPT ![fd] = Nil]
      /\ heap' = [heap EXCEPT ![clients[fd]] = NewClient]
      /\ turn' = turn
  BY <1>1 DEF ChannelInv, Between, DropClient, SetClient
<1>3. SessionInv'
  BY <1>1, <1>2, DropInv
<1>4. /\ channels' \subseteq channels
      /\ chan' \in [Chan -> Channel]
      /\ \A c \in Chan \ channels' : chan'[c] = NewChannel
      /\ \A c \in channels' :
           LiveChannel(chan'[c]) /\ ~Vacant(chan'[c]) /\ fd \notin Members(chan'[c])
  BY <1>1, <1>2, LeaveAllChannels
<1>5. TypeOK'
  BY <1>1, <1>2, <1>3, <1>4 DEF TypeOK, ChannelInv, SessionInv
<1>6. ASSUME NEW k \in Connected, k # fd
      PROVE  clients'[k] = clients[k] /\ GetClient(k)' = GetClient(k)
  <2>1. /\ clients[k] # clients[fd] /\ clients[k] \in Addr /\ k \in Fd
        /\ clients \in [Fd -> Pointer] /\ heap \in [Addr -> Client]
    BY <1>2, <1>6, NoSharing, ConnectedType DEF SessionInv, SessionTypeOK
  <2> QED BY <1>2, <1>6, <2>1 DEF GetClient
<1>7. MembersLive'
  <2> SUFFICES ASSUME NEW c \in channels', NEW k \in Fd,
                      NEW m \in {chan'[c].admins, chan'[c].clients}, m[k] # Nil
               PROVE  m[k] = clients'[k] /\ GetClient(k)'.log
    BY DEF MembersLive
  <2>1. LiveMap(m)
    BY <1>4 DEF LiveChannel
  <2>2. k \in Keys(m)
    BY <2>1, KeysOfMap DEF LiveMap
  <2>3. k \in Connected /\ m[k] = clients[k] /\ GetClient(k).log
    BY <2>1, <2>2 DEF LiveMap
  <2>4. k # fd
    BY <1>4, <2>2 DEF Members
  <2> QED BY <2>3, <2>4, <1>6
<1>8. ChannelNamesUnique' /\ NoEmptyChannel' /\ ModeKeepsChannel'
  BY <1>1, <1>2, <1>4 DEF ChannelInv, ChannelNamesUnique, NoEmptyChannel, ModeKeepsChannel, Vacant
<1> QED BY <1>3, <1>5, <1>7, <1>8 DEF ChannelInv

\* Server::GetClientByNickname returns a connected client if it finds any.
LEMMA FoundClient ==
    ASSUME SessionInv, NEW word \in NickWord, GetClientByNickname(word) # {}
    PROVE  Min(GetClientByNickname(word)) \in Connected
<1> PICK g \in GetClientByNickname(word) : TRUE
  OBVIOUS
<1>1. ASSUME NEW f \in GetClientByNickname(word)
      PROVE  /\ f \in Connected
             /\ GetClient(f).nickname # ""
             /\ Lower[GetClient(f).nickname] = word
  <2>1. f \in Connected /\ Lower[GetClient(f).nickname] = word
    BY DEF GetClientByNickname
  <2>2. Lower[""] = "" /\ word # ""
    BY LowerAssumption, WordAssumption
  <2> QED BY <2>1, <2>2
<1>2. \A f \in GetClientByNickname(word) : f = g
  BY <1>1, SameNick
<1>3. g \in Connected
  BY <1>1
<1>4. g \in Fd
  BY <1>3, ConnectedType DEF SessionInv
<1>5. g \in Int
  BY <1>4, FdAssumption
<1> QED BY <1>2, <1>3, <1>5, MinOfOne

\* INVITE writes the invitations only, and those are not constrained.
LEMMA InviteInv ==
    ASSUME ChannelInv, NEW fd \in Fd, NEW word \in NickWord, NEW name \in Chan,
           Invite(fd, word, name)
    PROVE  ChannelInv'
<1> DEFINE g == Min(GetClientByNickname(word))
<1>1. PICK c \in GetChannelByName(name) :
        /\ Commanded(fd)
        /\ GetClientByNickname(word) # {}
        /\ SetChannel(c, [chan[c] EXCEPT !.invited = Insert(@, clients[g])])
        /\ UNCHANGED <<sessionVars, loop, status>>
  BY DEF Invite
<1>2. c \in channels
  BY DEF GetChannelByName
<1>3. LoopOK
  BY <1>1, Issuer, LoopOKBetween
<1>4. LiveChannel(chan[c]) /\ ~Vacant(chan[c]) /\ SessionInv
  BY <1>2, InvLive DEF ChannelInv
<1>5. g \in Connected
  BY <1>1, <1>4, FoundClient
<1>6. clients[g] \in Addr /\ heap[clients[g]].fd = g /\ g \in Fd
  BY <1>4, <1>5, ConnectedType DEF SessionInv, RegistryConsistent, GetClient
<1>7. chan[c] \in Channel /\ chan[c].invited \in PointerMap
  BY <1>4 DEF LiveChannel, Channel
<1>8. Insert(chan[c].invited, clients[g]) \in PointerMap
  BY <1>6, <1>7 DEF Insert, PointerMap, Pointer
<1> DEFINE ch == [chan[c] EXCEPT !.invited = Insert(@, clients[g])]
<1>9. ch \in Channel /\ ch.admins = chan[c].admins /\ ch.clients = chan[c].clients
  BY <1>7, <1>8 DEF Channel
<1>10. LiveChannel(ch) /\ ~Vacant(ch)
  BY <1>4, <1>9 DEF LiveChannel, Vacant
<1> QED BY <1>1, <1>2, <1>3, <1>10, SetChannelInv

\* TOPIC and the letters of MODE that write a plain field of the channel.
LEMMA FieldInv ==
    ASSUME ChannelInv, UNCHANGED <<sessionVars, status>>, NEW c \in channels,
           NEW ch \in Channel, ch.admins = chan[c].admins, ch.clients = chan[c].clients,
           SetChannel(c, ch),
           loop' \in Loop,
           \/ UNCHANGED loop
           \/ loop.op = "MODE" /\ loop'.op = "MODE" /\ loop'.chan = loop.chan
    PROVE  ChannelInv'
<1>1. LiveChannel(chan[c]) /\ ~Vacant(chan[c])
  BY InvLive
<1>2. LiveChannel(ch) /\ ~Vacant(ch)
  BY <1>1 DEF LiveChannel, Vacant
<1>3. channels' = channels /\ chan' = [chan EXCEPT ![c] = ch] /\ chan \in [Chan -> Channel]
      /\ channels \subseteq Chan
  BY DEF SetChannel, ChannelInv, TypeOK
<1>4. \A d \in channels : Members(chan'[d]) = Members(chan[d])
  BY <1>3 DEF Members
<1>5. LoopOK
  BY <1>3, <1>4 DEF LoopOK, ChannelInv, TypeOK, ModeKeepsChannel
<1> QED BY <1>2, <1>5, SetChannelInv

\* TOPIC keeps the invariant.
LEMMA TopicInv ==
    ASSUME ChannelInv, NEW fd \in Fd, NEW name \in Chan, NEW text \in TopicText \cup {""},
           Topic(fd, name, text)
    PROVE  ChannelInv'
<1>1. PICK c \in GetChannelByName(name) :
        /\ SetChannel(c, [chan[c] EXCEPT !.topic = text])
        /\ UNCHANGED <<sessionVars, loop, status>>
  BY DEF Topic
<1>2. c \in channels /\ chan[c] \in Channel /\ loop \in Loop
  BY InvLive DEF GetChannelByName, LiveChannel, ChannelInv, TypeOK
<1>3. /\ [chan[c] EXCEPT !.topic = text] \in Channel
      /\ [chan[c] EXCEPT !.topic = text].admins = chan[c].admins
      /\ [chan[c] EXCEPT !.topic = text].clients = chan[c].clients
  BY <1>2 DEF Channel
<1> QED BY <1>1, <1>2, <1>3, FieldInv

\* The start of a KICK or MODE command.
LEMMA BeginLoopInv ==
    ASSUME ChannelInv, NEW fd \in Fd, NEW name \in Chan,
           KickBegin(fd, name) \/ ModeBegin(fd, name)
    PROVE  ChannelInv'
<1>1. /\ Commanded(fd)
      /\ UNCHANGED <<sessionVars, channels, chan, status>>
  BY DEF KickBegin, ModeBegin
<1>2. turn = fd /\ fd \in Connected /\ turn # NoFd /\ status \in {"running", "stopped", "undefined"}
  BY <1>1, Issuer, NoFdIsNone DEF ChannelInv, TypeOK
<1>3. CASE KickBegin(fd, name)
  <2> PICK c \in GetChannelByName(name) : loop' = [NoLoop EXCEPT !.op = "KICK", !.chan = c]
    BY <1>3 DEF KickBegin
  <2>1. c \in channels /\ c \in Chan
    BY InvLive DEF GetChannelByName
  <2>2. LoopOK
    BY <1>2, <2>1 DEF LoopOK, Loop, NoLoop
  <2> QED BY <1>1, <1>2, <2>2, LoopOnlyInv
<1>4. CASE ModeBegin(fd, name)
  <2> PICK c \in GetChannelByName(name) :
        IsAdmin(c, fd) /\ loop' = [NoLoop EXCEPT !.op = "MODE", !.chan = c]
    BY <1>4 DEF ModeBegin
  <2>1. c \in channels /\ c \in Chan /\ LiveMap(chan[c].admins) /\ SessionInv
    BY InvLive DEF GetChannelByName, LiveChannel, ChannelInv
  <2>2. fd \in Keys(chan[c].admins)
    <3> PICK k \in Keys(chan[c].admins) : heap[chan[c].admins[k]].fd = fd
      BY DEF IsAdmin
    <3>1. heap[chan[c].admins[k]].fd = k
      BY <2>1, LiveEntry
    <3> QED BY <3>1
  <2>3. LoopOK
    BY <1>1, <1>2, <2>1, <2>2 DEF LoopOK, Loop, NoLoop, Members
  <2> QED BY <1>1, <1>2, <2>3, LoopOnlyInv
<1> QED BY <1>3, <1>4

\* Steps that end a loop without touching a channel.
LEMMA LoopReturnsInv ==
    ASSUME ChannelInv, LoopReturns, UNCHANGED sessionVars,
           status' \in {"running", "stopped", "undefined"}
    PROVE  ChannelInv'
BY LoopOKNone, LoopOnlyInv DEF LoopReturns

\* One name of a KICK.
LEMMA KickTargetInv ==
    ASSUME ChannelInv, NEW word, KickTarget(word)
    PROVE  ChannelInv'
<1> DEFINE c == loop.chan
           n == GetClient(Min(GetClientByNickname(word))).nickname
<1>1. /\ loop.op = "KICK" /\ c \in channels
      /\ UNCHANGED <<sessionVars, status>>
      /\ status \in {"running", "stopped", "undefined"}
  BY DEF KickTarget, InLoop, ChannelInv, TypeOK
<1>2. CASE LoopReturns
  BY <1>1, <1>2, LoopReturnsInv
<1>3. CASE SetOrRemoveChannel(c, Kicked(chan[c], n)) /\ UNCHANGED loop
  <2>1. LiveChannel(chan[c]) /\ SessionInv
    BY <1>1, InvLive DEF ChannelInv
  <2>2. /\ chan[c] \in Channel
        /\ LiveMap(chan[c].admins) /\ LiveMap(chan[c].clients)
        /\ LiveMap(EraseNick(chan[c].admins, n))
        /\ LiveMap(EraseNick(chan[c].clients, n))
    BY <2>1, EraseLive DEF LiveChannel
  <2>3. LiveChannel([chan[c] EXCEPT !.admins = EraseNick(@, n)])
    <3>1. EraseNick(chan[c].admins, n) \in PointerMap
      BY <2>2 DEF LiveMap
    <3> QED BY <2>2, <3>1 DEF LiveChannel, Channel
  <2>4. LiveChannel([chan[c] EXCEPT !.clients = EraseNick(@, n)])
    <3>1. EraseNick(chan[c].clients, n) \in PointerMap
      BY <2>2 DEF LiveMap
    <3> QED BY <2>2, <3>1 DEF LiveChannel, Channel
  <2>5. LiveChannel(Kicked(chan[c], n))
    BY <2>3, <2>4 DEF Kicked
  <2>6. LoopOK
    BY <1>1, <1>3, LoopOKBetween
  <2> QED BY <1>1, <1>3, <2>5, <2>6, SetOrRemoveInv
<1> QED BY <1>2, <1>3 DEF KickTarget

\* A name of a KICK after the channel was removed.
LEMMA KickTargetFreedInv ==
    ASSUME ChannelInv, NEW word, KickTargetFreed(word)
    PROVE  ChannelInv'
<1>1. /\ LoopReturns
      /\ UNCHANGED sessionVars
      /\ status' \in {"running", "stopped", "undefined"}
  BY DEF KickTargetFreed, ChannelInv, TypeOK
<1> QED BY <1>1, LoopReturnsInv

\* Between two letters of a MODE the issuer is on the channel.
LEMMA ModeState ==
    ASSUME ChannelInv, loop.op = "MODE"
    PROVE  /\ loop.chan \in channels
           /\ chan[loop.chan] \in Channel
           /\ LiveChannel(chan[loop.chan])
           /\ turn \in Members(chan[loop.chan])
           /\ loop \in Loop
           /\ status \in {"running", "stopped", "undefined"}
BY InvLive DEF ChannelInv, ModeKeepsChannel, TypeOK, LiveChannel

\* The letters that write a field, or only move the iterators.
LEMMA ModeFieldInv ==
    ASSUME ChannelInv,
           \/ ModeInviteOnly
           \/ ModeTopic
           \/ \E key \in KeyWord : ModeKey(key)
           \/ \E limit \in LimitArg : ModeLimit(limit)
           \/ ModeNoLimit
    PROVE  ChannelInv'
<1> DEFINE c == loop.chan
<1>1. loop.op = "MODE"
  BY DEF ModeInviteOnly, ModeTopic, ModeKey, ModeLimit, ModeNoLimit, InMode, InLoop
<1>2. c \in channels /\ chan[c] \in Channel /\ loop \in Loop /\ loop.plus \in BOOLEAN
  BY <1>1, ModeState DEF Loop
<1>3. CASE ModeInviteOnly
  <2>1. SetModed([chan[c] EXCEPT !.inv_only = loop.plus]) /\ UNCHANGED loop
    BY <1>3 DEF ModeInviteOnly
  <2>2. /\ [chan[c] EXCEPT !.inv_only = loop.plus] \in Channel
        /\ [chan[c] EXCEPT !.inv_only = loop.plus].admins = chan[c].admins
        /\ [chan[c] EXCEPT !.inv_only = loop.plus].clients = chan[c].clients
    BY <1>2 DEF Channel
  <2> QED BY <1>2, <2>1, <2>2, FieldInv DEF SetModed
<1>4. CASE ModeTopic
  <2>1. SetModed([chan[c] EXCEPT !.topic_restricted = loop.plus]) /\ UNCHANGED loop
    BY <1>4 DEF ModeTopic
  <2>2. /\ [chan[c] EXCEPT !.topic_restricted = loop.plus] \in Channel
        /\ [chan[c] EXCEPT !.topic_restricted = loop.plus].admins = chan[c].admins
        /\ [chan[c] EXCEPT !.topic_restricted = loop.plus].clients = chan[c].clients
    BY <1>2 DEF Channel
  <2> QED BY <1>2, <2>1, <2>2, FieldInv DEF SetModed
<1>5. CASE \E key \in KeyWord : ModeKey(key)
  <2> PICK key \in KeyWord : ModeKey(key)
    BY <1>5
  <2> DEFINE pass == IF loop.plus THEN key ELSE ""
  <2>1. SetModed([chan[c] EXCEPT !.password = pass]) /\ UNCHANGED loop
    BY DEF ModeKey
  <2>2. pass \in KeyWord \cup {""}
    OBVIOUS
  <2> HIDE DEF pass
  <2>3. /\ [chan[c] EXCEPT !.password = pass] \in Channel
        /\ [chan[c] EXCEPT !.password = pass].admins = chan[c].admins
        /\ [chan[c] EXCEPT !.password = pass].clients = chan[c].clients
    BY <1>2, <2>2 DEF Channel
  <2> QED BY <1>2, <2>1, <2>3, FieldInv DEF SetModed
<1>6. CASE \E limit \in LimitArg : ModeLimit(limit)
  <2> PICK limit \in LimitArg : ModeLimit(limit)
    BY <1>6
  <2>1. SetModed([chan[c] EXCEPT !.usr_limit = limit]) /\ UNCHANGED loop
    BY DEF ModeLimit
  <2>2. /\ [chan[c] EXCEPT !.usr_limit = limit] \in Channel
        /\ [chan[c] EXCEPT !.usr_limit = limit].admins = chan[c].admins
        /\ [chan[c] EXCEPT !.usr_limit = limit].clients = chan[c].clients
    BY <1>2 DEF Channel
  <2> QED BY <1>2, <2>1, <2>2, FieldInv DEF SetModed
<1>7. CASE ModeNoLimit
  <2>1. SetModed([chan[c] EXCEPT !.usr_limit = -1])
    BY <1>7 DEF ModeNoLimit
  <2>2. /\ [chan[c] EXCEPT !.usr_limit = -1] \in Channel
        /\ [chan[c] EXCEPT !.usr_limit = -1].admins = chan[c].admins
        /\ [chan[c] EXCEPT !.usr_limit = -1].clients = chan[c].clients
    BY <1>2 DEF Channel
  <2> PICK args \in {"more", "past"} : loop' = [loop EXCEPT !.args = args]
    BY <1>7 DEF ModeNoLimit
  <2>3. loop' \in Loop /\ loop'.op = "MODE" /\ loop'.chan = loop.chan
    BY <1>1, <1>2 DEF Loop
  <2> QED BY <1>1, <1>2, <2>1, <2>2, <2>3, FieldInv DEF SetModed
<1> QED BY <1>3, <1>4, <1>5, <1>6, <1>7

\* The sign, and a letter that has no argument or reads past the last one.
LEMMA ModeScanInv ==
    ASSUME ChannelInv,
           \/ \E plus \in BOOLEAN : ModeSign(plus)
           \/ \E flag \in ModeFlag : ModeNoArgument(flag) \/ ModeReadsPast(flag)
    PROVE  ChannelInv'
<1>1. loop.op = "MODE" /\ UNCHANGED <<sessionVars, channels, chan>>
  BY DEF ModeSign, ModeNoArgument, ModeReadsPast, InMode, InLoop
<1>2. /\ loop' \in Loop /\ loop'.op = "MODE" /\ loop'.chan = loop.chan
      /\ status' \in {"running", "stopped", "undefined"}
  <2>1. loop \in Loop /\ status \in {"running", "stopped", "undefined"}
    BY <1>1, ModeState
  <2>2. CASE \E plus \in BOOLEAN : ModeSign(plus)
    BY <1>1, <2>1, <2>2 DEF ModeSign, Loop
  <2>3. CASE \E flag \in ModeFlag : ModeNoArgument(flag)
    BY <1>1, <2>1, <2>3 DEF ModeNoArgument, Loop
  <2>4. CASE \E flag \in ModeFlag : ModeReadsPast(flag)
    BY <1>1, <2>1, <2>4 DEF ModeReadsPast
  <2> QED BY <2>2, <2>3, <2>4
<1>3. LoopOK
  BY <1>1, <1>2 DEF LoopOK, ChannelInv, TypeOK, ModeKeepsChannel, Members
<1> QED BY <1>1, <1>2, <1>3, LoopOnlyInv

\* An operator letter moves one entry and keeps everybody a member.
LEMMA PromotedLive ==
    ASSUME SessionInv, NEW ch, LiveChannel(ch), NEW word, ByNick(ch.clients, word) # {}
    PROVE  /\ LiveChannel(Promoted(ch, word))
           /\ Members(Promoted(ch, word)) = Members(ch)
           /\ \E k \in Members(ch) :
                Keys(Promoted(ch, word).admins) = Keys(ch.admins) \cup {k}
<1> PICK k \in ByNick(ch.clients, word) : TRUE
  OBVIOUS
<1> DEFINE a == ch.clients[Min(ByNick(ch.clients, word))]
<1>1. ch \in Channel /\ LiveMap(ch.admins) /\ LiveMap(ch.clients)
  BY DEF LiveChannel
<1>2. k \in Keys(ch.clients) /\ Min(ByNick(ch.clients, word)) = k
  BY <1>1, OneByNick
<1>3. k \in Connected /\ a = clients[k] /\ GetClient(k).log
  BY <1>1, <1>2 DEF LiveMap
<1> HIDE DEF a
<1>4. LiveMap(Insert(ch.admins, a)) /\ Keys(Insert(ch.admins, a)) = Keys(ch.admins) \cup {k}
  BY <1>1, <1>3, InsertLive
<1>5. /\ LiveMap(EraseNick(ch.clients, word))
      /\ Keys(EraseNick(ch.clients, word)) = Keys(ch.clients) \ ByExactNick(ch.clients, word)
  BY <1>1, EraseLive
<1>6. ByExactNick(ch.clients, word) \subseteq {k}
  BY <1>1, ExactIsByNick, OneByNick
<1>7. Insert(ch.admins, a) \in PointerMap /\ EraseNick(ch.clients, word) \in PointerMap
  BY <1>4, <1>5 DEF LiveMap
<1>8. Promoted(ch, word) = [ch EXCEPT !.admins = Insert(@, a), !.clients = EraseNick(@, word)]
  BY DEF Promoted, a
<1>9. /\ Promoted(ch, word) \in Channel
      /\ Promoted(ch, word).admins = Insert(ch.admins, a)
      /\ Promoted(ch, word).clients = EraseNick(ch.clients, word)
  BY <1>1, <1>7, <1>8 DEF Channel
<1>10. k \in Members(ch) /\ Keys(Promoted(ch, word).admins) = Keys(ch.admins) \cup {k}
  BY <1>2, <1>4, <1>9 DEF Members
<1>11. /\ LiveChannel(Promoted(ch, word))
       /\ Members(Promoted(ch, word)) = Members(ch)
  BY <1>2, <1>4, <1>5, <1>6, <1>9 DEF LiveChannel, Members
<1> QED BY <1>10, <1>11

\* Likewise for -o.
LEMMA DemotedLive ==
    ASSUME SessionInv, NEW ch, LiveChannel(ch), NEW word, ByNick(ch.admins, word) # {}
    PROVE  /\ LiveChannel(Demoted(ch, word))
           /\ Members(Demoted(ch, word)) = Members(ch)
           /\ \/ Keys(Demoted(ch, word).admins) = Keys(ch.admins)
              \/ \E k \in Members(ch) :
                   Keys(Demoted(ch, word).admins) = Keys(ch.admins) \ {k}
<1> PICK k \in ByNick(ch.admins, word) : TRUE
  OBVIOUS
<1> DEFINE a == ch.admins[Min(ByNick(ch.admins, word))]
<1>1. ch \in Channel /\ LiveMap(ch.admins) /\ LiveMap(ch.clients)
  BY DEF LiveChannel
<1>2. k \in Keys(ch.admins) /\ Min(ByNick(ch.admins, word)) = k
  BY <1>1, OneByNick
<1>3. k \in Connected /\ a = clients[k] /\ GetClient(k).log
  BY <1>1, <1>2 DEF LiveMap
<1> HIDE DEF a
<1>4. LiveMap(Insert(ch.clients, a)) /\ Keys(Insert(ch.clients, a)) = Keys(ch.clients) \cup {k}
  BY <1>1, <1>3, InsertLive
<1>5. /\ LiveMap(EraseNick(ch.admins, word))
      /\ Keys(EraseNick(ch.admins, word)) = Keys(ch.admins) \ ByExactNick(ch.admins, word)
  BY <1>1, EraseLive
<1>6. ByExactNick(ch.admins, word) \subseteq {k}
  BY <1>1, ExactIsByNick, OneByNick
<1>7. Insert(ch.clients, a) \in PointerMap /\ EraseNick(ch.admins, word) \in PointerMap
  BY <1>4, <1>5 DEF LiveMap
<1>8. Demoted(ch, word) = [ch EXCEPT !.clients = Insert(@, a), !.admins = EraseNick(@, word)]
  BY DEF Demoted, a
<1>9. /\ Demoted(ch, word) \in Channel
      /\ Demoted(ch, word).clients = Insert(ch.clients, a)
      /\ Demoted(ch, word).admins = EraseNick(ch.admins, word)
  BY <1>1, <1>7, <1>8 DEF Channel
<1>10. /\ k \in Members(ch)
       /\ Keys(Demoted(ch, word).admins) \in {Keys(ch.admins), Keys(ch.admins) \ {k}}
  BY <1>2, <1>5, <1>6, <1>9 DEF Members
<1>11. /\ LiveChannel(Demoted(ch, word))
       /\ Members(Demoted(ch, word)) = Members(ch)
  BY <1>2, <1>4, <1>5, <1>6, <1>9 DEF LiveChannel, Members
<1> QED BY <1>10, <1>11

\* A change of the channel of a MODE that keeps its members.
LEMMA ModeMembersInv ==
    ASSUME ChannelInv, loop.op = "MODE", UNCHANGED loop, NEW ch, LiveChannel(ch),
           Members(ch) = Members(chan[loop.chan]), SetModed(ch)
    PROVE  ChannelInv'
<1>1. /\ loop.chan \in channels
      /\ turn \in Members(ch)
      /\ SetChannel(loop.chan, ch)
      /\ UNCHANGED <<sessionVars, status>>
  BY ModeState DEF SetModed
<1>2. ~Vacant(ch)
  BY <1>1 DEF Vacant, Members
<1>3. /\ chan'[loop.chan] = ch /\ channels' = channels
  BY <1>1 DEF SetChannel, ChannelInv, TypeOK
<1>4. LoopOK
  BY <1>1, <1>3 DEF LoopOK, ChannelInv, TypeOK
<1> QED BY <1>1, <1>2, <1>4, SetChannelInv

\* The letter o.
LEMMA ModeOperatorInv ==
    ASSUME ChannelInv, NEW word, ModeOperator(word)
    PROVE  ChannelInv'
<1> DEFINE ch == chan[loop.chan]
<1>1. loop.op = "MODE"
  BY DEF ModeOperator, InMode, InLoop
<1>2. LiveChannel(ch) /\ SessionInv
  BY <1>1, ModeState DEF ChannelInv
<1>3. CASE ByNick(ch.clients, word) # {} /\ SetModed(Promoted(ch, word)) /\ UNCHANGED loop
  BY <1>1, <1>2, <1>3, PromotedLive, ModeMembersInv
<1>4. CASE ByNick(ch.admins, word) # {} /\ SetModed(Demoted(ch, word)) /\ UNCHANGED loop
  BY <1>1, <1>2, <1>4, DemotedLive, ModeMembersInv
<1>5. CASE LoopReturns /\ UNCHANGED <<sessionVars, status>>
  <2>1. status' \in {"running", "stopped", "undefined"}
    BY <1>5 DEF ChannelInv, TypeOK
  <2> QED BY <1>5, <2>1, LoopReturnsInv
<1> QED BY <1>3, <1>4, <1>5 DEF ModeOperator

-----------------------------------------------------------------------------
\* The invariant

\* It holds at the start.
LEMMA ChannelInitInv == Init => ChannelInv
<1> SUFFICES ASSUME Init PROVE ChannelInv
  OBVIOUS
<1>1. SessionInv
  BY SessionInitInv DEF Init
<1>2. TypeOK
  BY <1>1, NewChannelLive DEF Init, TypeOK, SessionInv, NoLoop, Loop
<1> QED BY <1>1, <1>2 DEF ChannelInv, Init, MembersLive, ChannelNamesUnique, NoEmptyChannel,
                          ModeKeepsChannel, NoLoop

\* The commands that end the server change nothing else.
LEMMA ThrowInv ==
    ASSUME ChannelInv, NEW fd \in Fd, NEW name, JoinThrows(fd, name) \/ PartThrows(fd, name)
    PROVE  ChannelInv'
<1>1. /\ Commanded(fd) /\ status' = "stopped"
      /\ UNCHANGED <<sessionVars, channels, chan, loop>>
  BY DEF JoinThrows, PartThrows
<1>2. LoopOK
  BY <1>1, Issuer, LoopOKBetween
<1> QED BY <1>1, <1>2, LoopOnlyInv

\* Every step keeps it.
THEOREM ChannelStepInv == ChannelInv /\ [Next]_vars => ChannelInv'
<1> SUFFICES ASSUME ChannelInv, [Next]_vars PROVE ChannelInv'
  OBVIOUS
<1>1. CASE UNCHANGED vars
  <2>1. UNCHANGED <<sessionVars, channels, chan, loop, status>>
    BY <1>1 DEF vars, channelVars
  <2>2. LoopOK /\ status' \in {"running", "stopped", "undefined"}
    BY <2>1 DEF LoopOK, ChannelInv, TypeOK, ModeKeepsChannel
  <2> QED BY <2>1, <2>2, LoopOnlyInv
<1>2. ASSUME NEW fd \in Fd, RegistryStep(fd) PROVE ChannelInv'
  BY <1>2, RegistryInv, DisconnectInv DEF RegistryStep
<1>3. ASSUME NEW fd \in Fd, NEW name \in Chan, JoinStep(fd, name) PROVE ChannelInv'
  BY <1>3, JoinInv, JoinCreateInv, ThrowInv DEF JoinStep
<1>4. ASSUME NEW fd \in Fd, NEW name \in Chan, LeaveStep(fd, name) PROVE ChannelInv'
  BY <1>4, PartInv, QuitInv, ThrowInv DEF LeaveStep
<1>5. ASSUME NEW fd \in Fd, NEW name \in Chan, ChannelStep(fd, name) PROVE ChannelInv'
  <2>1. CASE \E word \in NickWord : Invite(fd, word, name)
    BY <2>1, InviteInv
  <2>2. CASE \E text \in TopicText \cup {""} : Topic(fd, name, text)
    BY <2>2, TopicInv
  <2>3. CASE KickBegin(fd, name) \/ ModeBegin(fd, name)
    BY <2>3, BeginLoopInv
  <2> QED BY <1>5, <2>1, <2>2, <2>3 DEF ChannelStep
<1>6. CASE LoopStep
  <2>1. CASE \E word \in NickWord : KickTarget(word) \/ KickTargetFreed(word)
    BY <2>1, KickTargetInv, KickTargetFreedInv
  <2>2. CASE \E plus \in BOOLEAN : ModeSign(plus)
    BY <2>2, ModeScanInv
  <2>3. CASE \E flag \in ModeFlag : ModeNoArgument(flag) \/ ModeReadsPast(flag)
    BY <2>3, ModeScanInv
  <2>4. CASE \/ ModeInviteOnly
             \/ ModeTopic
             \/ \E key \in KeyWord : ModeKey(key)
             \/ \E limit \in LimitArg : ModeLimit(limit)
             \/ ModeNoLimit
    BY <2>4, ModeFieldInv
  <2>5. CASE \E word \in NickWord : ModeOperator(word)
    BY <2>5, ModeOperatorInv
  <2>6. CASE LoopEnd
    <3>1. /\ LoopReturns /\ UNCHANGED sessionVars
          /\ status' \in {"running", "stopped", "undefined"}
      BY <2>6 DEF LoopEnd, ChannelInv, TypeOK
    <3> QED BY <3>1, LoopReturnsInv
  <2> QED BY <1>6, <2>1, <2>2, <2>3, <2>4, <2>5, <2>6 DEF LoopStep
<1> QED BY <1>1, <1>2, <1>3, <1>4, <1>5, <1>6 DEF Next

\* Every reachable state satisfies the inductive invariant.
THEOREM ChannelInvariant == Spec => []ChannelInv
BY ChannelInitInv, ChannelStepInv, PTL DEF Spec

\* Every variable keeps its type; a channel out of the map is deleted.
THEOREM TypeCorrect == Spec => []TypeOK
<1>1. ChannelInv => TypeOK
  BY DEF ChannelInv
<1> QED BY <1>1, ChannelInvariant, PTL

\* No channel holds a pointer of a client that is gone or not logged in.
THEOREM MembersAreLive == Spec => []MembersLive
<1>1. ChannelInv => MembersLive
  BY DEF ChannelInv
<1> QED BY <1>1, ChannelInvariant, PTL

\* Nicknames stay unique up to case while clients join, leave and reconnect.
THEOREM NicksStayUnique == Spec => []NicksUnique
<1>1. ChannelInv => NicksUnique
  BY DEF ChannelInv, SessionInv
<1> QED BY <1>1, ChannelInvariant, PTL

\* Looking up by nickname and by descriptor agree.
THEOREM NickFindsSelf == Spec => []NickIsIdentity
<1>1. ASSUME ChannelInv PROVE NickIsIdentity
  <2> SUFFICES ASSUME NEW c \in channels, NEW fd \in Connected, GetClient(fd).log,
                      NEW m \in {chan[c].admins, chan[c].clients}
               PROVE  /\ ByNick(m, GetClient(fd).nickname) = Keys(m) \cap {fd}
                      /\ ByExactNick(m, GetClient(fd).nickname) = Keys(m) \cap {fd}
    BY DEF NickIsIdentity
  <2>1. LiveMap(m) /\ SessionInv
    BY <1>1, InvLive DEF LiveChannel, ChannelInv
  <2> QED BY <2>1, NoNick
<1> QED BY <1>1, ChannelInvariant, PTL

\* Channel names stay unique up to case.
THEOREM ChannelNamesStayUnique == Spec => []ChannelNamesUnique
<1>1. ChannelInv => ChannelNamesUnique
  BY DEF ChannelInv
<1> QED BY <1>1, ChannelInvariant, PTL

\* No channel outlives its members.
THEOREM ChannelsEndEmpty == Spec => []NoEmptyChannel
<1>1. ChannelInv => NoEmptyChannel
  BY DEF ChannelInv
<1> QED BY <1>1, ChannelInvariant, PTL

\* The lookups a MODE command repeats without a null check succeed.
THEOREM ModeIsSafe == Spec => []ModeKeepsChannel
<1>1. ChannelInv => ModeKeepsChannel
  BY DEF ChannelInv
<1> QED BY <1>1, ChannelInvariant, PTL
=============================================================================
