-------------------------- MODULE AdmissionProofs ---------------------------
(***************************************************************************)
(* Who gets into a channel that exists: only JOIN lets anybody in, one     *)
(* client at a time, so the limit and the invitations it checks cannot be  *)
(* got round by another command.  The theorems are about Channels; the     *)
(* lemmas on what the other steps leave alone are those of DeliveryProofs. *)
(***************************************************************************)
EXTENDS DeliveryProofs, FiniteSetTheorems

\* Client fd gets into c by a JOIN that was let through.
JoinsBy(fd, c) ==
    /\ fd \in Connected
    /\ GetClient(fd).log
    /\ Members(chan'[c]) = Members(chan[c]) \cup {fd}
    /\ \E found \in InvitedLookup(c, GetClient(fd).nickname) :
           /\ found # "crash"
           /\ \E key : Admitted(chan[c], key, found = "found")

\* A JOIN lets its issuer into its channel, and nobody into another one.
LEMMA JoinAdmits ==
    ASSUME ChannelInv, NEW g \in Fd, NEW d \in Chan, NEW key, Join(g, d, key),
           NEW c \in channels, NEW fd \in Members(chan'[c]) \ Members(chan[c])
    PROVE  JoinsBy(fd, c)
<1> DEFINE ch == [chan[d] EXCEPT !.clients = Insert(@, clients[g])]
<1>1. /\ Commanded(g) /\ d \in channels /\ UNCHANGED sessionVars
      /\ SessionInv /\ c \in Chan
  BY InvLive DEF Join, ChannelInv
<1>2. g \in Connected /\ GetClient(g).log
  BY <1>1, Issuer
<1>3. PICK found \in InvitedLookup(d, GetClient(g).nickname) :
         \/ UNCHANGED <<channels, chan>>
         \/ /\ found # "crash"
            /\ Admitted(chan[d], key, found = "found")
            /\ SetChannel(d, ch)
  BY DEF Join
<1>4. /\ found # "crash"
      /\ Admitted(chan[d], key, found = "found")
      /\ SetChannel(d, ch)
  BY <1>3
<1>5. LiveChannel(chan[d])
  BY <1>1, InvLive
<1>6. LiveMap(chan[d].clients) /\ chan[d] \in Channel
  BY <1>5 DEF LiveChannel
<1>7. Keys(Insert(chan[d].clients, clients[g])) = Keys(chan[d].clients) \cup {g}
  BY <1>1, <1>2, <1>6, InsertLive
<1>8. /\ ch.admins = chan[d].admins
      /\ ch.clients = Insert(chan[d].clients, clients[g])
  BY <1>6 DEF Channel
<1> HIDE DEF ch
<1>9. Members(ch) = Members(chan[d]) \cup {g}
  BY <1>7, <1>8 DEF Members
<1>10. \A e \in Chan : Members(chan'[e]) = IF e = d THEN Members(ch) ELSE Members(chan[e])
  <2>1. \A e \in Chan : MembersOf'[e] = IF e = d THEN Members(ch) ELSE MembersOf[e]
    BY <1>1, <1>4, SetChannelRooms
  <2> QED BY <2>1, MappedAt
<1>11. c = d /\ fd = g
  BY <1>1, <1>9, <1>10
<1>12. Members(chan'[c]) = Members(chan[c]) \cup {fd}
  BY <1>1, <1>9, <1>10, <1>11
<1> QED BY <1>2, <1>4, <1>11, <1>12 DEF JoinsBy

\* No name of a KICK lets anybody in.
LEMMA KickAdmitsNobody ==
    ASSUME ChannelInv, NEW word \in NickWord, KickTarget(word), NEW d \in Chan
    PROVE  Members(chan'[d]) \subseteq Members(chan[d])
<1> DEFINE c == loop.chan
           g == Min(GetClientByNickname(word))
           ch == Kicked(chan[c], NickOf(g))
<1>1. /\ SessionInv /\ c \in channels
      /\ IF MayKick(chan[c], turn, word) THEN SetOrRemoveChannel(c, ch) ELSE LoopReturns
  BY DEF KickTarget, NickOf, ChannelInv
<1>2. CASE LoopReturns
  BY <1>2 DEF LoopReturns
<1>3. CASE MayKick(chan[c], turn, word) /\ SetOrRemoveChannel(c, ch)
  <2>1. LiveChannel(chan[c]) /\ g \in Connected
    BY <1>1, <1>3, InvLive, FoundClient DEF MayKick
  <2> HIDE DEF g
  <2>2. Members(ch) \in {Members(chan[c]), Members(chan[c]) \ {g}}
    BY <1>1, <2>1, KickedLeaves
  <2> HIDE DEF ch, c
  <2>3. \A e \in Chan : MembersOf'[e] = IF e = c THEN Members(ch) ELSE MembersOf[e]
    BY <1>1, <1>3, SetOrRemoveRooms
  <2>4. Members(chan'[d]) = IF d = c THEN Members(ch) ELSE Members(chan[d])
    BY <2>3, MappedAt
  <2> QED BY <2>2, <2>4
<1> QED BY <1>1, <1>2, <1>3

\* Nor does PART.
LEMMA PartAdmitsNobody ==
    ASSUME ChannelInv, NEW fd \in Fd, NEW c \in Chan, Part(fd, c), NEW d \in Chan
    PROVE  Members(chan'[d]) \subseteq Members(chan[d])
<1> DEFINE ch == Without(chan[c], fd, GetClient(fd).nickname)
<1>1. /\ Commanded(fd) /\ c \in channels /\ SessionInv
      /\ SetOrRemoveChannel(c, ch)
  BY DEF Part, ChannelInv
<1>2. fd \in Connected /\ LiveChannel(chan[c])
  BY <1>1, Issuer, InvLive
<1>3. /\ Keys(ch.admins) = Keys(chan[c].admins) \ {fd}
      /\ Keys(ch.clients) = Keys(chan[c].clients) \ {fd}
  BY <1>1, <1>2, WithoutRemoves
<1> HIDE DEF ch
<1>4. Members(ch) \subseteq Members(chan[c])
  BY <1>3 DEF Members
<1>5. \A e \in Chan : MembersOf'[e] = IF e = c THEN Members(ch) ELSE MembersOf[e]
  BY <1>1, SetOrRemoveRooms
<1>6. Members(chan'[d]) = IF d = c THEN Members(ch) ELSE Members(chan[d])
  BY <1>5, MappedAt
<1> QED BY <1>4, <1>6

\* Only JOIN lets anybody into a channel that exists.
LEMMA OnlyByJoin ==
    ASSUME ChannelInv, [Next]_vars,
           NEW c \in channels, NEW fd \in Members(chan'[c]) \ Members(chan[c])
    PROVE  JoinsBy(fd, c)
<1>1. c \in Chan /\ chan'[c] # chan[c] /\ ~(Members(chan'[c]) \subseteq Members(chan[c]))
  BY InvLive
<1>2. CASE UNCHANGED vars
  BY <1>1, <1>2 DEF vars, channelVars
<1>3. ASSUME NEW g \in Fd, RegistryStep(g) PROVE FALSE
  <2>1. CASE Disconnect(g)
    <3>1. LeaveAll(g) /\ g \in Connected
      BY <2>1 DEF Disconnect, DropClient
    <3>2. Thins(g, Chan)
      BY <3>1, LeaveAllThins
    <3> QED BY <1>1, <3>2 DEF Thins
  <2>2. CASE UNCHANGED channelVars
    BY <1>1, <2>2 DEF channelVars
  <2> QED BY <1>3, <2>1, <2>2 DEF RegistryStep, Accept, Begin, Handshake, End
<1>4. ASSUME NEW g \in Fd, NEW name \in Chan, JoinStep(g, name) PROVE JoinsBy(fd, c)
  <2>1. CASE \E key \in KeyWord \cup {""} : Join(g, name, key)
    BY <2>1, JoinAdmits
  <2>2. CASE \E key \in KeyWord \cup {""} : JoinCreate(g, name, key)
    <3>1. name \notin channels /\ \A d \in Chan \ {name} : chan'[d] = chan[d]
      BY <2>2 DEF JoinCreate, GetChannelByName, ChannelInv, TypeOK
    <3> QED BY <1>1, <3>1
  <2>3. CASE JoinThrows(g, name)
    BY <1>1, <2>3 DEF JoinThrows
  <2> QED BY <1>4, <2>1, <2>2, <2>3 DEF JoinStep
<1>5. ASSUME NEW g \in Fd, NEW name \in Chan, LeaveStep(g, name) PROVE FALSE
  <2>1. CASE Part(g, name)
    BY <1>1, <2>1, PartAdmitsNobody
  <2>2. CASE Quit(g)
    <3>1. LeaveAll(g) /\ g \in Connected
      BY <2>2, Issuer DEF Quit
    <3>2. Thins(g, Chan)
      BY <3>1, LeaveAllThins
    <3> QED BY <1>1, <3>2 DEF Thins
  <2>3. CASE PartThrows(g, name)
    BY <1>1, <2>3 DEF PartThrows
  <2> QED BY <1>5, <2>1, <2>2, <2>3 DEF LeaveStep
<1>6. ASSUME NEW g \in Fd, NEW name \in Chan, ChannelStep(g, name) PROVE FALSE
  BY <1>1, <1>6, CommandQuiet
<1>7. ASSUME LoopStep PROVE FALSE
  <2>1. CASE \E word \in NickWord : KickTarget(word)
    BY <1>1, <2>1, KickAdmitsNobody
  <2>2. CASE SilentLoopStep
    BY <1>1, <2>2, ModeQuiet
  <2> QED BY <1>7, <2>1, <2>2 DEF LoopStep, SilentLoopStep
<1> QED BY <1>2, <1>3, <1>4, <1>5, <1>6, <1>7 DEF Next

\* Where every invitation is of a session that is still there, the lookup by
\* nickname finds the issuer's own or none.
LEMMA InvitationFound ==
    ASSUME ChannelInv, NEW c \in channels, NEW fd \in Connected, GetClient(fd).log,
           InvitationsLive(chan[c]), "found" \in InvitedLookup(c, GetClient(fd).nickname)
    PROVE  chan[c].invited[fd] = clients[fd]
<1> DEFINE inv == chan[c].invited
           n == GetClient(fd).nickname
<1>1. SessionInv /\ chan[c] \in Channel
  BY InvLive DEF ChannelInv, LiveChannel
<1>2. inv \in PointerMap /\ clients \in [Fd -> Pointer]
  BY <1>1 DEF Channel, SessionInv, SessionTypeOK
<1>3. ASSUME NEW k \in Keys(inv) PROVE k \in Connected /\ inv[k] = clients[k] /\ inv[k] \in Live
  <2>1. k \in Fd /\ inv[k] # Nil /\ inv[k] = clients[k]
    BY <1>2, KeysOfMap DEF InvitationsLive
  <2>2. k \in Connected
    BY <1>2, <2>1 DEF Connected, Keys
  <2> QED BY <2>1, <2>2 DEF Live
<1>4. Stale(inv) = {}
  BY <1>3 DEF Stale
<1>5. PICK k \in ByExactNick(inv, n) : TRUE
  <2>1. ByExactNick(inv, n) # {}
    BY <1>4 DEF InvitedLookup
  <2> QED BY <2>1
<1>6. k \in Keys(inv) /\ GetClient(k).nickname = n
  BY <1>3, <1>5 DEF ByExactNick, GetClient
<1>7. n # ""
  BY <1>1 DEF SessionInv, Credentialed
<1>8. k = fd
  BY <1>1, <1>3, <1>6, <1>7, SameNick
<1> QED BY <1>3, <1>6, <1>8

\* Nobody gets into an invite-only channel without an invitation of this very
\* session, while those invited are still connected.
THEOREM EntryByInvitation == Spec => EntryNeedsInvitation
<1>1. ASSUME ChannelInv, [Next]_vars,
             NEW c \in channels, NEW fd \in Members(chan'[c]) \ Members(chan[c]),
             chan[c].inv_only, InvitationsLive(chan[c])
      PROVE  chan[c].invited[fd] = clients[fd]
  <2>1. JoinsBy(fd, c)
    BY <1>1, OnlyByJoin
  <2>2. PICK found \in InvitedLookup(c, GetClient(fd).nickname) :
           \E key : Admitted(chan[c], key, found = "found")
    BY <2>1 DEF JoinsBy
  <2>3. found = "found"
    BY <1>1, <2>2 DEF Admitted
  <2> QED BY <1>1, <2>1, <2>2, <2>3, InvitationFound DEF JoinsBy
<1>2. ChannelInv /\ [Next]_vars =>
        [\A c \in channels : \A fd \in Members(chan'[c]) \ Members(chan[c]) :
            chan[c].inv_only /\ InvitationsLive(chan[c])
            => chan[c].invited[fd] = clients[fd]]_vars
  BY <1>1
<1> QED BY <1>2, ChannelInvariant, PTL DEF Spec, EntryNeedsInvitation

\* A process has finitely many descriptors, so the members can be counted:
\* who gets in does not exceed the limit, though operators that joined twice
\* are counted twice.
THEOREM LimitIsKept == IsFiniteSet(Fd) /\ Spec => GrowthRespectsLimit
<1> SUFFICES ASSUME IsFiniteSet(Fd) PROVE Spec => GrowthRespectsLimit
  OBVIOUS
<1>1. ASSUME ChannelInv, [Next]_vars,
             NEW c \in channels, chan[c].usr_limit > 0,
             ~(Members(chan'[c]) \subseteq Members(chan[c]))
      PROVE  Cardinality(Members(chan'[c])) <= chan[c].usr_limit
  <2> DEFINE ad == Keys(chan[c].admins)
             cl == Keys(chan[c].clients)
  <2>1. PICK fd \in Members(chan'[c]) : fd \notin Members(chan[c])
    BY <1>1
  <2>2. JoinsBy(fd, c)
    BY <1>1, <2>1, OnlyByJoin
  <2>3. Total(chan[c]) < chan[c].usr_limit /\ chan[c].usr_limit \in Int
    <3>1. Total(chan[c]) < chan[c].usr_limit
      <4>1. PICK found, key : Admitted(chan[c], key, found = "found")
        BY <2>2 DEF JoinsBy
      <4> QED BY <1>1, <4>1 DEF Admitted
    <3>2. chan[c] \in Channel
      BY <1>1, InvLive DEF LiveChannel
    <3>3. chan[c].usr_limit \in LimitArg \cup {20, -1}
      BY <3>2 DEF Channel
    <3>4. chan[c].usr_limit \in Int
      <4>1. 20 \in Int /\ -1 \in Int
        OBVIOUS
      <4> QED BY <3>3, <4>1, ArgAssumption
    <3> QED BY <3>1, <3>4
  <2>4. ad \subseteq Fd /\ cl \subseteq Fd
    <3>1. LiveMap(chan[c].admins) /\ LiveMap(chan[c].clients)
      BY <1>1, InvLive DEF LiveChannel
    <3> QED BY <3>1, KeysOfMap DEF LiveMap
  <2>5. IsFiniteSet(ad) /\ IsFiniteSet(cl)
    BY <2>4, FS_Subset
  <2>6. /\ Cardinality(ad) \in Nat /\ Cardinality(cl) \in Nat
        /\ Cardinality(ad \cap cl) \in Nat
    <3>1. IsFiniteSet(ad \cap cl)
      BY <2>5, FS_Subset
    <3> QED BY <2>5, <3>1, FS_CardinalityType
  <2>7. /\ IsFiniteSet(ad \cup cl)
        /\ Cardinality(ad \cup cl) = Cardinality(ad) + Cardinality(cl) - Cardinality(ad \cap cl)
    BY <2>5, FS_Union
  <2>8. Cardinality((ad \cup cl) \cup {fd}) = Cardinality(ad \cup cl) + 1
    BY <2>1, <2>7, FS_AddElement DEF Members
  <2>9. Members(chan'[c]) = (ad \cup cl) \cup {fd}
    BY <2>2 DEF JoinsBy, Members
  <2>10. Total(chan[c]) = Cardinality(cl) + Cardinality(ad)
    BY DEF Total
  <2> HIDE DEF ad, cl
  <2> QED BY <2>3, <2>6, <2>7, <2>8, <2>9, <2>10
<1>2. ChannelInv /\ [Next]_vars =>
        [\A c \in channels :
            /\ chan[c].usr_limit > 0
            /\ ~(Members(chan'[c]) \subseteq Members(chan[c]))
            => Cardinality(Members(chan'[c])) <= chan[c].usr_limit]_vars
  BY <1>1
<1> QED BY <1>2, ChannelInvariant, PTL DEF Spec, GrowthRespectsLimit

\* The channels a client is counted on are those it is on, whichever entry it
\* has there.
LEMMA CountIs ==
    ASSUME ChannelInv, NEW fd \in Connected, GetClient(fd).log
    PROVE  ClientChannelCount(fd) = 1 + Cardinality(ChannelsOf(fd))
<1> DEFINE n == GetClient(fd).nickname
           Found(c) == ByExactNick(chan[c].clients, n) # {} \/ ByExactNick(chan[c].admins, n) # {}
<1>1. SessionInv /\ n # ""
  BY DEF ChannelInv, SessionInv, Credentialed
<1>2. ASSUME NEW c \in channels
      PROVE  Found(c) <=> fd \in Members(chan[c])
  <2>1. LiveMap(chan[c].clients) /\ LiveMap(chan[c].admins)
    BY <1>2, InvLive DEF LiveChannel
  <2>2. /\ ByExactNick(chan[c].clients, n) = Keys(chan[c].clients) \cap {fd}
        /\ ByExactNick(chan[c].admins, n) = Keys(chan[c].admins) \cap {fd}
    BY <1>1, <2>1, OwnNick
  <2> QED BY <2>2 DEF Members
<1>3. {c \in channels : Found(c)} = ChannelsOf(fd)
  <2> HIDE DEF Found
  <2> QED BY <1>2 DEF ChannelsOf
<1> QED BY <1>3 DEF ClientChannelCount

\* Nobody gets an ordinary entry in c.
NoEntry(c) == Keys(chan'[c].clients) \subseteq Keys(chan[c].clients)

\* Taking a client out of a channel gives nobody an entry, also if the channel
\* is left empty and deleted.
LEMMA WithoutEnters ==
    ASSUME ChannelInv, NEW c \in channels, NEW fd \in Connected,
           \/ chan'[c] = NewChannel
           \/ chan'[c] = Without(chan[c], fd, GetClient(fd).nickname)
    PROVE  NoEntry(c)
<1>1. CASE chan'[c] = NewChannel
  BY <1>1, NewChannelLive DEF NoEntry, Vacant
<1>2. CASE chan'[c] = Without(chan[c], fd, GetClient(fd).nickname)
  <2>1. SessionInv /\ LiveChannel(chan[c])
    BY InvLive DEF ChannelInv
  <2>2. Keys(chan'[c].clients) = Keys(chan[c].clients) \ {fd}
    BY <1>2, <2>1, WithoutRemoves
  <2> QED BY <2>2 DEF NoEntry
<1> QED BY <1>1, <1>2

\* QUIT and a lost connection do that in every channel.
LEMMA LeaveAllEnters ==
    ASSUME ChannelInv, NEW fd \in Connected, LeaveAll(fd), NEW c \in channels
    PROVE  NoEntry(c)
<1>1. c \in Chan
  BY InvLive
<1>2. \/ chan'[c] = NewChannel
      \/ chan'[c] = Without(chan[c], fd, GetClient(fd).nickname)
  BY <1>1 DEF LeaveAll
<1> QED BY <1>2, WithoutEnters

\* PART in one.
LEMMA PartEnters ==
    ASSUME ChannelInv, NEW fd \in Fd, NEW d \in Chan, Part(fd, d), NEW c \in channels
    PROVE  NoEntry(c)
<1>1. fd \in Connected /\ c \in Chan /\ chan \in [Chan -> Channel]
  BY Issuer, InvLive DEF Part, ChannelInv, TypeOK
<1>2. SetOrRemoveChannel(d, Without(chan[d], fd, GetClient(fd).nickname))
  BY DEF Part
<1>3. CASE c = d
  <2>1. \/ chan'[c] = NewChannel
        \/ chan'[c] = Without(chan[c], fd, GetClient(fd).nickname)
    BY <1>1, <1>2, <1>3 DEF SetOrRemoveChannel, SetChannel
  <2> QED BY <1>1, <2>1, WithoutEnters
<1>4. CASE c # d
  BY <1>1, <1>2, <1>4 DEF SetOrRemoveChannel, SetChannel, NoEntry
<1> QED BY <1>3, <1>4

\* JOIN gives its issuer an entry, if its count allows it, and nobody else.
LEMMA JoinEnters ==
    ASSUME ChannelInv, NEW g \in Fd, NEW d \in Chan, NEW key, Join(g, d, key),
           NEW c \in channels, NEW fd \in Keys(chan'[c].clients) \ Keys(chan[c].clients)
    PROVE  fd \in Connected /\ GetClient(fd).log /\ ClientChannelCount(fd) < ChanLimit
<1>1. /\ Commanded(g) /\ d \in channels /\ ClientChannelCount(g) < ChanLimit
      /\ SessionInv /\ c \in Chan /\ chan \in [Chan -> Channel]
  BY InvLive DEF Join, ChannelInv, TypeOK
<1>2. g \in Connected /\ GetClient(g).log
  BY <1>1, Issuer
<1>3. SetChannel(d, [chan[d] EXCEPT !.clients = Insert(@, clients[g])])
  <2>1. chan' # chan
    OBVIOUS
  <2> QED BY <2>1 DEF Join
<1>4. c = d /\ chan'[c].clients = Insert(chan[c].clients, clients[g])
  BY <1>1, <1>3 DEF SetChannel, Channel
<1>5. LiveMap(chan[c].clients)
  BY InvLive DEF LiveChannel
<1>6. Keys(Insert(chan[c].clients, clients[g])) = Keys(chan[c].clients) \cup {g}
  BY <1>1, <1>2, <1>5, InsertLive
<1>7. fd = g
  BY <1>4, <1>6
<1> QED BY <1>1, <1>2, <1>7

\* Outside the iterations of MODE nothing but JOIN gives anybody one.
LEMMA EntersByJoin ==
    ASSUME ChannelInv, [Next]_vars, loop.op = "none",
           NEW c \in channels, NEW fd \in Keys(chan'[c].clients) \ Keys(chan[c].clients)
    PROVE  fd \in Connected /\ GetClient(fd).log /\ ClientChannelCount(fd) < ChanLimit
<1>1. c \in Chan /\ chan \in [Chan -> Channel] /\ chan'[c] # chan[c] /\ ~NoEntry(c)
  BY InvLive DEF ChannelInv, TypeOK, NoEntry
<1>2. CASE UNCHANGED vars
  BY <1>1, <1>2 DEF vars, channelVars
<1>3. ASSUME NEW g \in Fd, RegistryStep(g) PROVE FALSE
  <2>1. CASE Disconnect(g)
    BY <1>1, <2>1, LeaveAllEnters DEF Disconnect, DropClient
  <2>2. CASE UNCHANGED channelVars
    BY <1>1, <2>2 DEF channelVars
  <2> QED BY <1>3, <2>1, <2>2 DEF RegistryStep, Accept, Begin, Handshake, End
<1>4. ASSUME NEW g \in Fd, NEW d \in Chan, JoinStep(g, d),
             ~\E key \in KeyWord \cup {""} : Join(g, d, key)
      PROVE  FALSE
  <2>1. CASE \E key \in KeyWord \cup {""} : JoinCreate(g, d, key)
    BY <1>1, <2>1 DEF JoinCreate, GetChannelByName
  <2>2. CASE JoinThrows(g, d)
    BY <1>1, <2>2 DEF JoinThrows
  <2> QED BY <1>4, <2>1, <2>2 DEF JoinStep
<1>5. ASSUME NEW g \in Fd, NEW d \in Chan, LeaveStep(g, d) PROVE FALSE
  <2>1. CASE Part(g, d)
    BY <1>1, <2>1, PartEnters
  <2>2. CASE Quit(g)
    BY <1>1, <2>2, Issuer, LeaveAllEnters DEF Quit
  <2>3. CASE PartThrows(g, d)
    BY <1>1, <2>3 DEF PartThrows
  <2> QED BY <1>5, <2>1, <2>2, <2>3 DEF LeaveStep
<1>6. ASSUME NEW g \in Fd, NEW d \in Chan, ChannelStep(g, d) PROVE FALSE
  <2>0. ASSUME NEW e \in channels, NEW ch, SetChannel(e, ch), ch.clients = chan[e].clients
        PROVE  FALSE
    BY <1>1, <2>0 DEF SetChannel, NoEntry
  <2>1. ASSUME NEW word \in NickWord, Invite(g, word, d) PROVE FALSE
    <3>1. PICK e \in channels :
             SetChannel(e, [chan[e] EXCEPT !.invited =
                              Insert(@, clients[Min(GetClientByNickname(word))])])
      BY <2>1 DEF Invite, GetChannelByName
    <3>2. chan[e] \in Channel
      BY InvLive DEF LiveChannel
    <3> QED BY <2>0, <3>1, <3>2 DEF Channel
  <2>2. ASSUME NEW text, Topic(g, d, text) PROVE FALSE
    <3>1. PICK e \in channels : SetChannel(e, [chan[e] EXCEPT !.topic = text])
      BY <2>2 DEF Topic, GetChannelByName
    <3>2. chan[e] \in Channel
      BY InvLive DEF LiveChannel
    <3> QED BY <2>0, <3>1, <3>2 DEF Channel
  <2>3. CASE KickBegin(g, d) \/ ModeBegin(g, d)
    BY <1>1, <2>3 DEF KickBegin, ModeBegin
  <2> QED BY <1>6, <2>1, <2>2, <2>3 DEF ChannelStep
<1>7. ~LoopStep
  BY DEF LoopStep, KickTarget, KickTargetFreed, ModeSign, ModeInviteOnly, ModeTopic,
         ModeNoArgument, ModeReadsPast, ModeKey, ModeLimit, ModeNoLimit, ModeOperator,
         InMode, InLoop, LoopEnd
<1> QED BY <1>2, <1>3, <1>4, <1>5, <1>6, <1>7, JoinEnters DEF Next

\* Whoever JOIN enters in a channel that exists was counted on all the channels
\* it was on, created or joined, and stays below the limit.
THEOREM ChannelLimitOfJoins == Spec => JoinsRespectChannelLimit
<1>1. ASSUME ChannelInv, [Next]_vars, loop.op = "none",
             NEW c \in channels, NEW fd \in Keys(chan'[c].clients) \ Keys(chan[c].clients)
      PROVE  1 + Cardinality(ChannelsOf(fd)) < ChanLimit
  <2>1. fd \in Connected /\ GetClient(fd).log /\ ClientChannelCount(fd) < ChanLimit
    BY <1>1, EntersByJoin
  <2>2. ClientChannelCount(fd) = 1 + Cardinality(ChannelsOf(fd))
    BY <1>1, <2>1, CountIs
  <2> QED BY <2>1, <2>2
<1>2. ChannelInv /\ [Next]_vars =>
        [loop.op = "none" =>
           \A c \in channels : \A fd \in Keys(chan'[c].clients) \ Keys(chan[c].clients) :
               1 + Cardinality(ChannelsOf(fd)) < ChanLimit]_vars
  BY <1>1
<1> QED BY <1>2, ChannelInvariant, PTL DEF Spec, JoinsRespectChannelLimit
=============================================================================
