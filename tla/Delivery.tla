------------------------------ MODULE Delivery ------------------------------
(***************************************************************************)
(* Who is told what: the messages with which JOIN, PART, KICK, QUIT, NICK  *)
(* and a lost connection announce themselves to the other members of a     *)
(* channel (Channel::SendToAll, Nick::SendSharedChannels), and whom        *)
(* PRIVMSG reaches.  An IRC client knows the members of its channels from  *)
(* these messages only, so the module keeps beside the state of Channels   *)
(* what each client has been led to believe: `view`.                       *)
(*                                                                         *)
(* A client believes of each channel that it is not on it (the empty set)  *)
(* or that these nicknames are.  It compares nicknames without case, and   *)
(* takes no notice of messages about channels it is not on.                *)
(*                                                                         *)
(* send() may fail on a full or reset socket, and the server does not look *)
(* at its result.  A client that has missed a message is `deaf` from then  *)
(* on: nothing is asked of its view.                                       *)
(***************************************************************************)
EXTENDS Channels

\* Folding a folded nickname changes nothing.
ASSUME FoldAssumption == \A n \in NickWord : Lower[Lower[n]] = Lower[n]

VARIABLES
    view,        \* per client and channel, the nicknames it believes on it
    deaf         \* the clients a message to which was lost

deliveryVars == <<view, deaf>>

allVars == <<vars, deliveryVars>>

-----------------------------------------------------------------------------
\* What a client makes of a message (external: the IRC client's side).

NoView == [c \in Chan |-> {}]

Alike(n) == {m \in NickWord : Lower[m] = Lower[n]}

\* The client itself joined and is sent the list of the members.
NamesHeard(v, c, names) == [v EXCEPT ![c] = names]

JoinHeard(v, c, n) == IF v[c] = {} THEN v ELSE [v EXCEPT ![c] = @ \cup {n}]

\* PART and KICK, of the client itself or of another one.
LeaveHeard(v, c, n, own) ==
    [v EXCEPT ![c] = IF own \in Alike(n) THEN {} ELSE @ \ Alike(n)]

QuitHeard(v, n, own) ==
    [c \in Chan |-> IF own \in Alike(n) THEN {} ELSE v[c] \ Alike(n)]

NickHeard(v, old, new) ==
    [c \in Chan |-> IF v[c] \cap Alike(old) = {} THEN v[c]
                    ELSE (v[c] \ Alike(old)) \cup {new}]

-----------------------------------------------------------------------------
\* Whom the server sends to

\* The descriptors in the objects a channel's map points to.
FdsOf(m) == {heap[m[k]].fd : k \in Keys(m)}

\* Variant: the first send that fails ends the loop.
SendToAllStopping(ch, senderFd, failing) ==
    LET all == (FdsOf(ch.admins) \cup FdsOf(ch.clients)) \ {senderFd}
    IN  {fd \in all : \A g \in failing \cap all : fd < g}

\* Operators and ordinary members except the sender; those whose send fails
\* do not get it and the others do.
SendToAll(ch, senderFd, failing) ==
    ((FdsOf(ch.admins) \cup FdsOf(ch.clients)) \ {senderFd}) \ failing

\* SendToAll, and sendResponse to the sender.
SendToAllAndSelf(ch, fd, failing) == SendToAll(ch, fd, failing) \cup ({fd} \ failing)

NickOf(fd) == GetClient(fd).nickname

NicksOf(ch) == {heap[ch.admins[k]].nickname : k \in Keys(ch.admins)}
               \cup {heap[ch.clients[k]].nickname : k \in Keys(ch.clients)}

\* The channels in which the folded lookups find the nickname.
ChannelsWith(n) == {c \in channels : ByNick(chan[c].clients, n) \cup ByNick(chan[c].admins, n) # {}}

\* Those in which GetClientInChannel does.
SharedChannels(n) ==
    {c \in channels : ByExactNick(chan[c].clients, n) \cup ByExactNick(chan[c].admins, n) # {}}

\* Those who are sent a message hear it, except where the send failed.
Announce(reached, failing, heard) ==
    /\ deaf' = deaf \cup failing
    /\ view' = [f \in Fd |-> IF f \in deaf' THEN NoView
                             ELSE IF f \in reached THEN heard[f] ELSE view[f]]

-----------------------------------------------------------------------------
\* The commands with their announcements

JoinAnnounced(fd, c, n, failing) ==
    Announce(SendToAllAndSelf(chan'[c], fd, failing), failing,
             [f \in Fd |-> IF f = fd THEN NamesHeard(view[f], c, NicksOf(chan'[c]))
                                     ELSE JoinHeard(view[f], c, n)])

TellJoin(fd, c, key) ==
    /\ Join(fd, c, key)
    /\ IF status' = "running"
       THEN \E failing \in SUBSET (Fd \cap SendToAllAndSelf(chan'[c], fd, {})) :
                JoinAnnounced(fd, c, NickOf(fd), failing)
       ELSE UNCHANGED deliveryVars

TellJoinCreate(fd, name, key) ==
    /\ JoinCreate(fd, name, key)
    /\ \E failing \in SUBSET {fd} : JoinAnnounced(fd, name, NickOf(fd), failing)

\* PART is announced to those who remain and to the one who left.
TellPart(fd, c) ==
    LET n  == NickOf(fd)
        ch == Without(chan[c], fd, n)
    IN  /\ Part(fd, c)
        /\ \E failing \in SUBSET SendToAllAndSelf(ch, fd, {}) :
               Announce(SendToAllAndSelf(ch, fd, failing), failing,
                        [f \in Fd |-> LeaveHeard(view[f], c, n, NickOf(f))])

\* KICK is announced before the removal, with the name as it was typed.
TellKick(word) ==
    LET c == loop.chan
    IN  /\ KickTarget(word)
        /\ IF MayKick(chan[c], turn, word)
           THEN \E failing \in SUBSET SendToAllAndSelf(chan[c], turn, {}) :
                    Announce(SendToAllAndSelf(chan[c], turn, failing), failing,
                             [f \in Fd |-> IF f \in Connected
                                           THEN LeaveHeard(view[f], c, word, NickOf(f))
                                           ELSE view[f]])
           ELSE UNCHANGED deliveryVars

\* In every channel the nickname is found in, before the removals.
QuitReached(fd, failing) ==
    UNION {SendToAll(chan[c], fd, failing) : c \in ChannelsWith(NickOf(fd))}

QuitHeardBy(fd) ==
    [f \in Fd |-> IF f \in Connected THEN QuitHeard(view[f], NickOf(fd), NickOf(f))
                                     ELSE view[f]]

TellQuit(fd) ==
    /\ Quit(fd)
    /\ \E failing \in SUBSET (QuitReached(fd, {}) \cup {fd}) :
           Announce(QuitReached(fd, failing) \cup ({fd} \ failing), failing, QuitHeardBy(fd))

\* The same announcement; what the client that left believed is forgotten.
TellDisconnect(fd) ==
    /\ Disconnect(fd)
    /\ \E failing \in SUBSET QuitReached(fd, {}) :
           /\ deaf' = (deaf \cup failing) \ {fd}
           /\ view' = [f \in Fd |->
                         IF f = fd \/ f \in deaf' THEN NoView
                         ELSE IF f \in QuitReached(fd, failing) THEN QuitHeardBy(fd)[f]
                         ELSE view[f]]

\* Nick::SendSharedChannels, for a client that has logged in.
NickReached(fd, failing) ==
    IF GetClient(fd).log
    THEN UNION {SendToAll(chan[c], fd, failing) : c \in SharedChannels(NickOf(fd))}
    ELSE {}

\* Variant: the nickname is set before the announcement is written.
TellNickLate(fd, word) ==
    /\ Between
    /\ Nick(fd, word)
    /\ UNCHANGED channelVars
    /\ \E failing \in SUBSET (NickReached(fd, {}) \cup {fd}) :
           Announce(NickReached(fd, failing) \cup ({fd} \ failing), failing,
                    [f \in Fd |-> NickHeard(view[f], word, word)])

\* NICK names the old nickname and the new one.
TellNick(fd, word) ==
    /\ Between
    /\ Nick(fd, word)
    /\ UNCHANGED channelVars
    /\ \E failing \in SUBSET (NickReached(fd, {}) \cup {fd}) :
           Announce(NickReached(fd, failing) \cup ({fd} \ failing), failing,
                    [f \in Fd |-> NickHeard(view[f], NickOf(fd), word)])

-----------------------------------------------------------------------------
\* PRIVMSG changes nothing; these are the descriptors it sends to.

\* Variant: operators are forgotten.
PrivmsgToMembers(fd, name) ==
    UNION {FdsOf(chan[c].clients) \ {fd} :
              c \in GetChannelByName(name) \cap ChannelsWith(NickOf(fd))}

\* To a channel: only a member may, and it does not get its own message.
PrivmsgToChannel(fd, name) ==
    UNION {SendToAll(chan[c], fd, {}) :
              c \in GetChannelByName(name) \cap ChannelsWith(NickOf(fd))}

\* To a user: the name has to be typed in lower case.
PrivmsgToUser(word) ==
    IF GetClientByNickname(word) = {} THEN {} ELSE {Min(GetClientByNickname(word))}

-----------------------------------------------------------------------------

DeliveryInit ==
    /\ Init
    /\ view = [fd \in Fd |-> NoView]
    /\ deaf = {}

\* PASS and USER, of the commands of Handshake.
Credentials(fd) ==
    /\ Between
    /\ \/ \E word \in PassWord : Pass(fd, word)
       \/ \E word \in UserWord : User(fd, word)
    /\ UNCHANGED channelVars

\* MODE, and the rest of KICK.
SilentLoopStep ==
    \/ \E word \in NickWord : KickTargetFreed(word) \/ ModeOperator(word)
    \/ \E plus \in BOOLEAN : ModeSign(plus)
    \/ ModeInviteOnly
    \/ ModeTopic
    \/ \E flag \in ModeFlag : ModeNoArgument(flag) \/ ModeReadsPast(flag)
    \/ \E key \in KeyWord : ModeKey(key)
    \/ \E limit \in LimitArg : ModeLimit(limit)
    \/ ModeNoLimit
    \/ LoopEnd

\* What tells nobody anything about who is where.
Silent ==
    /\ \/ \E fd \in Fd :
             \/ \E a \in Addr : Accept(fd, a)
             \/ Begin(fd)
             \/ Credentials(fd)
             \/ End(fd)
             \/ \E name \in Chan : \/ JoinThrows(fd, name)
                                   \/ PartThrows(fd, name)
                                   \/ ChannelStep(fd, name)
       \/ SilentLoopStep
    /\ UNCHANGED deliveryVars

Told ==
    \/ \E fd \in Fd :
          \/ TellQuit(fd)
          \/ TellDisconnect(fd)
          \/ \E word \in NickWord : TellNick(fd, word)
          \/ \E name \in Chan :
                \/ TellPart(fd, name)
                \/ \E key \in KeyWord \cup {""} : \/ TellJoin(fd, name, key)
                                                  \/ TellJoinCreate(fd, name, key)
    \/ \E word \in NickWord : TellKick(word)

DeliveryNext == Silent \/ Told

DeliverySpec == DeliveryInit /\ [][DeliveryNext]_allVars

-----------------------------------------------------------------------------
\* Properties

\* Every variable holds a value of its type, and a client that is not
\* connected, or has missed a message, believes nothing.
DeliveryTypeOK ==
    /\ view \in [Fd -> [Chan -> SUBSET NickWord]]
    /\ deaf \subseteq Connected
    /\ \A fd \in (Fd \ Connected) \cup deaf : view[fd] = NoView

\* A client that has got every message sent to it and believes to be on a
\* channel is on it, and everybody it believes to be there is, under that
\* very nickname: each way out of a channel and each change of nickname is
\* announced to all it concerns, whatever sends to others fail.
NoGhosts ==
    \A fd \in Connected, c \in Chan :
        view[fd][c] # {} =>
            /\ fd \in Members(chan[c])
            /\ view[fd][c] \subseteq NicksOf(chan[c])

\* Two clients that have got every message and believe to be on the same
\* channel see each other there.
SeeEachOther ==
    \A f, g \in Connected, c \in Chan :
        view[f][c] # {} /\ view[g][c] # {} => NickOf(g) \in view[f][c]

\* A PRIVMSG to a channel goes to everybody the sender believes to be there,
\* not to itself and to no outsider; one to a nickname it sees, typed in
\* lower case, goes to the client it sees.
PrivmsgReachesSeen ==
    \A fd \in Connected, c \in channels :
        /\ \A n \in view[fd][c] \ {NickOf(fd)} :
               \E g \in PrivmsgToChannel(fd, c) :
                   NickOf(g) = n /\ PrivmsgToUser(Lower[n]) = {g}
        /\ PrivmsgToChannel(fd, c) \subseteq Members(chan[c]) \ {fd}
=============================================================================
