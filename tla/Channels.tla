------------------------------ MODULE Channels ------------------------------
(***************************************************************************)
(* Channel management on top of the client registry: the map `channels` of *)
(* the server, the three pointer maps of every Channel (admins, clients,   *)
(* invited) and its modes, and every command that changes them: JOIN,      *)
(* PART, KICK, INVITE, MODE, TOPIC and QUIT, and the clean-up              *)
(* Server::ReceiveNewData does when a connection is lost.                  *)
(*                                                                         *)
(* JOIN and PART take comma-separated lists whose elements are handled one *)
(* after the other, each on its own: a list is modelled as that many       *)
(* commands of the same turn.  KICK and MODE carry state from one element  *)
(* of their list to the next (the channel pointer of KICK; the sign and    *)
(* the argument iterator of MODE), so they are loops: `loop` holds what is *)
(* carried, one action is one iteration, and the list is chosen element by *)
(* element, so that lists of every length are covered.                     *)
(*                                                                         *)
(* Two steps stop the model.  map::at throws when Server::GetChannel is    *)
(* asked for a name that is not a key; main catches, closes the sockets    *)
(* and returns: status "stopped".  Where the code has undefined behaviour, *)
(* the outcome is chosen among continuing with some value and a crash:     *)
(* status "undefined".                                                     *)
(***************************************************************************)
EXTENDS Sessions, FiniteSets

CONSTANTS
    Chan,        \* channel names, all beginning with '#'
    LowerChan,   \* toLowerString on channel names, as a function
    KeyWord,     \* words a peer may send as a channel key
    TopicText,   \* texts a peer may send as a topic
    LimitArg,    \* values std::atoi may give for the argument of +l
    ModeFlag,    \* the mode letters peers send
    ChanLimit    \* the 10 of Join::initialChecksJoin

ASSUME ChanAssumption ==
    /\ "" \notin Chan
    /\ LowerChan \in [Chan -> Chan]

ASSUME ArgAssumption ==
    /\ "" \notin KeyWord
    /\ LimitArg \subseteq Int
    /\ ModeFlag \subseteq {"i", "t", "k", "o", "l"}
    /\ ChanLimit \in Nat

VARIABLES
    channels,    \* the keys of Server::channels
    chan,        \* the Channel object stored under each key
    loop,        \* what KICK or MODE carries through its list
    status       \* "running", "stopped" or "undefined"

channelVars == <<channels, chan, loop, status>>

vars == <<sessionVars, channelVars>>

-----------------------------------------------------------------------------

PointerMap == [Fd -> Pointer]

Channel == [admins           : PointerMap,
            clients          : PointerMap,
            invited          : PointerMap,
            usr_limit        : LimitArg \cup {20, -1},
            inv_only         : BOOLEAN,
            topic_restricted : BOOLEAN,
            topic            : TopicText \cup {""},
            password         : KeyWord \cup {""}]

EmptyMap == [fd \in Fd |-> Nil]

\* Channel::Channel(name); also stands for a name that is not a key.
NewChannel == [admins |-> EmptyMap, clients |-> EmptyMap, invited |-> EmptyMap,
               usr_limit |-> 20, inv_only |-> FALSE, topic_restricted |-> FALSE,
               topic |-> "", password |-> ""]

\* args: "more" while the argument iterator of MODE may still point at an
\* argument, "end" when it is args.end(), "past" when it is beyond it.
Loop == [op : {"none", "KICK", "MODE"}, chan : Chan \cup {""},
         plus : BOOLEAN, args : {"more", "end", "past"}]

NoLoop == [op |-> "none", chan |-> "", plus |-> TRUE, args |-> "more"]

-----------------------------------------------------------------------------
\* The lookups and updates of Channel.cpp and src/server/Server.cpp.

\* AddClient, AddAdmin and AddInvited: an existing entry is kept.
Insert(m, a) ==
    IF m[heap[a].fd] = Nil THEN [m EXCEPT ![heap[a].fd] = a] ELSE m

\* The keys GetClientByNick and GetAdminByNick can stop at.
ByNick(m, n) == {k \in Keys(m) : Lower[heap[m[k]].nickname] = Lower[n]}

\* Those of GetClientInChannel and of the removals, which compare exactly.
ByExactNick(m, n) == {k \in Keys(m) : heap[m[k]].nickname = n}

\* RemoveClientNick and RemoveAdmin.
EraseNick(m, n) ==
    IF ByExactNick(m, n) = {} THEN m
    ELSE [m EXCEPT ![heap[m[Min(ByExactNick(m, n))]].fd] = Nil]

IsAdmin(c, fd) == \E k \in Keys(chan[c].admins) : heap[chan[c].admins[k]].fd = fd

Vacant(ch) == Keys(ch.admins) = {} /\ Keys(ch.clients) = {}

Total(ch) == Cardinality(Keys(ch.clients)) + Cardinality(Keys(ch.admins))

\* Variant: channel names are compared without folding case.
GetChannelByExactName(name) == {c \in channels : c = name}

\* Server::GetChannelByName, as the set of channels it can return.
GetChannelByName(name) == {c \in channels : LowerChan[c] = LowerChan[name]}

\* Server::GetClientByNickname: only the registered nickname is folded, so
\* a word with an upper-case letter finds nobody.
GetClientByNickname(word) ==
    {fd \in Connected : Lower[GetClient(fd).nickname] = word}

\* Variant: channels are counted in which the client is no operator.
MemberChannelCount(fd) ==
    1 + Cardinality({c \in channels :
            ByExactNick(chan[c].clients, GetClient(fd).nickname) # {}})

\* Server::GetClientChannelCount starts at 1.
ClientChannelCount(fd) ==
    1 + Cardinality({c \in channels :
            \/ ByExactNick(chan[c].clients, GetClient(fd).nickname) # {}
            \/ ByExactNick(chan[c].admins, GetClient(fd).nickname) # {}})

SetChannel(c, ch) ==
    /\ chan' = [chan EXCEPT ![c] = ch]
    /\ UNCHANGED channels

\* Variant: an emptied channel is kept.
SetAndKeepChannel(c, ch) == SetChannel(c, ch)

\* The caller removes a channel that its change has left empty.
SetOrRemoveChannel(c, ch) ==
    IF Vacant(ch)
    THEN /\ channels' = channels \ {c}
         /\ chan' = [chan EXCEPT ![c] = NewChannel]
    ELSE SetChannel(c, ch)

-----------------------------------------------------------------------------
\* Steps of the registry that touch no channel.

Running == status = "running"

Between == Running /\ loop.op = "none"

Accept(fd, a) == Between /\ AcceptNewClient(fd, a) /\ UNCHANGED channelVars

Begin(fd) == Between /\ BeginTurn(fd) /\ UNCHANGED channelVars

Handshake(fd) == Between /\ Register(fd) /\ UNCHANGED channelVars

End(fd) == Between /\ EndTurn(fd) /\ UNCHANGED channelVars

\* Handler dispatches a command line of a client that has logged in.
Commanded(fd) == Between /\ turn = fd /\ GetClient(fd).log

-----------------------------------------------------------------------------
\* JOIN

\* GetInvitedByNick dereferences every entry up to the first match, and
\* nothing removes the entries of clients that were deleted since: reading
\* such an entry may find any nickname or crash.
Stale(m) == {k \in Keys(m) : m[k] \notin Live}

InvitedLookup(c, n) ==
    LET inv == chan[c].invited
    IN  (IF ByExactNick(inv, n) \ Stale(inv) # {} THEN {"found"}
         ELSE IF Stale(inv) # {} THEN {"found", "missing"}
         ELSE {"missing"})
        \cup (IF Stale(inv) # {} THEN {"crash"} ELSE {})

\* Variant: the limit is compared with <=.
AdmittedOneMore(ch, key, isInvited) ==
    /\ isInvited \/ ch.password = "" \/ ch.password = key
    /\ ch.inv_only => isInvited
    /\ ch.usr_limit > 0 => Total(ch) <= ch.usr_limit

\* Variant: knowing the key stands in for an invitation.
AdmittedByKey(ch, key, isInvited) ==
    /\ isInvited \/ ch.password = "" \/ ch.password = key
    /\ ch.inv_only => isInvited \/ ch.password # ""
    /\ ch.usr_limit > 0 => Total(ch) < ch.usr_limit

\* Join::initialChecksJoin after the channel count.
Admitted(ch, key, isInvited) ==
    /\ isInvited \/ ch.password = "" \/ ch.password = key
    /\ ch.inv_only => isInvited
    /\ ch.usr_limit > 0 => Total(ch) < ch.usr_limit

\* The name is a key: joinChannel.
Join(fd, c, key) ==
    /\ Commanded(fd)
    /\ c \in channels
    /\ ClientChannelCount(fd) < ChanLimit
    /\ \E found \in InvitedLookup(c, GetClient(fd).nickname) :
         \/ /\ found = "crash"
            /\ status' = "undefined"
            /\ UNCHANGED <<channels, chan>>
         \/ /\ found # "crash"
            /\ Admitted(chan[c], key, found = "found")
            /\ SetChannel(c, [chan[c] EXCEPT !.clients = Insert(@, clients[fd])])
            /\ UNCHANGED status
    /\ UNCHANGED <<sessionVars, loop>>

\* The name differs from a key only in case: GetChannelByName finds the
\* channel and joinChannel then looks the name up with map::at.
JoinThrows(fd, name) ==
    /\ Commanded(fd)
    /\ GetChannelByName(name) # {}
    /\ name \notin channels
    /\ status' = "stopped"
    /\ UNCHANGED <<sessionVars, channels, chan, loop>>

\* No channel has that name: createAndJoinChannel, which checks no limit.
JoinCreate(fd, name, key) ==
    /\ Commanded(fd)
    /\ GetChannelByName(name) = {}
    /\ channels' = channels \cup {name}
    /\ chan' = [chan EXCEPT ![name] = [NewChannel EXCEPT
                    !.password = key,
                    !.admins = Insert(EmptyMap, clients[fd])]]
    /\ UNCHANGED <<sessionVars, loop, status>>

-----------------------------------------------------------------------------
\* PART, QUIT and the loss of a connection

\* Part::execute looks the name up with map::at before its null check.
PartThrows(fd, name) ==
    /\ Commanded(fd)
    /\ name \notin channels
    /\ status' = "stopped"
    /\ UNCHANGED <<sessionVars, channels, chan, loop>>

\* Variant: the operator entry is looked for only if there is no other one.
WithoutOne(ch, fd, n) ==
    IF ByNick(ch.clients, n) # {}
    THEN [ch EXCEPT !.clients[fd] = Nil]
    ELSE [ch EXCEPT !.admins = EraseNick(@, n)]

\* The removals PART, QUIT and ReceiveNewData share.
Without(ch, fd, n) ==
    [ch EXCEPT
        !.clients = IF ByNick(@, n) = {} THEN @ ELSE [@ EXCEPT ![fd] = Nil],
        !.admins  = IF ByNick(@, n) = {} THEN @ ELSE EraseNick(@, n)]

Part(fd, c) ==
    LET n == GetClient(fd).nickname
    IN  /\ Commanded(fd)
        /\ c \in channels
        /\ ByExactNick(chan[c].clients, n) \cup ByExactNick(chan[c].admins, n) # {}
        /\ SetOrRemoveChannel(c, Without(chan[c], fd, n))
        /\ UNCHANGED <<sessionVars, loop, status>>

\* Variant: the entry of an emptied channel is erased, its object is not.
LeaveAllLeaking(fd) ==
    LET after == [c \in Chan |-> IF c \in channels
                                 THEN Without(chan[c], fd, GetClient(fd).nickname)
                                 ELSE chan[c]]
    IN  /\ channels' = {c \in channels : ~Vacant(after[c])}
        /\ chan' = after

LeaveAll(fd) ==
    LET after == [c \in Chan |-> IF c \in channels
                                 THEN Without(chan[c], fd, GetClient(fd).nickname)
                                 ELSE chan[c]]
        gone  == {c \in channels : Vacant(after[c])}
    IN  /\ channels' = channels \ gone
        /\ chan' = [c \in Chan |-> IF c \in gone THEN NewChannel ELSE after[c]]

\* Variant: QUIT forgets the client at once.
QuitForgetting(fd) ==
    /\ Commanded(fd)
    /\ LeaveAll(fd)
    /\ clients' = [clients EXCEPT ![fd] = Nil]
    /\ SetClient(fd, NewClient)
    /\ UNCHANGED <<turn, loop, status>>

\* The connection, the Client object and its login all stay.
Quit(fd) ==
    /\ Commanded(fd)
    /\ LeaveAll(fd)
    /\ UNCHANGED <<sessionVars, loop, status>>

\* recv() returned 0 or an error.
Disconnect(fd) ==
    /\ Between
    /\ DropClient(fd)
    /\ LeaveAll(fd)
    /\ UNCHANGED <<loop, status>>

-----------------------------------------------------------------------------
\* INVITE and TOPIC

\* The test compares find(fd) on one copy of the map with end() of another
\* (GetAdmins returns by value).  The two iterators point into different
\* objects, so they are never equal and nobody is ever barred.
InviterBarred(ch, fd) == FALSE

InviteFull(ch) == ch.usr_limit >= 0 /\ Total(ch) >= ch.usr_limit

Invite(fd, word, name) ==
    \E c \in GetChannelByName(name) :
        LET ch == chan[c]
            n  == GetClient(fd).nickname
            g  == Min(GetClientByNickname(word))
            gn == GetClient(g).nickname
        IN  /\ Commanded(fd)
            /\ GetClientByNickname(word) # {}
            /\ ByNick(ch.clients, n) \cup ByNick(ch.admins, n) # {}
            /\ ~InviterBarred(ch, fd)
            /\ ~InviteFull(ch)
            /\ ByExactNick(ch.clients, gn) \cup ByNick(ch.admins, gn) = {}
            /\ SetChannel(c, [ch EXCEPT !.invited = Insert(@, clients[g])])
            /\ UNCHANGED <<sessionVars, loop, status>>

\* Only the operators of a +t channel may; membership is not required.
Topic(fd, name, text) ==
    \E c \in GetChannelByName(name) :
        /\ Commanded(fd)
        /\ chan[c].topic_restricted => IsAdmin(c, fd)
        /\ SetChannel(c, [chan[c] EXCEPT !.topic = text])
        /\ UNCHANGED <<sessionVars, loop, status>>

-----------------------------------------------------------------------------
\* KICK

InLoop(op) == Running /\ loop.op = op

LoopReturns == loop' = NoLoop /\ UNCHANGED <<channels, chan>>

KickBegin(fd, name) ==
    \E c \in GetChannelByName(name) :
        /\ Commanded(fd)
        /\ loop' = [NoLoop EXCEPT !.op = "KICK", !.chan = c]
        /\ UNCHANGED <<sessionVars, channels, chan, status>>

\* Removal prefers the operator entry and leaves the other one, if any.
Kicked(ch, n) ==
    IF ByNick(ch.admins, n) # {}
    THEN [ch EXCEPT !.admins = EraseNick(@, n)]
    ELSE [ch EXCEPT !.clients = EraseNick(@, n)]

\* Variant: whoever is on the channel may kick.
MayKickAsMember(ch, fd, word) ==
    /\ GetClientByNickname(word) # {}
    /\ ByNick(ch.admins, GetClient(fd).nickname)
       \cup ByNick(ch.clients, GetClient(fd).nickname) # {}
    /\ ByNick(ch.clients, word) \cup ByNick(ch.admins, word) # {}

MayKick(ch, fd, word) ==
    /\ GetClientByNickname(word) # {}
    /\ ByNick(ch.admins, GetClient(fd).nickname) # {}
    /\ ByNick(ch.clients, word) \cup ByNick(ch.admins, word) # {}

\* The next name of the list, while the channel exists.
KickTarget(word) ==
    LET ch == chan[loop.chan]
        n  == GetClient(Min(GetClientByNickname(word))).nickname
    IN  /\ InLoop("KICK")
        /\ loop.chan \in channels
        /\ IF MayKick(ch, turn, word)
           THEN SetOrRemoveChannel(loop.chan, Kicked(ch, n)) /\ UNCHANGED loop
           ELSE LoopReturns
        /\ UNCHANGED <<sessionVars, status>>

\* The channel was removed by an earlier name of the list: the loop goes on
\* with a pointer to a deleted Channel.  Its maps were empty, so what is
\* left of them finds no operator, or the access crashes.
KickTargetFreed(word) ==
    /\ InLoop("KICK")
    /\ loop.chan \notin channels
    /\ LoopReturns
    /\ \/ UNCHANGED status
       \/ GetClientByNickname(word) # {} /\ status' = "undefined"
    /\ UNCHANGED sessionVars

-----------------------------------------------------------------------------
\* MODE

\* Variant: MODE does not ask whether its issuer is an operator.
ModeBeginByAnybody(fd, name) ==
    \E c \in GetChannelByName(name) :
        /\ Commanded(fd)
        /\ loop' = [NoLoop EXCEPT !.op = "MODE", !.chan = c]
        /\ UNCHANGED <<sessionVars, channels, chan, status>>

ModeBegin(fd, name) ==
    \E c \in GetChannelByName(name) :
        /\ Commanded(fd)
        /\ IsAdmin(c, fd)
        /\ loop' = [NoLoop EXCEPT !.op = "MODE", !.chan = c]
        /\ UNCHANGED <<sessionVars, channels, chan, status>>

InMode(flag) == InLoop("MODE") /\ flag \in ModeFlag

SetModed(ch) == SetChannel(loop.chan, ch) /\ UNCHANGED <<sessionVars, status>>

ModeSign(plus) ==
    /\ InLoop("MODE")
    /\ loop' = [loop EXCEPT !.plus = plus]
    /\ UNCHANGED <<sessionVars, channels, chan, status>>

ModeInviteOnly ==
    /\ InMode("i")
    /\ SetModed([chan[loop.chan] EXCEPT !.inv_only = loop.plus])
    /\ UNCHANGED loop

ModeTopic ==
    /\ InMode("t")
    /\ SetModed([chan[loop.chan] EXCEPT !.topic_restricted = loop.plus])
    /\ UNCHANGED loop

\* The letter needs an argument and there is one, or the iterator has run
\* past the end and the code reads whatever is there.
HasArgument == loop.args \in {"more", "past"}

NeedsArgument(flag) == flag = "o" \/ (flag \in {"k", "l"} /\ loop.plus)

\* The list of arguments turns out to be exhausted: ERR_NEEDMOREPARAMS and
\* the loop goes on.
ModeNoArgument(flag) ==
    /\ InMode(flag)
    /\ NeedsArgument(flag)
    /\ loop.args = "more"
    /\ loop' = [loop EXCEPT !.args = "end"]
    /\ UNCHANGED <<sessionVars, channels, chan, status>>

ModeReadsPast(flag) ==
    /\ InMode(flag)
    /\ NeedsArgument(flag)
    /\ loop.args = "past"
    /\ status' = "undefined"
    /\ UNCHANGED <<sessionVars, channels, chan, loop>>

ModeKey(key) ==
    /\ InMode("k")
    /\ loop.plus => HasArgument
    /\ SetModed([chan[loop.chan] EXCEPT !.password = IF loop.plus THEN key ELSE ""])
    /\ UNCHANGED loop

ModeLimit(limit) ==
    /\ InMode("l")
    /\ loop.plus
    /\ HasArgument
    /\ SetModed([chan[loop.chan] EXCEPT !.usr_limit = limit])
    /\ UNCHANGED loop

\* -l moves the argument iterator without looking whether it is at the end.
ModeNoLimit ==
    /\ InMode("l")
    /\ ~loop.plus
    /\ SetModed([chan[loop.chan] EXCEPT !.usr_limit = -1])
    /\ \E args \in IF loop.args = "more" THEN {"more", "past"} ELSE {"past"} :
           loop' = [loop EXCEPT !.args = args]

\* +o: the lookups fold case, the removal from the ordinary members does not.
Promoted(ch, word) ==
    [ch EXCEPT !.admins  = Insert(@, ch.clients[Min(ByNick(ch.clients, word))]),
               !.clients = EraseNick(@, word)]

\* Variant: -o does not put the former operator among the ordinary members.
DemotedOut(ch, word) == [ch EXCEPT !.admins = EraseNick(@, word)]

\* -o: likewise.
Demoted(ch, word) ==
    [ch EXCEPT !.clients = Insert(@, ch.admins[Min(ByNick(ch.admins, word))]),
               !.admins  = EraseNick(@, word)]

\* A name the letter does not apply to ends the whole command.
ModeOperator(word) ==
    LET ch      == chan[loop.chan]
        isAdmin == ByNick(ch.admins, word) # {}
    IN  /\ InMode("o")
        /\ HasArgument
        /\ \/ /\ loop.plus
              /\ ~isAdmin
              /\ ByNick(ch.clients, word) # {}
              /\ SetModed(Promoted(ch, word))
              /\ UNCHANGED loop
           \/ /\ ~loop.plus
              /\ isAdmin
              /\ SetModed(Demoted(ch, word))
              /\ UNCHANGED loop
           \/ /\ IF loop.plus THEN isAdmin \/ ByNick(ch.clients, word) = {}
                              ELSE ~isAdmin
              /\ LoopReturns
              /\ UNCHANGED <<sessionVars, status>>

\* The list of KICK or MODE is exhausted.
LoopEnd ==
    /\ Running
    /\ loop.op # "none"
    /\ LoopReturns
    /\ UNCHANGED <<sessionVars, status>>

-----------------------------------------------------------------------------

Init ==
    /\ SessionInit
    /\ channels = {}
    /\ chan = [c \in Chan |-> NewChannel]
    /\ loop = NoLoop
    /\ status = "running"

RegistryStep(fd) ==
    \/ \E a \in Addr : Accept(fd, a)
    \/ Begin(fd)
    \/ Handshake(fd)
    \/ End(fd)
    \/ Disconnect(fd)

JoinStep(fd, name) ==
    \/ \E key \in KeyWord \cup {""} : Join(fd, name, key) \/ JoinCreate(fd, name, key)
    \/ JoinThrows(fd, name)

LeaveStep(fd, name) ==
    \/ Part(fd, name)
    \/ PartThrows(fd, name)
    \/ Quit(fd)

ChannelStep(fd, name) ==
    \/ \E word \in NickWord : Invite(fd, word, name)
    \/ \E text \in TopicText \cup {""} : Topic(fd, name, text)
    \/ KickBegin(fd, name)
    \/ ModeBegin(fd, name)

LoopStep ==
    \/ \E word \in NickWord : KickTarget(word) \/ KickTargetFreed(word)
    \/ \E plus \in BOOLEAN : ModeSign(plus)
    \/ ModeInviteOnly
    \/ ModeTopic
    \/ \E flag \in ModeFlag : ModeNoArgument(flag) \/ ModeReadsPast(flag)
    \/ \E key \in KeyWord : ModeKey(key)
    \/ \E limit \in LimitArg : ModeLimit(limit)
    \/ ModeNoLimit
    \/ \E word \in NickWord : ModeOperator(word)
    \/ LoopEnd

Next ==
    \/ \E fd \in Fd : RegistryStep(fd)
    \/ \E fd \in Fd, name \in Chan : JoinStep(fd, name)
    \/ \E fd \in Fd, name \in Chan : LeaveStep(fd, name)
    \/ \E fd \in Fd, name \in Chan : ChannelStep(fd, name)
    \/ LoopStep

Spec == Init /\ [][Next]_vars

-----------------------------------------------------------------------------
\* Properties

Members(ch) == Keys(ch.admins) \cup Keys(ch.clients)

\* Every variable holds a value of its type, and a name that is not a key
\* has no object: a channel taken out of the map is deleted.
TypeOK ==
    /\ SessionTypeOK
    /\ channels \subseteq Chan
    /\ chan \in [Chan -> Channel]
    /\ \A c \in Chan \ channels : chan[c] = NewChannel
    /\ loop \in Loop
    /\ loop.op # "none" => turn # NoFd /\ loop.chan \in Chan
    /\ status \in {"running", "stopped", "undefined"}

\* Every pointer in a channel's admins and clients is the object of the
\* connected, logged-in client of that descriptor: QUIT, PART, KICK and the
\* loss of a connection leave no entry behind that a later owner of the
\* descriptor or of the memory could inherit.
MembersLive ==
    \A c \in channels, fd \in Fd :
        \A p \in {chan[c].admins[fd], chan[c].clients[fd]} :
            p # Nil => p = clients[fd] /\ GetClient(fd).log

\* Looking a logged-in client up in a channel by its nickname (KICK, PART,
\* QUIT, INVITE, PRIVMSG) finds its own entry and no other one, so it
\* agrees with looking it up by descriptor (MODE, TOPIC): nobody acts with
\* another's rights, however nicknames were changed and reused.
NickIsIdentity ==
    \A c \in channels, fd \in Connected :
        GetClient(fd).log =>
            \A m \in {chan[c].admins, chan[c].clients} :
                /\ ByNick(m, GetClient(fd).nickname) = Keys(m) \cap {fd}
                /\ ByExactNick(m, GetClient(fd).nickname) = Keys(m) \cap {fd}

\* No two channels have names equal up to case: JOIN looks names up folded
\* and files them exact, and removeChannel deletes what the folded lookup
\* finds but erases the exact key.
ChannelNamesUnique ==
    \A c, d \in channels : LowerChan[c] = LowerChan[d] => c = d

\* A channel exists only while it has a member: each of the four places
\* that remove members also removes the channel when it was the last one.
NoEmptyChannel == \A c \in channels : ~Vacant(chan[c])

\* All through a MODE command its channel exists and its issuer is on it,
\* also after a -o of itself: the lookups Mode::channel repeats for every
\* letter without a null check succeed.
ModeKeepsChannel ==
    loop.op = "MODE" =>
        /\ loop.chan \in channels
        /\ turn \in Members(chan[loop.chan])

\* What takes fd out of a channel may.
MayRemove(c, fd) ==
    \/ fd = turn
    \/ fd \notin Connected'
    \/ loop.op = "KICK" /\ turn \in Keys(chan[c].admins)

RemovedWithAuthority ==
    \A c \in channels : \A fd \in Members(chan[c]) \ Members(chan'[c]) : MayRemove(c, fd)

\* A client stops being a member only by its own command, by losing its
\* connection, or by a KICK of somebody who is an operator at that moment.
LeaveAuthority == [][RemovedWithAuthority]_vars

LeavesNothing ==
    \A fd \in Fd :
        /\ Quit(fd) => \A c \in channels' : fd \notin Members(chan'[c])
        /\ \A c \in Chan : Part(fd, c) => fd \notin Members(chan'[c])

\* A client that leaves by PART or QUIT keeps no entry, although it may have
\* one as an operator and another one as an ordinary member (an operator
\* that joins again), and both removals go by nickname.
LeavingIsComplete == [][LeavesNothing]_vars

\* A channel with a user limit gains a member only if it does not exceed
\* the limit with it, whatever the limit was when the others came in and
\* however often one of them is counted.
GrowthRespectsLimit ==
    [][\A c \in channels :
            /\ chan[c].usr_limit > 0
            /\ ~(Members(chan'[c]) \subseteq Members(chan[c]))
            => Cardinality(Members(chan'[c])) <= chan[c].usr_limit]_vars

ChannelsOf(fd) == {c \in channels : fd \in Members(chan[c])}

\* JOIN enters a client among the ordinary members of a channel that exists,
\* for the first time or next to its entry as an operator, only while one more
\* channel leaves it below the limit.  The limit is on the channels it is on,
\* created or joined; JOIN counts entries, by nickname, in two maps.
JoinsRespectChannelLimit ==
    [][loop.op = "none" =>
         \A c \in channels : \A fd \in Keys(chan'[c].clients) \ Keys(chan[c].clients) :
             1 + Cardinality(ChannelsOf(fd)) < ChanLimit]_vars

\* The pointers of a channel's invitations are those of the sessions that
\* were invited.
InvitationsLive(ch) == \A fd \in Keys(ch.invited) : ch.invited[fd] = clients[fd]

\* While everybody who was invited is still connected, nobody enters an
\* invite-only channel without an invitation to this very session, although
\* Join::initialChecksJoin looks invitations up by nickname and nicknames
\* change hands.
EntryNeedsInvitation ==
    [][\A c \in channels : \A fd \in Members(chan'[c]) \ Members(chan[c]) :
            chan[c].inv_only /\ InvitationsLive(chan[c])
            => chan[c].invited[fd] = clients[fd]]_vars

MembersOf == [c \in Chan |-> Members(chan[c])]

OperatorsOf == [c \in Chan |-> Keys(chan[c].admins)]

\* The channels, their members and their operators change as Membership
\* allows: in particular rank is only given to members and by members, and
\* every step that touches several channels removes one client from each.
Implemented ==
    INSTANCE Membership WITH
        Person <- Fd,
        Room <- Chan,
        Nobody <- NoFd,
        online <- Connected,
        actor <- turn,
        rooms <- channels,
        members <- MembersOf,
        ops <- OperatorsOf

\* Channel management implements its abstract specification.
ImplementsMembership == Implemented!Spec

-----------------------------------------------------------------------------
\* What documentation and comments say and the code does not do

\* README.md:158 and Kick.cpp:93: a user that is kicked is no longer in the
\* channel.
KickExpels ==
    [][\A word \in NickWord :
            /\ KickTarget(word)
            /\ MayKick(chan[loop.chan], turn, word)
            => ~(GetClientByNickname(word) \subseteq Members(chan'[loop.chan]))]_vars

\* README.md:203: a command that names a channel the server does not have is
\* answered with an error reply; it does not end the server.
ProtocolErrorsAnswered == status # "stopped"

\* Invite.cpp:61: on an invite-only channel only an operator may invite.
InviteNeedsOperator ==
    [][\A c \in channels :
            /\ chan[c].inv_only
            /\ ~(Keys(chan'[c].invited) \subseteq Keys(chan[c].invited))
            => IsAdmin(c, turn)]_vars

\* README.md:205: what a channel holds on to is still allocated, and is the
\* session that was invited.
CleanedUp == \A c \in channels : InvitationsLive(chan[c])
=============================================================================
