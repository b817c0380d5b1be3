# Verification of the IRC server

TLA+ models of the IRC server of this repository (`src/`, about 2400 lines of
C++98), the TLC runs that check them on small instances, and proofs, checked by
TLAPS, that what the runs find of safety holds for every instance. Paths below are those
of the repository; `server/Server.cpp` is `src/server/Server.cpp`, the second
half of the class in `src/Server.cpp`.

## The system

One process, one thread. `Server::ServerInit` polls a vector of descriptors.
A readable listening socket is an `AcceptNewClient`; a readable client socket is
a `ReceiveNewData`, which either buffers complete lines in the `Client` and asks
for `POLLOUT`, or cleans up after a lost connection. A writable client socket is
the moment at which all lines buffered for that client are executed by `Handler`,
one after the other, and at whose end a client with a nickname, a user name and
the right password is logged in.

| Component | Source | State | Operations | Modelled by |
|---|---|---|---|---|
| Client registry and registration | `Server.cpp`, `server/Server.cpp`, `Client.*`, `Pass`, `Nick`, `User` | `Server::clients` (descriptor to `Client *`), the `Client` objects | accept, PASS, NICK, USER, login check, `ClearClients` | `Sessions` |
| Channel management | `Channel.*`, `Join`, `Part`, `Kick`, `Invite`, `Mode`, `Topic`, `Quit`, `ReceiveNewData` | `Server::channels`; per channel `admins`, `clients`, `invited`, modes, key, limit, topic | JOIN, PART, KICK, INVITE, MODE, TOPIC, QUIT, clean-up of a lost connection | `Channels`; promise: `Membership` |
| Event loop | `Server.cpp` | `fds`, their `events` and `revents`, `signal`, the sockets | poll, pass, accept, receive, execute, erase while iterating | `EventLoop`; promise: `Service` |
| Line assembly | `Server.cpp` (`SplitBuffer`), `Client::temp`, `Client::vect` | partial line, complete lines | receive, split, execute, reset | `LineBuffer` |
| Message delivery | `Channel::SendToAll`, `Nick::SendSharedChannels`, `Privmsg`, the announcing commands | none in the server; what each peer has been told | who is sent what, sends that fail | `Delivery` |
| Start-up, signals, shutdown | `main.cpp`, `Server.cpp` | sockets, `signal` | set-up and its failures, `SignalHandler`, `CloseFds`, `closeClientConnections` | `EventLoop` |
| Tokenisation, reply texts | `Parser.cpp`, `Libraries.hpp` | none | | no (below) |
| `Server_Client.cpp`, `Server_Utils.cpp`, `Commands.cpp` | not in the Makefile, or empty | | | no |

How the parts meet. The loop decides whose lines are executed and in which order;
the handlers change the registry and the channels and write to other clients'
sockets. The registry owns the `Client` objects. Channels hold raw pointers to
them, under the client's descriptor, in three maps that are changed separately,
and they are searched mostly by nickname (`GetClientByNick` folds case,
`GetClientInChannel` and the removals do not) and sometimes by descriptor
(`RemoveClient`, `IsAdmin`). NICK changes the name under which all of them find
a client. Deleting a `Client` has to find every pointer to it first, and deleting
its entry in `fds` happens in the middle of the iteration over `fds`.

What is hard here. There are no threads, but a signal can come between any two
instructions, peers send, stop reading and hang up while a pass is under way, and
there are long sequences of legal commands of several clients in every order;
descriptors and heap cells that are reused by the next connection; lookups by a
key that changes; two kinds of entry for one member; loops over a list (KICK,
MODE) whose elements change the state the next element reads; `map::at`, which
throws where the code expects a null; lines that arrive in pieces; announcements
whose receivers are looked up before or after the state changes. `PROJECT.json`
lists these hazards, each at its line and with the properties about it.

What makes each component correct.

* Registry: object and descriptor agree; nicknames are unique up to case at every
  moment; a name or a login implies the password.
* Channel management: pointers in `admins` and `clients` are those of connected,
  logged-in clients; lookups by nickname and by descriptor agree; a client that
  leaves is gone from both maps; a channel lives exactly as long as it has a
  member; names are unique up to case; nobody is put out or promoted except by a
  member entitled to it; limits and invitations hold.
* Event loop: `fds`, `clients` and the open sockets agree; an erase does not lose
  another client's event or lines; a complete line is eventually executed; nobody
  is dropped before everything it sent is executed; the server stops with every
  socket closed that it knows of.
* Line assembly: the lines executed are the ones sent, in order, once.
* Delivery: what a client can know about its channels from what it was sent is
  true, and a message reaches those the sender knows to be there and nobody else.

## The modules

`Sessions` is the registry. A `std::map<int, Client *>` is a function from
descriptors to addresses with `Nil` for an absent key; `heap` holds the object in
each cell, so that a freed cell may be handed out again while another map still
has the old pointer. `accept` returns the lowest free descriptor, `new` any free
cell. `turn` is the client whose lines are being executed. Actions carry the
names of the handlers: `AcceptNewClient`, `BeginTurn` (the `POLLOUT` event),
`Pass`, `Nick`, `User`, `EndTurn` (login check and `VectReset`), `DropClient`
(`ClearClients`, `close`, `delete`). A command that is answered with an error
changes nothing and is a stuttering step, so the guards are the negated early
returns.

`Channels` extends it with `channels` (the keys of `Server::channels`), `chan`
(the `Channel` under each key), `loop` (what KICK or MODE carries from one element
of its list to the next) and `status` (`"stopped"` after an uncaught exception,
`"undefined"` after undefined behaviour that crashed). One action per command,
with everything the handler does; KICK and MODE are one action per iteration:

| Action | Code |
|---|---|
| `Join`, `JoinCreate`, `JoinThrows` | `Join::joinChannel`, `createAndJoinChannel`, the `map::at` of a name that differs in case |
| `Part`, `PartThrows`, `Quit`, `Disconnect` | `Part::execute`, its `map::at`, `Quit::execute`, `ReceiveNewData` on end of file |
| `Invite`, `Topic` | `Invite::execute`, `Topic::execute` |
| `KickBegin`, `KickTarget`, `KickTargetFreed`, `LoopEnd` | `Kick::execute`, one name each; the last but one when an earlier name of the list made the channel disappear |
| `ModeBegin`, `ModeSign`, `ModeInviteOnly`, `ModeTopic`, `ModeKey`, `ModeLimit`, `ModeNoLimit`, `ModeOperator`, `ModeNoArgument`, `ModeReadsPast`, `LoopEnd` | `Mode::channel`, one letter each |

Undefined behaviour is a choice over its outcomes: reading an invitation whose
client was deleted may find any nickname or crash; a read beyond the argument
vector may yield any argument or crash; a KICK that goes on with a deleted
channel may end or crash.

`Membership` is the abstract specification of channels: who is online, which rooms
exist, who is in them and who runs them. It knows neither nicknames nor pointers.
`Channels` implements it under the mapping of `Implemented`: rooms are the keys of
`channels`, the members of a room the keys of `admins` and `clients` together, its
operators the keys of `admins`, the actor is `turn`.

`Delivery` composes `Channels` with the receivers of its announcements. `SendToAll`
is the set of descriptors a message goes to, minus those whose `send` fails, which
the server does not notice. What a peer can know comes from these messages alone,
so `view` keeps, per client and channel, the nicknames that client must believe to
be on it, updated by `JoinHeard`, `LeaveHeard`, `QuitHeard` and `NickHeard`: what an
IRC client does with a JOIN, PART or KICK, QUIT and NICK line (this side is external
to the repository). A client that missed a message is in `deaf` and nothing is
asked of its view any more. `TellJoin`, `TellJoinCreate`, `TellPart`, `TellKick`,
`TellQuit`, `TellDisconnect` and `TellNick` are the actions of `Channels` together
with what they announce, to receivers looked up before or after the change as in
the code; `Silent` is everything else. PRIVMSG changes nothing: it is an operator
(`PrivmsgToChannel`, `PrivmsgToUser`).

`EventLoop` is `ServerInit` with `main` around it. `pc` is where the thread is,
`i` the index of the pass, `fds` the vector with `events` and `revents`. `poll` is
level-triggered: `PollReturns` writes the revents of all entries at once;
`PollFails` is a poll that a SIGPIPE from outside interrupts: its handler does not
set the flag, and `ServerInit` throws (`Server.cpp:194`). In a pass one
action per iteration looks at `fds[i]`: `Skip`, `AcceptNewClient`, `Receive`,
`Disconnect`, `Serve`, `ServeThrows`. `Disconnect` erases its entry, so that the
assignment after it goes to the next client's entry, or to the storage behind the
last one, and the next client's revents are skipped in this pass; the QUIT that is
sent to its channels may fill sockets (`QuitFills`). `AcceptNewClient` fails
(`AcceptFails`), admits a client, or gives up after `accept` because `fcntl` has
failed (`AcceptOne`, `Server.cpp:76`). The socket is open then and in neither
`clients` nor `fds`; the history variable `lost` remembers it, and no guard reads it. `CheckSignal` and
`EnterPoll` are two steps because a signal may come between them. A client's lines
are a number (`pending`), its unread bytes a number of chunks; what the lines say
is left to `Channels`: `Serve` may fill any sockets, as the sends of the handlers
may, and `ServeThrows` is the exception that `PartThrows` and `JoinThrows` raise.
`CloseFds` and `CloseClientConnections` are the shutdown, `StartThrows` a failing
`socket`, `setsockopt`, `bind` or `listen`.

`Service` is the abstract specification of the loop: connected clients that are
either being read or being answered, with fairness for each client, and neither
vector nor pass. `EventLoop` implements it under the mapping of `Served`
(`answering` are the clients whose entry asks for `POLLOUT`). `Sessions`' `turn` is
an abstraction of the same thing: one client at a time, from `Serve`'s beginning to
its end, with any number of other clients' batches between two of its own.

`LineBuffer` takes a stream of bytes (text, CR, LF), cut into segments in any way,
through `SplitBuffer`, the two buffers of a `Client` and the cut at the carriage
return in `Handler` (`Stripped`), to the lines executed. The loops of the code, over
the bytes of a segment and over its pieces, are recursive functions (`Split`,
`BufferAll`) whose step is an operator (`SplitByte`, `Buffer`). `stream` and `cuts`
are history variables: all the bytes received and where their segments ended.
Receiving and executing
alternate, which is what `LinesAwaitPollout` and `NothingDropped` of `EventLoop`
show of every client.

`MCSessions`, `MCChannels` and `MCDelivery` give constants their values.
`SessionProofs`, `ChannelProofs`, `MembershipProofs`, `DeliveryProofs`,
`AdmissionProofs`, `LoopProofs` and `LineProofs` hold the theorems. A definition marked
"Variant" is a plausible mistake in the definition below it; it is used by no
specification. Each property was seen to fail when the definition is replaced by
its variant.

## The runs

| Run | Instance | Shows |
|---|---|---|
| `sessions` | 3 descriptors, 4 cells, nicknames `amy`, `AMY`, `bob`, a right and a wrong password | `SessionTypeOK`, `RegistryConsistent`, `NicksUnique`, `Credentialed` |
| `roles` | 2 descriptors, 3 cells, the same nicknames, channels `#x` and `#X`, mode o | `TypeOK`, `MembersLive`, `NickIsIdentity`, `ModeKeepsChannel`, `ChannelNamesUnique`, `NoEmptyChannel`, `LeavingIsComplete`, `ImplementsMembership` |
| `modes` | 2 descriptors, 3 cells, 2 nicknames, 1 channel, modes i, t, k, l, limits 0, 1, 2 | `GrowthRespectsLimit`, `EntryNeedsInvitation` |
| `delivery` | 3 descriptors, 3 cells, 3 interchangeable nicknames, 1 channel, any set of failing sends | `NoGhosts`, `SeeEachOther`, `LeaveAuthority` |
| `names` | 2 descriptors, 2 cells, nicknames `amy`, `AMY`, `bob`, channels `#x` and `#y`, any set of failing sends, channel limit 3 | `DeliveryTypeOK`, `PrivmsgReachesSeen`, `JoinsRespectChannelLimit` |
| `lines` | every stream of at most 6 bytes over `a`, `b`, CR, LF, in every segmentation | `TypeOK`, `OneEach`, `NothingMixed`, `WholeInTwo` |
| `loop` | 2 clients and the listening socket, 1 chunk per socket, 1 line per chunk, 1 waiting connection | `TypeOK`, `EntriesMatch`, `LinesAwaitPollout`, `StopsClean`, `NothingDropped`, `LinesExecuted`, `ConnectionsAccepted`, `StopsUnlessQuiet`, `ImplementsService` |

The runs of `Sessions`, `Channels` and `Delivery` permute the heap cells
(`AddrSymmetry`), which the code compares only for equality; `delivery` permutes
nicknames as well, which there are equal to their lower case and are compared only
for equality. Descriptors are not permuted: `accept` and the map iterations depend
on their order. `loop` checks liveness and uses no symmetry.

Deadlock is checked only in `sessions`. Elsewhere the system may really stop: after
an exception or undefined behaviour (`roles`, `modes`, `names`, `delivery`), after
the shutdown (`loop`), when the stream's bound is reached (`lines`).

Why the bounds are enough for what the runs ask. Hazards of the registry need two
clients that compete for a name and a third connection that inherits a
descriptor; one more cell than descriptors lets a freed cell be reused or not.
Hazards of a channel need an actor and a target, each with up to two entries;
`delivery` adds a bystander, who is told or not told. `#x` and `#X` make a channel
name differ in case only, `#x` and `#y` let two clients share more than one channel.
Limits 1 and 2 are below, at and above the size a channel can have with two
clients, and 0 is the value JOIN and INVITE read differently. The lists of KICK and
MODE are unbounded: an iteration may always be followed by another one. The channel
limit is a constant (10 in `Join.cpp`); `names` gives it the value 3, which, because
the count starts at 1, lets a client be on both channels and refuses it then to join
either of them again, as one more entry, whether it created or joined them. In `lines` six bytes are
enough for three lines, for a line in four segments and for a cut between CR and LF.
In `loop` `MaxInput` and `MaxLines` bound what peers send (a second chunk may come
as soon as the first is read) and `MaxBacklog` the waiting connections; two clients
are enough for an entry that moves when the one before it is erased, for an erase
of the last entry, and for a third connection that finds no free descriptor.

Five runs are expected to fail; each checks what a document or a comment says and
the code does not do.

| Run | Property | Says | Does |
|---|---|---|---|
| `kick_stays` | `KickExpels` | `README.md:158`, `Kick.cpp:93`: KICK removes the user | an operator that sent JOIN again has two entries, and KICK removes one |
| `unknown_channel` | `ProtocolErrorsAnswered` | `README.md:203`: protocol errors get error replies | `map::at` throws for an unknown name in PART (`Part.cpp:45`) and for a name in another case in JOIN (`Join.cpp:100`), and the server ends |
| `invite_by_anybody` | `InviteNeedsOperator` | `Invite.cpp:61`: on an invite-only channel it is checked whether the inviter may | the test compares iterators of two copies of the map and never holds |
| `invitation_outlives` | `CleanedUp` | `README.md:205`: resources are cleaned up | invitations of deleted clients stay and are dereferenced by later JOINs |
| `segments` | `LinesArrive` | `README.md:68`: all IRC messages arrive in order | a piece without a newline replaces `Client::temp` (`Server.cpp:145`): of a line in three or more segments only the last two are executed |

Met while modelling, part of the models where they concern state, without a run
of their own:

* MODE -o with the operator's nickname in another case makes it an ordinary member
  without taking the rank away (`Mode.cpp:163`).
* Nicknames with upper-case letters cannot be found by INVITE, KICK and PRIVMSG,
  because `GetClientByNickname` does not fold its argument (`server/Server.cpp:92`).
* QUIT leaves all channels but keeps the connection (`README.md:163` says it
  disconnects).
* The channel limit is not checked when a channel is created (`Join.cpp:121`), so that
  a client can be on more channels than the server announces (`Libraries.hpp:43`);
  where it is checked, the count starts at 1, and JOIN lets nobody into a tenth channel
  (`server/Server.cpp:101`). `JoinsRespectChannelLimit` is about JOIN of channels that exist.
* An invitation is never consumed; a limit of 0 admits everybody to JOIN and nobody
  to INVITE.
* -l moves the argument iterator past the end (`Mode.cpp:211`); KICK may go on with a
  deleted channel (`Kick.cpp:104`).
* An operator kicked out of one of its two entries is told that it was kicked and goes
  on getting the channel's messages: `NoGhosts` and `SeeEachOther` are stated from what
  clients believe, so that such a hidden member violates neither.
* A signal between the test of the flag and `poll` is noticed only at the next event
  (`Server.cpp:192`; `README.md:204` promises a clean shutdown on SIGINT and SIGQUIT). `StopsUnlessQuiet`
  says exactly this: the server stops, or blocks with nothing to do.
* The farewell is sent after the descriptors are closed, and each is closed a second
  time (`Server.cpp:316`).
* When `fcntl` fails for an accepted socket, the socket and its `Client` leak
  (`Server.cpp:76`): it is never polled, never closed, and its descriptor does not
  come back; `CloseFds` goes through `clients` and does not reach it. `EntriesMatch`
  and `StopsClean` say that these sockets, and no others, are open beyond the
  clients' and the listening one.
* When `accept` fails the `Client` allocated for it leaks, and `poll` returns at once
  for as long as the connection waits (`Server.cpp:72`). `fcntl`'s result is compared
  with 1 and not with -1 (`Server.cpp:176`).
* A line ended by LF alone keeps the LF in its last word (`Parser.cpp:8`), so that the
  session with `nc` in the repository's README creates a channel `#test` with a
  newline in its name.

## Fairness

`EventLoop!Spec` assumes weak fairness of `Server`, one formula for the one thread of
the process: while it can take a step it eventually does. `poll` with nothing ready
is no step that can be taken, so nothing is claimed of an idle server. Nothing is
assumed of the peers, the user, signals or failing calls: they may do nothing for ever, or act
between any two steps of the server. From this TLC finds that a client's lines are
executed unless its socket stays full or the server goes down (`LinesExecuted`),
that a waiting connection is taken from a full backlog unless descriptors have run out
(`ConnectionsAccepted`), that a signal stops the server unless it is idle
(`StopsUnlessQuiet`), and that fairness for each single client, which `Service`
asks for, follows (`ImplementsService`): the pass visits every entry, and an entry
that an erase makes the pass skip is reached by a later one.

The other specifications are safety specifications: nobody is obliged to send a
command.

## What is proved

The theorems hold for every value of the constants that satisfies the named
assumptions of the modules: descriptors are natural numbers and the listening
socket is none of the clients', the bounds are natural numbers, `Nil` is no address,
words are not empty, case folding maps words to words, channel names to channel
names and only the empty word to the empty word, and folding is
idempotent (only what is proved of `Delivery` uses that).

* `SessionCorrect`: the four invariants of the registry together are inductive
  (`SessionInv`). They need each other: that two clients cannot get one name rests
  on `NickInUse` excluding the issuer by the `fd` stored in its object, which is
  `RegistryConsistent`. `SessionTypeCorrect`, `RegistryStaysConsistent` and
  `NobodySlipsIn` are its parts.
* `ChannelInvariant`: `ChannelInv` is inductive for `Spec`. `MembersLive`, that
  channels never hold a pointer of a client that is gone, is not inductive alone.
  The removals go by nickname in one map and by descriptor in the other; that they
  hit the entries of the leaving client, and all of them, needs unique nicknames
  and registry consistency; that such entries have a nickname at all needs that
  members are logged in, and `Credentialed`. A few lemmas carry the argument:
  `LiveEntry` (what an entry of a live map says), `OneByNick` (a lookup by nickname
  can stop at one entry only), `EraseLive` and `InsertLive` (the maps' updates),
  `OwnNick` and `NoNick` (a member is found under its own descriptor, somebody
  else's nickname finds nothing of it), `WithoutRemoves` (the shared removals), and
  `SetChannelInv`, `SetOrRemoveInv`, `LoopOnlyInv` (the three shapes a step has).
  Then there is one lemma per action and `ChannelStepInv` puts them together.
  Consequences: `TypeCorrect`, `MembersAreLive`, `NicksStayUnique`, `NickFindsSelf`,
  `ChannelNamesStayUnique`, `ChannelsEndEmpty`, `ModeIsSafe`.
* `MembershipImplemented`: `Channels` implements `Membership`. `LeavesWithAuthority`
  and `LeavesCompletely`: nobody is put out of a channel without authority, and
  PART and QUIT leave no entry of their client. All three follow the steps from
  states that satisfy `ChannelInv`. `SetChannelRooms`, `SetOrRemoveRooms` and
  `LeaveAllRooms` turn what a step writes into the pointer maps into what happens
  to the members and operators of the rooms; `ChannelInv` is what lets a removal
  by nickname be read as the removal of one user. Then one lemma per action names
  the step of `Membership`: a KICK is an `Expel` when the client had one entry and
  a `Demote` when it had two (`KickTargetSimulated`), -o is a `Demote` or no step
  at all (`ModeOperatorSimulated`). `StepSimulated` puts them together.
* `LoopInvariant`: `LoopInv` is inductive for the event loop. `EntriesMatch` alone is
  not: that a client is dropped only when it has hung up, and that its entry is the
  one erased, depends on the revents the pass has still to look at. `RestCurrent` says
  of these, and of no others, that they are what the entry asks for and that a
  `POLLIN` among them still has something behind it; it survives an erase in the
  middle of the pass because the entry that moves into the place of the erased one,
  and whose events are overwritten, lies before the index the pass goes on with.
  `VacantClean` and `SocketsOwned` say what a closed descriptor carries over, which
  sockets are open outside the loop, and that a socket given up in `AcceptNewClient` is
  never also a client's. Consequences: `LoopTypeCorrect`,
  `EntriesStayMatched`, `LinesStayAwaited`, `LeavesNothingOpen` and, for steps,
  `NobodyDropped`.
  The theorems hold with a failing `fcntl` at any `accept`: `LeavesNothingOpen` says
  that only the sockets lost this way are open in the end.
* `ServiceRefined`: every step of the event loop is a step of `Service` or changes
  nothing it sees (`SafeSpec => Served!SafeSpec`), for any number of clients and any
  bounds; one lemma per action again. This is the safety half of `ImplementsService`.
* `DeliveryInvariant`: `DeliveryInv` is inductive for `Delivery`. It adds to
  `ChannelInv` the formula `Known`, which states `NoGhosts` and `SeeEachOther` in
  terms of members and nicknames (`KnownIs`). Neither is inductive without the
  other: that a nickname to be struck out is known to nobody who is not sent the
  message is `NoGhosts`, and that a change of nickname reaches everybody who knows
  the old one under that name is `SeeEachOther`. The three ways in which the views
  change have a lemma each, stated without the maps (`LeaveKnown`, `JoinKnown`,
  `NickKnown`); one lemma per announcing action then shows from `ChannelInv` that
  the receivers are all members concerned (`RoomIs`, `QuitReaches`, `NickReaches`)
  and that hearing the message has the effect the lemma asks for. KICK is the one
  that needs folding to be idempotent: it announces the word it was given, and the
  target is found by folding that word again. `DeliveryStepIsNext` says that every
  step is one of `Channels`, so what is proved of `Channels` holds here too.
  Consequences: `DeliveryTypeCorrect`, `NobodySeesGhosts`, `MembersSeeEachOther`,
  `MessagesReachSeen` and `AnnouncedLeavesHaveAuthority`.
* `EntryByInvitation`, `LimitIsKept` and `ChannelLimitOfJoins`, in `AdmissionProofs`: only JOIN lets anybody
  into a channel that exists, and one client at a time (`OnlyByJoin`, with a lemma
  per command), so what JOIN checks is what holds of every entry. That the lookup of
  an invitation by nickname finds the issuer's own rests on unique nicknames
  (`InvitationFound`). `LimitIsKept` assumes finitely many descriptors, which every
  process has, because it counts; an operator that joined twice is counted twice, so
  that the limit errs on the strict side. `ChannelLimitOfJoins` is about entries and not members,
  because an operator may get a second one: only JOIN and the iterations of MODE file an
  entry in `clients` (`EntersByJoin`), and what JOIN counts by nickname in two maps is
  the number of channels the client is on (`CountIs`).

* `LinesExact`: `LineInv` is inductive for `LineBuffer`. The properties of the run are
  not: that a line in two segments arrives whole says nothing of what `temp` holds in
  between. `Exact` says which bytes are executed (`From`): those of the line that come
  after the last but one cut before its end, and it says the same of the line under
  way, which is in `temp`. It counts lines by the position of their LF (`Rank`), so
  that the order is part of it. Below it are two inductions. `SplitBufferPieces`: the
  pieces of a segment, put together, are the segment, and LF stands nowhere but at
  their ends. `SegmentBuffered`: the buffers hold, after each piece, what `From` says
  of the stream up to there (`BufferPiece` is the step; only the last piece of a segment can
  be incomplete, `FromInRest`). `EarlierSame` says that lines received before are not
  affected by what follows. Consequences: `LineTypeCorrect`, `EachLineOnce`, `WholeLinesInTwo`
  (between one cut and the end there is no last but one), and `NothingIsMixed`, which
  needs one thing more: the CR in front of the LF is never lost without the line
  (`FromBetween`, `StrippedLine`). TLC found `LineInv` to hold of all streams of five
  bytes before it was proved.

Induction over data is done with sets. TLAPS cannot use an induction rule whose
hypothesis is an operator. `Induction` in `LineProofs` takes a set of naturals, and a
comprehension gives that set for each hypothesis; `Recursion` derives from it that a
recursive function exists, without which nothing follows from its equation. Both rest on the
well-foundedness of the naturals in the prover's library.

Every safety property of the passing runs is proved. Out of the prover's reach, and
left to TLC, are liveness under fairness and ENABLED, that is `LinesExecuted`,
`ConnectionsAccepted`, `StopsUnlessQuiet` and the fairness half of `ImplementsService`.

## Not modelled

* Splitting a command line into words, `checkname`, and what the replies say
  (`Parser.cpp`, `Libraries.hpp`, PONG): it keeps no state. Words are elements of
  small sets; that the LF of a bare-LF line gets into the last word is part of
  `LineBuffer`'s result and not followed further.
* Replies to the issuer alone, and the announcements of MODE, TOPIC and INVITE: they
  tell nobody who is where.
* A byte NUL in a line, which IRC forbids and at which the C string in
  `ReceiveNewData` ends.
* A partial `send`: a failing one loses the message as a whole.
* The argument check of `main` and the parsing of the port.
* Exhausted memory, in the process and in the kernel (a `poll` that fails for it leaves
  the revents of the pass before); `Commands.cpp`, `Server_Client.cpp` and `Server_Utils.cpp`, which
  are not compiled or empty.
* What happens at the far end of a socket that `AcceptNewClient` has given up. Only
  `EventLoop` has such sockets: in `Sessions` and the modules above it an accepted
  connection always becomes a client, so that the descriptors in use are the clients'
  and `accept` returns the lowest of the others. A `Client` leaked by a failing `accept`
  or `fcntl` is there a cell that `new` does not choose.
