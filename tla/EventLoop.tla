------------------------------ MODULE EventLoop ------------------------------
(***************************************************************************)
(* The event loop of Server::ServerInit: the vector `fds` given to poll(), *)
(* the pass over it that accepts, receives, executes and erases while it   *)
(* iterates, the signal flag that ends the loop, start-up and shutdown.    *)
(*                                                                         *)
(* What the lines say is left to Sessions and Channels: here a client has  *)
(* a number of complete lines (Client::vect), and executing them may throw *)
(* or fill sockets with what it sends.  A socket holds a number of chunks, *)
(* a chunk being what one recv() of at most 1023 bytes takes.              *)
(*                                                                         *)
(* poll() is level-triggered.  It reports POLLIN when there is something   *)
(* to read, or the end of the stream, and POLLOUT when the socket takes an *)
(* answer; an entry asks for exactly one of the two.  A signal that comes  *)
(* while the server is blocked in poll() interrupts it (all revents are 0  *)
(* then); at any other moment the handler only sets the flag.              *)
(*                                                                         *)
(* Values nobody will read are put back to their initial value: revents    *)
(* at the end of a pass, and what belongs to a descriptor when it closes.  *)
(***************************************************************************)
EXTENDS Integers, FiniteSetsExt, SequencesExt

CONSTANTS
    Fd,          \* descriptors the kernel can return from accept()
    Listen,      \* server_socket
    MaxInput,    \* bound on the chunks waiting in a socket
    MaxLines,    \* bound on the complete lines one chunk brings
    MaxBacklog   \* bound on the connections waiting to be accepted

ASSUME DescriptorAssumption == Fd \subseteq Nat /\ Listen \in Nat \ Fd

ASSUME BoundAssumption ==
    /\ MaxInput \in Nat
    /\ MaxLines \in Nat
    /\ MaxBacklog \in Nat

VARIABLES
    pc,          \* where the server thread is
    signal,      \* Server::signal
    i,           \* the index of the pass, from 1; 0 outside a pass
    fds,         \* Server::fds
    clients,     \* the keys of Server::clients
    pending,     \* the length of each Client::vect
    open,        \* the sockets the kernel has open for the server
    lost,        \* history: those the server has accepted and forgotten
    backlog,     \* connections that wait for accept()
    input,       \* chunks waiting in a socket
    hup,         \* the peer has closed its side
    writable     \* the socket takes data

loopVars == <<pc, signal, i>>

serverVars == <<fds, clients, pending>>

socketVars == <<open, lost, backlog, input, hup, writable>>

vars == <<loopVars, serverVars, socketVars>>

-----------------------------------------------------------------------------

PollFd == [fd : Fd \cup {Listen}, events : {"IN", "OUT"},
           revents : {"none", "IN", "OUT"}]

Entry(fd) == [fd |-> fd, events |-> "IN", revents |-> "none"]

\* The while loop of ServerInit, from its condition to the end of a pass.
Looping == pc \in {"check", "entering", "polling", "pass"}

Up == Looping \/ pc = "starting"

Halted == pc \in {"stopped", "failed"}

Readable(fd) ==
    IF fd = Listen THEN backlog > 0 ELSE input[fd] > 0 \/ hup[fd]

Ready(e) ==
    IF e.events = "IN" THEN Readable(e.fd) ELSE writable[e.fd]

\* What poll() writes into the vector.
Polled ==
    [j \in DOMAIN fds |->
        [fds[j] EXCEPT !.revents = IF Ready(fds[j]) THEN fds[j].events ELSE "none"]]

NotPolled == [j \in DOMAIN fds |-> [fds[j] EXCEPT !.revents = "none"]]

\* fds[j].events = ev; beyond the end it writes a slot of the vector's
\* storage that the next push_back overwrites.
WithEvents(s, j, ev) ==
    IF j \in DOMAIN s THEN [s EXCEPT ![j].events = ev] ELSE s

\* ClearClients takes out the first entry of the descriptor.
Erase(s, fd) ==
    LET at == {j \in DOMAIN s : s[j].fd = fd}
    IN  IF at = {} THEN s ELSE RemoveAt(s, Min(at))

-----------------------------------------------------------------------------

Init ==
    /\ pc = "starting"
    /\ signal = FALSE
    /\ i = 0
    /\ fds = <<>>
    /\ clients = {}
    /\ pending = [fd \in Fd |-> 0]
    /\ open = {}
    /\ lost = {}
    /\ backlog = 0
    /\ input = [fd \in Fd |-> 0]
    /\ hup = [fd \in Fd |-> FALSE]
    /\ writable = [fd \in Fd |-> TRUE]

-----------------------------------------------------------------------------
\* The peers and the user.  Nothing obliges them to do anything.

Connect ==
    /\ Looping
    /\ backlog < MaxBacklog
    /\ backlog' = backlog + 1
    /\ UNCHANGED <<loopVars, serverVars, open, lost, input, hup, writable>>

Send(fd) ==
    /\ Up
    /\ fd \in clients
    /\ ~hup[fd]
    /\ input[fd] < MaxInput
    /\ input' = [input EXCEPT ![fd] = @ + 1]
    /\ UNCHANGED <<loopVars, serverVars, open, lost, backlog, hup, writable>>

Hangup(fd) ==
    /\ Up
    /\ fd \in clients
    /\ hup' = [hup EXCEPT ![fd] = TRUE]
    /\ UNCHANGED <<loopVars, serverVars, open, lost, backlog, input, writable>>

\* The peer reads what it was sent, or resets the connection.
Drain(fd) ==
    /\ Up
    /\ fd \in clients
    /\ writable' = [writable EXCEPT ![fd] = TRUE]
    /\ UNCHANGED <<loopVars, serverVars, open, lost, backlog, input, hup>>

\* poll() returns -1 and the flag is set: a pass over empty revents.
Interrupted == pc' = "pass" /\ i' = 1 /\ fds' = NotPolled

\* SIGINT or SIGQUIT.
Signal ==
    /\ Up
    /\ signal' = TRUE
    /\ IF pc = "polling" THEN Interrupted ELSE UNCHANGED <<pc, i, fds>>
    /\ UNCHANGED <<clients, pending, socketVars>>

\* SIGPIPE interrupts poll(), and its handler leaves the flag as it is:
\* ServerInit throws, unless another signal has set the flag already.
PollFails ==
    /\ pc = "polling"
    /\ IF signal THEN Interrupted ELSE pc' = "unwinding" /\ UNCHANGED <<i, fds>>
    /\ UNCHANGED <<signal, clients, pending, socketVars>>

-----------------------------------------------------------------------------
\* The server thread

\* socket, setsockopt, bind and listen; the handlers are installed already.
Start ==
    /\ pc = "starting"
    /\ pc' = "check"
    /\ open' = {Listen}
    /\ fds' = <<Entry(Listen)>>
    /\ UNCHANGED <<signal, i, clients, pending, lost, backlog, input, hup, writable>>

\* One of them fails and ServerInit throws, with or without a socket.
StartThrows ==
    /\ pc = "starting"
    /\ pc' = "unwinding"
    /\ open' \in {{}, {Listen}}
    /\ UNCHANGED <<signal, i, serverVars, lost, backlog, input, hup, writable>>

\* Variant: for ( ; ; ) instead of while (signal == false).
CheckNothing ==
    /\ pc = "check"
    /\ pc' = "entering"
    /\ UNCHANGED <<signal, i, serverVars, socketVars>>

CheckSignal ==
    /\ pc = "check"
    /\ pc' = IF signal THEN "closing" ELSE "entering"
    /\ UNCHANGED <<signal, i, serverVars, socketVars>>

EnterPoll ==
    /\ pc = "entering"
    /\ pc' = "polling"
    /\ UNCHANGED <<signal, i, serverVars, socketVars>>

\* Variant: the pass starts with the second entry.
PollSkipsFirst ==
    /\ pc = "polling"
    /\ \E j \in DOMAIN fds : Ready(fds[j])
    /\ pc' = "pass"
    /\ i' = 2
    /\ fds' = Polled
    /\ UNCHANGED <<signal, clients, pending, socketVars>>

PollReturns ==
    /\ pc = "polling"
    /\ \E j \in DOMAIN fds : Ready(fds[j])
    /\ pc' = "pass"
    /\ i' = 1
    /\ fds' = Polled
    /\ UNCHANGED <<signal, clients, pending, socketVars>>

\* Variant: a pass handles one event only.
VisitOne(revents) ==
    /\ pc = "pass"
    /\ i <= Len(fds)
    /\ fds[i].revents = revents
    /\ i' = IF revents = "none" THEN i + 1 ELSE Len(fds) + 2
    /\ UNCHANGED <<pc, signal>>

\* The iteration for fds[i]; the loop compares i with the size it has now.
Visit(revents) ==
    /\ pc = "pass"
    /\ i <= Len(fds)
    /\ fds[i].revents = revents
    /\ i' = i + 1
    /\ UNCHANGED <<pc, signal>>

Skip == Visit("none") /\ UNCHANGED <<serverVars, socketVars>>

\* Variant: the new entry's revents are not initialised.
AcceptUninitialised ==
    /\ Visit("IN")
    /\ fds[i].fd = Listen
    /\ \E fd \in Fd \ open :
           /\ \A g \in Fd \ open : fd <= g
           /\ clients' = clients \cup {fd}
           /\ open' = open \cup {fd}
           /\ fds' = Append(fds, [Entry(fd) EXCEPT !.revents = "IN"])
           /\ backlog' = backlog - 1
    /\ UNCHANGED <<pending, lost, input, hup, writable>>

\* accept() fails when no descriptor is free or the connection is gone.
AcceptFails ==
    /\ backlog = 0 \/ Fd \subseteq open
    /\ UNCHANGED <<serverVars, open, lost, backlog>>

\* accept() returns the lowest free descriptor.  When fcntl() fails for it
\* nothing more is done: the socket stays open and nobody knows it.
AcceptOne ==
    /\ backlog > 0
    /\ \E fd \in Fd \ open :
           /\ \A g \in Fd \ open : fd <= g
           /\ open' = open \cup {fd}
           /\ \/ /\ clients' = clients \cup {fd}
                 /\ fds' = Append(fds, Entry(fd))
                 /\ UNCHANGED lost
              \/ /\ lost' = lost \cup {fd}
                 /\ UNCHANGED <<clients, fds>>
    /\ backlog' = backlog - 1
    /\ UNCHANGED pending

AcceptNewClient ==
    /\ Visit("IN")
    /\ fds[i].fd = Listen
    /\ AcceptFails \/ AcceptOne
    /\ UNCHANGED <<input, hup, writable>>

\* Variant: the entry keeps asking for POLLIN.
ReceiveAndStay(fd) ==
    /\ Visit("IN")
    /\ fds[i].fd = fd
    /\ input[fd] > 0
    /\ input' = [input EXCEPT ![fd] = @ - 1]
    /\ \E n \in 0 .. MaxLines : pending' = [pending EXCEPT ![fd] = n]
    /\ UNCHANGED <<fds, clients, open, lost, backlog, hup, writable>>

\* Variant: what recv() returned is not looked at.
ReceiveUnchecked(fd) ==
    /\ Visit("IN")
    /\ fds[i].fd = fd
    /\ input' = [input EXCEPT ![fd] = @ - 1]
    /\ fds' = WithEvents(fds, i, "OUT")
    /\ UNCHANGED <<clients, pending, open, lost, backlog, hup, writable>>

\* recv() returns data: some complete lines are queued.
Receive(fd) ==
    /\ Visit("IN")
    /\ fds[i].fd = fd
    /\ input[fd] > 0
    /\ input' = [input EXCEPT ![fd] = @ - 1]
    /\ \E n \in 0 .. MaxLines : pending' = [pending EXCEPT ![fd] = @ + n]
    /\ fds' = WithEvents(fds, i, "OUT")
    /\ UNCHANGED <<clients, open, lost, backlog, hup, writable>>

\* The QUIT sent to the channels of fd may fill the sockets of others.
QuitFills(fd) ==
    \E full \in SUBSET (clients \ {fd}) :
        writable' = [g \in Fd |-> g = fd \/ (writable[g] /\ g \notin full)]

\* Variant: the client is forgotten before its entry is looked for.
DisconnectKeepingEntry(fd) ==
    /\ Visit("IN")
    /\ fds[i].fd = fd
    /\ input[fd] = 0
    /\ clients' = clients \ {fd}
    /\ open' = open \ {fd}
    /\ fds' = WithEvents(fds, i, "OUT")
    /\ pending' = [pending EXCEPT ![fd] = 0]
    /\ hup' = [hup EXCEPT ![fd] = FALSE]
    /\ QuitFills(fd)
    /\ UNCHANGED <<lost, backlog, input>>

\* recv() returns the end of the stream, or EAGAIN when there is nothing to
\* read.  The entry is erased, so fds[i] is the next client's afterwards:
\* that one's events are set, and its revents are not looked at.
Disconnect(fd) ==
    /\ Visit("IN")
    /\ fds[i].fd = fd
    /\ input[fd] = 0
    /\ clients' = clients \ {fd}
    /\ open' = open \ {fd}
    /\ fds' = WithEvents(Erase(fds, fd), i, "OUT")
    /\ pending' = [pending EXCEPT ![fd] = 0]
    /\ hup' = [hup EXCEPT ![fd] = FALSE]
    /\ QuitFills(fd)
    /\ UNCHANGED <<lost, backlog, input>>

\* Every queued line is executed, then VectReset; what the handlers send
\* may fill the sockets of any clients.
Serve(fd) ==
    /\ Visit("OUT")
    /\ fds[i].fd = fd
    /\ pending' = [pending EXCEPT ![fd] = 0]
    /\ fds' = WithEvents(fds, i, "IN")
    /\ \E full \in IF pending[fd] = 0 THEN {{}} ELSE SUBSET clients :
           writable' = [g \in Fd |-> writable[g] /\ g \notin full]
    /\ UNCHANGED <<clients, open, lost, backlog, input, hup>>

\* map::at throws in one of the handlers; main catches.
ServeThrows(fd) ==
    /\ pc = "pass"
    /\ i <= Len(fds)
    /\ fds[i].fd = fd
    /\ fds[i].revents = "OUT"
    /\ pending[fd] > 0
    /\ pc' = "unwinding"
    /\ UNCHANGED <<signal, i, serverVars, socketVars>>

PassEnds ==
    /\ pc = "pass"
    /\ i > Len(fds)
    /\ pc' = "check"
    /\ i' = 0
    /\ fds' = NotPolled
    /\ UNCHANGED <<signal, clients, pending, socketVars>>

-----------------------------------------------------------------------------
\* Shutdown

\* Variant: only the listening socket is closed.
CloseListening ==
    /\ pc \in {"closing", "unwinding"}
    /\ open' = open \ {Listen}
    /\ pc' = IF pc = "closing" THEN "goodbye" ELSE "failed"
    /\ UNCHANGED <<signal, i, serverVars, lost, backlog, input, hup, writable>>

\* Called at the end of ServerInit and, after an exception, by main.
CloseFds ==
    /\ pc \in {"closing", "unwinding"}
    /\ open' = open \ (clients \cup {Listen})
    /\ pc' = IF pc = "closing" THEN "goodbye" ELSE "failed"
    /\ UNCHANGED <<signal, i, serverVars, lost, backlog, input, hup, writable>>

\* closeClientConnections and cleanupChannels: the farewell goes to closed
\* descriptors and reaches nobody, and each is closed a second time.
CloseClientConnections ==
    /\ pc = "goodbye"
    /\ open' = open \ clients
    /\ pc' = "stopped"
    /\ UNCHANGED <<signal, i, serverVars, lost, backlog, input, hup, writable>>

-----------------------------------------------------------------------------

PeerStep(fd) == Send(fd) \/ Hangup(fd) \/ Drain(fd)

Outside == Connect \/ Signal \/ PollFails \/ \E fd \in Fd : PeerStep(fd)

PassStep ==
    \/ Skip
    \/ AcceptNewClient
    \/ \E fd \in Fd : Receive(fd) \/ Disconnect(fd) \/ Serve(fd) \/ ServeThrows(fd)
    \/ PassEnds

Server == Start \/ StartThrows \/ CheckSignal \/ EnterPoll \/ PollReturns \/ PassStep
          \/ CloseFds \/ CloseClientConnections

Next == Outside \/ Server

SafeSpec == Init /\ [][Next]_vars

\* The one thread of the process keeps running while it can.
Spec == SafeSpec /\ WF_vars(Server)

-----------------------------------------------------------------------------
\* Properties

\* Every variable holds a value of its type.
TypeOK ==
    /\ pc \in {"starting", "check", "entering", "polling", "pass", "unwinding",
               "closing", "goodbye", "stopped", "failed"}
    /\ signal \in BOOLEAN
    /\ i \in Nat
    /\ fds \in Seq(PollFd)
    /\ clients \subseteq Fd
    /\ pending \in [Fd -> Nat]
    /\ open \subseteq Fd \cup {Listen}
    /\ lost \subseteq Fd
    /\ backlog \in Nat
    /\ input \in [Fd -> Nat]
    /\ hup \in [Fd -> BOOLEAN]
    /\ writable \in [Fd -> BOOLEAN]

\* The vector has exactly one entry for the listening socket, in front, and
\* one for each client of the map, and these are the open sockets but for
\* those that AcceptNewClient gave up on: accepting and erasing in the middle
\* of a pass leaves no entry of a closed socket (GetClient would throw for it)
\* and no client that is not polled.
EntriesMatch ==
    Looping =>
        /\ open = clients \cup {Listen} \cup lost
        /\ {fds[j].fd : j \in DOMAIN fds} = clients \cup {Listen}
        /\ \A j, k \in DOMAIN fds : fds[j].fd = fds[k].fd => j = k
        /\ fds # <<>>
        /\ fds[1].fd = Listen /\ fds[1].events = "IN"

\* A client with complete lines is waiting for POLLOUT, the only event at
\* which they are executed, although the disconnection of another client
\* writes into its entry.
LinesAwaitPollout ==
    \A j \in DOMAIN fds :
        fds[j].fd \in Fd /\ pending[fds[j].fd] > 0 => fds[j].events = "OUT"

\* A client is dropped only after it has closed its side and all it sent has
\* been received and executed; no entry is read on a stale revents, which
\* would make EAGAIN of recv() look like a lost connection.
NothingDropped ==
    [][\A fd \in clients \ clients' : hup[fd] /\ input[fd] = 0 /\ pending[fd] = 0]_vars

\* When the server has stopped, by a signal or by an exception, it has closed
\* every socket but those it had lost track of when fcntl() failed.
StopsClean == Halted => open = lost

\* Complete lines are executed eventually, unless the socket is full or the
\* server is stopping.
LinesExecuted ==
    \A fd \in Fd : pending[fd] > 0 ~> pending[fd] = 0 \/ ~writable[fd] \/ ~Up

\* A waiting connection is taken eventually, unless descriptors have run out
\* (those of lost sockets never come back) or the server is stopping,
\* whatever the connected clients do.
ConnectionsAccepted ==
    backlog = MaxBacklog ~> backlog < MaxBacklog \/ Fd \subseteq open \/ ~Up

Quiet == pc = "polling" /\ \A j \in DOMAIN fds : ~Ready(fds[j])

\* After a signal the server stops, unless it blocks in poll() with nothing
\* to do: the handler may run between the test of the flag and poll().
StopsUnlessQuiet == signal ~> Halted \/ Quiet

Answering ==
    {fd \in Fd : \E j \in DOMAIN fds : fds[j].fd = fd /\ fds[j].events = "OUT"}

Served ==
    INSTANCE Service WITH
        Peer <- Fd,
        up <- Up,
        served <- clients,
        answering <- Answering,
        lines <- pending

\* The loop serves every client as the abstract service promises; in
\* particular a client whose entry moves when others leave is not passed
\* over for ever.
ImplementsService == Served!Spec

=============================================================================
