------------------------------ MODULE Sessions ------------------------------
(***************************************************************************)
(* The client registry of the server and the registration handshake: the   *)
(* map `clients` from descriptors to Client objects (Server.hpp), the heap *)
(* those objects live in, the commands PASS, NICK and USER, and the check  *)
(* at the end of a POLLOUT event that logs a client in.                    *)
(*                                                                         *)
(* A std::map<int, Client *> is a function from Fd to addresses in which   *)
(* Nil stands for an absent key; the keys are visited in ascending order.  *)
(* Memory is modelled by address, because a deleted Client's cell can be   *)
(* handed out again by a later `new Client()` while some other map still   *)
(* holds the old pointer.                                                  *)
(*                                                                         *)
(* The server is one thread.  `turn` is the descriptor whose received      *)
(* lines the POLLOUT branch of Server::ServerInit is executing, or NoFd    *)
(* between two events; no other client acts during a turn.                 *)
(*                                                                         *)
(* A command the code answers with an error reply changes none of these    *)
(* variables: it is a stuttering step, and the condition under which the   *)
(* code refuses is the negation of the action's guard.                     *)
(***************************************************************************)
EXTENDS Integers, FiniteSetsExt

CONSTANTS
    Fd,          \* descriptors the kernel can return from accept()
    Addr,        \* heap cells that can hold a Client object
    Nil,         \* the null pointer
    NickWord,    \* words a peer may send as a nickname
    Lower,       \* toLowerString on nicknames, as a function
    UserWord,    \* words a peer may send as a user name
    PassWord,    \* words a peer may send as a password
    ServerPass   \* the password given on the command line, "" for none

ASSUME FdAssumption == Fd \subseteq Nat

ASSUME AddrAssumption == Nil \notin Addr

ASSUME WordAssumption == "" \notin NickWord \cup UserWord \cup PassWord

ASSUME LowerAssumption ==
    /\ Lower \in [NickWord \cup {""} -> NickWord \cup {""}]
    /\ \A n \in NickWord \cup {""} : Lower[n] = "" <=> n = ""

VARIABLES
    clients,     \* Server::clients, descriptor -> address
    heap,        \* the Client object in each cell
    turn         \* the client whose lines are being executed

sessionVars == <<clients, heap, turn>>

-----------------------------------------------------------------------------

NoFd == -1

Pointer == Addr \cup {Nil}

Client == [fd       : Fd \cup {NoFd},
           nickname : NickWord \cup {""},
           username : UserWord \cup {""},
           password : {"", ServerPass},
           log      : BOOLEAN]

\* What the constructor leaves, and the canonical content of a free cell.
NewClient == [fd |-> NoFd, nickname |-> "", username |-> "",
              password |-> "", log |-> FALSE]

Keys(m) == {k \in DOMAIN m : m[k] # Nil}

Connected == Keys(clients)

Live == {clients[fd] : fd \in Connected}

GetClient(fd) == heap[clients[fd]]

SetClient(fd, obj) == heap' = [heap EXCEPT ![clients[fd]] = obj]

PasswordOk(obj) == ServerPass = "" \/ obj.password = ServerPass

-----------------------------------------------------------------------------

SessionInit ==
    /\ clients = [fd \in Fd |-> Nil]
    /\ heap = [a \in Addr |-> NewClient]
    /\ turn = NoFd

\* Variant: the new object is not told its descriptor (SetFd forgotten).
AcceptWithoutFd(fd, a) ==
    /\ turn = NoFd
    /\ fd \in Fd \ Connected
    /\ \A g \in Fd \ Connected : fd <= g
    /\ a \in Addr \ Live
    /\ clients' = [clients EXCEPT ![fd] = a]
    /\ heap' = [heap EXCEPT ![a] = NewClient]
    /\ UNCHANGED turn

\* The kernel returns the lowest free descriptor; `new` any free cell.
AcceptNewClient(fd, a) ==
    /\ turn = NoFd
    /\ fd \in Fd \ Connected
    /\ \A g \in Fd \ Connected : fd <= g
    /\ a \in Addr \ Live
    /\ clients' = [clients EXCEPT ![fd] = a]
    /\ heap' = [heap EXCEPT ![a] = [NewClient EXCEPT !.fd = fd]]
    /\ UNCHANGED turn

\* A POLLOUT event for fd: the lines it sent are about to be executed.
BeginTurn(fd) ==
    /\ turn = NoFd
    /\ fd \in Connected
    /\ turn' = fd
    /\ UNCHANGED <<clients, heap>>

Pass(fd, word) ==
    /\ turn = fd
    /\ GetClient(fd).password # ServerPass
    /\ word = ServerPass
    /\ SetClient(fd, [GetClient(fd) EXCEPT !.password = word])
    /\ UNCHANGED <<clients, turn>>

\* Variant: nicknames are compared without folding case.
NickInUseExact(fd, word) ==
    \E g \in Connected : /\ GetClient(g).nickname = word
                         /\ GetClient(g).fd # fd

NickInUse(fd, word) ==
    \E g \in Connected : /\ Lower[GetClient(g).nickname] = Lower[word]
                         /\ GetClient(g).fd # fd

\* Variant: the password is not asked for before the nickname is set.
NickWithoutPass(fd, word) ==
    /\ turn = fd
    /\ ~NickInUse(fd, word)
    /\ SetClient(fd, [GetClient(fd) EXCEPT !.nickname = word])
    /\ UNCHANGED <<clients, turn>>

Nick(fd, word) ==
    /\ turn = fd
    /\ PasswordOk(GetClient(fd))
    /\ ~NickInUse(fd, word)
    /\ SetClient(fd, [GetClient(fd) EXCEPT !.nickname = word])
    /\ UNCHANGED <<clients, turn>>

\* A USER line whose second and third arguments are not "0" and "*", or
\* that has fewer than four, is refused and so is a stuttering step.
User(fd, word) ==
    /\ turn = fd
    /\ PasswordOk(GetClient(fd))
    /\ ~GetClient(fd).log
    /\ SetClient(fd, [GetClient(fd) EXCEPT !.username = word])
    /\ UNCHANGED <<clients, turn>>

MayLogIn(obj) ==
    /\ obj.nickname # ""
    /\ obj.username # ""
    /\ ~obj.log
    /\ PasswordOk(obj)

\* The lines are executed: the authentication check, then VectReset.
EndTurn(fd) ==
    /\ turn = fd
    /\ turn' = NoFd
    /\ SetClient(fd, [GetClient(fd) EXCEPT !.log = @ \/ MayLogIn(GetClient(fd))])
    /\ UNCHANGED clients

\* Variant: a client may be deleted while its own lines are executed.
DropDuringTurn(fd) ==
    /\ fd \in Connected
    /\ clients' = [clients EXCEPT ![fd] = Nil]
    /\ SetClient(fd, NewClient)
    /\ UNCHANGED turn

\* ClearClients, close and delete: the cell goes back to the allocator.
DropClient(fd) ==
    /\ turn = NoFd
    /\ fd \in Connected
    /\ clients' = [clients EXCEPT ![fd] = Nil]
    /\ SetClient(fd, NewClient)
    /\ UNCHANGED turn

Register(fd) ==
    \/ \E word \in PassWord : Pass(fd, word)
    \/ \E word \in NickWord : Nick(fd, word)
    \/ \E word \in UserWord : User(fd, word)

SessionNext ==
    \E fd \in Fd :
        \/ \E a \in Addr : AcceptNewClient(fd, a)
        \/ BeginTurn(fd)
        \/ Register(fd)
        \/ EndTurn(fd)
        \/ DropClient(fd)

SessionSpec == SessionInit /\ [][SessionNext]_sessionVars

-----------------------------------------------------------------------------

\* Every variable holds a value of its type, and only a connected client
\* has a turn, so that Server::GetClient's map::at cannot throw in Handler.
SessionTypeOK ==
    /\ clients \in [Fd -> Pointer]
    /\ heap \in [Addr -> Client]
    /\ turn \in Connected \cup {NoFd}

\* Server::clients and the objects agree: the object filed under a
\* descriptor carries that descriptor, so two descriptors never share an
\* object and ClearClients removes the entry of the client that left.
RegistryConsistent == \A fd \in Connected : GetClient(fd).fd = fd

\* No two connected clients have nicknames equal up to case, whatever the
\* order of NICK commands, disconnections and reconnections: channel code
\* finds its own entries by nickname and relies on it.
NicksUnique ==
    \A f, g \in Connected :
        /\ GetClient(f).nickname # ""
        /\ Lower[GetClient(f).nickname] = Lower[GetClient(g).nickname]
        => f = g

\* Nobody gets a nickname, a user name or a login without the server's
\* password, in whatever order and in however many batches PASS, NICK and
\* USER arrive, and a logged-in client has both names.
Credentialed ==
    \A fd \in Connected :
        LET c == GetClient(fd)
        IN  /\ c.nickname # "" \/ c.username # "" => PasswordOk(c)
            /\ c.log => c.nickname # "" /\ c.username # ""

SessionInv ==
    /\ SessionTypeOK
    /\ RegistryConsistent
    /\ NicksUnique
    /\ Credentialed
=============================================================================
