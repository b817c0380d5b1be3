------------------------------- MODULE Service -------------------------------
(***************************************************************************)
(* What the event loop of Server::ServerInit promises its peers, with no   *)
(* descriptor vector, no poll and no pass over it: a connected client is   *)
(* either being read or waiting to be answered; what it sent is taken from *)
(* the socket a chunk at a time and executed before the next chunk is      *)
(* taken; a client is let go when it has closed its side and everything it *)
(* sent has been executed; and as long as the server is up no client is    *)
(* passed over for ever.                                                   *)
(***************************************************************************)
EXTENDS Integers, FiniteSets

CONSTANTS
    Peer,        \* the clients that can be connected at a time
    MaxInput,    \* bound on the chunks of bytes waiting in a socket
    MaxLines     \* bound on the complete lines one chunk brings

VARIABLES
    up,          \* the server is serving
    served,      \* the connected clients
    answering,   \* those whose answer comes before more is read
    lines,       \* complete lines received and not executed, per client
    input,       \* chunks waiting in the client's socket
    hup,         \* the client has closed its side
    writable     \* the client's socket takes an answer

vars == <<up, served, answering, lines, input, hup, writable>>

-----------------------------------------------------------------------------

Init ==
    /\ up = TRUE
    /\ served = {}
    /\ answering = {}
    /\ lines = [p \in Peer |-> 0]
    /\ input = [p \in Peer |-> 0]
    /\ hup = [p \in Peer |-> FALSE]
    /\ writable = [p \in Peer |-> TRUE]

Here(p) == up /\ p \in served

Send(p) ==
    /\ Here(p)
    /\ ~hup[p]
    /\ input[p] < MaxInput
    /\ input' = [input EXCEPT ![p] = @ + 1]
    /\ UNCHANGED <<up, served, answering, lines, hup, writable>>

Hangup(p) ==
    /\ Here(p)
    /\ hup' = [hup EXCEPT ![p] = TRUE]
    /\ UNCHANGED <<up, served, answering, lines, input, writable>>

Drain(p) ==
    /\ Here(p)
    /\ writable' = [writable EXCEPT ![p] = TRUE]
    /\ UNCHANGED <<up, served, answering, lines, input, hup>>

Admit(p) ==
    /\ up
    /\ p \notin served
    /\ served' = served \cup {p}
    /\ UNCHANGED <<up, answering, lines, input, hup, writable>>

Receive(p) ==
    /\ Here(p)
    /\ p \notin answering
    /\ input[p] > 0
    /\ input' = [input EXCEPT ![p] = @ - 1]
    /\ \E n \in 0 .. MaxLines : lines' = [lines EXCEPT ![p] = n]
    /\ answering' = answering \cup {p}
    /\ UNCHANGED <<up, served, hup, writable>>

\* All its lines are executed; what they cause to be sent may fill sockets.
Answer(p) ==
    /\ Here(p)
    /\ p \in answering
    /\ lines' = [lines EXCEPT ![p] = 0]
    /\ answering' = answering \ {p}
    /\ \E full \in SUBSET served :
           /\ lines[p] = 0 => full = {}
           /\ writable' = [q \in Peer |-> writable[q] /\ q \notin full]
    /\ UNCHANGED <<up, served, input, hup>>

AnswerWritable(p) == writable[p] /\ Answer(p)

\* Another client may be turned to answering, with nothing to answer, and
\* sockets may be filled with the news.
Leave(p) ==
    /\ Here(p)
    /\ p \notin answering
    /\ input[p] = 0
    /\ hup[p]
    /\ lines[p] = 0
    /\ served' = served \ {p}
    /\ \E turned \in {{}} \cup {{q} : q \in served \ {p}} :
           answering' = answering \cup turned
    /\ hup' = [hup EXCEPT ![p] = FALSE]
    /\ \E full \in SUBSET (served \ {p}) :
           writable' = [q \in Peer |-> q = p \/ (writable[q] /\ q \notin full)]
    /\ UNCHANGED <<up, lines, input>>

Halt ==
    /\ up
    /\ up' = FALSE
    /\ UNCHANGED <<served, answering, lines, input, hup, writable>>

PeerStep(p) == Send(p) \/ Hangup(p) \/ Drain(p)

ServerStep(p) == Admit(p) \/ Receive(p) \/ Answer(p) \/ Leave(p)

Next == Halt \/ \E p \in Peer : PeerStep(p) \/ ServerStep(p)

SafeSpec == Init /\ [][Next]_vars

\* No client is passed over for ever.
Fairness ==
    \A p \in Peer :
        /\ WF_vars(Receive(p))
        /\ WF_vars(AnswerWritable(p))
        /\ WF_vars(Leave(p))

Spec == SafeSpec /\ Fairness
=============================================================================
