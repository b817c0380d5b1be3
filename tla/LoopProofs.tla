----------------------------- MODULE LoopProofs -----------------------------
(***************************************************************************)
(* The event loop keeps its descriptor vector, its map of clients and the  *)
(* open sockets in agreement, drops nobody it has not finished with, and   *)
(* closes every socket it knows of, for any number of descriptors and any  *)
(* bounds; and every step of it is one of the abstract service's, or none. *)
(***************************************************************************)
EXTENDS EventLoop, SequenceTheorems, TLAPS

-----------------------------------------------------------------------------
\* The inductive invariant

\* What a descriptor that is nobody's carries over to its next client.
VacantClean ==
    \A fd \in Fd \ clients : pending[fd] = 0 /\ ~hup[fd] /\ writable[fd]

\* An entry's revents, as long as the pass has still to look at it: it is
\* what the entry asks for, and if that is POLLIN then there is something to
\* read.  This is what an erasure in the middle of the pass could spoil.
Current(e) ==
    e.revents # "none" =>
        /\ e.revents = e.events
        /\ e.fd \in Fd /\ e.revents = "IN" => input[e.fd] > 0 \/ hup[e.fd]

RestCurrent ==
    pc = "pass" =>
        /\ i >= 1
        /\ \A j \in DOMAIN fds : j >= i => Current(fds[j])

\* The sockets that can be open before, during and after the loop.
SocketsOwned ==
    /\ lost \subseteq open \ clients
    /\ open \subseteq clients \cup {Listen} \cup lost
    /\ pc = "starting" => fds = <<>> /\ clients = {} /\ open = {}
    /\ pc = "goodbye" \/ Halted => open = lost

LoopInv ==
    /\ TypeOK
    /\ EntriesMatch
    /\ LinesAwaitPollout
    /\ VacantClean
    /\ RestCurrent
    /\ SocketsOwned

-----------------------------------------------------------------------------
\* The vector

\* What is left of a sequence without its n-th element.
LEMMA RemoveAtIs ==
    ASSUME NEW S, NEW s \in Seq(S), NEW n \in 1 .. Len(s)
    PROVE  /\ RemoveAt(s, n) \in Seq(S)
           /\ Len(RemoveAt(s, n)) = Len(s) - 1
           /\ \A k \in 1 .. Len(s) - 1 :
                  RemoveAt(s, n)[k] = IF k < n THEN s[k] ELSE s[k + 1]
<1> DEFINE a == SubSeq(s, 1, n - 1)
           b == SubSeq(s, n + 1, Len(s))
<1>1. Len(s) \in Nat /\ \A k \in 1 .. Len(s) : s[k] \in S
  BY LenProperties, ElementOfSeq
<1>2. /\ a \in Seq(S)
      /\ Len(a) = n - 1
      /\ \A k \in 1 .. n - 1 : a[k] = s[k]
  <2>1. n - 1 \in Int /\ \A k \in 1 .. n - 1 : s[k] \in S
    BY <1>1
  <2>2. /\ a \in Seq(S)
        /\ Len(a) = IF 1 <= n - 1 THEN (n - 1) - 1 + 1 ELSE 0
        /\ \A k \in 1 .. (n - 1) - 1 + 1 : a[k] = s[1 + k - 1]
    BY <2>1, SubSeqProperties
  <2> HIDE DEF a
  <2> QED BY <2>2, <1>1
<1>3. /\ b \in Seq(S)
      /\ Len(b) = Len(s) - n
      /\ \A k \in 1 .. Len(s) - n : b[k] = s[n + k]
  <2>1. n + 1 \in Int /\ Len(s) \in Int /\ \A k \in n + 1 .. Len(s) : s[k] \in S
    BY <1>1
  <2>2. /\ b \in Seq(S)
        /\ Len(b) = IF n + 1 <= Len(s) THEN Len(s) - (n + 1) + 1 ELSE 0
        /\ \A k \in 1 .. Len(s) - (n + 1) + 1 : b[k] = s[(n + 1) + k - 1]
    BY <2>1, SubSeqProperties
  <2> HIDE DEF b
  <2> QED BY <2>2, <1>1
<1>4. RemoveAt(s, n) = a \o b
  BY DEF RemoveAt
<1> HIDE DEF a, b
<1>5. /\ a \o b \in Seq(S)
      /\ Len(a \o b) = Len(a) + Len(b)
      /\ \A k \in 1 .. Len(a) + Len(b) : (a \o b)[k] = IF k <= Len(a) THEN a[k] ELSE b[k - Len(a)]
  BY <1>2, <1>3, ConcatProperties
<1> QED BY <1>1, <1>2, <1>3, <1>4, <1>5

\* Setting events changes nothing else of the vector.
LEMMA WithEventsIs ==
    ASSUME NEW s \in Seq(PollFd), NEW j \in Nat, NEW ev \in {"IN", "OUT"}
    PROVE  /\ WithEvents(s, j, ev) \in Seq(PollFd)
           /\ Len(WithEvents(s, j, ev)) = Len(s)
           /\ \A k \in 1 .. Len(s) :
                  /\ WithEvents(s, j, ev)[k].fd = s[k].fd
                  /\ WithEvents(s, j, ev)[k].revents = s[k].revents
                  /\ WithEvents(s, j, ev)[k].events = IF k = j THEN ev ELSE s[k].events
<1>1. DOMAIN s = 1 .. Len(s) /\ \A k \in 1 .. Len(s) : s[k] \in PollFd
  BY LenProperties, ElementOfSeq
<1>2. CASE j \notin DOMAIN s
  BY <1>1, <1>2 DEF WithEvents
<1>3. CASE j \in DOMAIN s
  <2>1. [s[j] EXCEPT !.events = ev] \in PollFd
    BY <1>1, <1>3 DEF PollFd
  <2>2. WithEvents(s, j, ev) = [s EXCEPT ![j] = [s[j] EXCEPT !.events = ev]]
    BY <1>3 DEF WithEvents
  <2>3. /\ WithEvents(s, j, ev) \in Seq(PollFd)
        /\ Len(WithEvents(s, j, ev)) = Len(s)
        /\ \A k \in 1 .. Len(s) :
              WithEvents(s, j, ev)[k] = IF k = j THEN [s[j] EXCEPT !.events = ev] ELSE s[k]
    BY <1>1, <1>3, <2>1, <2>2, ExceptSeq
  <2> QED BY <1>1, <2>3 DEF PollFd
<1> QED BY <1>2, <1>3

\* Both results of poll() keep the length, the descriptors and the events.
LEMMA PolledIs ==
    ASSUME fds \in Seq(PollFd)
    PROVE  /\ Polled \in Seq(PollFd) /\ NotPolled \in Seq(PollFd)
           /\ Len(Polled) = Len(fds) /\ Len(NotPolled) = Len(fds)
           /\ \A k \in 1 .. Len(fds) :
                 /\ Polled[k].fd = fds[k].fd /\ NotPolled[k].fd = fds[k].fd
                 /\ Polled[k].events = fds[k].events /\ NotPolled[k].events = fds[k].events
                 /\ NotPolled[k].revents = "none"
                 /\ Polled[k].revents = IF Ready(fds[k]) THEN fds[k].events ELSE "none"
<1>1. DOMAIN fds = 1 .. Len(fds) /\ Len(fds) \in Nat /\ \A k \in 1 .. Len(fds) : fds[k] \in PollFd
  BY LenProperties, ElementOfSeq
<1>2. \A k \in 1 .. Len(fds), r \in {"none", "IN", "OUT"} :
         /\ [fds[k] EXCEPT !.revents = r] \in PollFd
         /\ [fds[k] EXCEPT !.revents = r].fd = fds[k].fd
         /\ [fds[k] EXCEPT !.revents = r].events = fds[k].events
         /\ [fds[k] EXCEPT !.revents = r].revents = r
  BY <1>1 DEF PollFd
<1>3. /\ Polled \in [1 .. Len(fds) -> PollFd]
      /\ \A k \in 1 .. Len(fds) :
           Polled[k] = [fds[k] EXCEPT !.revents = IF Ready(fds[k]) THEN fds[k].events ELSE "none"]
  <2>1. \A k \in 1 .. Len(fds) :
           (IF Ready(fds[k]) THEN fds[k].events ELSE "none") \in {"none", "IN", "OUT"}
    BY <1>1 DEF PollFd
  <2> QED BY <1>1, <1>2, <2>1 DEF Polled
<1>4. /\ NotPolled \in [1 .. Len(fds) -> PollFd]
      /\ \A k \in 1 .. Len(fds) : NotPolled[k] = [fds[k] EXCEPT !.revents = "none"]
  BY <1>1, <1>2 DEF NotPolled
<1>5. ASSUME NEW s \in [1 .. Len(fds) -> PollFd]
      PROVE  s \in Seq(PollFd) /\ Len(s) = Len(fds)
  BY <1>1
<1>6. /\ Polled \in Seq(PollFd) /\ NotPolled \in Seq(PollFd)
      /\ Len(Polled) = Len(fds) /\ Len(NotPolled) = Len(fds)
  BY <1>3, <1>4, <1>5
<1>7. ASSUME NEW k \in 1 .. Len(fds), NEW r, r = IF Ready(fds[k]) THEN fds[k].events ELSE "none"
      PROVE  Polled[k].fd = fds[k].fd /\ Polled[k].events = fds[k].events /\ Polled[k].revents = r
  <2>1. r \in {"none", "IN", "OUT"}
    BY <1>1, <1>7 DEF PollFd
  <2>2. Polled[k] = [fds[k] EXCEPT !.revents = r]
    BY <1>3, <1>7
  <2> QED BY <1>2, <2>1, <2>2
<1>8. \A k \in 1 .. Len(fds) :
         /\ NotPolled[k].fd = fds[k].fd
         /\ NotPolled[k].events = fds[k].events
         /\ NotPolled[k].revents = "none"
  <2> SUFFICES ASSUME NEW k \in 1 .. Len(fds)
               PROVE  /\ NotPolled[k].fd = fds[k].fd
                      /\ NotPolled[k].events = fds[k].events
                      /\ NotPolled[k].revents = "none"
    OBVIOUS
  <2>1. NotPolled[k] = [fds[k] EXCEPT !.revents = "none"] /\ "none" \in {"none", "IN", "OUT"}
    BY <1>4
  <2> QED BY <1>2, <2>1
<1> QED BY <1>6, <1>7, <1>8

-----------------------------------------------------------------------------
\* The invariant holds at the start and is kept by every step

\* At the start there is no vector yet, and nobody is connected.
LEMMA LoopInitInv == Init => LoopInv
<1> SUFFICES ASSUME Init PROVE LoopInv
  OBVIOUS
<1>1. TypeOK
  BY EmptySeq DEF Init, TypeOK
<1>2. ~Looping /\ ~Halted /\ pc # "goodbye" /\ pc # "pass" /\ DOMAIN fds = {}
  BY DEF Init, Looping, Halted
<1> QED BY <1>1, <1>2 DEF Init, LoopInv, EntriesMatch, LinesAwaitPollout, VacantClean, RestCurrent,
                          SocketsOwned

\* The vector while the loop runs.
LEMMA LoopVector ==
    ASSUME LoopInv, Looping
    PROVE  /\ DOMAIN fds = 1 .. Len(fds) /\ Len(fds) \in Nat /\ Len(fds) >= 1
           /\ \A k \in 1 .. Len(fds) : fds[k] \in PollFd /\ fds[k].fd \in clients \cup {Listen}
           /\ open = clients \cup {Listen} \cup lost
           /\ \A fd \in clients \cup {Listen} : \E k \in 1 .. Len(fds) : fds[k].fd = fd
           /\ \A j, k \in 1 .. Len(fds) : fds[j].fd = fds[k].fd => j = k
           /\ fds[1].fd = Listen /\ fds[1].events = "IN"
           /\ clients \subseteq Fd /\ Listen \notin Fd
<1>1. fds \in Seq(PollFd) /\ clients \subseteq Fd
  BY DEF LoopInv, TypeOK
<1>2. DOMAIN fds = 1 .. Len(fds) /\ Len(fds) \in Nat /\ \A k \in 1 .. Len(fds) : fds[k] \in PollFd
  BY <1>1, LenProperties, ElementOfSeq
<1>3. /\ open = clients \cup {Listen} \cup lost
      /\ {fds[j].fd : j \in DOMAIN fds} = clients \cup {Listen}
      /\ \A j, k \in DOMAIN fds : fds[j].fd = fds[k].fd => j = k
      /\ fds # <<>>
      /\ fds[1].fd = Listen /\ fds[1].events = "IN"
  BY DEF LoopInv, EntriesMatch
<1>4. Len(fds) >= 1
  BY <1>1, <1>2, <1>3, EmptySeq
<1>5. \A fd \in clients \cup {Listen} : \E k \in 1 .. Len(fds) : fds[k].fd = fd
  BY <1>2, <1>3
<1>6. \A k \in 1 .. Len(fds) : fds[k].fd \in clients \cup {Listen}
  BY <1>2, <1>3
<1> QED BY <1>1, <1>2, <1>3, <1>4, <1>5, <1>6, DescriptorAssumption

\* A vector with the same descriptors in the same places matches as before.
LEMMA SameShape ==
    ASSUME LoopInv, Looping,
           fds' \in Seq(PollFd), Len(fds') = Len(fds),
           \A k \in 1 .. Len(fds) : fds'[k].fd = fds[k].fd,
           fds'[1].events = "IN",
           UNCHANGED <<clients, open, lost>>
    PROVE  EntriesMatch'
<1>1. DOMAIN fds' = DOMAIN fds /\ DOMAIN fds = 1 .. Len(fds)
  BY LoopVector, LenProperties
<1>2. {fds'[j].fd : j \in DOMAIN fds'} = {fds[j].fd : j \in DOMAIN fds}
  BY <1>1
<1>3. /\ open = clients \cup {Listen} \cup lost
      /\ {fds[j].fd : j \in DOMAIN fds} = clients \cup {Listen}
      /\ \A j, k \in DOMAIN fds : fds[j].fd = fds[k].fd => j = k
      /\ fds[1].fd = Listen
  BY DEF LoopInv, EntriesMatch
<1>4. fds' # <<>> /\ 1 \in DOMAIN fds
  BY <1>1, LoopVector, EmptySeq
<1> QED BY <1>1, <1>2, <1>3, <1>4 DEF EntriesMatch

\* What the loop knows of an entry it visits.
LEMMA Visited ==
    ASSUME LoopInv, NEW r \in {"none", "IN", "OUT"}, Visit(r)
    PROVE  /\ Looping /\ Looping'
           /\ i \in 1 .. Len(fds) /\ i' = i + 1
           /\ r # "none" => fds[i].events = r /\ Current(fds[i])
           /\ fds[i].fd \in Fd => i >= 2 /\ fds[i].fd \in clients
           /\ fds[i].fd = Listen => i = 1
           /\ \A k \in 1 .. Len(fds) : k >= i => Current(fds[k])
<1>1. Looping /\ Looping' /\ i' = i + 1 /\ pc = "pass" /\ i <= Len(fds) /\ fds[i].revents = r
  BY DEF Visit, Looping
<1>2. i >= 1 /\ i \in Nat /\ \A k \in DOMAIN fds : k >= i => Current(fds[k])
  BY <1>1 DEF LoopInv, TypeOK, RestCurrent
<1>3. i \in 1 .. Len(fds)
  BY <1>1, <1>2, LoopVector
<1>4. Current(fds[i])
  BY <1>1, <1>2, <1>3, LoopVector
<1>5. r # "none" => fds[i].events = r
  BY <1>1, <1>4 DEF Current
<1>6. fds[i].fd \in Fd => i >= 2 /\ fds[i].fd \in clients
  BY <1>1, <1>3, LoopVector
<1>7. fds[i].fd = Listen => i = 1
  BY <1>1, <1>3, LoopVector
<1> QED BY <1>1, <1>2, <1>3, <1>4, <1>5, <1>6, <1>7, LoopVector

\* What peers do before the server looks: data and ends of streams only come,
\* so what was current stays so.
LEMMA PeerInv ==
    ASSUME LoopInv, UNCHANGED <<loopVars, serverVars, open, lost>>,
           backlog' \in Nat, input' \in [Fd -> Nat], hup' \in [Fd -> BOOLEAN],
           writable' \in [Fd -> BOOLEAN],
           \A fd \in Fd : /\ input'[fd] >= input[fd]
                          /\ hup[fd] => hup'[fd]
                          /\ writable[fd] => writable'[fd],
           \A fd \in Fd \ clients : hup'[fd] = hup[fd]
    PROVE  LoopInv'
<1> USE DEF LoopInv, loopVars, serverVars
<1>1. TypeOK'
  BY DEF TypeOK
<1>2. EntriesMatch' /\ LinesAwaitPollout' /\ SocketsOwned'
  BY DEF EntriesMatch, LinesAwaitPollout, SocketsOwned, Looping, Halted
<1>3. VacantClean'
  BY DEF VacantClean
<1>4. RestCurrent'
  <2> SUFFICES ASSUME pc = "pass"
               PROVE  i >= 1 /\ \A j \in DOMAIN fds : j >= i => Current(fds[j])'
    BY DEF RestCurrent
  <2>1. i >= 1 /\ \A j \in DOMAIN fds : j >= i => Current(fds[j])
    BY DEF RestCurrent
  <2>2. ASSUME NEW j \in DOMAIN fds, Current(fds[j]) PROVE Current(fds[j])'
    <3> SUFFICES ASSUME fds[j].revents # "none"
                 PROVE  /\ fds[j].revents = fds[j].events
                        /\ fds[j].fd \in Fd /\ fds[j].revents = "IN"
                              => input'[fds[j].fd] > 0 \/ hup'[fds[j].fd]
      BY DEF Current
    <3>1. /\ fds[j].revents = fds[j].events
          /\ fds[j].fd \in Fd /\ fds[j].revents = "IN" => input[fds[j].fd] > 0 \/ hup[fds[j].fd]
      BY <2>2 DEF Current
    <3>2. ASSUME NEW fd \in Fd PROVE input[fd] \in Nat /\ input'[fd] \in Nat
      BY DEF TypeOK
    <3> QED BY <3>1, <3>2
  <2> QED BY <2>1, <2>2
<1> QED BY <1>1, <1>2, <1>3, <1>4

\* A step that leaves the vector, the map and the sockets alone, and does not
\* start a pass.
LEMMA ControlInv ==
    ASSUME LoopInv, UNCHANGED <<signal, serverVars, socketVars>>,
           i' \in Nat,
           pc' = "pass" => pc = "pass" /\ i' >= i,
           pc' \in {"check", "entering", "polling", "pass", "closing", "unwinding"},
           Looping' => Looping
    PROVE  LoopInv'
<1> USE DEF LoopInv, serverVars, socketVars
<1>1. TypeOK'
  BY DEF TypeOK
<1>2. EntriesMatch' /\ LinesAwaitPollout' /\ VacantClean'
  BY DEF EntriesMatch, LinesAwaitPollout, VacantClean
<1>3. RestCurrent'
  <2> SUFFICES ASSUME pc' = "pass"
               PROVE  i' >= 1 /\ \A j \in DOMAIN fds : j >= i' => Current(fds[j])'
    BY DEF RestCurrent
  <2>1. i >= 1 /\ i \in Nat /\ i' >= i /\ \A j \in DOMAIN fds : j >= i => Current(fds[j])
    BY DEF RestCurrent, TypeOK
  <2>2. \A j \in DOMAIN fds : j \in Int
    BY LenProperties DEF TypeOK
  <2>3. \A j \in DOMAIN fds : Current(fds[j]) => Current(fds[j])'
    BY DEF Current
  <2> QED BY <2>1, <2>2, <2>3
<1>4. SocketsOwned'
  BY DEF SocketsOwned, Halted
<1> QED BY <1>1, <1>2, <1>3, <1>4

\* A pass over empty revents looks at nothing.
LEMMA InterruptedInv ==
    ASSUME LoopInv, pc = "polling", Interrupted, signal' \in BOOLEAN,
           UNCHANGED <<clients, pending, socketVars>>
    PROVE  LoopInv'
<1> USE DEF LoopInv
<1>1. pc' = "pass" /\ i' = 1 /\ fds' = NotPolled /\ fds \in Seq(PollFd)
  BY DEF Interrupted, TypeOK
<1>2. /\ fds' \in Seq(PollFd) /\ Len(fds') = Len(fds)
      /\ \A k \in 1 .. Len(fds) : /\ fds'[k].fd = fds[k].fd
                                  /\ fds'[k].events = fds[k].events
                                  /\ fds'[k].revents = "none"
  BY <1>1, PolledIs
<1>3. DOMAIN fds' = 1 .. Len(fds) /\ DOMAIN fds = 1 .. Len(fds)
  BY <1>1, <1>2, LenProperties
<1>4. TypeOK'
  BY <1>1, <1>2 DEF TypeOK, socketVars
<1>5. EntriesMatch'
  BY <1>1, <1>2, SameShape, LoopVector DEF Looping, socketVars
<1>6. LinesAwaitPollout'
  BY <1>1, <1>2, <1>3 DEF LinesAwaitPollout
<1>7. RestCurrent'
  BY <1>1, <1>2, <1>3 DEF RestCurrent, Current
<1>8. VacantClean' /\ SocketsOwned'
  BY <1>1 DEF VacantClean, SocketsOwned, Halted, socketVars
<1> QED BY <1>4, <1>5, <1>6, <1>7, <1>8

\* The steps of peers and of the user.
LEMMA OutsideInv == ASSUME LoopInv, Outside PROVE LoopInv'
<1> USE DEF LoopInv
<1>0. /\ backlog \in Nat /\ input \in [Fd -> Nat] /\ hup \in [Fd -> BOOLEAN]
      /\ writable \in [Fd -> BOOLEAN] /\ signal \in BOOLEAN /\ fds \in Seq(PollFd)
  BY DEF TypeOK
<1>1. CASE Connect
  BY <1>0, <1>1, PeerInv DEF Connect
<1>2. ASSUME NEW fd \in Fd, Send(fd) PROVE LoopInv'
  BY <1>0, <1>2, PeerInv DEF Send
<1>3. ASSUME NEW fd \in Fd, Hangup(fd) PROVE LoopInv'
  <2>1. /\ fd \in clients /\ hup' = [hup EXCEPT ![fd] = TRUE]
        /\ UNCHANGED <<loopVars, serverVars, open, lost, backlog, input, writable>>
    BY <1>3 DEF Hangup
  <2>2. \A g \in Fd : input'[g] >= input[g]
    BY <1>0, <2>1
  <2>3. /\ hup' \in [Fd -> BOOLEAN]
        /\ \A g \in Fd : hup[g] => hup'[g]
        /\ \A g \in Fd \ clients : hup'[g] = hup[g]
    BY <1>0, <2>1, Zenon
  <2> QED BY <1>0, <2>1, <2>2, <2>3, PeerInv
<1>4. ASSUME NEW fd \in Fd, Drain(fd) PROVE LoopInv'
  BY <1>0, <1>4, PeerInv DEF Drain
<1>5. CASE Signal /\ pc = "polling"
  <2>1. signal' = TRUE
    BY <1>5 DEF Signal
  <2> QED BY <1>5, <2>1, InterruptedInv DEF Signal
<1>6. CASE Signal /\ pc # "polling"
  <2>1. signal' = TRUE /\ UNCHANGED <<pc, i, serverVars, socketVars>>
    BY <1>6 DEF Signal, serverVars
  <2> QED BY <2>1 DEF TypeOK, EntriesMatch, LinesAwaitPollout, VacantClean, RestCurrent, Current,
                      SocketsOwned, Looping, Halted, serverVars, socketVars
<1>7. CASE PollFails
  <2>1. CASE signal
    BY <1>0, <1>7, <2>1, InterruptedInv DEF PollFails
  <2>2. CASE ~signal
    <3>1. /\ pc = "polling" /\ pc' = "unwinding"
          /\ UNCHANGED <<signal, i, serverVars, socketVars>>
      BY <1>7, <2>2 DEF PollFails, serverVars
    <3>2. i \in Nat
      BY DEF TypeOK
    <3> QED BY <3>1, <3>2, ControlInv DEF Looping
  <2> QED BY <2>1, <2>2
<1> QED BY <1>1, <1>2, <1>3, <1>4, <1>5, <1>6, <1>7 DEF Outside, PeerStep

\* Making the listening socket and its entry, or failing to.
LEMMA StartInv == ASSUME LoopInv, Start \/ StartThrows PROVE LoopInv'
<1> USE DEF LoopInv
<1>1. /\ fds = <<>> /\ clients = {} /\ open = {} /\ lost = {}
      /\ \A fd \in Fd : pending[fd] = 0 /\ ~hup[fd] /\ writable[fd]
  BY DEF Start, StartThrows, SocketsOwned, VacantClean
<1>2. CASE Start
  <2>1. /\ pc' = "check" /\ open' = {Listen} /\ fds' = <<Entry(Listen)>>
        /\ UNCHANGED <<signal, i, clients, pending, lost, backlog, input, hup, writable>>
    BY <1>2 DEF Start
  <2>2. Entry(Listen) \in PollFd /\ Entry(Listen).fd = Listen /\ Entry(Listen).events = "IN"
    BY DEF Entry, PollFd
  <2>3. /\ fds' \in Seq(PollFd) /\ DOMAIN fds' = {1} /\ fds'[1] = Entry(Listen)
        /\ fds' # <<>>
    BY <2>1, <2>2
  <2>4. TypeOK'
    BY <1>1, <2>1, <2>3 DEF TypeOK
  <2>5. EntriesMatch'
    BY <1>1, <2>1, <2>2, <2>3 DEF EntriesMatch
  <2>6. LinesAwaitPollout'
    BY <2>1, <2>2, <2>3, DescriptorAssumption DEF LinesAwaitPollout
  <2>7. VacantClean' /\ RestCurrent' /\ SocketsOwned'
    BY <1>1, <2>1 DEF VacantClean, RestCurrent, SocketsOwned, Halted
  <2> QED BY <2>4, <2>5, <2>6, <2>7
<1>3. CASE StartThrows
  BY <1>1, <1>3 DEF StartThrows, TypeOK, EntriesMatch, LinesAwaitPollout, VacantClean,
                    RestCurrent, SocketsOwned, Looping, Halted, serverVars
<1> QED BY <1>2, <1>3

\* poll() reports what there is at this moment.
LEMMA PollInv == ASSUME LoopInv, PollReturns PROVE LoopInv'
<1> USE DEF LoopInv
<1>1. /\ pc = "polling" /\ pc' = "pass" /\ i' = 1 /\ fds' = Polled
      /\ UNCHANGED <<signal, clients, pending, socketVars>>
  BY DEF PollReturns
<1>2. Looping /\ fds \in Seq(PollFd)
  BY <1>1 DEF Looping, TypeOK
<1>3. /\ fds' \in Seq(PollFd) /\ Len(fds') = Len(fds)
      /\ \A k \in 1 .. Len(fds) :
            /\ fds'[k].fd = fds[k].fd
            /\ fds'[k].events = fds[k].events
            /\ fds'[k].revents = IF Ready(fds[k]) THEN fds[k].events ELSE "none"
  BY <1>1, <1>2, PolledIs
<1>4. DOMAIN fds' = 1 .. Len(fds) /\ DOMAIN fds = 1 .. Len(fds)
  BY <1>2, <1>3, LenProperties
<1>5. TypeOK'
  BY <1>1, <1>3 DEF TypeOK, socketVars
<1>6. EntriesMatch'
  BY <1>1, <1>2, <1>3, SameShape, LoopVector DEF socketVars
<1>7. LinesAwaitPollout'
  BY <1>1, <1>3, <1>4 DEF LinesAwaitPollout
<1>8. VacantClean' /\ SocketsOwned'
  BY <1>1 DEF VacantClean, SocketsOwned, Halted, socketVars
<1>9. RestCurrent'
  <2> SUFFICES ASSUME NEW k \in 1 .. Len(fds) PROVE Current(fds[k])'
    BY <1>1, <1>4 DEF RestCurrent
  <2> SUFFICES ASSUME fds'[k].revents # "none"
               PROVE  /\ fds'[k].revents = fds'[k].events
                      /\ fds'[k].fd \in Fd /\ fds'[k].revents = "IN"
                            => input'[fds'[k].fd] > 0 \/ hup'[fds'[k].fd]
    BY DEF Current
  <2>1. Ready(fds[k]) /\ fds'[k].revents = fds[k].events
    BY <1>3
  <2>2. ASSUME fds[k].fd \in Fd, fds[k].events = "IN"
        PROVE  input[fds[k].fd] > 0 \/ hup[fds[k].fd]
    BY <2>1, <2>2, DescriptorAssumption DEF Ready, Readable
  <2> QED BY <1>1, <1>3, <2>1, <2>2 DEF socketVars
<1> QED BY <1>5, <1>6, <1>7, <1>8, <1>9

\* At the end of a pass only the values of revents are forgotten.
LEMMA PassEndsInv == ASSUME LoopInv, PassEnds PROVE LoopInv'
<1> USE DEF LoopInv
<1>1. /\ pc = "pass" /\ pc' = "check" /\ i' = 0 /\ fds' = NotPolled
      /\ UNCHANGED <<signal, clients, pending, socketVars>>
  BY DEF PassEnds
<1>2. Looping /\ fds \in Seq(PollFd)
  BY <1>1 DEF Looping, TypeOK
<1>3. /\ fds' \in Seq(PollFd) /\ Len(fds') = Len(fds)
      /\ \A k \in 1 .. Len(fds) : fds'[k].fd = fds[k].fd /\ fds'[k].events = fds[k].events
  BY <1>1, <1>2, PolledIs
<1>4. DOMAIN fds' = 1 .. Len(fds) /\ DOMAIN fds = 1 .. Len(fds)
  BY <1>2, <1>3, LenProperties
<1>5. TypeOK'
  BY <1>1, <1>3 DEF TypeOK, socketVars
<1>6. EntriesMatch'
  BY <1>1, <1>2, <1>3, SameShape, LoopVector DEF socketVars
<1>7. LinesAwaitPollout'
  BY <1>1, <1>3, <1>4 DEF LinesAwaitPollout
<1>8. VacantClean' /\ SocketsOwned' /\ RestCurrent'
  BY <1>1 DEF VacantClean, SocketsOwned, RestCurrent, Halted, socketVars
<1> QED BY <1>5, <1>6, <1>7, <1>8

\* CloseFds reaches every socket but the lost ones; what is done afterwards
\* finds none.
LEMMA ShutdownInv == ASSUME LoopInv, CloseFds \/ CloseClientConnections PROVE LoopInv'
<1> USE DEF LoopInv
<1>1. /\ pc \in {"closing", "unwinding", "goodbye"} /\ pc' \in {"goodbye", "failed", "stopped"}
      /\ open' = lost
      /\ UNCHANGED <<signal, i, serverVars, lost, backlog, input, hup, writable>>
  BY DescriptorAssumption DEF CloseFds, CloseClientConnections, SocketsOwned, TypeOK
<1> QED BY <1>1 DEF TypeOK, EntriesMatch, LinesAwaitPollout, VacantClean, RestCurrent, SocketsOwned,
                    Looping, Halted, serverVars

\* accept() gives a descriptor that is not open, so no entry has it, and the
\* new entry goes to the end with no revents.
LEMMA AcceptInv == ASSUME LoopInv, AcceptNewClient PROVE LoopInv'
<1> USE DEF LoopInv
<1>1. /\ Visit("IN") /\ fds[i].fd = Listen
      /\ UNCHANGED <<pc, signal, input, hup, writable>>
  BY DEF AcceptNewClient, Visit
<1>2. Looping /\ i \in 1 .. Len(fds) /\ i' = i + 1 /\ pc = "pass"
  BY <1>1, Visited DEF Visit
<1>3. CASE AcceptFails
  <2>1. UNCHANGED <<signal, serverVars, socketVars>> /\ i' \in Nat /\ pc' = "pass" /\ i' >= i
    BY <1>1, <1>2, <1>3 DEF AcceptFails, TypeOK, socketVars
  <2> QED BY <1>2, <2>1, ControlInv
<1>4. ASSUME NEW fd \in Fd \ open,
             clients' = clients \cup {fd}, open' = open \cup {fd},
             fds' = Append(fds, Entry(fd)), backlog' = backlog - 1, backlog > 0,
             UNCHANGED <<pending, lost>>
      PROVE  LoopInv'
  <2>1. Entry(fd) \in PollFd /\ Entry(fd).fd = fd /\ Entry(fd).events = "IN" /\ Entry(fd).revents = "none"
    BY DEF Entry, PollFd
  <2>2. /\ DOMAIN fds = 1 .. Len(fds) /\ Len(fds) \in Nat /\ Len(fds) >= 1 /\ fds \in Seq(PollFd)
        /\ open = clients \cup {Listen} \cup lost /\ fd \notin clients \cup {Listen}
        /\ \A k \in 1 .. Len(fds) : fds[k].fd \in clients \cup {Listen}
    BY <1>2, LoopVector DEF TypeOK
  <2>3. /\ fds' \in Seq(PollFd) /\ Len(fds') = Len(fds) + 1
        /\ \A k \in 1 .. Len(fds) : fds'[k] = fds[k]
        /\ fds'[Len(fds) + 1] = Entry(fd)
    BY <1>4, <2>1, <2>2, AppendProperties
  <2>4. DOMAIN fds' = 1 .. Len(fds) + 1 /\ fds' # <<>>
    BY <2>2, <2>3, LenProperties, EmptySeq
  <2>5. TypeOK'
    <3>1. backlog' \in Nat
      BY <1>4 DEF TypeOK
    <3> QED BY <1>1, <1>2, <1>4, <2>3, <3>1 DEF TypeOK
  <2>6. EntriesMatch'
    <3>1. {fds'[j].fd : j \in DOMAIN fds'} = clients' \cup {Listen}
      <4>1. \A g \in clients' \cup {Listen} : \E j \in DOMAIN fds' : fds'[j].fd = g
        BY <1>2, <1>4, <2>1, <2>2, <2>3, <2>4, LoopVector
      <4>2. \A j \in DOMAIN fds' : fds'[j].fd \in clients' \cup {Listen}
        BY <1>4, <2>1, <2>2, <2>3, <2>4
      <4> QED BY <4>1, <4>2
    <3>2. \A j, k \in DOMAIN fds' : fds'[j].fd = fds'[k].fd => j = k
      BY <1>2, <1>4, <2>1, <2>2, <2>3, <2>4, LoopVector
    <3>3. fds'[1].fd = Listen /\ fds'[1].events = "IN"
      BY <1>2, <2>2, <2>3, LoopVector
    <3> QED BY <1>4, <2>2, <2>4, <3>1, <3>2, <3>3 DEF EntriesMatch
  <2>7. LinesAwaitPollout'
    <3>1. pending[fd] = 0
      BY <2>2 DEF VacantClean
    <3> QED BY <1>4, <2>1, <2>2, <2>3, <2>4, <3>1 DEF LinesAwaitPollout
  <2>8. VacantClean'
    BY <1>1, <1>4 DEF VacantClean
  <2>9. RestCurrent'
    <3>1. \A k \in 1 .. Len(fds) : k >= i' => Current(fds[k])
      BY <1>1, <1>2, Visited
    <3>2. ASSUME NEW k \in 1 .. Len(fds), Current(fds[k]) PROVE Current(fds[k])'
      BY <1>1, <2>3, <3>2 DEF Current
    <3>3. ASSUME NEW k, k = Len(fds) + 1 PROVE Current(fds[k])'
      BY <2>1, <2>3, <3>3 DEF Current
    <3> QED BY <1>2, <2>2, <2>4, <3>1, <3>2, <3>3 DEF RestCurrent
  <2>10. SocketsOwned'
    BY <1>1, <1>2, <1>4 DEF SocketsOwned, Halted
  <2> QED BY <2>5, <2>6, <2>7, <2>8, <2>9, <2>10
<1>5. ASSUME NEW fd \in Fd \ open, open' = open \cup {fd}, lost' = lost \cup {fd},
             backlog' = backlog - 1, backlog > 0, UNCHANGED <<clients, fds, pending>>
      PROVE  LoopInv'
  <2>1. fd \notin clients /\ i \in Nat /\ DOMAIN fds = 1 .. Len(fds)
    BY <1>2, <1>5, LoopVector DEF TypeOK
  <2>2. TypeOK'
    <3>1. backlog' \in Nat
      BY <1>5 DEF TypeOK
    <3> QED BY <1>1, <1>2, <1>5, <3>1 DEF TypeOK
  <2>3. EntriesMatch'
    BY <1>2, <1>5 DEF EntriesMatch
  <2>4. LinesAwaitPollout' /\ VacantClean'
    BY <1>1, <1>5 DEF LinesAwaitPollout, VacantClean
  <2>5. RestCurrent'
    <3>1. \A k \in 1 .. Len(fds) : k >= i' => Current(fds[k])
      BY <1>1, <1>2, Visited
    <3>2. \A k \in 1 .. Len(fds) : Current(fds[k]) => Current(fds[k])'
      BY <1>1, <1>5 DEF Current
    <3> QED BY <1>2, <1>5, <2>1, <3>1, <3>2 DEF RestCurrent
  <2>6. SocketsOwned'
    BY <1>1, <1>2, <1>5, <2>1 DEF SocketsOwned, Halted
  <2> QED BY <2>2, <2>3, <2>4, <2>5, <2>6
<1> QED BY <1>3, <1>4, <1>5 DEF AcceptNewClient, AcceptOne

\* Receiving turns the entry to POLLOUT and serving turns it back: one entry's
\* events, and what belongs to its descriptor.
LEMMA TurnedInv ==
    ASSUME LoopInv, NEW fd \in Fd, NEW r \in {"IN", "OUT"}, NEW ev \in {"IN", "OUT"},
           Visit(r), fds[i].fd = fd,
           fds' = WithEvents(fds, i, ev),
           UNCHANGED <<clients, open, lost, backlog, hup>>,
           pending' \in [Fd -> Nat], input' \in [Fd -> Nat], writable' \in [Fd -> BOOLEAN],
           ev = "IN" => pending'[fd] = 0,
           \A g \in Fd \ {fd} : pending'[g] = pending[g] /\ input'[g] = input[g],
           \A g \in Fd \ clients : writable'[g] = writable[g]
    PROVE  LoopInv'
<1> USE DEF LoopInv
<1>1. /\ Looping /\ Looping' /\ i \in 1 .. Len(fds) /\ i' = i + 1 /\ i >= 2 /\ fd \in clients
      /\ UNCHANGED <<pc, signal>> /\ pc = "pass"
  BY Visited DEF Visit
<1>2. fds \in Seq(PollFd) /\ i \in Nat
  BY DEF TypeOK
<1>3. /\ fds' \in Seq(PollFd) /\ Len(fds') = Len(fds)
      /\ \A k \in 1 .. Len(fds) :
            /\ fds'[k].fd = fds[k].fd
            /\ fds'[k].revents = fds[k].revents
            /\ fds'[k].events = IF k = i THEN ev ELSE fds[k].events
  BY <1>2, WithEventsIs
<1>4. DOMAIN fds' = 1 .. Len(fds) /\ DOMAIN fds = 1 .. Len(fds)
  BY <1>2, <1>3, LenProperties
<1>5. \A k \in 1 .. Len(fds) : fds[k].fd = fd => k = i
  BY <1>1, LoopVector
<1>6. TypeOK'
  BY <1>1, <1>3 DEF TypeOK
<1>7. EntriesMatch'
  <2>1. fds'[1].events = "IN"
    BY <1>1, <1>3, LoopVector
  <2> QED BY <1>1, <1>3, <2>1, SameShape
<1>8. LinesAwaitPollout'
  <2> SUFFICES ASSUME NEW k \in 1 .. Len(fds), fds[k].fd \in Fd, pending'[fds[k].fd] > 0
               PROVE  fds'[k].events = "OUT"
    BY <1>3, <1>4 DEF LinesAwaitPollout
  <2>1. CASE k = i
    BY <1>3, <2>1
  <2>2. CASE k # i
    <3>1. pending[fds[k].fd] > 0
      BY <1>5, <2>2
    <3>2. fds[k].events = "OUT"
      BY <1>4, <3>1 DEF LinesAwaitPollout
    <3> QED BY <1>3, <2>2, <3>2
  <2> QED BY <2>1, <2>2
<1>9. VacantClean'
  <2>1. \A g \in Fd \ clients : g # fd
    BY <1>1
  <2> QED BY <2>1 DEF VacantClean
<1>10. RestCurrent'
  <2> SUFFICES ASSUME NEW k \in 1 .. Len(fds), k >= i + 1 PROVE Current(fds[k])'
    BY <1>1, <1>2, <1>4 DEF RestCurrent
  <2>1. Current(fds[k]) /\ k # i /\ fds[k].fd # fd
    BY <1>1, <1>5, Visited
  <2> QED BY <1>3, <2>1 DEF Current
<1>11. SocketsOwned'
  BY <1>1 DEF SocketsOwned, Halted
<1> QED BY <1>6, <1>7, <1>8, <1>9, <1>10, <1>11

\* Data of a client.
LEMMA ReceiveInv == ASSUME LoopInv, NEW fd \in Fd, Receive(fd) PROVE LoopInv'
<1>1. /\ Visit("IN") /\ fds[i].fd = fd /\ input[fd] > 0
      /\ input' = [input EXCEPT ![fd] = @ - 1]
      /\ fds' = WithEvents(fds, i, "OUT")
      /\ UNCHANGED <<clients, open, lost, backlog, hup, writable>>
  BY DEF Receive
<1>2. PICK n \in 0 .. MaxLines : pending' = [pending EXCEPT ![fd] = @ + n]
  BY DEF Receive
<1>3. pending \in [Fd -> Nat] /\ input \in [Fd -> Nat] /\ writable \in [Fd -> BOOLEAN]
  BY DEF LoopInv, TypeOK
<1>4. pending' \in [Fd -> Nat] /\ input' \in [Fd -> Nat] /\ writable' \in [Fd -> BOOLEAN]
  BY <1>1, <1>2, <1>3, BoundAssumption
<1>5. /\ \A g \in Fd \ {fd} : pending'[g] = pending[g] /\ input'[g] = input[g]
      /\ \A g \in Fd \ clients : writable'[g] = writable[g]
  BY <1>1, <1>2, <1>3
<1> QED BY <1>1, <1>4, <1>5, TurnedInv

\* Its lines executed.
LEMMA ServeInv == ASSUME LoopInv, NEW fd \in Fd, Serve(fd) PROVE LoopInv'
<1>1. /\ Visit("OUT") /\ fds[i].fd = fd
      /\ pending' = [pending EXCEPT ![fd] = 0]
      /\ fds' = WithEvents(fds, i, "IN")
      /\ UNCHANGED <<clients, open, lost, backlog, input, hup>>
  BY DEF Serve
<1>2. PICK full \in SUBSET clients : writable' = [g \in Fd |-> writable[g] /\ g \notin full]
  BY DEF Serve
<1>3. pending \in [Fd -> Nat] /\ input \in [Fd -> Nat] /\ writable \in [Fd -> BOOLEAN]
  BY DEF LoopInv, TypeOK
<1>4. pending' \in [Fd -> Nat] /\ input' \in [Fd -> Nat] /\ pending'[fd] = 0
  BY <1>1, <1>3
<1>5. writable' \in [Fd -> BOOLEAN] /\ \A g \in Fd \ clients : writable'[g] = writable[g]
  BY <1>2, <1>3, Zenon
<1>6. \A g \in Fd \ {fd} : pending'[g] = pending[g] /\ input'[g] = input[g]
  BY <1>1, <1>3
<1> QED BY <1>1, <1>4, <1>5, <1>6, TurnedInv

\* The vector after a disconnection: the entries behind the lost one have
\* moved forward by one, and the first of them asks for POLLOUT.
LEMMA Closed ==
    ASSUME LoopInv, NEW fd \in Fd, Disconnect(fd)
    PROVE  /\ fds' \in Seq(PollFd) /\ Len(fds') = Len(fds) - 1
           /\ DOMAIN fds' = 1 .. Len(fds) - 1
           /\ \A k \in 1 .. Len(fds) - 1 :
                 LET e == fds[IF k < i THEN k ELSE k + 1]
                 IN  /\ fds'[k].fd = e.fd
                     /\ fds'[k].revents = e.revents
                     /\ fds'[k].events = IF k = i THEN "OUT" ELSE e.events
<1>1. Visit("IN") /\ fds[i].fd = fd /\ fds' = WithEvents(Erase(fds, fd), i, "OUT")
  BY DEF Disconnect
<1>2. Looping /\ i \in 1 .. Len(fds) /\ i \in Nat
  BY <1>1, Visited DEF LoopInv, TypeOK
<1>3. fds \in Seq(PollFd) /\ Len(fds) \in Nat
  BY LenProperties DEF LoopInv, TypeOK
<1>4. {j \in DOMAIN fds : fds[j].fd = fd} = {i}
  BY <1>1, <1>2, LoopVector
<1>5. Min({i}) = i
  BY <1>2 DEF Min
<1>6. Erase(fds, fd) = RemoveAt(fds, i)
  BY <1>4, <1>5 DEF Erase
<1> DEFINE s == RemoveAt(fds, i)
<1>7. /\ s \in Seq(PollFd)
      /\ Len(s) = Len(fds) - 1
      /\ \A k \in 1 .. Len(fds) - 1 : s[k] = IF k < i THEN fds[k] ELSE fds[k + 1]
  BY <1>2, <1>3, RemoveAtIs
<1>8. fds' = WithEvents(s, i, "OUT")
  BY <1>1, <1>6
<1> HIDE DEF s
<1>9. i \in Nat /\ s \in Seq(PollFd) /\ "OUT" \in {"IN", "OUT"}
  BY <1>2, <1>7
<1>10. /\ fds' \in Seq(PollFd)
      /\ Len(fds') = Len(s)
      /\ \A k \in 1 .. Len(s) :
            /\ fds'[k].fd = s[k].fd
            /\ fds'[k].revents = s[k].revents
            /\ fds'[k].events = IF k = i THEN "OUT" ELSE s[k].events
  BY <1>8, <1>9, WithEventsIs
<1>11. DOMAIN fds' = 1 .. Len(fds) - 1
  BY <1>7, <1>10, LenProperties
<1> QED BY <1>7, <1>10, <1>11

\* A lost connection.  The entry that moved under the index is not visited in
\* this pass, so the revents of all that still will be are current.
LEMMA DisconnectInv == ASSUME LoopInv, NEW fd \in Fd, Disconnect(fd) PROVE LoopInv'
<1> USE DEF LoopInv
<1>1. /\ Visit("IN") /\ fds[i].fd = fd
      /\ clients' = clients \ {fd} /\ open' = open \ {fd}
      /\ pending' = [pending EXCEPT ![fd] = 0]
      /\ hup' = [hup EXCEPT ![fd] = FALSE]
      /\ UNCHANGED <<lost, backlog, input, pc, signal>>
  BY DEF Disconnect, Visit
<1>2. /\ Looping /\ i \in 1 .. Len(fds) /\ i' = i + 1 /\ i >= 2 /\ fd \in clients
      /\ pc = "pass" /\ i \in Nat
  BY <1>1, Visited DEF Visit, TypeOK
<1> DEFINE From(k) == IF k < i THEN k ELSE k + 1
<1>3. /\ fds' \in Seq(PollFd) /\ Len(fds') = Len(fds) - 1
      /\ DOMAIN fds' = 1 .. Len(fds) - 1
      /\ \A k \in 1 .. Len(fds) - 1 :
            /\ fds'[k].fd = fds[From(k)].fd
            /\ fds'[k].revents = fds[From(k)].revents
            /\ fds'[k].events = IF k = i THEN "OUT" ELSE fds[From(k)].events
  BY Closed
<1>4. \A k \in 1 .. Len(fds) - 1 : From(k) \in 1 .. Len(fds) /\ From(k) # i
  BY <1>2, LoopVector
<1>5. \A k \in 1 .. Len(fds) : fds[k].fd = fd => k = i
  BY <1>1, <1>2, LoopVector
<1>6. pending \in [Fd -> Nat] /\ hup \in [Fd -> BOOLEAN] /\ writable \in [Fd -> BOOLEAN]
  BY DEF TypeOK
<1>13. /\ writable' \in [Fd -> BOOLEAN] /\ writable'[fd]
       /\ \A g \in Fd \ clients : writable[g] => writable'[g]
  <2>1. PICK full \in SUBSET (clients \ {fd}) :
           writable' = [g \in Fd |-> g = fd \/ (writable[g] /\ g \notin full)]
    BY DEF Disconnect, QuitFills
  <2> QED BY <1>6, <2>1, Zenon
<1>7. TypeOK'
  BY <1>1, <1>2, <1>3, <1>6, <1>13 DEF TypeOK
<1>8. EntriesMatch'
  <2>1. {fds'[j].fd : j \in DOMAIN fds'} = clients' \cup {Listen}
    <3>1. ASSUME NEW j \in DOMAIN fds' PROVE fds'[j].fd \in clients' \cup {Listen}
      <4>1. From(j) \in 1 .. Len(fds) /\ From(j) # i /\ fds'[j].fd = fds[From(j)].fd
        BY <1>3, <1>4
      <4> HIDE DEF From
      <4> QED BY <1>1, <1>2, <1>5, <4>1, LoopVector
    <3>2. ASSUME NEW g \in clients' \cup {Listen} PROVE \E j \in DOMAIN fds' : fds'[j].fd = g
      <4>1. PICK k \in 1 .. Len(fds) : fds[k].fd = g
        BY <1>1, <1>2, <3>2, LoopVector
      <4>2. k # i
        BY <1>1, <3>2, <4>1, DescriptorAssumption
      <4> DEFINE j == IF k < i THEN k ELSE k - 1
      <4>3. j \in 1 .. Len(fds) - 1 /\ From(j) = k
        BY <1>2, <4>2, LoopVector
      <4> QED BY <1>3, <4>1, <4>3
    <3> QED BY <3>1, <3>2
  <2>2. \A j, k \in DOMAIN fds' : fds'[j].fd = fds'[k].fd => j = k
    <3> SUFFICES ASSUME NEW j \in 1 .. Len(fds) - 1, NEW k \in 1 .. Len(fds) - 1,
                        fds'[j].fd = fds'[k].fd
                 PROVE  j = k
      BY <1>3
    <3>1. From(j) = From(k)
      <4>1. /\ From(j) \in 1 .. Len(fds) /\ From(k) \in 1 .. Len(fds)
            /\ fds[From(j)].fd = fds[From(k)].fd
        BY <1>3, <1>4
      <4>2. \A a, b \in 1 .. Len(fds) : fds[a].fd = fds[b].fd => a = b
        BY <1>2, LoopVector
      <4> HIDE DEF From
      <4> QED BY <4>1, <4>2
    <3> QED BY <1>2, <3>1
  <2>3. fds'[1].fd = Listen /\ fds'[1].events = "IN" /\ fds' # <<>>
    <3>1. 1 \in 1 .. Len(fds) - 1 /\ From(1) = 1 /\ 1 # i
      BY <1>2, LoopVector
    <3>2. fds' # <<>>
      BY <1>3, <3>1, EmptySeq
    <3> QED BY <1>2, <1>3, <3>1, <3>2, LoopVector
  <2>4. open' = clients' \cup {Listen} \cup lost'
    BY <1>1, <1>2, LoopVector DEF SocketsOwned
  <2> QED BY <2>1, <2>2, <2>3, <2>4 DEF EntriesMatch
<1>9. LinesAwaitPollout'
  <2> SUFFICES ASSUME NEW k \in 1 .. Len(fds) - 1, fds'[k].fd \in Fd, pending'[fds'[k].fd] > 0
               PROVE  fds'[k].events = "OUT"
    BY <1>3 DEF LinesAwaitPollout
  <2>1. fds[From(k)].fd # fd /\ fds'[k].fd = fds[From(k)].fd
    BY <1>3, <1>4, <1>5
  <2>2. pending[fds[From(k)].fd] > 0
    BY <1>1, <1>6, <2>1
  <2>3. fds[From(k)].events = "OUT"
    BY <1>2, <1>4, <2>1, <2>2, LoopVector DEF LinesAwaitPollout
  <2> QED BY <1>3, <2>3
<1>10. VacantClean'
  BY <1>1, <1>6, <1>13 DEF VacantClean
<1>11. RestCurrent'
  <2> SUFFICES ASSUME NEW k \in 1 .. Len(fds) - 1, k >= i + 1 PROVE Current(fds[k])'
    BY <1>1, <1>2, <1>3 DEF RestCurrent
  <2>1. From(k) >= i /\ From(k) \in 1 .. Len(fds) /\ k # i /\ fds[From(k)].fd # fd
    BY <1>2, <1>4, <1>5
  <2>2. Current(fds[From(k)])
    BY <1>1, <2>1, Visited
  <2>3. fds[From(k)].fd \in Fd => hup'[fds[From(k)].fd] = hup[fds[From(k)].fd]
    BY <1>1, <1>6, <2>1
  <2> QED BY <1>1, <1>3, <2>1, <2>2, <2>3 DEF Current
<1>12. SocketsOwned'
  BY <1>1, <1>2 DEF SocketsOwned, Halted
<1> QED BY <1>7, <1>8, <1>9, <1>10, <1>11, <1>12

\* The steps of a pass that change nothing but the program counter.
LEMMA SkipInv ==
    ASSUME LoopInv, Skip \/ \E fd \in Fd : ServeThrows(fd)
    PROVE  LoopInv'
<1>1. pc = "pass" /\ i \in Nat
  BY DEF Skip, Visit, ServeThrows, LoopInv, TypeOK
<1>2. CASE Skip
  <2>1. i' = i + 1 /\ UNCHANGED <<pc, signal, serverVars, socketVars>>
    BY <1>2 DEF Skip, Visit
  <2> QED BY <1>1, <2>1, ControlInv DEF Looping
<1>3. CASE \E fd \in Fd : ServeThrows(fd)
  <2>1. pc' = "unwinding" /\ UNCHANGED <<signal, i, serverVars, socketVars>>
    BY <1>3 DEF ServeThrows
  <2> QED BY <1>1, <2>1, ControlInv DEF Looping
<1> QED BY <1>2, <1>3

\* The steps between two passes that do as much.
LEMMA BetweenInv == ASSUME LoopInv, CheckSignal \/ EnterPoll PROVE LoopInv'
<1>1. /\ Looping /\ pc' \in {"closing", "entering", "polling"}
      /\ UNCHANGED <<signal, i, serverVars, socketVars>>
  BY DEF CheckSignal, EnterPoll, Looping
<1>2. i \in Nat
  BY DEF LoopInv, TypeOK
<1> QED BY <1>1, <1>2, ControlInv

\* Every step of the server, its peers and the user keeps the invariant.
THEOREM LoopStepInv == LoopInv /\ [Next]_vars => LoopInv'
<1> SUFFICES ASSUME LoopInv, [Next]_vars PROVE LoopInv'
  OBVIOUS
<1>1. CASE UNCHANGED vars
  BY <1>1 DEF vars, loopVars, serverVars, socketVars, LoopInv, TypeOK, EntriesMatch,
              LinesAwaitPollout, VacantClean, RestCurrent, Current, SocketsOwned, Looping, Halted
<1>2. CASE Outside
  BY <1>2, OutsideInv
<1>3. CASE Start \/ StartThrows
  BY <1>3, StartInv
<1>4. CASE CheckSignal \/ EnterPoll
  BY <1>4, BetweenInv
<1>5. CASE PollReturns
  BY <1>5, PollInv
<1>6. CASE PassStep
  <2>1. CASE Skip \/ \E fd \in Fd : ServeThrows(fd)
    BY <2>1, SkipInv
  <2>2. CASE AcceptNewClient
    BY <2>2, AcceptInv
  <2>3. CASE \E fd \in Fd : Receive(fd)
    BY <2>3, ReceiveInv
  <2>4. CASE \E fd \in Fd : Disconnect(fd)
    BY <2>4, DisconnectInv
  <2>5. CASE \E fd \in Fd : Serve(fd)
    BY <2>5, ServeInv
  <2>6. CASE PassEnds
    BY <2>6, PassEndsInv
  <2> QED BY <1>6, <2>1, <2>2, <2>3, <2>4, <2>5, <2>6 DEF PassStep
<1>7. CASE CloseFds \/ CloseClientConnections
  BY <1>7, ShutdownInv
<1> QED BY <1>1, <1>2, <1>3, <1>4, <1>5, <1>6, <1>7 DEF Next, Server

-----------------------------------------------------------------------------
\* What follows for every execution; none of it needs the fairness of Spec

\* Every reachable state satisfies the inductive invariant.
THEOREM LoopInvariant == SafeSpec => []LoopInv
BY LoopInitInv, LoopStepInv, PTL DEF SafeSpec

\* Every variable of the loop keeps its type.
THEOREM LoopTypeCorrect == SafeSpec => []TypeOK
<1>1. LoopInv => TypeOK
  BY DEF LoopInv
<1> QED BY <1>1, LoopInvariant, PTL

\* The vector, the map of clients and the open sockets agree, however clients
\* come and go in the middle of a pass, but for the sockets that were accepted
\* and given up.
THEOREM EntriesStayMatched == SafeSpec => []EntriesMatch
<1>1. LoopInv => EntriesMatch
  BY DEF LoopInv
<1> QED BY <1>1, LoopInvariant, PTL

\* Queued lines always wait for the event that has them executed.
THEOREM LinesStayAwaited == SafeSpec => []LinesAwaitPollout
<1>1. LoopInv => LinesAwaitPollout
  BY DEF LoopInv
<1> QED BY <1>1, LoopInvariant, PTL

\* A server that has stopped leaves no socket open but those for which fcntl()
\* failed after accept(), which CloseFds does not know.
THEOREM LeavesNothingOpen == SafeSpec => []StopsClean
<1>1. LoopInv => StopsClean
  BY DEF LoopInv, SocketsOwned, StopsClean
<1> QED BY <1>1, LoopInvariant, PTL

\* A client leaves the map only by ReceiveNewData, when it has closed its side
\* and nothing of what it sent is left.
THEOREM NobodyDropped == SafeSpec => NothingDropped
<1>1. ASSUME LoopInv, [Next]_vars
      PROVE  [\A fd \in clients \ clients' : hup[fd] /\ input[fd] = 0 /\ pending[fd] = 0]_vars
  <2> SUFFICES ASSUME Next, NEW fd \in clients \ clients'
               PROVE  hup[fd] /\ input[fd] = 0 /\ pending[fd] = 0
    BY <1>1
  <2>1. PICK g \in Fd : Disconnect(g)
    BY DEF Next, Outside, PeerStep, Server, PassStep, Connect, Signal, PollFails, Interrupted, Send, Hangup, Drain,
           Start, StartThrows, CheckSignal, EnterPoll, PollReturns, Skip, AcceptNewClient,
           AcceptFails, AcceptOne, Receive, Serve, ServeThrows, PassEnds, CloseFds, CloseClientConnections, serverVars
  <2>2. Visit("IN") /\ fds[i].fd = g /\ input[g] = 0 /\ fd = g
    BY <2>1 DEF Disconnect
  <2>3. /\ Looping /\ i \in 1 .. Len(fds) /\ fds[i].events = "IN" /\ Current(fds[i])
        /\ fds[i].revents = "IN"
    BY <1>1, <2>2, Visited DEF Visit
  <2>4. hup[g]
    BY <2>2, <2>3 DEF Current
  <2>5. ~(pending[g] > 0) /\ pending[g] \in Nat
    BY <1>1, <2>2, <2>3, LoopVector DEF LoopInv, LinesAwaitPollout, TypeOK
  <2> QED BY <2>2, <2>4, <2>5
<1> QED BY <1>1, LoopInvariant, PTL DEF SafeSpec, NothingDropped

-----------------------------------------------------------------------------
\* The loop takes the steps of the abstract service

ServiceStep == [Served!Next]_(Served!vars)

\* A vector with the same descriptors asking for the same events.
LEMMA SameAnswering ==
    ASSUME DOMAIN fds' = DOMAIN fds,
           \A k \in DOMAIN fds : fds'[k].fd = fds[k].fd /\ fds'[k].events = fds[k].events
    PROVE  Answering' = Answering
BY DEF Answering

\* Who is being answered, read off the one entry it has.
LEMMA AnsweringAt ==
    ASSUME LoopInv, Looping, NEW k \in 1 .. Len(fds), fds[k].fd \in Fd
    PROVE  fds[k].fd \in Answering <=> fds[k].events = "OUT"
BY LoopVector DEF Answering

\* What the service cannot see.
LEMMA HiddenStep ==
    ASSUME Up' = Up, Answering' = Answering,
           UNCHANGED <<clients, pending, input, hup, writable>>
    PROVE  ServiceStep
BY DEF ServiceStep, Served!vars

\* The end of the service, normal or not.
LEMMA HaltStep ==
    ASSUME Up, ~Up', Answering' = Answering,
           UNCHANGED <<clients, pending, input, hup, writable>>
    PROVE  ServiceStep
BY DEF ServiceStep, Served!Next, Served!Halt

\* The steps of peers are the same ones.
LEMMA PeerSimulated == ASSUME NEW fd \in Fd, PeerStep(fd) PROVE ServiceStep
<1>1. UNCHANGED <<loopVars, serverVars>> /\ Up /\ fd \in clients
  BY DEF PeerStep, Send, Hangup, Drain
<1>2. Up' = Up /\ Answering' = Answering /\ UNCHANGED <<clients, pending>>
  BY <1>1 DEF Up, Looping, Answering, loopVars, serverVars
<1>3. CASE Send(fd)
  BY <1>1, <1>2, <1>3 DEF ServiceStep, Served!Next, Served!PeerStep, Served!Send, Served!Here, Send
<1>4. CASE Hangup(fd)
  BY <1>1, <1>2, <1>4 DEF ServiceStep, Served!Next, Served!PeerStep, Served!Hangup, Served!Here, Hangup
<1>5. CASE Drain(fd)
  BY <1>1, <1>2, <1>5 DEF ServiceStep, Served!Next, Served!PeerStep, Served!Drain, Served!Here, Drain
<1> QED BY <1>3, <1>4, <1>5 DEF PeerStep

\* Polling, and a signal that interrupts it, change the index and the revents;
\* when poll() has failed the service ends.
LEMMA RefreshSimulated ==
    ASSUME LoopInv, Signal \/ PollFails \/ PollReturns \/ PassEnds
    PROVE  ServiceStep
<1>1. UNCHANGED <<clients, pending, input, hup, writable>>
  BY DEF Signal, PollFails, PollReturns, PassEnds, socketVars
<1>2. Up' = Up \/ (Up /\ ~Up')
  BY DEF Signal, PollFails, Interrupted, PollReturns, PassEnds, Up, Looping
<1>3. fds \in Seq(PollFd) /\ (fds' = fds \/ fds' = Polled \/ fds' = NotPolled)
  BY DEF Signal, PollFails, Interrupted, PollReturns, PassEnds, LoopInv, TypeOK
<1>4. /\ DOMAIN fds' = DOMAIN fds
      /\ \A k \in DOMAIN fds : fds'[k].fd = fds[k].fd /\ fds'[k].events = fds[k].events
  <2>1. DOMAIN fds = 1 .. Len(fds)
    BY <1>3, LenProperties
  <2>2. DOMAIN Polled = 1 .. Len(fds) /\ DOMAIN NotPolled = 1 .. Len(fds)
    BY <1>3, PolledIs, LenProperties
  <2> QED BY <1>3, <2>1, <2>2, PolledIs
<1> QED BY <1>1, <1>2, <1>4, SameAnswering, HiddenStep, HaltStep

\* The steps that touch neither the vector nor the clients.
LEMMA ControlSimulated ==
    ASSUME LoopInv,
           \/ Connect \/ StartThrows \/ CheckSignal \/ EnterPoll \/ Skip
           \/ CloseFds \/ CloseClientConnections
           \/ \E fd \in Fd : ServeThrows(fd)
    PROVE  ServiceStep
<1>1. UNCHANGED <<fds, clients, pending, input, hup, writable>>
  BY DEF Connect, StartThrows, CheckSignal, EnterPoll, Skip, CloseFds, CloseClientConnections,
         ServeThrows, serverVars, socketVars
<1>2. Answering' = Answering
  BY <1>1 DEF Answering
<1>3. Up' => Up
  BY DEF Up, Looping, Connect, StartThrows, CheckSignal, EnterPoll, Skip, Visit, CloseFds,
         CloseClientConnections, ServeThrows, loopVars
<1>4. CASE Up /\ ~Up'
  BY <1>1, <1>2, <1>4, HaltStep
<1>5. CASE Up' = Up
  BY <1>1, <1>2, <1>5, HiddenStep
<1>6. (Up /\ ~Up') \/ Up' = Up
  BY <1>3 DEF Up, Looping
<1> QED BY <1>4, <1>5, <1>6

\* Start-up: a vector of one entry that no client has.
LEMMA StartSimulated == ASSUME LoopInv, Start PROVE ServiceStep
<1>1. /\ fds = <<>> /\ fds' = <<Entry(Listen)>>
      /\ UNCHANGED <<clients, pending, input, hup, writable>>
  BY DEF Start, LoopInv, SocketsOwned
<1>2. Up' = Up
  BY DEF Start, Up, Looping
<1>3. Answering = {} /\ Answering' = {}
  BY <1>1, DescriptorAssumption DEF Answering, Entry
<1> QED BY <1>1, <1>2, <1>3, HiddenStep

\* A connection accepted is a client admitted, which is read from first, or
\* nothing to the service if the socket is given up.
LEMMA AcceptSimulated == ASSUME LoopInv, AcceptNewClient PROVE ServiceStep
<1>1. Visit("IN") /\ UNCHANGED <<input, hup, writable>>
  BY DEF AcceptNewClient
<1>2. Looping /\ Looping' /\ Up /\ Up'
  BY <1>1, Visited DEF Up
<1>3. CASE UNCHANGED serverVars
  <2>1. Answering' = Answering /\ UNCHANGED <<clients, pending>>
    BY <1>3 DEF Answering, serverVars
  <2> QED BY <1>1, <1>2, <2>1, HiddenStep
<1>4. ASSUME NEW fd \in Fd \ open, clients' = clients \cup {fd},
             fds' = Append(fds, Entry(fd)), UNCHANGED pending
      PROVE  ServiceStep
  <2>1. Entry(fd) \in PollFd /\ Entry(fd).events = "IN" /\ fds \in Seq(PollFd)
    BY DEF Entry, PollFd, LoopInv, TypeOK
  <2>2. /\ Len(fds) \in Nat /\ DOMAIN fds = 1 .. Len(fds) /\ DOMAIN fds' = 1 .. Len(fds) + 1
        /\ \A k \in 1 .. Len(fds) : fds'[k] = fds[k]
        /\ fds'[Len(fds) + 1] = Entry(fd)
    BY <1>4, <2>1, AppendProperties, LenProperties
  <2>3. Answering' = Answering
    BY <2>1, <2>2 DEF Answering
  <2>4. fd \notin clients
    BY <1>2, LoopVector
  <2>5. Served!Admit(fd)
    BY <1>1, <1>2, <1>4, <2>3, <2>4 DEF Served!Admit
  <2> QED BY <2>5 DEF ServiceStep, Served!Next, Served!ServerStep
<1> QED BY <1>3, <1>4 DEF AcceptNewClient, AcceptFails, AcceptOne, serverVars

\* Turning one client's entry turns that client, and no other.
LEMMA TurnedAnswering ==
    ASSUME LoopInv, NEW fd \in Fd, NEW r \in {"IN", "OUT"}, NEW ev \in {"IN", "OUT"},
           Visit(r), fds[i].fd = fd, fds' = WithEvents(fds, i, ev)
    PROVE  /\ fd \in Answering <=> r = "OUT"
           /\ Answering' = IF ev = "OUT" THEN Answering \cup {fd} ELSE Answering \ {fd}
<1>1. Looping /\ i \in 1 .. Len(fds) /\ fds[i].events = r
  BY Visited
<1>2. fds \in Seq(PollFd) /\ i \in Nat
  BY DEF LoopInv, TypeOK
<1>3. /\ DOMAIN fds' = DOMAIN fds /\ DOMAIN fds = 1 .. Len(fds)
      /\ \A k \in 1 .. Len(fds) :
            /\ fds'[k].fd = fds[k].fd
            /\ fds'[k].events = IF k = i THEN ev ELSE fds[k].events
  BY <1>2, WithEventsIs, LenProperties
<1>4. \A k \in 1 .. Len(fds) : fds[k].fd = fd => k = i
  BY <1>1, LoopVector
<1>5. fd \in Answering <=> r = "OUT"
  BY <1>1, AnsweringAt
<1>6. \A g \in Fd \ {fd} : g \in Answering' <=> g \in Answering
  BY <1>1, <1>3, <1>4 DEF Answering
<1>7. fd \in Answering' <=> ev = "OUT"
  BY <1>1, <1>3, <1>4 DEF Answering
<1>8. Answering \subseteq Fd /\ Answering' \subseteq Fd
  BY DEF Answering
<1> QED BY <1>5, <1>6, <1>7, <1>8

\* A client is read from only when it has nothing left to be answered.
LEMMA ReceiveSimulated == ASSUME LoopInv, NEW fd \in Fd, Receive(fd) PROVE ServiceStep
<1>1. /\ Visit("IN") /\ fds[i].fd = fd /\ input[fd] > 0
      /\ input' = [input EXCEPT ![fd] = @ - 1]
      /\ fds' = WithEvents(fds, i, "OUT")
      /\ UNCHANGED <<clients, hup, writable>>
  BY DEF Receive
<1>2. /\ Looping /\ Up /\ Up' /\ fd \in clients /\ fd \notin Answering
      /\ Answering' = Answering \cup {fd}
      /\ i \in 1 .. Len(fds) /\ fds[i].events = "IN"
  BY <1>1, Visited, TurnedAnswering DEF Up
<1>3. pending[fd] = 0 /\ pending \in [Fd -> Nat]
  <2>1. pending \in [Fd -> Nat]
    BY DEF LoopInv, TypeOK
  <2>2. ~(pending[fd] > 0)
    BY <1>1, <1>2, LoopVector DEF LoopInv, LinesAwaitPollout
  <2> QED BY <2>1, <2>2
<1>4. PICK n \in 0 .. MaxLines : pending' = [pending EXCEPT ![fd] = @ + n]
  BY DEF Receive
<1>5. pending' = [pending EXCEPT ![fd] = n]
  BY <1>3, <1>4, BoundAssumption
<1>6. Served!Receive(fd)
  BY <1>1, <1>2, <1>5 DEF Served!Receive, Served!Here
<1> QED BY <1>6 DEF ServiceStep, Served!Next, Served!ServerStep

\* Executing the queued lines answers the client.
LEMMA ServeSimulated == ASSUME LoopInv, NEW fd \in Fd, Serve(fd) PROVE ServiceStep
<1>1. /\ Visit("OUT") /\ fds[i].fd = fd
      /\ pending' = [pending EXCEPT ![fd] = 0]
      /\ fds' = WithEvents(fds, i, "IN")
      /\ UNCHANGED <<clients, input, hup>>
  BY DEF Serve
<1>2. /\ Up /\ Up' /\ fd \in clients /\ fd \in Answering
      /\ Answering' = Answering \ {fd}
  BY <1>1, Visited, TurnedAnswering DEF Up
<1>3. PICK full \in IF pending[fd] = 0 THEN {{}} ELSE SUBSET clients :
         writable' = [g \in Fd |-> writable[g] /\ g \notin full]
  BY DEF Serve
<1>4. full \in SUBSET clients /\ (pending[fd] = 0 => full = {})
  BY <1>3
<1>5. Served!Answer(fd)
  BY <1>1, <1>2, <1>3, <1>4 DEF Served!Answer, Served!Here
<1> QED BY <1>5 DEF ServiceStep, Served!Next, Served!ServerStep

\* Losing a connection lets a finished client go, and may turn the next one.
LEMMA DisconnectSimulated == ASSUME LoopInv, NEW fd \in Fd, Disconnect(fd) PROVE ServiceStep
<1>1. /\ Visit("IN") /\ fds[i].fd = fd /\ input[fd] = 0
      /\ clients' = clients \ {fd}
      /\ pending' = [pending EXCEPT ![fd] = 0]
      /\ hup' = [hup EXCEPT ![fd] = FALSE]
      /\ \E full \in SUBSET (clients \ {fd}) :
            writable' = [g \in Fd |-> g = fd \/ (writable[g] /\ g \notin full)]
      /\ UNCHANGED input
  BY DEF Disconnect, QuitFills
<1>2. /\ Looping /\ Up /\ Up' /\ fd \in clients /\ i \in 1 .. Len(fds) /\ i >= 2
      /\ fds[i].events = "IN" /\ Current(fds[i]) /\ fds[i].revents = "IN"
  BY <1>1, Visited DEF Up, Visit
<1>3. hup[fd] /\ pending[fd] = 0 /\ pending \in [Fd -> Nat]
  <2>1. hup[fd]
    BY <1>1, <1>2 DEF Current
  <2>2. pending \in [Fd -> Nat] /\ ~(pending[fd] > 0)
    BY <1>1, <1>2, LoopVector DEF LoopInv, LinesAwaitPollout, TypeOK
  <2> QED BY <2>1, <2>2
<1>4. pending' = pending
  BY <1>1, <1>3
<1>5. fd \notin Answering
  BY <1>1, <1>2, AnsweringAt
<1> DEFINE From(k) == IF k < i THEN k ELSE k + 1
<1>6. /\ DOMAIN fds' = 1 .. Len(fds) - 1
      /\ \A k \in 1 .. Len(fds) - 1 :
            /\ fds'[k].fd = fds[From(k)].fd
            /\ fds'[k].events = IF k = i THEN "OUT" ELSE fds[From(k)].events
  BY Closed
<1>7. \A k \in 1 .. Len(fds) - 1 : From(k) \in 1 .. Len(fds) /\ From(k) # i
  BY <1>2, LoopVector
<1>8. \A k \in 1 .. Len(fds) : k # i => \E j \in 1 .. Len(fds) - 1 : From(j) = k
  <2> SUFFICES ASSUME NEW k \in 1 .. Len(fds), k # i
               PROVE  \E j \in 1 .. Len(fds) - 1 : From(j) = k
    OBVIOUS
  <2> DEFINE j == IF k < i THEN k ELSE k - 1
  <2>1. j \in 1 .. Len(fds) - 1 /\ From(j) = k
    BY <1>2, LoopVector
  <2> QED BY <2>1
<1>9. From(i) = i + 1 /\ \A j \in 1 .. Len(fds) - 1 : From(j) = i + 1 => j = i
  BY <1>2, LoopVector
<1> HIDE DEF From
<1>10. \A k \in 1 .. Len(fds) : k # i => fds[k].fd # fd
  BY <1>1, <1>2, LoopVector
<1>11. DOMAIN fds = 1 .. Len(fds) /\ Answering \subseteq Fd /\ Answering' \subseteq Fd
  BY <1>2, LoopVector DEF Answering
<1>12. CASE i = Len(fds)
  <2>1. \A j \in 1 .. Len(fds) - 1 : j # i
    BY <1>2, <1>12, LoopVector
  <2>2. \A g \in Fd : g \in Answering' => g \in Answering
    BY <1>6, <1>7, <1>11, <2>1 DEF Answering
  <2>3. ASSUME NEW g \in Answering PROVE g \in Answering'
    <3>1. PICK k \in 1 .. Len(fds) : fds[k].fd = g /\ fds[k].events = "OUT"
      BY <1>11, <2>3 DEF Answering
    <3>2. k # i
      BY <1>2, <3>1
    <3> QED BY <1>6, <1>8, <1>11, <2>1, <2>3, <3>1, <3>2 DEF Answering
  <2>4. Answering' = Answering \cup {}
    BY <1>11, <2>2, <2>3
  <2>5. Served!Leave(fd)
    BY <1>1, <1>2, <1>3, <1>4, <1>5, <2>4 DEF Served!Leave, Served!Here
  <2> QED BY <2>5 DEF ServiceStep, Served!Next, Served!ServerStep
<1>13. CASE i # Len(fds)
  <2> DEFINE q == fds[i + 1].fd
  <2>1. i \in 1 .. Len(fds) - 1 /\ i + 1 \in 1 .. Len(fds) /\ i + 1 # i /\ i + 1 # 1
    BY <1>2, <1>13, LoopVector
  <2>2. q \in clients \ {fd} /\ q \in Fd
    BY <1>2, <1>10, <2>1, LoopVector
  <2>3. fds'[i].fd = q /\ fds'[i].events = "OUT"
    BY <1>6, <1>9, <2>1
  <2>4. q \in Answering'
    BY <1>6, <2>1, <2>2, <2>3 DEF Answering
  <2>5. ASSUME NEW g \in Answering', g # q PROVE g \in Answering
    <3>1. PICK k \in 1 .. Len(fds) - 1 : fds'[k].fd = g /\ fds'[k].events = "OUT"
      BY <1>6, <2>5 DEF Answering
    <3>2. k # i
      BY <2>3, <2>5, <3>1
    <3> QED BY <1>6, <1>7, <1>11, <2>5, <3>1, <3>2 DEF Answering
  <2>6. ASSUME NEW g \in Answering PROVE g \in Answering'
    <3>1. PICK k \in 1 .. Len(fds) : fds[k].fd = g /\ fds[k].events = "OUT"
      BY <1>11, <2>6 DEF Answering
    <3>2. k # i
      BY <1>2, <3>1
    <3>3. PICK j \in 1 .. Len(fds) - 1 : From(j) = k
      BY <1>8, <3>2
    <3>4. fds'[j].fd = g /\ fds'[j].events = "OUT"
      BY <1>6, <3>1, <3>3
    <3> QED BY <1>6, <1>11, <2>6, <3>4 DEF Answering
  <2> HIDE DEF q
  <2>7. Answering' = Answering \cup {q}
    BY <2>4, <2>5, <2>6
  <2>8. {q} \in {{}} \cup {{p} : p \in clients \ {fd}}
    BY <2>2
  <2>9. Served!Leave(fd)
    BY <1>1, <1>2, <1>3, <1>4, <1>5, <2>7, <2>8 DEF Served!Leave, Served!Here
  <2> QED BY <2>9 DEF ServiceStep, Served!Next, Served!ServerStep
<1> QED BY <1>12, <1>13

\* The safety part of ImplementsService: the loop, with its vector, its index
\* and its revents, does nothing the abstract service may not do.
THEOREM ServiceRefined == SafeSpec => Served!SafeSpec
<1>1. Init => Served!Init
  <2>1. Init => Answering = {} /\ Up
    BY DEF Init, Answering, Up
  <2> QED BY <2>1 DEF Init, Served!Init
<1>2. ASSUME LoopInv, [Next]_vars PROVE ServiceStep
  <2>1. CASE UNCHANGED vars
    <3>1. UNCHANGED <<pc, fds, clients, pending, input, hup, writable>>
      BY <2>1 DEF vars, loopVars, serverVars, socketVars
    <3>2. Up' = Up /\ Answering' = Answering
      BY <3>1 DEF Up, Looping, Answering
    <3> QED BY <3>1, <3>2, HiddenStep
  <2>2. CASE Outside
    BY <1>2, <2>2, PeerSimulated, RefreshSimulated, ControlSimulated DEF Outside
  <2>3. CASE Start
    BY <1>2, <2>3, StartSimulated
  <2>4. CASE StartThrows \/ CheckSignal \/ EnterPoll \/ CloseFds \/ CloseClientConnections
    BY <1>2, <2>4, ControlSimulated
  <2>5. CASE PollReturns
    BY <1>2, <2>5, RefreshSimulated
  <2>6. CASE PassStep
    <3>1. CASE Skip \/ \E fd \in Fd : ServeThrows(fd)
      BY <1>2, <3>1, ControlSimulated
    <3>2. CASE AcceptNewClient
      BY <1>2, <3>2, AcceptSimulated
    <3>3. CASE \E fd \in Fd : Receive(fd) \/ Disconnect(fd) \/ Serve(fd)
      BY <1>2, <3>3, ReceiveSimulated, DisconnectSimulated, ServeSimulated
    <3>4. CASE PassEnds
      BY <1>2, <3>4, RefreshSimulated
    <3> QED BY <2>6, <3>1, <3>2, <3>3, <3>4 DEF PassStep
  <2> QED BY <1>2, <2>1, <2>2, <2>3, <2>4, <2>5, <2>6 DEF Next, Server
<1>3. LoopInv /\ [Next]_vars => [Served!Next]_(Served!vars)
  BY <1>2 DEF ServiceStep
<1> QED BY <1>1, <1>3, LoopInvariant, PTL DEF SafeSpec, Served!SafeSpec
=============================================================================
