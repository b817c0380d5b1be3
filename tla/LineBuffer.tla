----------------------------- MODULE LineBuffer -----------------------------
(***************************************************************************)
(* From the bytes a client sends to the lines the server executes:         *)
(* Server::SplitBuffer, the loop over its pieces in ReceiveNewData, the    *)
(* two buffers of a Client (`temp`, the line under way, and `vect`, the    *)
(* complete lines) and the cut at the carriage return in Handler.          *)
(*                                                                         *)
(* TCP keeps the order of the bytes and not the borders of the lines: what *)
(* one recv() returns, a segment, may end anywhere.  Receiving and         *)
(* executing alternate, as EventLoop shows; `turn` says which is next.     *)
(*                                                                         *)
(* A byte is text, CR or LF.  NUL, which IRC forbids and which would end   *)
(* the C string early, is not sent.                                        *)
(***************************************************************************)
EXTENDS Integers, FiniteSetsExt, SequencesExt

CONSTANTS
    Text,        \* bytes that are neither CR nor LF
    MaxBytes     \* bound on the bytes a client sends in all

CR == "\r"

LF == "\n"

ASSUME TextAssumption == Text \cap {CR, LF} = {} /\ MaxBytes \in Nat

VARIABLES
    stream,      \* all bytes received so far
    cuts,        \* the positions in stream at which a segment ended
    turn,        \* "receive" or "execute"
    temp,        \* Client::temp
    vect,        \* Client::vect
    executed     \* the lines Handler has taken apart so far

vars == <<stream, cuts, turn, temp, vect, executed>>

-----------------------------------------------------------------------------

Byte == Text \cup {CR, LF}

Bytes == Seq(Byte)

EndsWithLF(s) == s # <<>> /\ Last(s) = LF

\* A piece ends after LF, and after a CR that is not followed by LF, also if
\* the LF is in the next segment.
EndsPiece(s, k) ==
    \/ s[k] = LF
    \/ s[k] = CR /\ ~(k + 1 \in DOMAIN s /\ s[k + 1] = LF)

\* The k-th byte of s goes to the line under way, which it may complete.
SplitByte(split, s, k) ==
    LET line == Append(split.line, s[k])
    IN  IF EndsPiece(s, k)
        THEN [vec |-> Append(split.vec, line), line |-> <<>>]
        ELSE [vec |-> split.vec, line |-> line]

\* The complete pieces of s, and the bytes after them.
Split(s) ==
    LET split[k \in 0 .. Len(s)] ==
            IF k = 0 THEN [vec |-> <<>>, line |-> <<>>] ELSE SplitByte(split[k - 1], s, k)
    IN  split[Len(s)]

\* Variant: the piece that does not end in a newline is not pushed.
SplitDroppingRest(s) == Split(s).vec

SplitBuffer(s) ==
    IF Split(s).line = <<>> THEN Split(s).vec ELSE Append(Split(s).vec, Split(s).line)

\* Variant: temp is not reset when its line is complete.
BufferKeepingTemp(client, piece) ==
    IF EndsWithLF(piece)
    THEN [client EXCEPT !.vect = Append(@, client.temp \o piece)]
    ELSE [client EXCEPT !.temp = piece]

\* SetTemp replaces what was there; a complete line takes it along.
Buffer(client, piece) ==
    IF EndsWithLF(piece)
    THEN [vect |-> Append(client.vect, client.temp \o piece), temp |-> <<>>]
    ELSE [vect |-> client.vect, temp |-> piece]

\* The two buffers after all pieces, in order.
BufferAll(client, pieces) ==
    LET buffered[i \in 0 .. Len(pieces)] ==
            IF i = 0 THEN client ELSE Buffer(buffered[i - 1], pieces[i])
    IN  buffered[Len(pieces)]

\* Handler erases from the first CR on; a LF without CR stays in the line.
Stripped(line) ==
    LET crs == {k \in DOMAIN line : line[k] = CR}
    IN  IF crs = {} THEN line ELSE SubSeq(line, 1, Min(crs) - 1)

-----------------------------------------------------------------------------

Init ==
    /\ stream = <<>>
    /\ cuts = {}
    /\ turn = "receive"
    /\ temp = <<>>
    /\ vect = <<>>
    /\ executed = <<>>

ReceiveNewData(segment) ==
    LET client == BufferAll([vect |-> vect, temp |-> temp], SplitBuffer(segment))
    IN  /\ turn = "receive"
        /\ stream' = stream \o segment
        /\ cuts' = cuts \cup {Len(stream')}
        /\ temp' = client.temp
        /\ vect' = client.vect
        /\ turn' = "execute"
        /\ UNCHANGED executed

\* Variant: VectReset is forgotten.
ExecuteAgain ==
    /\ turn = "execute"
    /\ executed' = executed \o [k \in DOMAIN vect |-> Stripped(vect[k])]
    /\ turn' = "receive"
    /\ UNCHANGED <<stream, cuts, temp, vect>>

\* Handler for each line in order, then VectReset.
Execute ==
    /\ turn = "execute"
    /\ executed' = executed \o [k \in DOMAIN vect |-> Stripped(vect[k])]
    /\ vect' = <<>>
    /\ turn' = "receive"
    /\ UNCHANGED <<stream, cuts, temp>>

Segment == UNION {[1 .. n -> Byte] : n \in 1 .. (MaxBytes - Len(stream))}

Next == Execute \/ \E segment \in Segment : ReceiveNewData(segment)

Spec == Init /\ [][Next]_vars

-----------------------------------------------------------------------------
\* Properties

\* Every variable holds a value of its type, and nothing waits to be
\* executed while the server waits for more.
TypeOK ==
    /\ stream \in Bytes
    /\ cuts \subseteq 1 .. Len(stream)
    /\ turn \in {"receive", "execute"}
    /\ temp \in Bytes
    /\ vect \in Seq(Bytes)
    /\ executed \in Seq(Bytes)
    /\ turn = "receive" => vect = <<>>

\* The lines of the stream are told apart by the positions at which they end.
Ends == {k \in DOMAIN stream : stream[k] = LF}

\* Which of the lines it is that ends at e.
Rank(e) == Cardinality({k \in Ends : k <= e})

\* The last position in S before e, or 0.
LastBefore(S, e) == Max({0} \cup {k \in S : k < e})

SentLine(e) == SubSeq(stream, LastBefore(Ends, e) + 1, e)

Received == executed \o [k \in DOMAIN vect |-> Stripped(vect[k])]

\* However the stream is cut, each line it holds is executed exactly once:
\* no line is run again, split in two, or joined to the next one.
OneEach == Len(Received) = Cardinality(Ends)

\* IRC clients send CR only in front of LF.
Conforming ==
    \A k \in DOMAIN stream : stream[k] = CR /\ k < Len(stream) => stream[k + 1] = LF

\* What is executed is the end of the line that was sent, in the order the
\* lines were sent: nothing of another line ever gets into it.
NothingMixed ==
    Conforming => \A e \in Ends : IsSuffix(Received[Rank(e)], Stripped(SentLine(e)))

\* The places at which the line that ends at e was cut.
CutsIn(e) == {c \in cuts : LastBefore(Ends, e) < c /\ c < e}

\* A line that arrives whole or in two segments is executed as it was sent,
\* also if the cut is between its CR and its LF.
WholeInTwo ==
    Conforming => \A e \in Ends :
                      Cardinality(CutsIn(e)) <= 1 => Received[Rank(e)] = Stripped(SentLine(e))

-----------------------------------------------------------------------------
\* What the documentation says and the code does not do

\* README.md:62: all IRC messages arrive (in order): each as it was sent.
LinesArrive ==
    Conforming => \A e \in Ends : Received[Rank(e)] = Stripped(SentLine(e))

=============================================================================
