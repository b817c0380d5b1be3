--------------------------- MODULE DeliveryProofs ---------------------------
(***************************************************************************)
(* What clients are told about each other is right, for any number of      *)
(* clients, channels and nicknames, whichever sends fail.                  *)
(*                                                                         *)
(* Delivery adds announcements to the steps of Channels and takes none     *)
(* away, so ChannelInv holds throughout; with it, the descriptors a        *)
(* channel's entries lead to are its members and the nicknames in them are *)
(* the members' own.  NoGhosts and SeeEachOther are proved together: that  *)
(* a nickname to be struck out or replaced is known only to clients that   *)
(* are sent the message is NoGhosts, and that it is known to all of them   *)
(* is SeeEachOther.  Known states both without the maps.                   *)
(***************************************************************************)
EXTENDS Delivery, MembershipProofs

\* The views, in terms of members and their nicknames alone.
Known ==
    /\ view \in [Fd -> [Chan -> SUBSET NickWord]]
    /\ deaf \subseteq Connected
    /\ \A f \in Fd, c \in Chan :
           view[f][c] # {} => f \in Members(chan[c]) /\ f \notin deaf
    /\ \A f \in Fd, c \in Chan : \A n \in view[f][c] :
           \E g \in Members(chan[c]) : NickOf(g) = n
    /\ \A f, g \in Fd, c \in Chan :
           view[f][c] # {} /\ view[g][c] # {} => NickOf(g) \in view[f][c]

DeliveryInv == ChannelInv /\ Known

\* Members are connected and have names, and names tell clients apart.
MembersNamed ==
    /\ Connected \subseteq Fd
    /\ \A c \in Chan : \A g \in Members(chan[c]) : g \in Connected /\ NickOf(g) \in NickWord
    /\ \A f, g \in Connected :
           NickOf(f) \in NickWord /\ Lower[NickOf(f)] = Lower[NickOf(g)] => f = g

-----------------------------------------------------------------------------
\* What the maps of a channel say

\* The receivers and the nicknames of a live channel are its members'.
LEMMA RoomIs ==
    ASSUME SessionInv, NEW ch, LiveChannel(ch)
    PROVE  /\ FdsOf(ch.admins) \cup FdsOf(ch.clients) = Members(ch)
           /\ NicksOf(ch) = {NickOf(g) : g \in Members(ch)}
           /\ \A g \in Members(ch) : g \in Connected /\ NickOf(g) \in NickWord
<1>1. ASSUME NEW m, LiveMap(m)
      PROVE  /\ FdsOf(m) = Keys(m)
             /\ {heap[m[k]].nickname : k \in Keys(m)} = {NickOf(g) : g \in Keys(m)}
             /\ \A g \in Keys(m) : g \in Connected /\ NickOf(g) \in NickWord
  <2>1. \A k \in Keys(m) : /\ heap[m[k]] = GetClient(k)
                           /\ heap[m[k]].fd = k
                           /\ k \in Connected
                           /\ GetClient(k).nickname \in NickWord
    BY <1>1, LiveEntry
  <2> QED BY <2>1 DEF FdsOf, NickOf
<1>2. /\ FdsOf(ch.admins) = Keys(ch.admins) /\ FdsOf(ch.clients) = Keys(ch.clients)
      /\ {heap[ch.admins[k]].nickname : k \in Keys(ch.admins)}
             = {NickOf(g) : g \in Keys(ch.admins)}
      /\ {heap[ch.clients[k]].nickname : k \in Keys(ch.clients)}
             = {NickOf(g) : g \in Keys(ch.clients)}
      /\ \A g \in Keys(ch.admins) : g \in Connected /\ NickOf(g) \in NickWord
      /\ \A g \in Keys(ch.clients) : g \in Connected /\ NickOf(g) \in NickWord
  <2>1. LiveMap(ch.admins) /\ LiveMap(ch.clients)
    BY DEF LiveChannel
  <2> QED BY <1>1, <2>1
<1>3. NicksOf(ch) = {NickOf(g) : g \in Keys(ch.admins)} \cup {NickOf(g) : g \in Keys(ch.clients)}
  BY <1>2 DEF NicksOf
<1> QED BY <1>2, <1>3 DEF Members

\* Also where a name is not a key.
LEMMA RoomLive == ASSUME ChannelInv, NEW c \in Chan PROVE LiveChannel(chan[c]) /\ SessionInv
<1>1. CASE c \in channels
  BY <1>1, InvLive DEF ChannelInv
<1>2. CASE c \notin channels
  <2>1. chan[c] = NewChannel
    BY <1>2 DEF ChannelInv, TypeOK
  <2> QED BY <2>1, NewChannelLive DEF ChannelInv
<1> QED BY <1>1, <1>2

\* Members and names are as Delivery needs them.
LEMMA NamedMembers == ChannelInv => MembersNamed
<1> SUFFICES ASSUME ChannelInv PROVE MembersNamed
  OBVIOUS
<1>1. Connected \subseteq Fd
  BY ConnectedType DEF ChannelInv, SessionInv
<1>2. ASSUME NEW c \in Chan, NEW g \in Members(chan[c])
      PROVE  g \in Connected /\ NickOf(g) \in NickWord
  BY RoomLive, RoomIs
<1>3. ASSUME NEW f \in Connected, NEW g \in Connected,
             NickOf(f) \in NickWord, Lower[NickOf(f)] = Lower[NickOf(g)]
      PROVE  f = g
  <2>1. /\ GetClient(f).nickname # ""
        /\ Lower[GetClient(f).nickname] = Lower[GetClient(g).nickname]
    BY <1>3, WordAssumption DEF NickOf
  <2>2. SessionInv
    BY DEF ChannelInv
  <2> QED BY <2>1, <2>2, SameNick
<1> QED BY <1>1, <1>2, <1>3 DEF MembersNamed

\* Under ChannelInv, Known is what Delivery states of the views.
LEMMA KnownIs == ChannelInv => (Known <=> DeliveryTypeOK /\ NoGhosts /\ SeeEachOther)
<1> SUFFICES ASSUME ChannelInv PROVE Known <=> DeliveryTypeOK /\ NoGhosts /\ SeeEachOther
  OBVIOUS
<1>1. MembersNamed
  BY NamedMembers
<1>2. \A c \in Chan : NicksOf(chan[c]) = {NickOf(g) : g \in Members(chan[c])}
  BY RoomLive, RoomIs
<1>3. ASSUME Known PROVE DeliveryTypeOK /\ NoGhosts /\ SeeEachOther
  <2>1. \A fd \in (Fd \ Connected) \cup deaf : view[fd] = NoView
    <3> SUFFICES ASSUME NEW fd \in (Fd \ Connected) \cup deaf PROVE view[fd] = NoView
      OBVIOUS
    <3>1. fd \in Fd /\ \A c \in Chan : view[fd][c] = {}
      BY <1>1, <1>3 DEF Known, MembersNamed
    <3> QED BY <1>3, <3>1 DEF Known, NoView
  <2>2. NoGhosts
    <3> SUFFICES ASSUME NEW fd \in Connected, NEW c \in Chan, view[fd][c] # {}
                 PROVE  fd \in Members(chan[c]) /\ view[fd][c] \subseteq NicksOf(chan[c])
      BY DEF NoGhosts
    <3>1. fd \in Fd
      BY <1>1 DEF MembersNamed
    <3>2. fd \in Members(chan[c])
      BY <1>3, <3>1 DEF Known
    <3>3. \A n \in view[fd][c] : \E g \in Members(chan[c]) : NickOf(g) = n
      BY <1>3, <3>1 DEF Known
    <3>4. NicksOf(chan[c]) = {NickOf(g) : g \in Members(chan[c])}
      BY <1>2
    <3> QED BY <3>2, <3>3, <3>4
  <2>3. SeeEachOther
    BY <1>1, <1>3 DEF Known, SeeEachOther, MembersNamed
  <2> QED BY <1>3, <2>1, <2>2, <2>3 DEF Known, DeliveryTypeOK
<1>4. ASSUME DeliveryTypeOK, NoGhosts, SeeEachOther PROVE Known
  <2>1. \A f \in Fd, c \in Chan : view[f][c] # {} => f \in Connected /\ f \notin deaf
    BY <1>4 DEF DeliveryTypeOK, NoView
  <2>2. \A f \in Fd, c \in Chan : view[f][c] # {} => f \in Members(chan[c])
    BY <1>4, <2>1 DEF NoGhosts
  <2>3. ASSUME NEW f \in Fd, NEW c \in Chan, NEW n \in view[f][c]
        PROVE  \E g \in Members(chan[c]) : NickOf(g) = n
    BY <1>2, <1>4, <2>1, <2>3 DEF NoGhosts
  <2>4. \A f, g \in Fd, c \in Chan :
            view[f][c] # {} /\ view[g][c] # {} => NickOf(g) \in view[f][c]
    BY <1>4, <2>1 DEF SeeEachOther
  <2> QED BY <1>4, <2>1, <2>2, <2>3, <2>4 DEF Known, DeliveryTypeOK
<1> QED BY <1>3, <1>4

-----------------------------------------------------------------------------
\* The views after a step, by what happens to members and nicknames

\* Nobody moves and nobody is told anything.
LEMMA QuietKnown ==
    ASSUME Known, UNCHANGED deliveryVars,
           Connected \subseteq Connected',
           \A c \in Chan : Members(chan'[c]) = Members(chan[c]),
           \A c \in Chan : \A g \in Members(chan[c]) : NickOf(g)' = NickOf(g)
    PROVE  Known'
<1>1. view' = view /\ deaf' = deaf
  BY DEF deliveryVars
<1>2. view' \in [Fd -> [Chan -> SUBSET NickWord]] /\ deaf' \subseteq Connected'
  BY <1>1 DEF Known
<1>3. \A f \in Fd, c \in Chan : view'[f][c] # {} => f \in Members(chan'[c]) /\ f \notin deaf'
  BY <1>1 DEF Known
<1>4. \A f \in Fd, c \in Chan : \A n \in view'[f][c] : \E g \in Members(chan'[c]) : NickOf(g)' = n
  BY <1>1 DEF Known
<1>5. \A f, g \in Fd, c \in Chan :
          view'[f][c] # {} /\ view'[g][c] # {} => NickOf(g)' \in view'[f][c]
  BY <1>1 DEF Known
<1> QED BY <1>2, <1>3, <1>4, <1>5 DEF Known

\* The new views are of the right type.
ViewsTyped ==
    deaf' \subseteq Connected' /\ view' \in [Fd -> [Chan -> SUBSET NickWord]]

\* What a client makes of hearing that the nickname has left the channels R.
Struck(f, c, R, word) ==
    IF c \notin R THEN view[f][c]
    ELSE IF NickOf(f) \in Alike(word) THEN {} ELSE view[f][c] \ Alike(word)

\* Nobody but x leaves, and only channels of R; who stays keeps its name.
Leaves(x, R) ==
    \A c \in Chan :
        /\ Members(chan'[c]) \subseteq Members(chan[c])
        /\ Members(chan[c]) \ {x} \subseteq Members(chan'[c])
        /\ c \notin R => Members(chan'[c]) = Members(chan[c])
        /\ \A g \in Members(chan'[c]) : NickOf(g)' = NickOf(g)

\* Those it shares a channel of R with are in A.
Concerns(x, R, A) ==
    \A c \in Chan \cap R : x \in Members(chan[c]) => Members(chan[c]) \subseteq A \cup {x}

\* A client that has heard all it was sent has struck the name out if it is
\* in A, and still believes what it did if it is not.
StruckOut(x, word, R, A) ==
    \A f \in Fd, c \in Chan :
        \/ view'[f][c] = {}
        \/ f \notin deaf' /\ f \in A /\ view'[f][c] = Struck(f, c, R, word)
        \/ f \notin deaf' /\ f \notin A /\ f # x /\ view'[f][c] = view[f][c]

\* One client loses entries in the channels R, and all it shares one of them
\* with are told, except those whose send fails.
LEMMA LeaveKnown ==
    ASSUME Known, MembersNamed, ViewsTyped,
           NEW x \in Connected, NEW word, Lower[word] = Lower[NickOf(x)],
           NEW R, NEW A, Leaves(x, R), Concerns(x, R, A), StruckOut(x, word, R, A)
    PROVE  Known'
<1> USE DEF ViewsTyped, Leaves, Concerns, StruckOut
<1>1. ASSUME NEW f \in Fd, NEW c \in Chan
      PROVE  view'[f][c] \subseteq view[f][c] /\ (view'[f][c] # {} => f \notin deaf')
  BY DEF Struck
<1>2. ASSUME NEW c \in Chan, NEW f \in Members(chan[c]), NickOf(f) \in Alike(word)
      PROVE  f = x
  BY <1>2 DEF MembersNamed, Alike
<1>3. ASSUME NEW c \in Chan, c \in R, x \in Members(chan[c]), NEW f \in Fd, view'[f][c] # {}
      PROVE  f # x /\ view'[f][c] = view[f][c] \ Alike(word)
  <2>1. f \in Members(chan[c])
    BY <1>1, <1>3 DEF Known
  <2>2. f \in A
    BY <1>3, <2>1
  <2>3. view'[f][c] = Struck(f, c, R, word)
    BY <1>3, <2>2
  <2>4. NickOf(x) \in Alike(word)
    BY <1>3 DEF MembersNamed, Alike
  <2> QED BY <1>3, <2>3, <2>4 DEF Struck
<1>4. ASSUME NEW c \in Chan, c \in R => x \notin Members(chan[c]), NEW f \in Fd, view'[f][c] # {}
      PROVE  view'[f][c] = view[f][c]
  <2>1. f \in Members(chan[c])
    BY <1>1, <1>4 DEF Known
  <2>2. CASE c \in R
    <3>1. ASSUME NEW n \in view[f][c] PROVE n \notin Alike(word)
      <4>1. PICK g \in Members(chan[c]) : NickOf(g) = n
        BY DEF Known
      <4> QED BY <1>2, <1>4, <2>2, <4>1
    <3>2. NickOf(f) \notin Alike(word)
      BY <1>2, <1>4, <2>1, <2>2
    <3>3. Struck(f, c, R, word) = view[f][c]
      BY <3>1, <3>2 DEF Struck
    <3> QED BY <1>4, <3>3
  <2>3. CASE c \notin R
    BY <1>4, <2>3 DEF Struck
  <2> QED BY <2>2, <2>3
<1>5. ASSUME NEW f \in Fd, NEW c \in Chan, view'[f][c] # {}
      PROVE  f \in Members(chan'[c]) /\ f \notin deaf'
  <2>1. f \in Members(chan[c]) /\ f \notin deaf'
    BY <1>1, <1>5 DEF Known
  <2>2. CASE c \in R /\ x \in Members(chan[c])
    <3>1. f # x
      BY <1>3, <1>5, <2>2
    <3> QED BY <2>1, <3>1
  <2>3. CASE c \notin R
    BY <2>1, <2>3
  <2>4. CASE x \notin Members(chan[c])
    BY <2>1, <2>4
  <2> QED BY <2>2, <2>3, <2>4
<1>6. ASSUME NEW f \in Fd, NEW c \in Chan, NEW n \in view'[f][c]
      PROVE  \E g \in Members(chan'[c]) : NickOf(g)' = n
  <2>1. PICK g \in Members(chan[c]) : NickOf(g) = n
    BY <1>1 DEF Known
  <2>2. CASE c \in R /\ x \in Members(chan[c])
    <3>1. n \notin Alike(word) /\ n \in NickWord
      BY <1>1, <1>3, <2>2 DEF Known
    <3>2. g # x
      BY <2>1, <3>1 DEF Alike
    <3> QED BY <2>1, <3>2
  <2>3. CASE c \notin R
    BY <2>1, <2>3
  <2>4. CASE x \notin Members(chan[c])
    BY <2>1, <2>4
  <2> QED BY <2>2, <2>3, <2>4
<1>7. ASSUME NEW f \in Fd, NEW g \in Fd, NEW c \in Chan, view'[f][c] # {}, view'[g][c] # {}
      PROVE  NickOf(g)' \in view'[f][c]
  <2>1. view[f][c] # {} /\ view[g][c] # {} /\ g \in Members(chan[c])
    BY <1>1, <1>7 DEF Known
  <2>2. NickOf(g) \in view[f][c]
    BY <2>1 DEF Known
  <2>3. NickOf(g)' = NickOf(g)
    BY <1>5, <1>7
  <2>4. CASE c \in R /\ x \in Members(chan[c])
    <3>1. g # x
      BY <1>3, <1>7, <2>4
    <3>2. NickOf(g) \notin Alike(word)
      BY <1>2, <2>1, <3>1
    <3> QED BY <1>3, <1>7, <2>2, <2>3, <2>4, <3>2
  <2>5. CASE c \in R => x \notin Members(chan[c])
    BY <1>4, <1>7, <2>2, <2>3, <2>5
  <2> QED BY <2>4, <2>5
<1> QED BY <1>5, <1>6, <1>7 DEF Known

\* Client x enters channel d; all keep their names.
Enters(x, d) ==
    /\ Members(chan'[d]) = Members(chan[d]) \cup {x}
    /\ \A c \in Chan \ {d} : Members(chan'[c]) = Members(chan[c])
    /\ \A c \in Chan : \A g \in Members(chan'[c]) : NickOf(g)' = NickOf(g)

\* A client that has heard all it was sent has added the name, and the one
\* that entered has the whole list.
Added(x, d) ==
    \A f \in Fd, c \in Chan :
        \/ view'[f][c] = {}
        \/ f \notin deaf' /\ c # d /\ view'[f][c] = view[f][c]
        \/ f \notin deaf' /\ c = d /\ f # x /\ view[f][c] # {}
           /\ view'[f][c] = view[f][c] \cup {NickOf(x)}
        \/ f \notin deaf' /\ c = d /\ f = x
           /\ view'[f][c] = {NickOf(g) : g \in Members(chan'[c])}

\* One client enters a channel, is sent the list of its members, and all
\* who know of the channel are told, except those whose send fails.
LEMMA JoinKnown ==
    ASSUME Known, ViewsTyped, NEW x \in Connected, NEW d \in Chan, Enters(x, d), Added(x, d)
    PROVE  Known'
<1> USE DEF ViewsTyped, Enters, Added
<1>1. ASSUME NEW f \in Fd, NEW c \in Chan, view'[f][c] # {}
      PROVE  f \in Members(chan'[c]) /\ f \notin deaf' /\ (c # d \/ f # x => view[f][c] # {})
  BY <1>1 DEF Known
<1>2. ASSUME NEW f \in Fd, NEW c \in Chan, NEW n \in view'[f][c]
      PROVE  \E g \in Members(chan'[c]) : NickOf(g)' = n
  <2>1. \A m \in view[f][c] : \E g \in Members(chan[c]) : NickOf(g) = m
    BY DEF Known
  <2>2. CASE c # d
    BY <2>1, <2>2
  <2>3. CASE c = d /\ f # x
    BY <2>1, <2>3
  <2>4. CASE c = d /\ f = x
    BY <2>4
  <2> QED BY <2>2, <2>3, <2>4
<1>3. ASSUME NEW f \in Fd, NEW g \in Fd, NEW c \in Chan, view'[f][c] # {}, view'[g][c] # {}
      PROVE  NickOf(g)' \in view'[f][c]
  <2>1. g \in Members(chan'[c]) /\ NickOf(g)' = NickOf(g)
    BY <1>1, <1>3
  <2>2. CASE c # d
    <3>1. view'[f][c] = view[f][c] /\ view'[g][c] = view[g][c]
      BY <1>3, <2>2
    <3> HIDE DEF ViewsTyped, Enters, Added
    <3>2. NickOf(g) \in view[f][c]
      BY <1>3, <3>1 DEF Known
    <3> QED BY <2>1, <3>1, <3>2
  <2>3. CASE c = d /\ f = x
    <3>1. view'[f][c] = {NickOf(k) : k \in Members(chan'[c])}
      BY <1>3, <2>3
    <3> QED BY <2>1, <3>1
  <2>4. CASE c = d /\ f # x /\ g = x
    <3>1. view'[f][c] = view[f][c] \cup {NickOf(x)}
      BY <1>3, <2>4
    <3>2. NickOf(x) \in view'[f][c]
      BY <3>1
    <3>3. NickOf(g)' = NickOf(x)
      BY <2>1, <2>4
    <3> QED BY <3>2, <3>3
  <2>5. CASE c = d /\ f # x /\ g # x
    <3>1. NickOf(g) \in view[f][c]
      BY <1>1, <1>3, <2>5 DEF Known
    <3> QED BY <1>3, <2>1, <2>5, <3>1
  <2> QED BY <2>2, <2>3, <2>4, <2>5
<1> QED BY <1>1, <1>2, <1>3 DEF Known

\* What a client makes of hearing that a nickname was changed.
Renamed(f, c, old, new) ==
    IF view[f][c] \cap Alike(old) = {} THEN view[f][c]
    ELSE (view[f][c] \ Alike(old)) \cup {new}

\* Client x is called new afterwards, and nobody else changes.
Renames(x, new) ==
    /\ \A c \in Chan : Members(chan'[c]) = Members(chan[c])
    /\ NickOf(x)' = new
    /\ \A g \in Connected \ {x} : NickOf(g)' = NickOf(g)

\* A client that has heard all it was sent has replaced the name if it is in
\* A, and still believes what it did if it is not.
Replaced(old, new, A) ==
    \A f \in Fd, c \in Chan :
        \/ view'[f][c] = {}
        \/ f \notin deaf' /\ f \in A /\ view'[f][c] = Renamed(f, c, old, new)
        \/ f \notin deaf' /\ f \notin A /\ view'[f][c] = view[f][c]

\* One client changes its nickname, and all it shares a channel with are
\* told, except those whose send fails.
LEMMA NickKnown ==
    ASSUME Known, MembersNamed, ViewsTyped, NEW x \in Connected, NEW new, NEW A,
           Renames(x, new), Replaced(NickOf(x), new, A),
           \A c \in Chan : x \in Members(chan[c]) => Members(chan[c]) \subseteq A
    PROVE  Known'
<1> USE DEF ViewsTyped, Renames, Replaced
<1> DEFINE old == NickOf(x)
<1>1. ASSUME NEW c \in Chan, NEW g \in Members(chan[c]), NickOf(g) \in Alike(old)
      PROVE  g = x
  BY <1>1 DEF MembersNamed, Alike
<1>2. ASSUME NEW c \in Chan, x \in Members(chan[c]) PROVE old \in Alike(old)
  BY <1>2 DEF MembersNamed, Alike
<1> HIDE DEF old
<1>3. ASSUME NEW f \in Fd, NEW c \in Chan, view'[f][c] # {}
      PROVE  view[f][c] # {} /\ f \in Members(chan[c]) /\ f \notin deaf'
  <2>1. view[f][c] # {} /\ f \notin deaf'
    BY <1>3 DEF Renamed
  <2> QED BY <2>1 DEF Known
<1>4. ASSUME NEW f \in Fd, NEW c \in Chan, view'[f][c] # {}, x \notin Members(chan[c])
      PROVE  view'[f][c] = view[f][c]
  <2>1. view[f][c] \cap Alike(old) = {}
    <3>1. ASSUME NEW n \in view[f][c] PROVE n \notin Alike(old)
      <4>1. PICK g \in Members(chan[c]) : NickOf(g) = n
        BY DEF Known
      <4> QED BY <1>1, <1>4, <4>1
    <3> QED BY <3>1
  <2>2. Renamed(f, c, old, new) = view[f][c]
    BY <2>1 DEF Renamed
  <2> QED BY <1>4, <2>2 DEF old
<1>5. ASSUME NEW f \in Fd, NEW c \in Chan, view'[f][c] # {}, x \in Members(chan[c])
      PROVE  view'[f][c] = Renamed(f, c, old, new)
  BY <1>3, <1>5 DEF old
<1>6. ASSUME NEW f \in Fd, NEW c \in Chan, NEW n \in view'[f][c]
      PROVE  \E g \in Members(chan'[c]) : NickOf(g)' = n
  <2>1. \A m \in view[f][c] : \E g \in Members(chan[c]) : NickOf(g) = m
    BY DEF Known
  <2>2. \A g \in Members(chan[c]) : g \in Connected
    BY DEF MembersNamed
  <2>3. CASE x \notin Members(chan[c])
    <3>1. PICK g \in Members(chan[c]) : NickOf(g) = n
      BY <1>4, <2>1, <2>3
    <3> QED BY <2>2, <2>3, <3>1
  <2>4. CASE x \in Members(chan[c]) /\ n = new
    BY <2>4
  <2>5. CASE x \in Members(chan[c]) /\ n # new
    <3>1. n \in view[f][c] /\ n \notin Alike(old)
      <4>1. n \in Renamed(f, c, old, new)
        BY <1>5, <2>5
      <4> QED BY <2>5, <4>1 DEF Renamed
    <3>2. PICK g \in Members(chan[c]) : NickOf(g) = n
      BY <2>1, <3>1
    <3>3. g # x
      BY <1>2, <2>5, <3>1, <3>2 DEF old
    <3> QED BY <2>2, <3>2, <3>3
  <2> QED BY <2>3, <2>4, <2>5
<1>7. ASSUME NEW f \in Fd, NEW g \in Fd, NEW c \in Chan, view'[f][c] # {}, view'[g][c] # {}
      PROVE  NickOf(g)' \in view'[f][c]
  <2>1. NickOf(g) \in view[f][c] /\ g \in Members(chan[c]) /\ g \in Connected
    BY <1>3, <1>7 DEF Known, MembersNamed
  <2>2. CASE x \notin Members(chan[c])
    BY <1>4, <1>7, <2>1, <2>2
  <2>3. CASE x \in Members(chan[c]) /\ g # x
    <3>1. NickOf(g) \notin Alike(old) /\ NickOf(g)' = NickOf(g)
      BY <1>1, <2>1, <2>3
    <3>2. NickOf(g) \in Renamed(f, c, old, new)
      BY <2>1, <3>1 DEF Renamed
    <3> QED BY <1>5, <1>7, <2>3, <3>1, <3>2
  <2>4. CASE x \in Members(chan[c]) /\ g = x
    <3>1. view[f][c] \cap Alike(old) # {}
      BY <1>2, <2>1, <2>4 DEF old
    <3>2. new \in Renamed(f, c, old, new)
      BY <3>1 DEF Renamed
    <3>3. view'[f][c] = Renamed(f, c, old, new)
      BY <1>5, <1>7, <2>4
    <3> QED BY <2>4, <3>2, <3>3
  <2> QED BY <2>2, <2>3, <2>4
<1> QED BY <1>3, <1>6, <1>7 DEF Known

-----------------------------------------------------------------------------
\* Announcements

\* A client that got all it was sent has heard it if it is in A.
HeardBy(A, heard) ==
    \A f \in Fd, c \in Chan :
        \/ view'[f][c] = {}
        \/ f \notin deaf' /\ f \in A /\ view'[f][c] = heard[f][c]
        \/ f \notin deaf' /\ f \notin A /\ view'[f][c] = view[f][c]

\* What Announce does to the views.
LEMMA Announced ==
    ASSUME Known, NEW A, NEW failing, NEW heard,
           Announce(A \ failing, failing, heard),
           Connected \subseteq Connected', failing \subseteq Connected',
           heard \in [Fd -> [Chan -> SUBSET NickWord]]
    PROVE  ViewsTyped /\ HeardBy(A, heard)
<1>1. /\ deaf' = deaf \cup failing
      /\ view' = [f \in Fd |-> IF f \in deaf' THEN NoView
                               ELSE IF f \in A \ failing THEN heard[f] ELSE view[f]]
  BY DEF Announce
<1>2. NoView \in [Chan -> SUBSET NickWord] /\ \A c \in Chan : NoView[c] = {}
  BY DEF NoView
<1>3. deaf' \subseteq Connected'
  BY <1>1 DEF Known
<1>4. view' \in [Fd -> [Chan -> SUBSET NickWord]]
  BY <1>1, <1>2 DEF Known
<1>5. ASSUME NEW f \in Fd, NEW c \in Chan
      PROVE  \/ view'[f][c] = {}
             \/ f \notin deaf' /\ f \in A /\ view'[f][c] = heard[f][c]
             \/ f \notin deaf' /\ f \notin A /\ view'[f][c] = view[f][c]
  <2>1. CASE f \in deaf'
    BY <1>1, <1>2, <2>1
  <2>2. CASE f \notin deaf'
    BY <1>1, <2>2
  <2> QED BY <2>1, <2>2
<1> QED BY <1>3, <1>4, <1>5 DEF ViewsTyped, HeardBy

\* The receivers, where the channel's entries are live.
LEMMA Sent ==
    ASSUME SessionInv, NEW ch, LiveChannel(ch), NEW fd, NEW failing
    PROVE  /\ SendToAll(ch, fd, failing) = (Members(ch) \ {fd}) \ failing
           /\ SendToAllAndSelf(ch, fd, failing) = (Members(ch) \cup {fd}) \ failing
<1>1. FdsOf(ch.admins) \cup FdsOf(ch.clients) = Members(ch)
  BY RoomIs
<1>2. SendToAll(ch, fd, failing) = (Members(ch) \ {fd}) \ failing
  BY <1>1 DEF SendToAll
<1> QED BY <1>2 DEF SendToAllAndSelf

\* Nicknames stay as they are when the registry does.
LEMMA SameRegistry ==
    ASSUME UNCHANGED sessionVars
    PROVE  Connected' = Connected /\ \A g : NickOf(g)' = NickOf(g)
BY DEF sessionVars, Connected, Keys, NickOf, GetClient

-----------------------------------------------------------------------------
\* JOIN

\* The announcement of a JOIN.
LEMMA JoinTold ==
    ASSUME DeliveryInv, UNCHANGED sessionVars,
           NEW fd \in Connected, NEW d \in Chan, NEW ch, LiveChannel(ch),
           chan'[d] = ch,
           Members(ch) = Members(chan[d]) \cup {fd},
           \A c \in Chan \ {d} : Members(chan'[c]) = Members(chan[c]),
           NEW failing, failing \subseteq Members(ch),
           JoinAnnounced(fd, d, NickOf(fd), failing)
    PROVE  Known'
<1> DEFINE heard == [f \in Fd |-> IF f = fd THEN NamesHeard(view[f], d, NicksOf(ch))
                                  ELSE JoinHeard(view[f], d, NickOf(fd))]
           reached == SendToAllAndSelf(ch, fd, failing)
<1>1. Known /\ SessionInv /\ Connected \subseteq Fd
  BY NamedMembers DEF DeliveryInv, ChannelInv, MembersNamed
<1>2. /\ NicksOf(ch) = {NickOf(g) : g \in Members(ch)}
      /\ \A g \in Members(ch) : g \in Connected /\ NickOf(g) \in NickWord
  BY <1>1, RoomIs
<1>3. Connected' = Connected /\ \A g : NickOf(g)' = NickOf(g)
  BY SameRegistry
<1>4. Announce(Members(ch) \ failing, failing, heard)
  <2>1. Members(ch) \cup {fd} = Members(ch)
    OBVIOUS
  <2>2. SendToAllAndSelf(ch, fd, failing) = Members(ch) \ failing
    BY <1>1, <2>1, Sent
  <2> QED BY <2>2 DEF JoinAnnounced
<1>5. NicksOf(ch) \subseteq NickWord /\ NickOf(fd) \in NickWord
  BY <1>2
<1>6. ASSUME NEW f \in Fd
      PROVE  /\ heard[f] \in [Chan -> SUBSET NickWord]
             /\ heard[f][d] = IF f = fd THEN NicksOf(ch)
                              ELSE IF view[f][d] = {} THEN {}
                              ELSE view[f][d] \cup {NickOf(fd)}
             /\ \A c \in Chan \ {d} : heard[f][c] = view[f][c]
  BY <1>1, <1>5 DEF Known, NamesHeard, JoinHeard
<1>7. heard \in [Fd -> [Chan -> SUBSET NickWord]]
  <2>1. \A f \in Fd : heard[f] \in [Chan -> SUBSET NickWord]
    BY <1>6
  <2> QED BY <2>1
<1> HIDE DEF heard
<1>8. ViewsTyped /\ HeardBy(Members(ch), heard)
  <2>1. Connected \subseteq Connected' /\ failing \subseteq Connected'
    BY <1>2, <1>3
  <2> QED BY <1>1, <1>4, <1>7, <2>1, Announced
<1>9. Added(fd, d)
  <2> SUFFICES ASSUME NEW f \in Fd, NEW c \in Chan, view'[f][c] # {}
               PROVE  \/ f \notin deaf' /\ c # d /\ view'[f][c] = view[f][c]
                      \/ f \notin deaf' /\ c = d /\ f # fd /\ view[f][c] # {}
                         /\ view'[f][c] = view[f][c] \cup {NickOf(fd)}
                      \/ f \notin deaf' /\ c = d /\ f = fd
                         /\ view'[f][c] = {NickOf(g) : g \in Members(chan'[c])}
    BY DEF Added
  <2>1. /\ f \notin deaf'
        /\ \/ f \in Members(ch) /\ view'[f][c] = heard[f][c]
           \/ f \notin Members(ch) /\ view'[f][c] = view[f][c]
    BY <1>8 DEF HeardBy
  <2>2. f \notin Members(ch) => f # fd /\ view[f][d] = {}
    BY <1>1 DEF Known
  <2>3. CASE c # d
    BY <1>6, <2>1, <2>3
  <2>4. CASE c = d /\ f # fd
    <3>1. heard[f][d] = IF view[f][d] = {} THEN {} ELSE view[f][d] \cup {NickOf(fd)}
      BY <1>6, <2>4
    <3> QED BY <2>1, <2>2, <2>4, <3>1
  <2>5. CASE c = d /\ f = fd
    <3>1. heard[f][d] = {NickOf(g) : g \in Members(ch)}
      BY <1>2, <1>6, <2>5
    <3> QED BY <2>1, <2>2, <2>5, <3>1
  <2> QED BY <2>3, <2>4, <2>5
<1>10. Enters(fd, d)
  BY <1>3 DEF Enters
<1> QED BY <1>1, <1>8, <1>9, <1>10, JoinKnown

\* JOIN of a channel that exists.
LEMMA TellJoinKnown ==
    ASSUME DeliveryInv, NEW fd \in Fd, NEW c \in Chan, NEW key, TellJoin(fd, c, key)
    PROVE  Known'
<1> DEFINE ch == [chan[c] EXCEPT !.clients = Insert(@, clients[fd])]
<1>1. ChannelInv /\ Known /\ SessionInv
  BY DEF DeliveryInv, ChannelInv
<1>2. /\ Commanded(fd) /\ c \in channels /\ UNCHANGED sessionVars
      /\ \/ status' = "undefined" /\ UNCHANGED <<channels, chan>>
         \/ UNCHANGED status /\ SetChannel(c, ch)
  BY DEF TellJoin, Join
<1>3. fd \in Connected /\ GetClient(fd).log /\ status = "running"
  BY <1>1, <1>2, Issuer DEF Commanded, Between, Running
<1>4. Connected' = Connected /\ \A g : NickOf(g)' = NickOf(g)
  BY <1>2, SameRegistry
<1>5. CASE status' = "undefined" /\ UNCHANGED <<channels, chan>>
  <2>1. UNCHANGED deliveryVars
    BY <1>5 DEF TellJoin
  <2> QED BY <1>1, <1>4, <1>5, <2>1, QuietKnown
<1>6. CASE UNCHANGED status /\ SetChannel(c, ch)
  <2>1. LiveChannel(chan[c])
    BY <1>1, <1>2, InvLive
  <2>2. LiveMap(chan[c].clients) /\ LiveMap(chan[c].admins) /\ chan[c] \in Channel
    BY <2>1 DEF LiveChannel
  <2>3. /\ LiveMap(Insert(chan[c].clients, clients[fd]))
        /\ Keys(Insert(chan[c].clients, clients[fd])) = Keys(chan[c].clients) \cup {fd}
    BY <1>1, <1>3, <2>2, InsertLive
  <2>4. Insert(chan[c].clients, clients[fd]) \in PointerMap
    BY <2>3 DEF LiveMap
  <2>5. /\ ch \in Channel
        /\ ch.admins = chan[c].admins
        /\ ch.clients = Insert(chan[c].clients, clients[fd])
    BY <2>2, <2>4 DEF Channel
  <2> HIDE DEF ch
  <2>6. LiveChannel(ch) /\ Members(ch) = Members(chan[c]) \cup {fd}
    BY <2>2, <2>3, <2>5 DEF LiveChannel, Members
  <2>7. /\ chan'[c] = ch
        /\ \A d \in Chan \ {c} : Members(chan'[d]) = Members(chan[d])
    BY <1>1, <1>6 DEF SetChannel, ChannelInv, TypeOK
  <2>8. PICK failing \in SUBSET (Fd \cap SendToAllAndSelf(ch, fd, {})) :
           JoinAnnounced(fd, c, NickOf(fd), failing)
    BY <1>3, <1>6, <2>7 DEF TellJoin
  <2>9. failing \subseteq Members(ch)
    BY <1>1, <2>6, <2>8, Sent
  <2> QED BY <1>2, <1>3, <2>6, <2>7, <2>8, <2>9, JoinTold
<1> QED BY <1>2, <1>5, <1>6

\* JOIN of a channel that does not exist.
LEMMA TellJoinCreateKnown ==
    ASSUME DeliveryInv, NEW fd \in Fd, NEW name \in Chan, NEW key \in KeyWord \cup {""},
           TellJoinCreate(fd, name, key)
    PROVE  Known'
<1> DEFINE ch == [NewChannel EXCEPT !.password = key,
                                    !.admins = Insert(EmptyMap, clients[fd])]
<1>1. ChannelInv /\ Known /\ SessionInv
  BY DEF DeliveryInv, ChannelInv
<1>2. /\ Commanded(fd) /\ UNCHANGED sessionVars
      /\ GetChannelByName(name) = {}
      /\ chan' = [chan EXCEPT ![name] = ch]
  BY DEF TellJoinCreate, JoinCreate
<1>3. fd \in Connected /\ GetClient(fd).log
  BY <1>1, <1>2, Issuer
<1>4. /\ LiveMap(Insert(EmptyMap, clients[fd]))
      /\ Keys(Insert(EmptyMap, clients[fd])) = {fd}
  <2>1. LiveMap(EmptyMap) /\ Keys(EmptyMap) = {}
    BY EmptyMapLive
  <2>2. /\ LiveMap(Insert(EmptyMap, clients[fd]))
        /\ Keys(Insert(EmptyMap, clients[fd])) = Keys(EmptyMap) \cup {fd}
    BY <1>1, <1>3, <2>1, InsertLive
  <2> QED BY <2>1, <2>2
<1>5. /\ ch.admins = Insert(EmptyMap, clients[fd]) /\ ch.clients = EmptyMap
      /\ ch \in Channel
  <2>1. Insert(EmptyMap, clients[fd]) \in PointerMap
    BY <1>4 DEF LiveMap
  <2> QED BY <2>1, EmptyMapLive DEF NewChannel, Channel
<1> HIDE DEF ch
<1>6. LiveChannel(ch) /\ Members(ch) = {fd}
  BY <1>4, <1>5, EmptyMapLive DEF LiveChannel, Members
<1>7. Members(chan[name]) = {}
  <2>1. chan[name] = NewChannel
    BY <1>1, <1>2 DEF GetChannelByName, ChannelInv, TypeOK
  <2> QED BY <2>1, NewChannelLive, VacantIsEmpty
<1>8. chan'[name] = ch /\ \A d \in Chan \ {name} : Members(chan'[d]) = Members(chan[d])
  BY <1>1, <1>2 DEF ChannelInv, TypeOK
<1>9. PICK failing \in SUBSET {fd} : JoinAnnounced(fd, name, NickOf(fd), failing)
  BY DEF TellJoinCreate
<1>10. failing \subseteq Members(ch) /\ Members(ch) = Members(chan[name]) \cup {fd}
  BY <1>6, <1>7, <1>9
<1> QED BY <1>2, <1>3, <1>6, <1>8, <1>9, <1>10, JoinTold

-----------------------------------------------------------------------------
\* PART, KICK and QUIT

\* What hearing of a PART or KICK makes of a view.
LEMMA LeaveHeardIs ==
    ASSUME Known, NEW f \in Fd, NEW c \in Chan, NEW word
    PROVE  /\ LeaveHeard(view[f], c, word, NickOf(f)) \in [Chan -> SUBSET NickWord]
           /\ \A d \in Chan :
                  LeaveHeard(view[f], c, word, NickOf(f))[d] = Struck(f, d, {c}, word)
<1>1. view[f] \in [Chan -> SUBSET NickWord]
  BY DEF Known
<1> QED BY <1>1 DEF LeaveHeard, Struck

\* What hearing of a QUIT does.
LEMMA QuitHeardIs ==
    ASSUME Known, NEW f \in Fd, NEW word
    PROVE  /\ QuitHeard(view[f], word, NickOf(f)) \in [Chan -> SUBSET NickWord]
           /\ \A d \in Chan :
                  QuitHeard(view[f], word, NickOf(f))[d] = Struck(f, d, Chan, word)
<1>1. view[f] \in [Chan -> SUBSET NickWord]
  BY DEF Known
<1> QED BY <1>1 DEF QuitHeard, Struck

\* Nobody but x is taken out of a channel, and that only of those of R.
Thins(x, R) ==
    \A c \in Chan :
        /\ Members(chan'[c]) \subseteq Members(chan[c])
        /\ Members(chan[c]) \ {x} \subseteq Members(chan'[c])
        /\ c \notin R => Members(chan'[c]) = Members(chan[c])

\* The announcement of a client's leaving by a command.
LEMMA LeaveTold ==
    ASSUME DeliveryInv, UNCHANGED sessionVars,
           NEW x \in Connected, NEW word, Lower[word] = Lower[NickOf(x)],
           NEW R, NEW A, x \in A, A \subseteq Connected,
           NEW heard, heard \in [Fd -> [Chan -> SUBSET NickWord]],
           \A f \in A, c \in Chan : heard[f][c] = Struck(f, c, R, word),
           NEW failing, failing \subseteq A, Announce(A \ failing, failing, heard),
           Thins(x, R), Concerns(x, R, A)
    PROVE  Known'
<1>1. Known /\ MembersNamed
  BY NamedMembers DEF DeliveryInv
<1>2. Connected' = Connected /\ \A g : NickOf(g)' = NickOf(g)
  BY SameRegistry
<1>3. ViewsTyped /\ HeardBy(A, heard)
  BY <1>1, <1>2, Announced
<1>4. StruckOut(x, word, R, A)
  <2> SUFFICES ASSUME NEW f \in Fd, NEW c \in Chan
               PROVE  \/ view'[f][c] = {}
                      \/ f \notin deaf' /\ f \in A /\ view'[f][c] = Struck(f, c, R, word)
                      \/ f \notin deaf' /\ f \notin A /\ f # x /\ view'[f][c] = view[f][c]
    BY DEF StruckOut
  <2>1. \/ view'[f][c] = {}
        \/ f \notin deaf' /\ f \in A /\ view'[f][c] = heard[f][c]
        \/ f \notin deaf' /\ f \notin A /\ view'[f][c] = view[f][c]
    BY <1>3 DEF HeardBy
  <2>2. f \in A => heard[f][c] = Struck(f, c, R, word)
    OBVIOUS
  <2>3. f \notin A => f # x
    OBVIOUS
  <2> QED BY <2>1, <2>2, <2>3
<1>5. Leaves(x, R)
  BY <1>2 DEF Thins, Leaves
<1> QED BY <1>1, <1>3, <1>4, <1>5, LeaveKnown

\* PART.
LEMMA TellPartKnown ==
    ASSUME DeliveryInv, NEW fd \in Fd, NEW c \in Chan, TellPart(fd, c)
    PROVE  Known'
<1> DEFINE n  == NickOf(fd)
           ch == Without(chan[c], fd, n)
           heard == [f \in Fd |-> LeaveHeard(view[f], c, n, NickOf(f))]
           A == Members(ch) \cup {fd}
<1>1. ChannelInv /\ Known /\ SessionInv /\ MembersNamed
  BY NamedMembers DEF DeliveryInv, ChannelInv
<1>2. /\ Commanded(fd) /\ c \in channels /\ UNCHANGED sessionVars
      /\ SetOrRemoveChannel(c, ch)
  BY DEF TellPart, Part, NickOf
<1>3. PICK failing \in SUBSET SendToAllAndSelf(ch, fd, {}) :
         Announce(SendToAllAndSelf(ch, fd, failing), failing, heard)
  BY DEF TellPart
<1>4. fd \in Connected /\ LiveChannel(chan[c])
  BY <1>1, <1>2, Issuer, InvLive
<1>5. /\ LiveChannel(ch)
      /\ Members(ch) = Members(chan[c]) \ {fd}
  <2>1. /\ LiveChannel(ch)
        /\ Keys(ch.admins) = Keys(chan[c].admins) \ {fd}
        /\ Keys(ch.clients) = Keys(chan[c].clients) \ {fd}
    BY <1>1, <1>4, WithoutRemoves DEF NickOf
  <2> HIDE DEF ch
  <2> QED BY <2>1 DEF Members
<1> HIDE DEF ch
<1>6. A \subseteq Connected
  BY <1>1, <1>4, <1>5 DEF MembersNamed
<1>7. failing \subseteq A /\ Announce(A \ failing, failing, heard)
  <2>1. SendToAllAndSelf(ch, fd, {}) = A \ {}
    BY <1>1, <1>5, Sent
  <2>2. SendToAllAndSelf(ch, fd, failing) = A \ failing
    BY <1>1, <1>5, Sent
  <2> QED BY <1>3, <2>1, <2>2
<1>8. \A f \in Fd : /\ heard[f] \in [Chan -> SUBSET NickWord]
                    /\ \A d \in Chan : heard[f][d] = Struck(f, d, {c}, n)
  BY <1>1, LeaveHeardIs
<1>9. heard \in [Fd -> [Chan -> SUBSET NickWord]]
  BY <1>8
<1> HIDE DEF heard
<1>10. \A f \in A, d \in Chan : heard[f][d] = Struck(f, d, {c}, n)
  BY <1>1, <1>6, <1>8 DEF MembersNamed
<1>11. Thins(fd, {c})
  <2>1. \A d \in Chan : MembersOf'[d] = IF d = c THEN Members(ch) ELSE MembersOf[d]
    BY <1>1, <1>2, SetOrRemoveRooms
  <2>2. \A d \in Chan : Members(chan'[d]) = IF d = c THEN Members(ch) ELSE Members(chan[d])
    BY <2>1, MappedAt
  <2> QED BY <1>5, <2>2 DEF Thins
<1>12. Concerns(fd, {c}, A)
  BY <1>5 DEF Concerns
<1>13. fd \in A /\ Lower[n] = Lower[NickOf(fd)]
  OBVIOUS
<1> HIDE DEF A, n
<1> QED BY <1>2, <1>4, <1>6, <1>7, <1>9, <1>10, <1>11, <1>12, <1>13, LeaveTold

\* Whom KICK finds by the word it was given has that word as its folded
\* nickname, which the lookups in the channel fold once more.
LEMMA KickFinds ==
    ASSUME SessionInv, NEW ch, LiveChannel(ch), NEW word \in NickWord, MayKick(ch, turn, word)
    PROVE  LET g == Min(GetClientByNickname(word))
           IN  g \in Connected /\ Lower[word] = Lower[NickOf(g)] /\ g \in Members(ch)
<1> DEFINE g == Min(GetClientByNickname(word))
<1>1. /\ GetClientByNickname(word) # {}
      /\ ByNick(ch.clients, word) \cup ByNick(ch.admins, word) # {}
      /\ LiveMap(ch.clients) /\ LiveMap(ch.admins)
  BY DEF MayKick, LiveChannel
<1>2. ASSUME NEW f \in GetClientByNickname(word)
      PROVE  /\ f \in Connected /\ f \in Int
             /\ GetClient(f).nickname # "" /\ GetClient(f).nickname \in NickWord
             /\ Lower[GetClient(f).nickname] = word
  <2>1. f \in Connected /\ Lower[GetClient(f).nickname] = word
    BY DEF GetClientByNickname
  <2>2. f \in Int
    <3>1. f \in Fd
      BY <2>1, ConnectedType DEF SessionInv
    <3> QED BY <3>1, FdAssumption
  <2>3. GetClient(f).nickname \in NickWord \cup {""}
    <3>1. GetClient(f) \in Client
      BY <2>1, ConnectedType DEF SessionInv
    <3> HIDE DEF GetClient
    <3> QED BY <3>1 DEF Client
  <2> QED BY <2>1, <2>2, <2>3, LowerAssumption, WordAssumption
<1>3. PICK h \in GetClientByNickname(word) : TRUE
  BY <1>1
<1>4. \A f \in GetClientByNickname(word) : f = h
  BY <1>2, SameNick
<1>5. g = h
  BY <1>2, <1>4, MinOfOne
<1> HIDE DEF g
<1>6. /\ g \in Connected /\ NickOf(g) \in NickWord
      /\ Lower[NickOf(g)] = word
  BY <1>2, <1>5 DEF NickOf
<1>7. Lower[word] = Lower[NickOf(g)]
  BY <1>6, FoldAssumption
<1>8. ASSUME NEW m, LiveMap(m), NEW k \in ByNick(m, word) PROVE k = g /\ g \in Keys(m)
  <2>1. k \in Keys(m) /\ Lower[heap[m[k]].nickname] = Lower[word]
    BY DEF ByNick
  <2>2. k \in Connected /\ heap[m[k]] = GetClient(k) /\ GetClient(k).nickname # ""
    BY <1>8, <2>1, LiveEntry
  <2>3. Lower[GetClient(k).nickname] = Lower[GetClient(g).nickname]
    BY <1>7, <2>1, <2>2 DEF NickOf
  <2> QED BY <1>6, <2>1, <2>2, <2>3, SameNick
<1>9. g \in Members(ch)
  BY <1>1, <1>8 DEF Members
<1> QED BY <1>6, <1>7, <1>9 DEF g

\* What the removal takes out of the channel.
LEMMA KickedLeaves ==
    ASSUME SessionInv, NEW ch, LiveChannel(ch), NEW g \in Connected
    PROVE  Members(Kicked(ch, NickOf(g))) \in {Members(ch), Members(ch) \ {g}}
<1> DEFINE n == NickOf(g)
           after == Kicked(ch, n)
<1>1. LiveMap(ch.admins) /\ LiveMap(ch.clients) /\ ch \in Channel
  BY DEF LiveChannel
<1>2. /\ ByNick(ch.admins, n) = Keys(ch.admins) \cap {g}
      /\ ByExactNick(ch.admins, n) = Keys(ch.admins) \cap {g}
      /\ ByExactNick(ch.clients, n) = Keys(ch.clients) \cap {g}
  BY <1>1, NoNick DEF NickOf
<1> HIDE DEF n
<1>3. /\ Keys(EraseNick(ch.admins, n)) = Keys(ch.admins) \ ByExactNick(ch.admins, n)
      /\ Keys(EraseNick(ch.clients, n)) = Keys(ch.clients) \ ByExactNick(ch.clients, n)
  BY <1>1, EraseLive
<1>4. CASE g \in Keys(ch.admins)
  <2>1. after = [ch EXCEPT !.admins = EraseNick(@, n)]
    BY <1>2, <1>4 DEF Kicked
  <2>2. after.admins = EraseNick(ch.admins, n) /\ after.clients = ch.clients
    BY <1>1, <2>1 DEF Channel
  <2> HIDE DEF after
  <2>3. Keys(after.admins) = Keys(ch.admins) \ {g} /\ Keys(after.clients) = Keys(ch.clients)
    BY <1>2, <1>3, <2>2
  <2>4. Members(after) \in {Members(ch), Members(ch) \ {g}}
    BY <2>3 DEF Members
  <2> QED BY <2>4 DEF after, n
<1>5. CASE g \notin Keys(ch.admins)
  <2>1. after = [ch EXCEPT !.clients = EraseNick(@, n)]
    BY <1>2, <1>5 DEF Kicked
  <2>2. after.clients = EraseNick(ch.clients, n) /\ after.admins = ch.admins
    BY <1>1, <2>1 DEF Channel
  <2> HIDE DEF after
  <2>3. Keys(after.clients) = Keys(ch.clients) \ {g} /\ Keys(after.admins) = Keys(ch.admins)
    BY <1>2, <1>3, <2>2
  <2>4. Members(after) \in {Members(ch), Members(ch) \ {g}}
    BY <1>5, <2>3 DEF Members
  <2> QED BY <2>4 DEF after, n
<1> QED BY <1>4, <1>5

\* One name of a KICK.
LEMMA TellKickKnown ==
    ASSUME DeliveryInv, NEW word \in NickWord, TellKick(word)
    PROVE  Known'
<1> DEFINE c == loop.chan
           g == Min(GetClientByNickname(word))
           ch == Kicked(chan[c], NickOf(g))
           heard == [f \in Fd |-> IF f \in Connected
                                  THEN LeaveHeard(view[f], c, word, NickOf(f))
                                  ELSE view[f]]
           A == Members(chan[c]) \cup {turn}
<1>1. ChannelInv /\ Known /\ SessionInv /\ MembersNamed
  BY NamedMembers DEF DeliveryInv, ChannelInv
<1>2. /\ loop.op = "KICK" /\ c \in channels /\ UNCHANGED sessionVars
      /\ IF MayKick(chan[c], turn, word) THEN SetOrRemoveChannel(c, ch) ELSE LoopReturns
  BY DEF TellKick, KickTarget, InLoop, NickOf
<1>3. c \in Chan /\ LiveChannel(chan[c]) /\ turn \in Connected
  BY <1>1, <1>2, InvLive DEF ChannelInv, TypeOK, SessionTypeOK
<1>4. CASE ~MayKick(chan[c], turn, word)
  <2>1. UNCHANGED deliveryVars /\ UNCHANGED chan
    BY <1>2, <1>4 DEF TellKick, LoopReturns
  <2>2. Connected' = Connected /\ \A h : NickOf(h)' = NickOf(h)
    BY <1>2, SameRegistry
  <2> QED BY <1>1, <2>1, <2>2, QuietKnown
<1>5. CASE MayKick(chan[c], turn, word)
  <2>1. PICK failing \in SUBSET SendToAllAndSelf(chan[c], turn, {}) :
           Announce(SendToAllAndSelf(chan[c], turn, failing), failing, heard)
    BY <1>5 DEF TellKick
  <2>2. g \in Connected /\ Lower[word] = Lower[NickOf(g)] /\ g \in Members(chan[c])
    BY <1>1, <1>3, <1>5, KickFinds
  <2> HIDE DEF g
  <2>3. Members(ch) \in {Members(chan[c]), Members(chan[c]) \ {g}}
    BY <1>1, <1>3, <2>2, KickedLeaves
  <2>4. SetOrRemoveChannel(c, ch)
    BY <1>2, <1>5
  <2> HIDE DEF ch
  <2>5. A \subseteq Connected /\ A \subseteq Fd /\ g \in A
    BY <1>1, <1>3, <2>2 DEF MembersNamed
  <2>6. failing \subseteq A /\ Announce(A \ failing, failing, heard)
    <3>1. SendToAllAndSelf(chan[c], turn, {}) = A \ {}
      BY <1>1, <1>3, Sent
    <3>2. SendToAllAndSelf(chan[c], turn, failing) = A \ failing
      BY <1>1, <1>3, Sent
    <3> QED BY <2>1, <3>1, <3>2
  <2>7. ASSUME NEW f \in Fd
        PROVE  /\ heard[f] \in [Chan -> SUBSET NickWord]
               /\ f \in Connected => \A d \in Chan : heard[f][d] = Struck(f, d, {c}, word)
    <3>1. CASE f \in Connected
      <4>1. heard[f] = LeaveHeard(view[f], c, word, NickOf(f))
        BY <3>1
      <4> HIDE DEF heard, c
      <4> QED BY <1>1, <1>3, <4>1, LeaveHeardIs
    <3>2. CASE f \notin Connected
      BY <1>1, <3>2 DEF Known
    <3> QED BY <3>1, <3>2
  <2>8. heard \in [Fd -> [Chan -> SUBSET NickWord]]
    <3>1. \A f \in Fd : heard[f] \in [Chan -> SUBSET NickWord]
      BY <2>7
    <3> QED BY <3>1
  <2>9. \A f \in A, d \in Chan : heard[f][d] = Struck(f, d, {c}, word)
    BY <2>5, <2>7
  <2> HIDE DEF heard
  <2>10. Thins(g, {c})
    <3>1. \A d \in Chan : MembersOf'[d] = IF d = c THEN Members(ch) ELSE MembersOf[d]
      BY <1>1, <1>2, <2>4, SetOrRemoveRooms
    <3>2. \A d \in Chan : Members(chan'[d]) = IF d = c THEN Members(ch) ELSE Members(chan[d])
      BY <3>1, MappedAt
    <3> QED BY <2>3, <3>2 DEF Thins
  <2>11. Concerns(g, {c}, A)
    BY DEF Concerns
  <2> HIDE DEF A, c
  <2> QED BY <1>2, <2>2, <2>5, <2>6, <2>8, <2>9, <2>10, <2>11, LeaveTold
<1> QED BY <1>4, <1>5

\* The channels in which a client's nickname is found are those it is on.
LEMMA WhereFound ==
    ASSUME ChannelInv, NEW fd \in Connected
    PROVE  ChannelsWith(NickOf(fd)) = {c \in channels : fd \in Members(chan[c])}
<1>1. ASSUME NEW c \in channels
      PROVE  ByNick(chan[c].clients, NickOf(fd)) \cup ByNick(chan[c].admins, NickOf(fd))
             = Members(chan[c]) \cap {fd}
  <2>1. LiveMap(chan[c].clients) /\ LiveMap(chan[c].admins) /\ SessionInv
    BY InvLive DEF LiveChannel, ChannelInv
  <2>2. /\ ByNick(chan[c].clients, NickOf(fd)) = Keys(chan[c].clients) \cap {fd}
        /\ ByNick(chan[c].admins, NickOf(fd)) = Keys(chan[c].admins) \cap {fd}
    BY <2>1, NoNick DEF NickOf
  <2> QED BY <2>2 DEF Members
<1>2. \A c \in channels :
          ByNick(chan[c].clients, NickOf(fd)) \cup ByNick(chan[c].admins, NickOf(fd)) # {}
          <=> fd \in Members(chan[c])
  BY <1>1
<1> QED BY <1>2 DEF ChannelsWith

\* Whom an announcement of QUIT or of a lost connection reaches.
LEMMA QuitReaches ==
    ASSUME ChannelInv, NEW fd \in Connected, NEW failing
    PROVE  /\ QuitReached(fd, failing) = QuitReached(fd, {}) \ failing
           /\ QuitReached(fd, {}) \subseteq Connected \ {fd}
           /\ Concerns(fd, Chan, QuitReached(fd, {}))
<1>1. SessionInv /\ MembersNamed
  BY NamedMembers DEF ChannelInv
<1>2. ASSUME NEW c \in channels
      PROVE  /\ c \in Chan
             /\ \A fl : SendToAll(chan[c], fd, fl) = (Members(chan[c]) \ {fd}) \ fl
  <2>1. c \in Chan /\ LiveChannel(chan[c])
    BY InvLive
  <2>2. \A fl : SendToAll(chan[c], fd, fl) = (Members(chan[c]) \ {fd}) \ fl
    BY <1>1, <2>1, Sent
  <2> QED BY <2>1, <2>2
<1>3. ChannelsWith(NickOf(fd)) = {c \in channels : fd \in Members(chan[c])}
  BY WhereFound
<1>4. ASSUME NEW fl
      PROVE  \A g : g \in QuitReached(fd, fl) <=>
                    \E c \in channels : /\ fd \in Members(chan[c])
                                        /\ g \in (Members(chan[c]) \ {fd}) \ fl
  <2>1. QuitReached(fd, fl)
           = UNION {SendToAll(chan[c], fd, fl) : c \in {c \in channels : fd \in Members(chan[c])}}
    BY <1>3 DEF QuitReached
  <2>2. \A g : g \in QuitReached(fd, fl) <=>
                \E c \in channels : fd \in Members(chan[c]) /\ g \in SendToAll(chan[c], fd, fl)
    BY <2>1
  <2>3. \A c \in channels : SendToAll(chan[c], fd, fl) = (Members(chan[c]) \ {fd}) \ fl
    BY <1>2
  <2>4. ASSUME NEW g
        PROVE  (\E c \in channels : fd \in Members(chan[c]) /\ g \in SendToAll(chan[c], fd, fl))
               <=> \E c \in channels : /\ fd \in Members(chan[c])
                                        /\ g \in (Members(chan[c]) \ {fd}) \ fl
    BY <2>3
  <2> QED BY <2>2, <2>4
<1>5. QuitReached(fd, failing) = QuitReached(fd, {}) \ failing
  BY <1>4
<1>6. QuitReached(fd, {}) \subseteq Connected \ {fd}
  BY <1>1, <1>2, <1>4 DEF MembersNamed
<1>7. Concerns(fd, Chan, QuitReached(fd, {}))
  <2> SUFFICES ASSUME NEW c \in Chan, fd \in Members(chan[c]), NEW g \in Members(chan[c])
               PROVE  g \in QuitReached(fd, {}) \cup {fd}
    BY DEF Concerns
  <2>1. c \in channels
    <3>1. c \notin channels => Members(chan[c]) = {}
      <4>1. c \notin channels => chan[c] = NewChannel
        BY DEF ChannelInv, TypeOK
      <4> QED BY <4>1, NewChannelLive, VacantIsEmpty
    <3> QED BY <3>1
  <2> QED BY <1>4, <2>1
<1> QED BY <1>5, <1>6, <1>7

\* Those that hear of it make of it what Struck says.
LEMMA QuitHeardByIs ==
    ASSUME Known, Connected \subseteq Fd, NEW fd
    PROVE  /\ QuitHeardBy(fd) \in [Fd -> [Chan -> SUBSET NickWord]]
           /\ \A f \in Connected, d \in Chan :
                  QuitHeardBy(fd)[f][d] = Struck(f, d, Chan, NickOf(fd))
<1>1. ASSUME NEW f \in Fd
      PROVE  /\ QuitHeardBy(fd)[f] \in [Chan -> SUBSET NickWord]
             /\ f \in Connected => \A d \in Chan :
                    QuitHeardBy(fd)[f][d] = Struck(f, d, Chan, NickOf(fd))
  <2>1. CASE f \in Connected
    <3>1. QuitHeardBy(fd)[f] = QuitHeard(view[f], NickOf(fd), NickOf(f))
      BY <2>1 DEF QuitHeardBy
    <3>2. /\ QuitHeard(view[f], NickOf(fd), NickOf(f)) \in [Chan -> SUBSET NickWord]
          /\ \A d \in Chan : QuitHeard(view[f], NickOf(fd), NickOf(f))[d]
                             = Struck(f, d, Chan, NickOf(fd))
      BY QuitHeardIs
    <3> QED BY <3>1, <3>2
  <2>2. CASE f \notin Connected
    BY <2>2 DEF QuitHeardBy, Known
  <2> QED BY <2>1, <2>2
<1>2. \A f \in Fd : QuitHeardBy(fd)[f] \in [Chan -> SUBSET NickWord]
  BY <1>1
<1>3. QuitHeardBy(fd) \in [Fd -> [Chan -> SUBSET NickWord]]
  BY <1>2 DEF QuitHeardBy
<1> QED BY <1>1, <1>3

\* Where a client leaves everything, nobody else leaves anything.
LEMMA LeaveAllThins ==
    ASSUME ChannelInv, NEW fd \in Connected, LeaveAll(fd)
    PROVE  Thins(fd, Chan) /\ \A c \in Chan : fd \notin Members(chan'[c])
<1>1. \A c \in Chan : MembersOf'[c] = MembersOf[c] \ {fd}
  BY LeaveAllRooms
<1>2. \A c \in Chan : Members(chan'[c]) = Members(chan[c]) \ {fd}
  BY <1>1, MappedAt
<1> QED BY <1>2 DEF Thins

\* QUIT.
LEMMA TellQuitKnown ==
    ASSUME DeliveryInv, NEW fd \in Fd, TellQuit(fd)
    PROVE  Known'
<1> DEFINE A == QuitReached(fd, {}) \cup {fd}
<1>1. ChannelInv /\ Known /\ MembersNamed
  BY NamedMembers DEF DeliveryInv
<1>2. Commanded(fd) /\ LeaveAll(fd) /\ UNCHANGED sessionVars
  BY DEF TellQuit, Quit
<1>3. PICK failing \in SUBSET A :
         Announce(QuitReached(fd, failing) \cup ({fd} \ failing), failing, QuitHeardBy(fd))
  BY DEF TellQuit
<1>4. fd \in Connected
  BY <1>1, <1>2, Issuer
<1>5. /\ QuitReached(fd, failing) = QuitReached(fd, {}) \ failing
      /\ QuitReached(fd, {}) \subseteq Connected \ {fd}
      /\ Concerns(fd, Chan, QuitReached(fd, {}))
  BY <1>1, <1>4, QuitReaches
<1>6. A \subseteq Connected /\ fd \in A
  BY <1>4, <1>5
<1>7. Announce(A \ failing, failing, QuitHeardBy(fd))
  <2>1. A \ failing = QuitReached(fd, failing) \cup ({fd} \ failing)
    BY <1>5
  <2> QED BY <1>3, <2>1
<1>8. Concerns(fd, Chan, A)
  BY <1>5 DEF Concerns
<1>9. /\ QuitHeardBy(fd) \in [Fd -> [Chan -> SUBSET NickWord]]
      /\ \A f \in A, d \in Chan : QuitHeardBy(fd)[f][d] = Struck(f, d, Chan, NickOf(fd))
  BY <1>1, <1>6, QuitHeardByIs DEF MembersNamed
<1>10. Thins(fd, Chan)
  BY <1>1, <1>2, <1>4, LeaveAllThins
<1> HIDE DEF A
<1> QED BY <1>2, <1>3, <1>4, <1>6, <1>7, <1>8, <1>9, <1>10, LeaveTold

\* A lost connection.
LEMMA TellDisconnectKnown ==
    ASSUME DeliveryInv, NEW fd \in Fd, TellDisconnect(fd)
    PROVE  Known'
<1> DEFINE A == QuitReached(fd, {})
<1>1. ChannelInv /\ Known /\ MembersNamed /\ SessionInv
  BY NamedMembers DEF DeliveryInv, ChannelInv
<1>2. /\ DropClient(fd) /\ LeaveAll(fd) /\ fd \in Connected
      /\ clients' = [clients EXCEPT ![fd] = Nil]
      /\ heap' = [heap EXCEPT ![clients[fd]] = NewClient]
  BY DEF TellDisconnect, Disconnect, DropClient, SetClient
<1>3. PICK failing \in SUBSET A :
         /\ deaf' = (deaf \cup failing) \ {fd}
         /\ view' = [f \in Fd |-> IF f = fd \/ f \in deaf' THEN NoView
                                  ELSE IF f \in QuitReached(fd, failing) THEN QuitHeardBy(fd)[f]
                                  ELSE view[f]]
  BY DEF TellDisconnect
<1>4. /\ QuitReached(fd, failing) = A \ failing
      /\ A \subseteq Connected \ {fd}
      /\ Concerns(fd, Chan, A)
  BY <1>1, <1>2, QuitReaches
<1>5. /\ QuitHeardBy(fd) \in [Fd -> [Chan -> SUBSET NickWord]]
      /\ \A f \in A, d \in Chan : QuitHeardBy(fd)[f][d] = Struck(f, d, Chan, NickOf(fd))
  BY <1>1, <1>4, QuitHeardByIs DEF MembersNamed
<1> HIDE DEF A
<1>6. \A g \in Connected \ {fd} : g \in Connected' /\ NickOf(g)' = NickOf(g)
  <2> SUFFICES ASSUME NEW g \in Connected \ {fd}
               PROVE  g \in Connected' /\ NickOf(g)' = NickOf(g)
    OBVIOUS
  <2>1. /\ clients \in [Fd -> Pointer] /\ heap \in [Addr -> Client]
        /\ g \in Fd /\ clients[g] \in Addr /\ clients[g] # Nil
    BY <1>1, ConnectedType, AddrAssumption DEF SessionInv, SessionTypeOK
  <2>2. clients[g] # clients[fd]
    BY <1>1, <1>2, NoSharing DEF SessionInv
  <2>3. clients'[g] = clients[g] /\ heap'[clients[g]] = heap[clients[g]]
    BY <1>2, <2>1, <2>2
  <2>4. g \in DOMAIN clients'
    BY <1>2, <2>1
  <2>5. g \in Connected'
    BY <2>1, <2>3, <2>4 DEF Connected, Keys
  <2>6. NickOf(g)' = NickOf(g)
    BY <2>3 DEF NickOf, GetClient
  <2> QED BY <2>5, <2>6
<1>7. Thins(fd, Chan) /\ \A c \in Chan : fd \notin Members(chan'[c])
  BY <1>1, <1>2, LeaveAllThins
<1>8. Leaves(fd, Chan)
  <2> SUFFICES ASSUME NEW c \in Chan, NEW g \in Members(chan'[c]) PROVE NickOf(g)' = NickOf(g)
    BY <1>7 DEF Thins, Leaves
  <2>1. g \in Connected \ {fd}
    BY <1>1, <1>7 DEF Thins, MembersNamed
  <2> QED BY <1>6, <2>1
<1>9. NoView \in [Chan -> SUBSET NickWord] /\ \A c \in Chan : NoView[c] = {}
  BY DEF NoView
<1>10. ViewsTyped
  <2>1. deaf' \subseteq Connected'
    BY <1>1, <1>3, <1>4, <1>6 DEF Known
  <2>2. view' \in [Fd -> [Chan -> SUBSET NickWord]]
    BY <1>1, <1>3, <1>5, <1>9 DEF Known
  <2> QED BY <2>1, <2>2 DEF ViewsTyped
<1>11. StruckOut(fd, NickOf(fd), Chan, A)
  <2> SUFFICES ASSUME NEW f \in Fd, NEW c \in Chan
               PROVE  \/ view'[f][c] = {}
                      \/ f \notin deaf' /\ f \in A
                         /\ view'[f][c] = Struck(f, c, Chan, NickOf(fd))
                      \/ f \notin deaf' /\ f \notin A /\ f # fd /\ view'[f][c] = view[f][c]
    BY DEF StruckOut
  <2>1. CASE f = fd \/ f \in deaf'
    BY <1>3, <1>9, <2>1
  <2>2. CASE f # fd /\ f \notin deaf' /\ f \in A
    <3>1. f \in QuitReached(fd, failing)
      BY <1>3, <1>4, <2>2
    <3>2. view'[f] = QuitHeardBy(fd)[f]
      BY <1>3, <2>2, <3>1
    <3>3. QuitHeardBy(fd)[f][c] = Struck(f, c, Chan, NickOf(fd))
      BY <1>5, <2>2
    <3> QED BY <2>2, <3>2, <3>3
  <2>3. CASE f # fd /\ f \notin deaf' /\ f \notin A
    BY <1>3, <1>4, <2>3
  <2> QED BY <2>1, <2>2, <2>3
<1> QED BY <1>1, <1>2, <1>4, <1>8, <1>10, <1>11, LeaveKnown

-----------------------------------------------------------------------------
\* NICK

\* Whom the announcement of a new nickname reaches.  A client that has not
\* logged in is on no channel.
LEMMA NickReaches ==
    ASSUME ChannelInv, NEW fd \in Connected, NEW failing
    PROVE  /\ NickReached(fd, failing) = NickReached(fd, {}) \ failing
           /\ NickReached(fd, {}) \subseteq Connected
           /\ \A c \in Chan : fd \in Members(chan[c]) =>
                  Members(chan[c]) \subseteq NickReached(fd, {}) \cup {fd}
<1>1. SessionInv /\ MembersNamed
  BY NamedMembers DEF ChannelInv
<1>2. ASSUME NEW c \in channels
      PROVE  /\ c \in Chan
             /\ \A fl : SendToAll(chan[c], fd, fl) = (Members(chan[c]) \ {fd}) \ fl
             /\ ByExactNick(chan[c].clients, NickOf(fd))
                \cup ByExactNick(chan[c].admins, NickOf(fd)) = Members(chan[c]) \cap {fd}
             /\ fd \in Members(chan[c]) => GetClient(fd).log
  <2>1. c \in Chan /\ LiveChannel(chan[c])
    BY InvLive
  <2>2. LiveMap(chan[c].clients) /\ LiveMap(chan[c].admins)
    BY <2>1 DEF LiveChannel
  <2>3. /\ ByExactNick(chan[c].clients, NickOf(fd)) = Keys(chan[c].clients) \cap {fd}
        /\ ByExactNick(chan[c].admins, NickOf(fd)) = Keys(chan[c].admins) \cap {fd}
    BY <1>1, <2>2, NoNick DEF NickOf
  <2>4. \A fl : SendToAll(chan[c], fd, fl) = (Members(chan[c]) \ {fd}) \ fl
    BY <1>1, <2>1, Sent
  <2>5. fd \in Members(chan[c]) => GetClient(fd).log
    BY <1>1, <2>2, LiveEntry DEF Members
  <2> QED BY <2>1, <2>3, <2>4, <2>5 DEF Members
<1>3. SharedChannels(NickOf(fd)) = {c \in channels : fd \in Members(chan[c])}
  <2>1. \A c \in channels : ByExactNick(chan[c].clients, NickOf(fd))
                            \cup ByExactNick(chan[c].admins, NickOf(fd)) # {}
                            <=> fd \in Members(chan[c])
    BY <1>2
  <2> QED BY <2>1 DEF SharedChannels
<1>4. ASSUME NEW fl
      PROVE  \A g : g \in NickReached(fd, fl) <=>
                    /\ GetClient(fd).log
                    /\ \E c \in channels : /\ fd \in Members(chan[c])
                                           /\ g \in (Members(chan[c]) \ {fd}) \ fl
  <2> DEFINE told == UNION {SendToAll(chan[c], fd, fl) :
                               c \in {d \in channels : fd \in Members(chan[d])}}
  <2>1. NickReached(fd, fl) = IF GetClient(fd).log THEN told ELSE {}
    BY <1>3 DEF NickReached
  <2>2. \A g : g \in told <=>
               \E c \in channels : fd \in Members(chan[c]) /\ g \in SendToAll(chan[c], fd, fl)
    OBVIOUS
  <2>3. \A c \in channels : SendToAll(chan[c], fd, fl) = (Members(chan[c]) \ {fd}) \ fl
    BY <1>2
  <2> HIDE DEF told
  <2>4. ASSUME NEW g
        PROVE  (\E c \in channels : fd \in Members(chan[c]) /\ g \in SendToAll(chan[c], fd, fl))
               <=> \E c \in channels : /\ fd \in Members(chan[c])
                                        /\ g \in (Members(chan[c]) \ {fd}) \ fl
    BY <2>3
  <2> QED BY <2>1, <2>2, <2>4
<1>5. NickReached(fd, failing) = NickReached(fd, {}) \ failing
  BY <1>4
<1>6. NickReached(fd, {}) \subseteq Connected
  BY <1>1, <1>2, <1>4 DEF MembersNamed
<1>7. ASSUME NEW c \in Chan, fd \in Members(chan[c]), NEW g \in Members(chan[c])
      PROVE  g \in NickReached(fd, {}) \cup {fd}
  <2>1. c \in channels
    <3>1. c \notin channels => Members(chan[c]) = {}
      <4>1. c \notin channels => chan[c] = NewChannel
        BY DEF ChannelInv, TypeOK
      <4> QED BY <4>1, NewChannelLive, VacantIsEmpty
    <3> QED BY <1>7, <3>1
  <2> QED BY <1>2, <1>4, <1>7, <2>1
<1> QED BY <1>5, <1>6, <1>7

\* NICK.
LEMMA TellNickKnown ==
    ASSUME DeliveryInv, NEW fd \in Fd, NEW word \in NickWord, TellNick(fd, word)
    PROVE  Known'
<1> DEFINE A == NickReached(fd, {}) \cup {fd}
           heard == [f \in Fd |-> NickHeard(view[f], NickOf(fd), word)]
           obj == [GetClient(fd) EXCEPT !.nickname = word]
<1>1. ChannelInv /\ Known /\ MembersNamed /\ SessionInv
  BY NamedMembers DEF DeliveryInv, ChannelInv
<1>2. /\ turn = fd /\ SetClient(fd, obj) /\ UNCHANGED clients /\ chan' = chan
  BY DEF TellNick, Nick, channelVars
<1>3. PICK failing \in SUBSET A :
         Announce(NickReached(fd, failing) \cup ({fd} \ failing), failing, heard)
  BY DEF TellNick
<1>4. fd \in Connected /\ Connected' = Connected
  BY <1>1, <1>2, TurnConnected DEF Connected, Keys
<1>5. GetClient(fd)' = obj /\ \A g \in Connected \ {fd} : GetClient(g)' = GetClient(g)
  BY <1>1, <1>2, <1>4, WriteOne DEF SessionInv
<1>6. Renames(fd, word)
  <2>1. obj.nickname = word
    <3>1. GetClient(fd) \in Client
      BY <1>1, <1>4, ConnectedType DEF SessionInv
    <3> HIDE DEF GetClient
    <3> QED BY <3>1 DEF Client
  <2>2. NickOf(fd)' = word
    BY <1>5, <2>1 DEF NickOf
  <2>3. \A g \in Connected \ {fd} : NickOf(g)' = NickOf(g)
    BY <1>5 DEF NickOf
  <2> HIDE DEF obj
  <2> QED BY <1>2, <2>2, <2>3 DEF Renames
<1>7. /\ NickReached(fd, failing) = NickReached(fd, {}) \ failing
      /\ NickReached(fd, {}) \subseteq Connected
      /\ \A c \in Chan : fd \in Members(chan[c]) => Members(chan[c]) \subseteq A
  BY <1>1, <1>4, NickReaches
<1>8. Announce(A \ failing, failing, heard) /\ failing \subseteq Connected'
  <2>1. A \ failing = NickReached(fd, failing) \cup ({fd} \ failing)
    BY <1>7
  <2> QED BY <1>3, <1>4, <1>7, <2>1
<1>9. ASSUME NEW f \in Fd
      PROVE  /\ heard[f] \in [Chan -> SUBSET NickWord]
             /\ \A c \in Chan : heard[f][c] = Renamed(f, c, NickOf(fd), word)
  <2>1. view[f] \in [Chan -> SUBSET NickWord]
    BY <1>1 DEF Known
  <2> QED BY <2>1 DEF NickHeard, Renamed
<1>10. heard \in [Fd -> [Chan -> SUBSET NickWord]]
  <2>1. \A f \in Fd : heard[f] \in [Chan -> SUBSET NickWord]
    BY <1>9
  <2> QED BY <2>1
<1> HIDE DEF heard, A, obj
<1>11. ViewsTyped /\ HeardBy(A, heard)
  BY <1>1, <1>4, <1>8, <1>10, Announced
<1>12. Replaced(NickOf(fd), word, A)
  BY <1>9, <1>11 DEF HeardBy, Replaced
<1> QED BY <1>1, <1>4, <1>6, <1>7, <1>11, <1>12, NickKnown

-----------------------------------------------------------------------------
\* The steps nobody is told of

\* No client that is connected changes its nickname.
LEMMA RegistryQuiet ==
    ASSUME SessionInv, NEW fd \in Fd,
           \/ \E a \in Addr : AcceptNewClient(fd, a)
           \/ BeginTurn(fd)
           \/ \E word \in PassWord : Pass(fd, word)
           \/ \E word \in UserWord : User(fd, word)
           \/ EndTurn(fd)
    PROVE  Connected \subseteq Connected' /\ \A g \in Connected : NickOf(g)' = NickOf(g)
<1>1. CASE \E a \in Addr : AcceptNewClient(fd, a)
  <2> PICK a \in Addr : AcceptNewClient(fd, a)
    BY <1>1
  <2>1. ASSUME NEW k \in Connected
        PROVE  k \in Connected' /\ GetClient(k)' = GetClient(k)
    <3>1. /\ k # fd /\ k \in Fd /\ clients[k] # a /\ clients[k] \in Addr
          /\ clients' = [clients EXCEPT ![fd] = a]
          /\ heap' = [heap EXCEPT ![a] = [NewClient EXCEPT !.fd = fd]]
          /\ clients \in [Fd -> Pointer] /\ heap \in [Addr -> Client]
      BY ConnectedType DEF AcceptNewClient, SessionInv, SessionTypeOK, Live
    <3>2. clients'[k] = clients[k] /\ heap'[clients[k]] = heap[clients[k]]
          /\ k \in DOMAIN clients'
      BY <3>1
    <3>3. k \in Connected'
      BY <3>1, <3>2, AddrAssumption DEF Connected, Keys
    <3> QED BY <3>2, <3>3 DEF GetClient
  <2> QED BY <2>1 DEF NickOf
<1>2. CASE BeginTurn(fd)
  BY <1>2 DEF BeginTurn, GetClient, NickOf, Connected, Keys
<1>3. ASSUME turn = fd, UNCHANGED clients,
             NEW obj, SetClient(fd, obj), obj.nickname = GetClient(fd).nickname
      PROVE  Connected \subseteq Connected' /\ \A g \in Connected : NickOf(g)' = NickOf(g)
  <2>1. fd \in Connected
    BY <1>3, TurnConnected
  <2>2. /\ Connected' = Connected
        /\ GetClient(fd)' = obj
        /\ \A g \in Connected \ {fd} : GetClient(g)' = GetClient(g)
    BY <1>3, <2>1, WriteOne DEF SessionInv
  <2>3. NickOf(fd)' = NickOf(fd)
    BY <1>3, <2>2 DEF NickOf
  <2>4. \A g \in Connected \ {fd} : NickOf(g)' = NickOf(g)
    BY <2>2 DEF NickOf
  <2> QED BY <2>2, <2>3, <2>4
<1>4. CASE turn = fd
  <2>1. GetClient(fd) \in Client
    BY <1>4, TurnConnected, ConnectedType DEF SessionInv
  <2>2. CASE \E word \in PassWord : Pass(fd, word)
    <3> PICK word \in PassWord : Pass(fd, word)
      BY <2>2
    <3> DEFINE obj == [GetClient(fd) EXCEPT !.password = word]
    <3>1. SetClient(fd, obj) /\ UNCHANGED clients
      BY DEF Pass
    <3>2. obj.nickname = GetClient(fd).nickname
      BY <2>1 DEF Client
    <3> HIDE DEF obj
    <3> QED BY <1>3, <1>4, <3>1, <3>2
  <2>3. CASE \E word \in UserWord : User(fd, word)
    <3> PICK word \in UserWord : User(fd, word)
      BY <2>3
    <3> DEFINE obj == [GetClient(fd) EXCEPT !.username = word]
    <3>1. SetClient(fd, obj) /\ UNCHANGED clients
      BY DEF User
    <3>2. obj.nickname = GetClient(fd).nickname
      BY <2>1 DEF Client
    <3> HIDE DEF obj
    <3> QED BY <1>3, <1>4, <3>1, <3>2
  <2>4. CASE EndTurn(fd)
    <3> DEFINE obj == [GetClient(fd) EXCEPT !.log = @ \/ MayLogIn(GetClient(fd))]
    <3>1. SetClient(fd, obj) /\ UNCHANGED clients
      BY <2>4 DEF EndTurn
    <3>2. obj.nickname = GetClient(fd).nickname
      BY <2>1 DEF Client
    <3> HIDE DEF obj
    <3> QED BY <1>3, <1>4, <3>1, <3>2
  <2>5. CASE \E a \in Addr : AcceptNewClient(fd, a)
    BY <1>1, <2>5
  <2> QED BY <1>2, <2>2, <2>3, <2>4, <2>5
<1> QED BY <1>1, <1>2, <1>4 DEF Pass, User, EndTurn

\* Nobody enters or leaves where the entries stay the same clients'.
LEMMA SetQuiet ==
    ASSUME ChannelInv, NEW c \in channels, NEW ch, SetChannel(c, ch),
           Members(ch) = Members(chan[c])
    PROVE  \A d \in Chan : Members(chan'[d]) = Members(chan[d])
<1>1. \A d \in Chan : MembersOf'[d] = IF d = c THEN Members(ch) ELSE MembersOf[d]
  BY SetChannelRooms
<1> QED BY <1>1, MappedAt

\* Nobody does where another field of the channel is written.
LEMMA FieldQuiet ==
    ASSUME ChannelInv, NEW c \in channels, NEW ch, SetChannel(c, ch),
           ch.admins = chan[c].admins, ch.clients = chan[c].clients
    PROVE  \A d \in Chan : Members(chan'[d]) = Members(chan[d])
<1>1. Members(ch) = Members(chan[c])
  BY DEF Members
<1> QED BY <1>1, SetQuiet

\* INVITE and TOPIC, and the beginning of KICK and MODE, move nobody.
LEMMA CommandQuiet ==
    ASSUME ChannelInv, NEW fd \in Fd, NEW name \in Chan, ChannelStep(fd, name)
    PROVE  /\ UNCHANGED sessionVars
           /\ \A d \in Chan : Members(chan'[d]) = Members(chan[d])
<1>1. CASE \E word \in NickWord : Invite(fd, word, name)
  <2> PICK word \in NickWord, c \in GetChannelByName(name) :
        /\ SetChannel(c, [chan[c] EXCEPT !.invited =
                              Insert(@, clients[Min(GetClientByNickname(word))])])
        /\ UNCHANGED sessionVars
    BY <1>1 DEF Invite
  <2> DEFINE ch == [chan[c] EXCEPT !.invited =
                        Insert(@, clients[Min(GetClientByNickname(word))])]
  <2>1. c \in channels /\ chan[c] \in Channel
    BY InvLive DEF GetChannelByName, LiveChannel
  <2>2. ch.admins = chan[c].admins /\ ch.clients = chan[c].clients
    BY <2>1 DEF Channel
  <2>3. SetChannel(c, ch) /\ UNCHANGED sessionVars
    OBVIOUS
  <2> HIDE DEF ch
  <2> QED BY <2>1, <2>2, <2>3, FieldQuiet
<1>2. CASE \E text \in TopicText \cup {""} : Topic(fd, name, text)
  <2> PICK text \in TopicText \cup {""}, c \in GetChannelByName(name) :
        SetChannel(c, [chan[c] EXCEPT !.topic = text]) /\ UNCHANGED sessionVars
    BY <1>2 DEF Topic
  <2> DEFINE ch == [chan[c] EXCEPT !.topic = text]
  <2>1. c \in channels /\ chan[c] \in Channel
    BY InvLive DEF GetChannelByName, LiveChannel
  <2>2. ch.admins = chan[c].admins /\ ch.clients = chan[c].clients
    BY <2>1 DEF Channel
  <2>3. SetChannel(c, ch) /\ UNCHANGED sessionVars
    OBVIOUS
  <2> HIDE DEF ch
  <2> QED BY <2>1, <2>2, <2>3, FieldQuiet
<1>3. CASE KickBegin(fd, name) \/ ModeBegin(fd, name)
  BY <1>3 DEF KickBegin, ModeBegin
<1> QED BY <1>1, <1>2, <1>3 DEF ChannelStep

\* Nor does MODE, which +o and -o make move an entry to the other map, or
\* the end of a KICK.
LEMMA ModeQuiet ==
    ASSUME ChannelInv, SilentLoopStep
    PROVE  /\ UNCHANGED sessionVars
           /\ \A d \in Chan : Members(chan'[d]) = Members(chan[d])
<1> DEFINE c == loop.chan
<1>1. CASE \/ \E word \in NickWord : KickTargetFreed(word)
           \/ LoopEnd
  BY <1>1 DEF KickTargetFreed, LoopEnd, LoopReturns
<1>2. CASE \/ \E plus \in BOOLEAN : ModeSign(plus)
           \/ \E flag \in ModeFlag : ModeNoArgument(flag) \/ ModeReadsPast(flag)
  BY <1>2 DEF ModeSign, ModeNoArgument, ModeReadsPast
<1>3. ASSUME loop.op = "MODE", NEW ch, SetModed(ch), Members(ch) = Members(chan[c])
      PROVE  /\ UNCHANGED sessionVars
             /\ \A d \in Chan : Members(chan'[d]) = Members(chan[d])
  <2>1. c \in channels /\ SetChannel(c, ch) /\ UNCHANGED sessionVars
    BY <1>3, ModeState DEF SetModed
  <2> QED BY <1>3, <2>1, SetQuiet
<1>4. ASSUME loop.op = "MODE", NEW ch, SetModed(ch),
             ch.admins = chan[c].admins, ch.clients = chan[c].clients
      PROVE  /\ UNCHANGED sessionVars
             /\ \A d \in Chan : Members(chan'[d]) = Members(chan[d])
  BY <1>3, <1>4 DEF Members
<1>5. CASE \E word \in NickWord : ModeOperator(word)
  <2> PICK word \in NickWord : ModeOperator(word)
    BY <1>5
  <2>1. loop.op = "MODE"
    BY DEF ModeOperator, InMode, InLoop
  <2>2. LiveChannel(chan[c]) /\ SessionInv
    BY <2>1, ModeState DEF ChannelInv
  <2>3. CASE ByNick(chan[c].clients, word) # {} /\ SetModed(Promoted(chan[c], word))
    BY <1>3, <2>1, <2>2, <2>3, PromotedLive
  <2>4. CASE ByNick(chan[c].admins, word) # {} /\ SetModed(Demoted(chan[c], word))
    BY <1>3, <2>1, <2>2, <2>4, DemotedLive
  <2>5. CASE LoopReturns /\ UNCHANGED sessionVars
    BY <2>5 DEF LoopReturns
  <2> QED BY <2>3, <2>4, <2>5 DEF ModeOperator
<1>6. CASE \/ ModeInviteOnly
           \/ ModeTopic
           \/ \E key \in KeyWord : ModeKey(key)
           \/ \E limit \in LimitArg : ModeLimit(limit)
           \/ ModeNoLimit
  <2>1. loop.op = "MODE"
    BY <1>6 DEF ModeInviteOnly, ModeTopic, ModeKey, ModeLimit, ModeNoLimit, InMode, InLoop
  <2>2. chan[c] \in Channel
    BY <2>1, ModeState
  <2>3. CASE ModeInviteOnly
    <3> DEFINE ch == [chan[c] EXCEPT !.inv_only = loop.plus]
    <3>1. SetModed(ch) /\ ch.admins = chan[c].admins /\ ch.clients = chan[c].clients
      BY <2>2, <2>3 DEF ModeInviteOnly, Channel
    <3> HIDE DEF ch
    <3> QED BY <1>4, <2>1, <3>1
  <2>4. CASE ModeTopic
    <3> DEFINE ch == [chan[c] EXCEPT !.topic_restricted = loop.plus]
    <3>1. SetModed(ch) /\ ch.admins = chan[c].admins /\ ch.clients = chan[c].clients
      BY <2>2, <2>4 DEF ModeTopic, Channel
    <3> HIDE DEF ch
    <3> QED BY <1>4, <2>1, <3>1
  <2>5. CASE \E key \in KeyWord : ModeKey(key)
    <3> PICK key \in KeyWord : ModeKey(key)
      BY <2>5
    <3> DEFINE ch == [chan[c] EXCEPT !.password = IF loop.plus THEN key ELSE ""]
    <3>1. SetModed(ch) /\ ch.admins = chan[c].admins /\ ch.clients = chan[c].clients
      BY <2>2 DEF ModeKey, Channel
    <3> HIDE DEF ch
    <3> QED BY <1>4, <2>1, <3>1
  <2>6. CASE \E limit \in LimitArg : ModeLimit(limit)
    <3> PICK limit \in LimitArg : ModeLimit(limit)
      BY <2>6
    <3> DEFINE ch == [chan[c] EXCEPT !.usr_limit = limit]
    <3>1. SetModed(ch) /\ ch.admins = chan[c].admins /\ ch.clients = chan[c].clients
      BY <2>2 DEF ModeLimit, Channel
    <3> HIDE DEF ch
    <3> QED BY <1>4, <2>1, <3>1
  <2>7. CASE ModeNoLimit
    <3> DEFINE ch == [chan[c] EXCEPT !.usr_limit = -1]
    <3>1. SetModed(ch) /\ ch.admins = chan[c].admins /\ ch.clients = chan[c].clients
      BY <2>2, <2>7 DEF ModeNoLimit, Channel
    <3> HIDE DEF ch
    <3> QED BY <1>4, <2>1, <3>1
  <2> QED BY <1>6, <2>3, <2>4, <2>5, <2>6, <2>7
<1> QED BY <1>1, <1>2, <1>5, <1>6 DEF SilentLoopStep

\* A step nobody is told of gives nobody reason to be told.
LEMMA SilentKnown == ASSUME DeliveryInv, Silent PROVE Known'
<1>1. ChannelInv /\ Known /\ SessionInv /\ MembersNamed /\ UNCHANGED deliveryVars
  BY NamedMembers DEF DeliveryInv, ChannelInv, Silent
<1>2. ASSUME UNCHANGED sessionVars, \A d \in Chan : Members(chan'[d]) = Members(chan[d])
      PROVE  Known'
  <2>1. Connected' = Connected /\ \A g : NickOf(g)' = NickOf(g)
    BY <1>2, SameRegistry
  <2> QED BY <1>1, <1>2, <2>1, QuietKnown
<1>3. ASSUME NEW fd \in Fd,
             \/ \E a \in Addr : Accept(fd, a)
             \/ Begin(fd)
             \/ Credentials(fd)
             \/ End(fd)
      PROVE  Known'
  <2>1. /\ UNCHANGED channelVars
        /\ \/ \E a \in Addr : AcceptNewClient(fd, a)
           \/ BeginTurn(fd)
           \/ \E word \in PassWord : Pass(fd, word)
           \/ \E word \in UserWord : User(fd, word)
           \/ EndTurn(fd)
    BY <1>3 DEF Accept, Begin, Credentials, End
  <2>2. Connected \subseteq Connected' /\ \A g \in Connected : NickOf(g)' = NickOf(g)
    BY <1>1, <2>1, RegistryQuiet
  <2>3. \A c \in Chan : /\ Members(chan'[c]) = Members(chan[c])
                        /\ \A g \in Members(chan[c]) : NickOf(g)' = NickOf(g)
    BY <1>1, <2>1, <2>2 DEF channelVars, MembersNamed
  <2> QED BY <1>1, <2>2, <2>3, QuietKnown
<1>4. ASSUME NEW fd \in Fd, NEW name \in Chan,
             JoinThrows(fd, name) \/ PartThrows(fd, name)
      PROVE  Known'
  BY <1>2, <1>4 DEF JoinThrows, PartThrows
<1>5. ASSUME NEW fd \in Fd, NEW name \in Chan, ChannelStep(fd, name) PROVE Known'
  BY <1>1, <1>2, <1>5, CommandQuiet
<1>6. CASE SilentLoopStep
  BY <1>1, <1>2, <1>6, ModeQuiet
<1> QED BY <1>3, <1>4, <1>5, <1>6 DEF Silent

-----------------------------------------------------------------------------
\* The theorems

\* Announcements are added to the steps of Channels, and none is left out.
LEMMA DeliveryStepIsNext ==
    ASSUME ChannelInv, DeliveryNext
    PROVE  [Next]_vars
<1>1. ASSUME NEW fd \in Fd,
             \/ \E a \in Addr : Accept(fd, a)
             \/ Begin(fd)
             \/ Credentials(fd)
             \/ End(fd)
             \/ TellDisconnect(fd)
             \/ \E word \in NickWord : TellNick(fd, word)
      PROVE  Next
  <2>1. RegistryStep(fd)
    BY <1>1 DEF RegistryStep, Credentials, TellNick, TellDisconnect, Handshake, Register
  <2> QED BY <2>1 DEF Next
<1>2. ASSUME NEW fd \in Fd, NEW name \in Chan,
             \/ JoinThrows(fd, name)
             \/ \E key \in KeyWord \cup {""} :
                    TellJoin(fd, name, key) \/ TellJoinCreate(fd, name, key)
      PROVE  Next
  <2>1. JoinStep(fd, name)
    BY <1>2 DEF JoinStep, TellJoin, TellJoinCreate
  <2> QED BY <2>1 DEF Next
<1>3. ASSUME NEW fd \in Fd, NEW name \in Chan,
             PartThrows(fd, name) \/ TellPart(fd, name) \/ TellQuit(fd)
      PROVE  Next
  <2>1. LeaveStep(fd, name)
    BY <1>3 DEF LeaveStep, TellPart, TellQuit
  <2> QED BY <2>1 DEF Next
<1>4. ASSUME NEW fd \in Fd, NEW name \in Chan, ChannelStep(fd, name) PROVE Next
  BY <1>4 DEF Next
<1>5. CASE SilentLoopStep \/ \E word \in NickWord : TellKick(word)
  <2>1. LoopStep
    BY <1>5 DEF SilentLoopStep, LoopStep, TellKick
  <2> QED BY <2>1 DEF Next
<1>6. ASSUME NEW fd \in Fd, TellQuit(fd) PROVE Next \/ UNCHANGED vars
  <2>1. CASE Chan # {}
    BY <1>3, <1>6, <2>1
  <2>2. CASE Chan = {}
    <3>1. LeaveAll(fd) /\ UNCHANGED <<sessionVars, loop, status>>
      BY <1>6 DEF TellQuit, Quit
    <3>2. channels = {} /\ chan \in [Chan -> Channel]
      BY <2>2 DEF ChannelInv, TypeOK
    <3>3. channels' = channels /\ chan' = chan
      BY <2>2, <3>1, <3>2 DEF LeaveAll
    <3> QED BY <3>1, <3>3 DEF vars, channelVars
  <2> QED BY <2>1, <2>2
<1>7. CASE Silent
  BY <1>1, <1>2, <1>3, <1>4, <1>5, <1>7 DEF Silent
<1>8. CASE Told
  BY <1>1, <1>2, <1>3, <1>5, <1>6, <1>8 DEF Told
<1> QED BY <1>7, <1>8 DEF DeliveryNext

\* Nobody is on a channel at first, and nobody believes otherwise.
LEMMA DeliveryInitInv == DeliveryInit => DeliveryInv
<1> SUFFICES ASSUME DeliveryInit PROVE DeliveryInv
  OBVIOUS
<1>1. ChannelInv
  BY ChannelInitInv DEF DeliveryInit
<1>2. \A f \in Fd, c \in Chan : view[f][c] = {}
  BY DEF DeliveryInit, NoView
<1>3. view \in [Fd -> [Chan -> SUBSET NickWord]] /\ deaf = {}
  BY DEF DeliveryInit, NoView
<1>4. Known
  BY <1>2, <1>3 DEF Known
<1> QED BY <1>1, <1>4 DEF DeliveryInv

\* One step of any command, event or announcement.
LEMMA DeliveryStepInv == DeliveryInv /\ [DeliveryNext]_allVars => DeliveryInv'
<1> SUFFICES ASSUME DeliveryInv, [DeliveryNext]_allVars PROVE DeliveryInv'
  OBVIOUS
<1>1. CASE UNCHANGED allVars
  <2>1. ChannelInv'
    BY <1>1, ChannelStepInv DEF DeliveryInv, allVars
  <2>2. UNCHANGED sessionVars /\ chan' = chan /\ UNCHANGED deliveryVars
    BY <1>1 DEF allVars, vars, channelVars
  <2>3. Connected' = Connected /\ \A g : NickOf(g)' = NickOf(g)
    BY <2>2, SameRegistry
  <2>4. Known'
    BY <2>2, <2>3, QuietKnown DEF DeliveryInv
  <2> QED BY <2>1, <2>4 DEF DeliveryInv
<1>2. CASE DeliveryNext
  <2>1. ChannelInv'
    BY <1>2, DeliveryStepIsNext, ChannelStepInv DEF DeliveryInv
  <2>2. CASE Silent
    BY <2>1, <2>2, SilentKnown DEF DeliveryInv
  <2>3. CASE Told
    <3>1. Known'
      BY <2>3, TellQuitKnown, TellDisconnectKnown, TellNickKnown, TellPartKnown,
         TellJoinKnown, TellJoinCreateKnown, TellKickKnown DEF Told
    <3> QED BY <2>1, <3>1 DEF DeliveryInv
  <2> QED BY <1>2, <2>2, <2>3 DEF DeliveryNext
<1> QED BY <1>1, <1>2

\* What clients believe is right, whatever is sent, lost and in between.
THEOREM DeliveryInvariant == DeliverySpec => []DeliveryInv
BY DeliveryInitInv, DeliveryStepInv, PTL DEF DeliverySpec

\* The views keep their type, and a client that is gone believes nothing.
THEOREM DeliveryTypeCorrect == DeliverySpec => []DeliveryTypeOK
<1>1. DeliveryInv => DeliveryTypeOK
  BY KnownIs DEF DeliveryInv
<1> QED BY <1>1, DeliveryInvariant, PTL

\* Nobody believes in a member that has left or is called otherwise now.
THEOREM NobodySeesGhosts == DeliverySpec => []NoGhosts
<1>1. DeliveryInv => NoGhosts
  BY KnownIs DEF DeliveryInv
<1> QED BY <1>1, DeliveryInvariant, PTL

\* Members that have got all their messages see each other.
THEOREM MembersSeeEachOther == DeliverySpec => []SeeEachOther
<1>1. DeliveryInv => SeeEachOther
  BY KnownIs DEF DeliveryInv
<1> QED BY <1>1, DeliveryInvariant, PTL

\* PRIVMSG goes to those its sender sees.
THEOREM MessagesReachSeen == DeliverySpec => []PrivmsgReachesSeen
<1>1. ASSUME DeliveryInv PROVE PrivmsgReachesSeen
  <2>1. ChannelInv /\ Known /\ MembersNamed /\ SessionInv
    BY <1>1, NamedMembers DEF DeliveryInv, ChannelInv
  <2> SUFFICES ASSUME NEW fd \in Connected, NEW c \in channels
               PROVE  /\ \A n \in view[fd][c] \ {NickOf(fd)} :
                             \E g \in PrivmsgToChannel(fd, c) :
                                 NickOf(g) = n /\ PrivmsgToUser(Lower[n]) = {g}
                      /\ PrivmsgToChannel(fd, c) \subseteq Members(chan[c]) \ {fd}
    BY DEF PrivmsgReachesSeen
  <2>2. fd \in Fd /\ c \in Chan /\ LiveChannel(chan[c])
    BY <2>1, InvLive DEF MembersNamed
  <2>3. GetChannelByName(c) = {c}
    BY <2>1 DEF GetChannelByName, ChannelInv, ChannelNamesUnique
  <2>4. c \in ChannelsWith(NickOf(fd)) <=> fd \in Members(chan[c])
    BY <2>1, WhereFound
  <2>5. SendToAll(chan[c], fd, {}) = Members(chan[c]) \ {fd}
    BY <2>1, <2>2, Sent
  <2>6. /\ fd \in Members(chan[c]) => PrivmsgToChannel(fd, c) = Members(chan[c]) \ {fd}
        /\ fd \notin Members(chan[c]) => PrivmsgToChannel(fd, c) = {}
    <3>1. CASE fd \in Members(chan[c])
      <4>1. GetChannelByName(c) \cap ChannelsWith(NickOf(fd)) = {c}
        BY <2>3, <2>4, <3>1
      <4> QED BY <2>5, <3>1, <4>1 DEF PrivmsgToChannel
    <3>2. CASE fd \notin Members(chan[c])
      <4>1. GetChannelByName(c) \cap ChannelsWith(NickOf(fd)) = {}
        BY <2>3, <2>4, <3>2
      <4> QED BY <3>2, <4>1 DEF PrivmsgToChannel
    <3> QED BY <3>1, <3>2
  <2>7. ASSUME NEW n \in view[fd][c] \ {NickOf(fd)}
        PROVE  \E g \in PrivmsgToChannel(fd, c) :
                   NickOf(g) = n /\ PrivmsgToUser(Lower[n]) = {g}
    <3>1. PICK g \in Members(chan[c]) : NickOf(g) = n
      BY <2>1, <2>2 DEF Known
    <3>2. fd \in Members(chan[c]) /\ g # fd
      BY <2>1, <2>2, <3>1 DEF Known
    <3>3. g \in Connected /\ g \in Int /\ NickOf(g) \in NickWord
      <4>1. g \in Connected /\ NickOf(g) \in NickWord /\ g \in Fd
        BY <2>1, <2>2 DEF MembersNamed
      <4> QED BY <4>1, FdAssumption
    <3>4. g \in GetClientByNickname(Lower[n])
      BY <3>1, <3>3 DEF GetClientByNickname, NickOf
    <3>5. ASSUME NEW f \in GetClientByNickname(Lower[n]) PROVE f = g
      <4>1. f \in Connected /\ Lower[NickOf(f)] = Lower[NickOf(g)]
        BY <3>1 DEF GetClientByNickname, NickOf
      <4> QED BY <2>1, <3>3, <4>1 DEF MembersNamed
    <3>6. Min(GetClientByNickname(Lower[n])) = g
      BY <3>3, <3>4, <3>5, MinOfOne
    <3>7. PrivmsgToUser(Lower[n]) = {g}
      BY <3>4, <3>6 DEF PrivmsgToUser
    <3> QED BY <2>6, <3>1, <3>2, <3>7
  <2> QED BY <2>6, <2>7
<1> QED BY <1>1, DeliveryInvariant, PTL

\* Also with the announcements, nobody is put out of a channel without
\* authority.
THEOREM AnnouncedLeavesHaveAuthority == DeliverySpec => LeaveAuthority
<1>1. DeliveryInv /\ [DeliveryNext]_allVars => [RemovedWithAuthority]_vars
  <2> SUFFICES ASSUME DeliveryInv, [DeliveryNext]_allVars PROVE [RemovedWithAuthority]_vars
    OBVIOUS
  <2>1. [Next]_vars
    BY DeliveryStepIsNext DEF DeliveryInv, allVars
  <2> QED BY <2>1, StepSimulated DEF DeliveryInv
<1> QED BY <1>1, DeliveryInvariant, PTL DEF DeliverySpec, LeaveAuthority
=============================================================================
