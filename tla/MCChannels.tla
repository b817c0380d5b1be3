----------------------------- MODULE MCChannels -----------------------------
(***************************************************************************)
(* Small instances of Channels for TLC.  Nicknames are strings where case  *)
(* matters and model values, which can be permuted, where it does not.     *)
(***************************************************************************)
EXTENDS Channels, TLC

\* toLowerString on a set of words in which only these have upper case.
LowerOf(words, pairs) ==
    [w \in words |-> IF \E p \in pairs : p[1] = w
                     THEN (CHOOSE p \in pairs : p[1] = w)[2] ELSE w]

MCLower == LowerOf(NickWord \cup {""}, {<<"AMY", "amy">>})

MCLowerChan == LowerOf(Chan, {<<"#X", "#x">>})

\* Cells are interchangeable: the code compares addresses only for equality.
AddrSymmetry == Permutations(Addr)

\* So are nicknames when each is its own lower case.
NameSymmetry == Permutations(Addr) \cup Permutations(NickWord)
=============================================================================
