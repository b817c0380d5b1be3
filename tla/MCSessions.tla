----------------------------- MODULE MCSessions -----------------------------
(***************************************************************************)
(* A small instance of Sessions for TLC: nicknames that collide only after *)
(* case folding, one right and one wrong password, and more heap cells     *)
(* than descriptors so that a freed cell may or may not be reused.         *)
(***************************************************************************)
EXTENDS Sessions, TLC

MCNickWord == {"amy", "AMY", "bob"}

MCLower == [n \in MCNickWord \cup {""} |-> IF n = "AMY" THEN "amy" ELSE n]

\* Cells are interchangeable: the code compares addresses only for equality.
AddrSymmetry == Permutations(Addr)

=============================================================================
