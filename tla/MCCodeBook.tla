----------------------------- MODULE MCCodeBook -----------------------------
(***************************************************************************)
(* CodeBook for TLC: two codes, two requests beside the sync loop, uses up *)
(* to two.  The first boot has no seed or seeds one code; a later boot may *)
(* come with either.                                                       *)
(***************************************************************************)
EXTENDS CodeBook, TLC

CONSTANTS k1, k2, r1, r2

NoSeed  == [c \in Codes |-> Absent]
MCSeeds == {NoSeed} \cup {[NoSeed EXCEPT ![c] = 1] : c \in Codes}

Symmetry == Permutations({r1, r2}) \cup Permutations({k1, k2})

\* Stale write-backs can pass two codes' uses to and fro for long; a few grants
\* on each code, one of them unpaid, show all they can do.
FewGrants == \A c \in Codes : granted[c] <= 2 /\ unpaid[c] <= 1
=============================================================================
