----------------------------- MODULE MCStorage -----------------------------
(* Small instance of Storage for TLC. *)
EXTENDS Storage, TLC

CONSTANTS f1, f2, o1, n1, b1, r1, r2

TwoFiles    == {f1, f2}
OneOrg      == {o1}
OneName     == {n1}
OneBucket   == {b1}
TwoRequests == {r1, r2}
Limits      == {0, 1}
AllFaults   == {"db", "s3", "crash"}

Symmetry == Permutations(File) \cup Permutations(Request)
=============================================================================
