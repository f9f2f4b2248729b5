----------------------------- MODULE MCTenancy -----------------------------
(* Small instances of Tenancy for TLC. *)
EXTENDS Tenancy, TLC

CONSTANTS u1, u2, o1, o2, k1, r1, r2

TwoUsers    == {u1, u2}
TwoOrgs     == {o1, o2}
OneKey      == {k1}
TwoRequests == {r1, r2}
Guest       == {"guest"}
NoFaults    == {}
Crashes     == {"crash"}

\* Users, organizations, keys and requests are only compared for equality.
Symmetry == Permutations(User) \cup Permutations(Org) \cup Permutations(Request)
=============================================================================
