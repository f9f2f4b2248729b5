----------------------------- MODULE MCBilling ------------------------------
(* Small instances of Billing for TLC. *)
EXTENDS Billing, TLC

CONSTANTS s1, s2, r1, r2

TwoSubs     == {s1, s2}
TwoRequests == {r1, r2}
AllFaults   == {"db", "reorder", "duplicate"}

\* Subscriptions and requests are only compared for equality.
Symmetry == Permutations(Sub) \cup Permutations(Request)
=============================================================================
