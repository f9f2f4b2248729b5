----------------------------- MODULE MCSessions -----------------------------
(* Small instances of Sessions for TLC. *)
EXTENDS Sessions

CONSTANTS u1, t1, t2, x1, r1, r2

OneUser     == {u1}
TwoTokens   == {t1, t2}
OneReset    == {x1}
TwoRequests == {r1, r2}
AllFaults   == {"db", "crash"}
=============================================================================
