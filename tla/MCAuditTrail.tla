---------------------------- MODULE MCAuditTrail ----------------------------
(* Small instance of AuditPages, and so of AuditTrail, for TLC. *)
EXTENDS AuditPages

CONSTANTS p1, c1, c2, r1, r2

OneProject  == {p1}
TwoContents == {c1, c2}
TwoRequests == {r1, r2}
Sizes       == {0, 3}
AllFaults   == {"db", "crash"}
=============================================================================
