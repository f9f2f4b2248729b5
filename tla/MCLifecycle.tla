---------------------------- MODULE MCLifecycle ----------------------------
(* Small instances of Lifecycle for TLC. *)
EXTENDS Lifecycle

CONSTANTS s1, s2

TwoServers == {s1, s2}
OneServer  == {s1}
NeedOrgs   == 8 .. 10
AllFaults  == {"db", "otlp", "listen", "crash"}
NoFaults   == {}
=============================================================================
