----------------------------- MODULE MCWebhooks -----------------------------
(* Small instances of Webhooks for TLC. *)
EXTENDS Webhooks

CONSTANTS ep1, e1, d1, d2, w1, w2

OneEndpoint    == {ep1}
OneEvent       == {e1}
TwoDeliveries  == {d1, d2}
TwoDispatchers == {w1, w2}

\* Endpoints that the query selects.
Selected == {{PqArray(e1)}}
=============================================================================
