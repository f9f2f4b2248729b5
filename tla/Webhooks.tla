------------------------------ MODULE Webhooks ------------------------------
(***************************************************************************)
(* Outgoing webhooks: internal/domain/webhook (service.go, dispatcher.go)  *)
(* and its queries.  Dispatch writes one row per endpoint; every server    *)
(* process runs one dispatcher goroutine that, at each tick, selects a     *)
(* batch of pending rows, posts them one after another and marks each.     *)
(* The selection takes no row locks, posting and marking are two steps,    *)
(* and the errors of both marks are ignored.                               *)
(*                                                                         *)
(* Abstractions.  Endpoints are those of one organization (the queries     *)
(* filter on org_id).  The order of a batch (ORDER BY next_retry) is any   *)
(* order.  next_retry is "in the future" (waiting) or "past" (due), and    *)
(* the length of the backoff is not modelled.  Neither is the url of an    *)
(* endpoint, which may be any text and may be replaced at any time: each   *)
(* deliver may find one that it cannot post to.  TestEndpoint posts        *)
(* without touching a row and is left out.                                 *)
(***************************************************************************)
EXTENDS Naturals, FiniteSets

CONSTANTS Endpoint,     \* endpoints that can be registered
          Event,        \* names of events
          Delivery,     \* delivery rows (bound: an id is used once)
          Dispatcher,   \* server processes, each with its dispatcher
          MaxAttempts,  \* 5 in GetPendingDeliveries
          Limit,        \* 50 in ProcessPending
          Subscription, \* sets of names that endpoints are registered with
          NoEndpoint, NoDelivery,
          MaxFaults     \* bound on the failed statements and crashes of a run

ASSUME WebhooksAssumption ==
  /\ MaxAttempts \in Nat \ {0}
  /\ Limit \in Nat \ {0}
  /\ IsFiniteSet(Dispatcher) /\ IsFiniteSet(Delivery)
  /\ NoEndpoint \notin Endpoint
  /\ NoDelivery \notin Delivery
  /\ MaxFaults \in Nat

VARIABLES
  endpoints,   \* the rows of webhook_endpoints
  deliveries,  \* the rows of webhook_deliveries
  inserting,   \* endpoints a running Dispatch of an event has yet to write
  worker       \* what each dispatcher is doing

(***************************************************************************)
(* History variables.                                                      *)
(***************************************************************************)
VARIABLES
  posts,       \* how often each delivery was posted (client.Do)
  acks,        \* how often a 2xx answer reached the dispatcher, up to 2
  unsent,      \* deliveries for which a request could once not be sent
  overlapped,  \* deliveries two dispatchers had in their batch at once
  lost,        \* deliveries whose acknowledgement was never recorded
  faults       \* failed statements and crashes so far

vars == <<endpoints, deliveries, inserting, worker,
          posts, acks, unsent, overlapped, lost, faults>>

-----------------------------------------------------------------------------
(***************************************************************************)
(* pq.Array encodes a slice as an array literal: the one-element slice     *)
(* that holds e becomes a text that is not e (written <<e>> here).  An     *)
(* endpoint can subscribe to any text.                                     *)
(***************************************************************************)
PqArray(e) == <<e>>
Name       == Event \cup {PqArray(e) : e \in Event}

ASSUME SubscriptionAssumption == Subscription \subseteq SUBSET Name

EndpointRow == [st : {"none", "active", "inactive"}, events : SUBSET Name]

DeliveryRow == [st       : {"none", "due", "waiting", "delivered"},
                attempts : Nat,
                endpoint : Endpoint \cup {NoEndpoint}]

Worker == [at      : {"idle", "deliver", "ok", "failed"},
           batch   : SUBSET Delivery,
           current : Delivery \cup {NoDelivery}]

Idle == [at |-> "idle", batch |-> {}, current |-> NoDelivery]

Init ==
  /\ endpoints = [ep \in Endpoint |-> [st |-> "none", events |-> {}]]
  /\ deliveries = [d \in Delivery |->
                     [st |-> "none", attempts |-> 0, endpoint |-> NoEndpoint]]
  /\ inserting = [e \in Event |-> {}]
  /\ worker = [w \in Dispatcher |-> Idle]
  /\ posts = [d \in Delivery |-> 0]
  /\ acks = [d \in Delivery |-> 0]
  /\ unsent = {} /\ overlapped = {} /\ lost = {}
  /\ faults = 0

\* A statement fails, or a process dies.
Fault == faults < MaxFaults /\ faults' = faults + 1

-----------------------------------------------------------------------------
(***************************************************************************)
(* The service.                                                            *)
(***************************************************************************)
\* The default of active is true.
CreateWebhookEndpoint(ep, names) ==
  endpoints' = [endpoints EXCEPT ![ep] = [st |-> "active", events |-> names]]

\* The events and the active flag are replaced together.
UpdateWebhookEndpoint(ep, names, st) ==
  endpoints' = [endpoints EXCEPT ![ep] = [st |-> st, events |-> names]]

CreateEndpoint(ep, names) ==
  /\ endpoints[ep].st = "none"
  /\ CreateWebhookEndpoint(ep, names)
  /\ UNCHANGED <<deliveries, inserting, worker, posts, acks, unsent, overlapped, lost, faults>>

UpdateEndpoint(ep, names, st) ==
  /\ endpoints[ep].st # "none"
  /\ UpdateWebhookEndpoint(ep, names, st)
  /\ UNCHANGED <<deliveries, inserting, worker, posts, acks, unsent, overlapped, lost, faults>>

Subscribed(e) == {ep \in Endpoint : /\ endpoints[ep].st = "active"
                                    /\ e \in endpoints[ep].events}

\* WHERE active AND $2 = ANY(events), with $2 = pq.Array of the event.
GetActiveEndpointsForEvent(e) == Subscribed(PqArray(e))

\* Dispatch, up to the SELECT.  One Dispatch of an event runs at a time.
Dispatch(e) ==
  /\ inserting[e] = {}
  /\ inserting' = [inserting EXCEPT ![e] = GetActiveEndpointsForEvent(e)]
  /\ UNCHANGED <<endpoints, deliveries, worker, posts, acks, unsent, overlapped, lost, faults>>

\* The id of a new row; which one makes no difference.
FreshDelivery == LET unused == {d \in Delivery : deliveries[d].st = "none"}
                 IN  IF unused = {} THEN {} ELSE {CHOOSE d \in unused : TRUE}

\* A new row, with next_retry = now().
InsertDelivery(d, ep) ==
  /\ deliveries[d].st = "none"
  /\ deliveries' = [deliveries EXCEPT ![d] =
                      [st |-> "due", attempts |-> 0, endpoint |-> ep]]

\* One turn of its loop.  A failed INSERT is logged and passed over.
DispatchTo(e, ep) ==
  /\ ep \in inserting[e]
  /\ inserting' = [inserting EXCEPT ![e] = @ \ {ep}]
  /\ \/ (\E d \in FreshDelivery : InsertDelivery(d, ep)) /\ UNCHANGED faults
     \/ Fault /\ UNCHANGED deliveries
  /\ UNCHANGED <<endpoints, worker, posts, acks, unsent, overlapped, lost>>

-----------------------------------------------------------------------------
(***************************************************************************)
(* The dispatcher.                                                         *)
(***************************************************************************)
\* mutant: <= for < in the query
PendingOneMore == {d \in Delivery : /\ deliveries[d].st = "due"
                                    /\ deliveries[d].attempts <= MaxAttempts}

\* mutant: the query forgets NOT delivered
PendingOrDelivered == {d \in Delivery : /\ deliveries[d].st \in {"due", "delivered"}
                                        /\ deliveries[d].attempts < MaxAttempts}

\* mutant: the query forgets the rows to be retried
PendingUntried == {d \in Delivery : /\ deliveries[d].st = "due"
                                    /\ deliveries[d].attempts = 0}

\* NOT delivered AND attempts < 5 AND next_retry <= now(), of every endpoint,
\* active or not.
Pending == {d \in Delivery : /\ deliveries[d].st = "due"
                             /\ deliveries[d].attempts < MaxAttempts}

\* ORDER BY next_retry LIMIT 50.
GetPendingDeliveries ==
  {B \in SUBSET Pending :
     /\ Cardinality(B) <= Limit
     /\ B # Pending => Cardinality(B) = Limit}

Holds(w, d) == d \in worker[w].batch

\* ProcessPending, up to the SELECT (a tick that finds nothing is a stutter).
ProcessPending(w) ==
  /\ worker[w].at = "idle"
  /\ \E B \in GetPendingDeliveries \ {{}} :
       /\ worker' = [worker EXCEPT ![w] =
                       [at |-> "deliver", batch |-> B, current |-> NoDelivery]]
       /\ overlapped' = overlapped \cup {d \in B : \E v \in Dispatcher : Holds(v, d)}
  /\ UNCHANGED <<endpoints, deliveries, inserting, posts, acks, unsent, lost, faults>>

\* The post, and the answer or its absence (an error, a timeout, or a status
\* that is not 2xx).
Post(d, answer) ==
  /\ posts' = [posts EXCEPT ![d] = @ + 1]
  /\ acks' = [acks EXCEPT ![d] = IF answer = "ok" /\ @ < 2 THEN @ + 1 ELSE @]
  /\ UNCHANGED unsent

\* mutant: deliver returns nil when the request cannot be built
NoRequestIsSuccess(d, answer) ==
  /\ answer = "ok"
  /\ unsent' = unsent \cup {d}
  /\ UNCHANGED <<posts, acks>>

\* http.NewRequest or the client refuses the url, which need only be non-empty:
\* deliver returns the error, nothing is posted.
NoRequest(d, answer) ==
  /\ answer = "failed"
  /\ unsent' = unsent \cup {d}
  /\ UNCHANGED <<posts, acks>>

\* deliver, of the next row of the batch.
Deliver(w, d, answer) ==
  /\ worker[w].at = "deliver"
  /\ d \in worker[w].batch
  /\ Post(d, answer) \/ NoRequest(d, answer)
  /\ worker' = [worker EXCEPT ![w] =
                  [at |-> answer, batch |-> worker[w].batch, current |-> d]]
  /\ UNCHANGED <<endpoints, deliveries, inserting, overlapped, lost, faults>>

\* The loop goes on with the rest of the batch.
NextRow(w) ==
  LET rest == worker[w].batch \ {worker[w].current}
  IN  worker' = [worker EXCEPT ![w] =
                   IF rest = {} THEN Idle
                   ELSE [at |-> "deliver", batch |-> rest, current |-> NoDelivery]]

\* UPDATE ... SET attempts = attempts + 1 and the new state WHERE id = $1.
Attempted(d, st) ==
  deliveries' = [deliveries EXCEPT ![d] =
                   [st |-> st, attempts |-> deliveries[d].attempts + 1,
                    endpoint |-> deliveries[d].endpoint]]

MarkDelivered(w) ==
  LET d == worker[w].current
  IN  /\ worker[w].at = "ok"
      /\ NextRow(w)
      /\ \/ Attempted(d, "delivered") /\ UNCHANGED <<lost, faults>>
         \/ Fault /\ lost' = lost \cup {d} /\ UNCHANGED deliveries
      /\ UNCHANGED <<endpoints, inserting, posts, acks, unsent, overlapped>>

\* mutant: attempts is counted twice
MarkRetryTwice(w) ==
  LET d == worker[w].current
  IN  /\ worker[w].at = "failed"
      /\ NextRow(w)
      /\ deliveries' = [deliveries EXCEPT ![d] =
           [st |-> IF deliveries[d].st = "delivered" THEN "delivered" ELSE "waiting",
            attempts |-> deliveries[d].attempts + 2, endpoint |-> deliveries[d].endpoint]]
      /\ UNCHANGED <<endpoints, inserting, posts, acks, unsent, overlapped, lost, faults>>

\* mutant: the UPDATE sets delivered
MarkRetryAsDelivered(w) ==
  /\ worker[w].at = "failed"
  /\ NextRow(w)
  /\ Attempted(worker[w].current, "delivered")
  /\ UNCHANGED <<endpoints, inserting, posts, acks, unsent, overlapped, lost, faults>>

\* MarkRetry does not write delivered: a row another dispatcher has marked
\* delivered stays so.
MarkRetry(w) ==
  LET d == worker[w].current
  IN  /\ worker[w].at = "failed"
      /\ NextRow(w)
      /\ \/ /\ Attempted(d, IF deliveries[d].st = "delivered"
                              THEN "delivered" ELSE "waiting")
            /\ UNCHANGED faults
         \/ Fault /\ UNCHANGED deliveries
      /\ UNCHANGED <<endpoints, inserting, posts, acks, unsent, overlapped, lost>>

\* Time passes next_retry.
RetryDue(d) ==
  /\ deliveries[d].st = "waiting"
  /\ deliveries' = [deliveries EXCEPT ![d] =
                      [st |-> "due", attempts |-> deliveries[d].attempts,
                       endpoint |-> deliveries[d].endpoint]]
  /\ UNCHANGED <<endpoints, inserting, worker, posts, acks, unsent, overlapped, lost, faults>>

-----------------------------------------------------------------------------
\* A process dies, or exits at shutdown while its dispatcher is in a batch
\* (gracefulShutdown stops the ticker and does not wait for the goroutine).
Crash(w) ==
  /\ Fault
  /\ worker[w].at # "idle"
  /\ worker' = [worker EXCEPT ![w] = Idle]
  /\ lost' = IF worker[w].at = "ok" THEN lost \cup {worker[w].current} ELSE lost
  /\ UNCHANGED <<endpoints, deliveries, inserting, posts, acks, unsent, overlapped>>

\* A process dies in the loop of a Dispatch: the remaining rows are not written.
DispatchCrash(e) ==
  /\ Fault
  /\ inserting[e] # {}
  /\ inserting' = [inserting EXCEPT ![e] = {}]
  /\ UNCHANGED <<endpoints, deliveries, worker, posts, acks, unsent, overlapped, lost>>

-----------------------------------------------------------------------------
Next ==
  \/ \E ep \in Endpoint, names \in Subscription : CreateEndpoint(ep, names)
  \/ \E ep \in Endpoint, names \in Subscription, st \in {"active", "inactive"} :
       UpdateEndpoint(ep, names, st)
  \/ \E e \in Event : Dispatch(e) \/ DispatchCrash(e)
  \/ \E e \in Event, ep \in Endpoint : DispatchTo(e, ep)
  \/ \E w \in Dispatcher :
       ProcessPending(w) \/ MarkDelivered(w) \/ MarkRetry(w) \/ Crash(w)
  \/ \E w \in Dispatcher, d \in Delivery, answer \in {"ok", "failed"} :
       Deliver(w, d, answer)
  \/ \E d \in Delivery : RetryDue(d)

Spec == Init /\ [][Next]_vars

\* The ticker fires every 30 seconds, the loop of ProcessPending does not stop
\* (the client times out after 10 seconds), and next_retry comes.
Fairness ==
  /\ \A w \in Dispatcher :
       /\ WF_vars(ProcessPending(w))
       /\ WF_vars(\E d \in Delivery, answer \in {"ok", "failed"} : Deliver(w, d, answer))
       /\ WF_vars(MarkDelivered(w))
       /\ WF_vars(MarkRetry(w))
  /\ \A d \in Delivery : WF_vars(RetryDue(d))
FairSpec == Spec /\ Fairness

-----------------------------------------------------------------------------
\* The variables have their types; a dispatcher that marks a row has it in its
\* batch, and marks it delivered only if its endpoint answered; rows in a batch
\* or posted exist.
TypeOK ==
  /\ endpoints \in [Endpoint -> EndpointRow]
  /\ deliveries \in [Delivery -> DeliveryRow]
  /\ inserting \in [Event -> SUBSET Endpoint]
  /\ worker \in [Dispatcher -> Worker]
  /\ posts \in [Delivery -> Nat]
  /\ acks \in [Delivery -> 0 .. 2]
  /\ unsent \subseteq Delivery
  /\ overlapped \subseteq Delivery
  /\ lost \subseteq Delivery
  /\ faults \in 0 .. MaxFaults
  /\ \A w \in Dispatcher :
       /\ worker[w].at = "idle" => worker[w].batch = {}
       /\ worker[w].at \in {"ok", "failed"} => worker[w].current \in worker[w].batch
       /\ worker[w].at = "ok" => acks[worker[w].current] >= 1
  /\ \A d \in Delivery :
       deliveries[d].st = "none" =>
         /\ deliveries[d].attempts = 0
         /\ posts[d] = 0 /\ acks[d] = 0
         /\ \A w \in Dispatcher : ~ Holds(w, d)

\* attempts < 5 is checked by the SELECT and counted by the UPDATE, which may
\* fail: a delivery is posted at most MaxAttempts times, and once more for each
\* other dispatcher that selected it at the limit and for each fault.
PostsBounded ==
  \A d \in Delivery :
    posts[d] <= MaxAttempts + (Cardinality(Dispatcher) - 1) + faults

\* An endpoint acknowledges a delivery twice only if two dispatchers had it in
\* their batch at once or the first acknowledgement was not recorded.
DuplicateNeedsOverlap ==
  \A d \in Delivery : acks[d] >= 2 => d \in overlapped \cup lost

\* A delivery that is given up on was posted MaxAttempts times, whatever marks
\* failed and processes died on the way, unless a dispatcher read its endpoint
\* with a url that no request can be sent to: such an attempt is counted and
\* nothing is posted.
GivenUpWasPosted ==
  \A d \in Delivery :
    deliveries[d].st # "delivered" /\ deliveries[d].attempts >= MaxAttempts
      => posts[d] >= MaxAttempts \/ d \in unsent

\* A row is marked delivered only after its endpoint acknowledged it, and an
\* acknowledgement is recorded, about to be, or lost.
DeliveredIffAcked ==
  \A d \in Delivery :
    /\ deliveries[d].st = "delivered" => acks[d] >= 1
    /\ acks[d] >= 1 => \/ deliveries[d].st = "delivered"
                       \/ d \in lost
                       \/ \E w \in Dispatcher : worker[w].at = "ok" /\ worker[w].current = d

Settled(d) == deliveries[d].st = "delivered" \/ deliveries[d].attempts >= MaxAttempts

\* Every delivery that was written is in the end delivered or given up on,
\* whatever statements fail and processes die on the way.
EventuallySettled ==
  \A d \in Delivery : deliveries[d].st # "none" ~> Settled(d)

=============================================================================
