--------------------------- MODULE WebhooksProofs ---------------------------
(***************************************************************************)
(* Proofs about Webhooks, for every number of endpoints, deliveries and    *)
(* dispatchers, every limit and every number of faults: how often a        *)
(* delivery is posted, what its attempts count, when an endpoint gets it   *)
(* twice, and what delivered means.                                        *)
(***************************************************************************)
EXTENDS Webhooks, FiniteSetTheorems, TLAPS

-----------------------------------------------------------------------------
(***************************************************************************)
(* Types.  TypeOK is inductive as it stands; its parts are named here.     *)
(***************************************************************************)
TablesOK ==
  /\ endpoints \in [Endpoint -> EndpointRow]
  /\ deliveries \in [Delivery -> DeliveryRow]
  /\ inserting \in [Event -> SUBSET Endpoint]

HistoryOK ==
  /\ posts \in [Delivery -> Nat]
  /\ acks \in [Delivery -> 0 .. 2]
  /\ unsent \subseteq Delivery
  /\ overlapped \subseteq Delivery
  /\ lost \subseteq Delivery
  /\ faults \in 0 .. MaxFaults

WorkerOK(w) ==
  /\ worker[w].at = "idle" => worker[w].batch = {}
  /\ worker[w].at \in {"ok", "failed"} => worker[w].current \in worker[w].batch

WorkersOK == worker \in [Dispatcher -> Worker] /\ \A w \in Dispatcher : WorkerOK(w)

AckedOK == \A w \in Dispatcher : worker[w].at = "ok" => acks[worker[w].current] >= 1

UnwrittenOK(d) ==
  deliveries[d].st = "none" =>
    /\ deliveries[d].attempts = 0
    /\ posts[d] = 0 /\ acks[d] = 0
    /\ \A w \in Dispatcher : ~ Holds(w, d)

LEMMA TypeParts ==
  TypeOK <=> /\ TablesOK /\ HistoryOK /\ WorkersOK /\ AckedOK
             /\ \A d \in Delivery : UnwrittenOK(d)
  BY DEF TypeOK, TablesOK, HistoryOK, WorkersOK, WorkerOK, AckedOK, UnwrittenOK

\* A dispatcher takes a new state; the others keep theirs.
LEMMA WorkerEffect ==
  ASSUME WorkersOK, NEW w \in Dispatcher, NEW r \in Worker,
         worker' = [worker EXCEPT ![w] = r],
         r.at = "idle" => r.batch = {},
         r.at \in {"ok", "failed"} => r.current \in r.batch
  PROVE  /\ WorkersOK'
         /\ worker'[w] = r
         /\ \A v \in Dispatcher \ {w} : worker'[v] = worker[v]
<1>1. /\ worker' \in [Dispatcher -> Worker]
      /\ worker'[w] = r
      /\ \A v \in Dispatcher \ {w} : worker'[v] = worker[v]
  BY DEF WorkersOK
<1> QED
  BY <1>1 DEF WorkersOK, WorkerOK

LEMMA IdleIsWorker == Idle \in Worker
  BY DEF Idle, Worker

\* The SELECT gives rows that are pending.
LEMMA SelectEffect ==
  ASSUME WorkersOK, NEW w \in Dispatcher, ProcessPending(w)
  PROVE  \E B \in SUBSET Pending :
           /\ WorkersOK'
           /\ worker[w].at = "idle" /\ worker[w].batch = {}
           /\ worker'[w].at = "deliver" /\ worker'[w].batch = B
           /\ \A v \in Dispatcher \ {w} : worker'[v] = worker[v]
           /\ overlapped' = overlapped \cup {d \in B : \E v \in Dispatcher : Holds(v, d)}
<1>1. PICK B \in GetPendingDeliveries \ {{}} :
        /\ worker' = [worker EXCEPT ![w] =
                        [at |-> "deliver", batch |-> B, current |-> NoDelivery]]
        /\ overlapped' = overlapped \cup {d \in B : \E v \in Dispatcher : Holds(v, d)}
  BY DEF ProcessPending
<1>2. B \in SUBSET Pending /\ B \in SUBSET Delivery
  BY DEF GetPendingDeliveries, Pending
<1> DEFINE r == [at |-> "deliver", batch |-> B, current |-> NoDelivery]
<1>3. r \in Worker /\ r.at = "deliver" /\ r.batch = B
  BY <1>2 DEF Worker
<1>4. worker[w].at = "idle" /\ worker[w].batch = {}
  BY DEF ProcessPending, WorkersOK, WorkerOK
<1>5. worker' = [worker EXCEPT ![w] = r]
  BY <1>1
<1> HIDE DEF r
<1>6. WorkersOK' /\ worker'[w] = r /\ \A v \in Dispatcher \ {w} : worker'[v] = worker[v]
  BY <1>3, <1>5, WorkerEffect
<1> QED
  BY <1>1, <1>2, <1>3, <1>4, <1>6

\* The post changes what its dispatcher is at, and not its batch.
LEMMA DeliverEffect ==
  ASSUME WorkersOK, NEW w \in Dispatcher, NEW d \in Delivery,
         NEW answer \in {"ok", "failed"}, Deliver(w, d, answer)
  PROVE  /\ WorkersOK'
         /\ worker[w].at = "deliver" /\ d \in worker[w].batch
         /\ worker'[w].at = answer /\ worker'[w].batch = worker[w].batch
         /\ worker'[w].current = d
         /\ \A v \in Dispatcher \ {w} : worker'[v] = worker[v]
<1> DEFINE r == [at |-> answer, batch |-> worker[w].batch, current |-> d]
<1>1. r \in Worker /\ r.at = answer /\ r.batch = worker[w].batch /\ r.current = d
  BY DEF WorkersOK, Worker
<1>2. d \in worker[w].batch /\ worker[w].at = "deliver"
  BY DEF Deliver
<1>3. worker' = [worker EXCEPT ![w] = r]
  BY DEF Deliver
<1> HIDE DEF r
<1>4. WorkersOK' /\ worker'[w] = r /\ \A v \in Dispatcher \ {w} : worker'[v] = worker[v]
  BY <1>1, <1>2, <1>3, WorkerEffect
<1> QED
  BY <1>1, <1>2, <1>4

\* A dispatcher that has marked a row goes on without it.
LEMMA NextRowEffect ==
  ASSUME WorkersOK, NEW w \in Dispatcher, NextRow(w)
  PROVE  /\ WorkersOK'
         /\ worker'[w].at \in {"idle", "deliver"}
         /\ worker'[w].batch = worker[w].batch \ {worker[w].current}
         /\ \A v \in Dispatcher \ {w} : worker'[v] = worker[v]
<1> DEFINE rest == worker[w].batch \ {worker[w].current}
           r    == IF rest = {} THEN Idle
                   ELSE [at |-> "deliver", batch |-> rest, current |-> NoDelivery]
<1>1. rest \in SUBSET Delivery
  BY DEF WorkersOK, Worker
<1>2. r \in Worker
  BY <1>1, IdleIsWorker DEF Worker
<1>3. r.batch = rest /\ r.at \in {"idle", "deliver"} /\ (r.at = "idle" => r.batch = {})
  BY DEF Idle
<1>4. worker' = [worker EXCEPT ![w] = r]
  BY DEF NextRow
<1> HIDE DEF r
<1> QED
  BY <1>2, <1>3, <1>4, WorkerEffect

\* A dispatcher that dies, or has done its batch, is idle.
LEMMA IdleEffect ==
  ASSUME WorkersOK, NEW w \in Dispatcher, worker' = [worker EXCEPT ![w] = Idle]
  PROVE  /\ WorkersOK'
         /\ worker'[w].at = "idle" /\ worker'[w].batch = {}
         /\ \A v \in Dispatcher \ {w} : worker'[v] = worker[v]
<1>1. Idle.at = "idle" /\ Idle.batch = {}
  BY DEF Idle
<1> QED
  BY <1>1, IdleIsWorker, WorkerEffect

\* A row is rewritten; the others stay.
LEMMA RowEffect ==
  ASSUME deliveries \in [Delivery -> DeliveryRow], NEW d \in Delivery, NEW r \in DeliveryRow,
         deliveries' = [deliveries EXCEPT ![d] = r]
  PROVE  /\ deliveries' \in [Delivery -> DeliveryRow]
         /\ deliveries'[d] = r
         /\ \A c \in Delivery \ {d} : deliveries'[c] = deliveries[c]
  OBVIOUS

LEMMA AttemptedEffect ==
  ASSUME deliveries \in [Delivery -> DeliveryRow], NEW d \in Delivery,
         NEW st \in {"waiting", "delivered"}, Attempted(d, st)
  PROVE  /\ deliveries' \in [Delivery -> DeliveryRow]
         /\ deliveries'[d].st = st
         /\ deliveries'[d].attempts = deliveries[d].attempts + 1
         /\ \A c \in Delivery \ {d} : deliveries'[c] = deliveries[c]
<1> DEFINE r == [st |-> st, attempts |-> deliveries[d].attempts + 1,
                 endpoint |-> deliveries[d].endpoint]
<1>1. r \in DeliveryRow /\ r.st = st /\ r.attempts = deliveries[d].attempts + 1
  BY DEF DeliveryRow
<1>2. deliveries' = [deliveries EXCEPT ![d] = r]
  BY DEF Attempted
<1> HIDE DEF r
<1> QED
  BY <1>1, <1>2, RowEffect

\* The id of a new row is one of Delivery.
LEMMA FreshIsDelivery == FreshDelivery \subseteq Delivery
  BY DEF FreshDelivery

LEMMA InsertEffect ==
  ASSUME deliveries \in [Delivery -> DeliveryRow], NEW d \in Delivery, NEW ep \in Endpoint,
         InsertDelivery(d, ep)
  PROVE  /\ deliveries' \in [Delivery -> DeliveryRow]
         /\ deliveries[d].st = "none"
         /\ deliveries'[d].st = "due" /\ deliveries'[d].attempts = 0
         /\ \A c \in Delivery \ {d} : deliveries'[c] = deliveries[c]
<1> DEFINE r == [st |-> "due", attempts |-> 0, endpoint |-> ep]
<1>1. r \in DeliveryRow /\ r.st = "due" /\ r.attempts = 0
  BY DEF DeliveryRow
<1>2. deliveries[d].st = "none" /\ deliveries' = [deliveries EXCEPT ![d] = r]
  BY DEF InsertDelivery
<1> HIDE DEF r
<1> QED
  BY <1>1, <1>2, RowEffect

LEMMA RetryDueEffect ==
  ASSUME deliveries \in [Delivery -> DeliveryRow], NEW d \in Delivery, RetryDue(d)
  PROVE  /\ deliveries' \in [Delivery -> DeliveryRow]
         /\ deliveries[d].st = "waiting" /\ deliveries'[d].st = "due"
         /\ deliveries'[d].attempts = deliveries[d].attempts
         /\ \A c \in Delivery \ {d} : deliveries'[c] = deliveries[c]
<1> DEFINE r == [st |-> "due", attempts |-> deliveries[d].attempts,
                 endpoint |-> deliveries[d].endpoint]
<1>1. r \in DeliveryRow /\ r.st = "due" /\ r.attempts = deliveries[d].attempts
  BY DEF DeliveryRow
<1>2. deliveries[d].st = "waiting" /\ deliveries' = [deliveries EXCEPT ![d] = r]
  BY DEF RetryDue
<1> HIDE DEF r
<1> QED
  BY <1>1, <1>2, RowEffect

\* A dispatcher marks the row it has posted: the UPDATE succeeds and counts an
\* attempt, or it fails and the acknowledgement, if there was one, is lost.
LEMMA MarkEffect ==
  ASSUME TypeOK, NEW w \in Dispatcher, MarkDelivered(w) \/ MarkRetry(w)
  PROVE  LET d == worker[w].current IN
         /\ d \in Delivery /\ Holds(w, d)
         /\ worker[w].at \in {"ok", "failed"} /\ NextRow(w)
         /\ \/ /\ deliveries' \in [Delivery -> DeliveryRow]
               /\ deliveries'[d].attempts = deliveries[d].attempts + 1
               /\ deliveries'[d].st \in {"waiting", "delivered"}
               /\ worker[w].at = "ok" => deliveries'[d].st = "delivered"
               /\ worker[w].at = "failed" =>
                    (deliveries'[d].st = "delivered" <=> deliveries[d].st = "delivered")
               /\ \A c \in Delivery \ {d} : deliveries'[c] = deliveries[c]
               /\ UNCHANGED <<lost, faults>>
            \/ /\ Fault /\ UNCHANGED deliveries
               /\ lost' = IF worker[w].at = "ok" THEN lost \cup {d} ELSE lost
         /\ UNCHANGED <<endpoints, inserting, posts, acks, unsent, overlapped>>
<1> DEFINE d == worker[w].current
<1>1. worker[w].at \in {"ok", "failed"} /\ NextRow(w)
      /\ UNCHANGED <<endpoints, inserting, posts, acks, unsent, overlapped>>
  BY DEF MarkDelivered, MarkRetry
<1>2. d \in Delivery /\ Holds(w, d)
  BY <1>1 DEF TypeOK, Worker, Holds
<1>3. deliveries \in [Delivery -> DeliveryRow]
  BY DEF TypeOK
<1> HIDE DEF d
<1>4. CASE MarkDelivered(w)
  <2>1. worker[w].at = "ok"
    BY <1>4 DEF MarkDelivered
  <2>2. CASE Attempted(d, "delivered") /\ UNCHANGED <<lost, faults>>
    BY <1>1, <1>2, <1>3, <2>1, <2>2, AttemptedEffect DEF d
  <2>3. CASE Fault /\ lost' = lost \cup {d} /\ UNCHANGED deliveries
    BY <1>1, <1>2, <2>1, <2>3 DEF d
  <2> QED
    BY <1>4, <2>2, <2>3 DEF MarkDelivered, d
<1>5. CASE MarkRetry(w)
  <2>1. worker[w].at = "failed" /\ UNCHANGED lost
    BY <1>5 DEF MarkRetry
  <2>2. CASE /\ Attempted(d, IF deliveries[d].st = "delivered" THEN "delivered" ELSE "waiting")
             /\ UNCHANGED faults
    BY <1>1, <1>2, <1>3, <2>1, <2>2, AttemptedEffect DEF d
  <2>3. CASE Fault /\ UNCHANGED deliveries
    BY <1>1, <1>2, <2>1, <2>3 DEF d
  <2> QED
    BY <1>5, <2>2, <2>3 DEF MarkRetry, d
<1> QED
  BY <1>4, <1>5

LEMMA TypeInit == Init => TypeOK
<1> SUFFICES ASSUME Init PROVE TypeOK
  OBVIOUS
<1> USE WebhooksAssumption DEF Init
<1>1. endpoints \in [Endpoint -> EndpointRow]
  BY DEF EndpointRow
<1>2. deliveries \in [Delivery -> DeliveryRow]
  BY DEF DeliveryRow
<1>3. inserting \in [Event -> SUBSET Endpoint]
  OBVIOUS
<1>4. worker \in [Dispatcher -> Worker] /\ \A w \in Dispatcher : worker[w] = Idle
  BY IdleIsWorker
<1>5. HistoryOK
  BY DEF HistoryOK
<1>6. WorkersOK /\ AckedOK /\ \A d \in Delivery : UnwrittenOK(d)
  BY <1>4 DEF WorkersOK, WorkerOK, AckedOK, Idle, UnwrittenOK, Holds
<1> QED
  BY <1>1, <1>2, <1>3, <1>5, <1>6, TypeParts DEF TablesOK

\* A dispatcher is about to mark a row delivered only when it was answered.
LEMMA AckedStep == TypeOK /\ [Next]_vars => AckedOK'
<1> SUFFICES ASSUME TypeOK, [Next]_vars PROVE AckedOK'
  OBVIOUS
<1>0. WorkersOK /\ AckedOK /\ acks \in [Delivery -> 0 .. 2]
  BY TypeParts DEF HistoryOK
<1>1. CASE UNCHANGED <<worker, acks>>
  BY <1>0, <1>1 DEF AckedOK
<1>2. ASSUME NEW w \in Dispatcher, UNCHANGED acks, worker'[w].at # "ok",
             \A v \in Dispatcher \ {w} : worker'[v] = worker[v]
      PROVE  AckedOK'
  BY <1>0, <1>2 DEF AckedOK
<1>3. ASSUME NEW w \in Dispatcher, ProcessPending(w) PROVE AckedOK'
  BY <1>0, <1>2, <1>3, SelectEffect DEF ProcessPending
<1>4. ASSUME NEW w \in Dispatcher, NEW d \in Delivery, NEW answer \in {"ok", "failed"},
             Deliver(w, d, answer)
      PROVE  AckedOK'
  <2>1. /\ worker'[w].at = answer /\ worker'[w].current = d
        /\ \A v \in Dispatcher \ {w} : worker'[v] = worker[v]
    BY <1>0, <1>4, DeliverEffect
  <2>2. CASE NoRequest(d, answer)
    BY <1>2, <2>1, <2>2 DEF NoRequest
  <2>3. CASE Post(d, answer)
    <3>1. /\ \A c \in Delivery : acks'[c] >= acks[c]
          /\ answer = "ok" => acks'[d] >= 1
      BY <1>0, <2>3 DEF Post
    <3>2. \A v \in Dispatcher : worker[v].at = "ok" =>
            /\ worker[v].current \in Delivery
            /\ acks[worker[v].current] >= 1
      BY <1>0 DEF WorkersOK, WorkerOK, Worker, AckedOK
    <3>3. \A c \in Delivery : acks[c] \in Nat /\ acks'[c] \in Nat
      BY <1>0, <2>3 DEF Post
    <3>4. ASSUME NEW v \in Dispatcher, worker'[v].at = "ok"
          PROVE  acks'[worker'[v].current] >= 1
      BY <2>1, <3>1, <3>2, <3>3, <3>4
    <3> QED
      BY <3>4 DEF AckedOK
  <2> QED
    BY <1>4, <2>2, <2>3 DEF Deliver
<1>5. ASSUME NEW w \in Dispatcher, MarkDelivered(w) \/ MarkRetry(w) PROVE AckedOK'
  <2>1. NextRow(w) /\ UNCHANGED acks
    BY <1>5 DEF MarkDelivered, MarkRetry
  <2> QED
    BY <1>0, <1>2, <2>1, NextRowEffect
<1>6. ASSUME NEW w \in Dispatcher, Crash(w) PROVE AckedOK'
  BY <1>0, <1>2, <1>6, IdleEffect DEF Crash
<1> QED
  BY <1>1, <1>3, <1>4, <1>5, <1>6
  DEF Next, vars, CreateEndpoint, UpdateEndpoint, Dispatch, DispatchCrash, DispatchTo, RetryDue

LEMMA TypeStep == TypeOK /\ [Next]_vars => TypeOK'
<1> SUFFICES ASSUME TypeOK, [Next]_vars PROVE TypeOK'
  OBVIOUS
<1>0. TablesOK /\ HistoryOK /\ WorkersOK /\ \A d \in Delivery : UnwrittenOK(d)
  BY TypeParts
<1> SUFFICES /\ TablesOK' /\ HistoryOK' /\ WorkersOK'
             /\ \A d \in Delivery : UnwrittenOK(d)'
  BY AckedStep DEF TypeOK, TablesOK, HistoryOK, WorkersOK, WorkerOK, AckedOK, UnwrittenOK
<1>1. ASSUME NEW ep \in Endpoint, NEW names \in Subscription, NEW st \in {"active", "inactive"},
             CreateEndpoint(ep, names) \/ UpdateEndpoint(ep, names, st)
      PROVE  TablesOK' /\ HistoryOK' /\ WorkersOK' /\ \A d \in Delivery : UnwrittenOK(d)'
  <2>1. endpoints' \in [Endpoint -> EndpointRow]
    <3>1. names \in SUBSET Name
      BY SubscriptionAssumption
    <3> QED
      BY <1>0, <1>1, <3>1 DEF CreateEndpoint, UpdateEndpoint, CreateWebhookEndpoint,
                             UpdateWebhookEndpoint, TablesOK, EndpointRow
  <2>2. UNCHANGED <<deliveries, inserting, worker, posts, acks, unsent, overlapped, lost, faults>>
    BY <1>1 DEF CreateEndpoint, UpdateEndpoint
  <2> QED
    BY <1>0, <2>1, <2>2 DEF TablesOK, HistoryOK, WorkersOK, WorkerOK, UnwrittenOK, Holds
<1>2. ASSUME NEW e \in Event, Dispatch(e) \/ DispatchCrash(e)
      PROVE  TablesOK' /\ HistoryOK' /\ WorkersOK' /\ \A d \in Delivery : UnwrittenOK(d)'
  <2>1. inserting' \in [Event -> SUBSET Endpoint]
    BY <1>0, <1>2 DEF Dispatch, DispatchCrash, GetActiveEndpointsForEvent, Subscribed, TablesOK
  <2>2. UNCHANGED <<endpoints, deliveries, worker, posts, acks, unsent, overlapped, lost>>
    BY <1>2 DEF Dispatch, DispatchCrash
  <2>3. faults' \in 0 .. MaxFaults
    BY <1>0, <1>2, WebhooksAssumption DEF Dispatch, DispatchCrash, Fault, HistoryOK
  <2> QED
    BY <1>0, <2>1, <2>2, <2>3 DEF TablesOK, HistoryOK, WorkersOK, WorkerOK, UnwrittenOK, Holds
<1>3. ASSUME NEW e \in Event, NEW ep \in Endpoint, DispatchTo(e, ep)
      PROVE  TablesOK' /\ HistoryOK' /\ WorkersOK' /\ \A d \in Delivery : UnwrittenOK(d)'
  <2>1. inserting' \in [Event -> SUBSET Endpoint]
    BY <1>0, <1>3 DEF DispatchTo, TablesOK
  <2>2. UNCHANGED <<endpoints, worker, posts, acks, unsent, overlapped, lost>>
    BY <1>3 DEF DispatchTo
  <2>3. faults' \in 0 .. MaxFaults
    BY <1>0, <1>3, WebhooksAssumption DEF DispatchTo, Fault, HistoryOK
  <2>4. /\ deliveries' \in [Delivery -> DeliveryRow]
        /\ \A d \in Delivery : deliveries'[d].st = "none" => deliveries'[d] = deliveries[d]
    <3>1. CASE UNCHANGED deliveries
      BY <1>0, <3>1 DEF TablesOK
    <3>2. ASSUME NEW d \in Delivery, InsertDelivery(d, ep)
          PROVE  /\ deliveries' \in [Delivery -> DeliveryRow]
                 /\ \A c \in Delivery : deliveries'[c].st = "none" => deliveries'[c] = deliveries[c]
      <4>1. \A c \in Delivery : deliveries'[c] = deliveries[c] \/ (c = d /\ deliveries'[c].st = "due")
        BY <1>0, <3>2, InsertEffect DEF TablesOK
      <4> QED
        BY <1>0, <3>2, <4>1, InsertEffect DEF TablesOK
    <3> QED
      BY <1>3, <3>1, <3>2, FreshIsDelivery DEF DispatchTo
  <2> QED
    BY <1>0, <2>1, <2>2, <2>3, <2>4 DEF TablesOK, HistoryOK, WorkersOK, WorkerOK, UnwrittenOK, Holds
<1>4. ASSUME NEW w \in Dispatcher, ProcessPending(w)
      PROVE  TablesOK' /\ HistoryOK' /\ WorkersOK' /\ \A d \in Delivery : UnwrittenOK(d)'
  <2>1. PICK B \in SUBSET Pending :
          /\ WorkersOK'
          /\ worker'[w].batch = B
          /\ \A v \in Dispatcher \ {w} : worker'[v] = worker[v]
          /\ overlapped' = overlapped \cup {d \in B : \E v \in Dispatcher : Holds(v, d)}
    BY <1>0, <1>4, SelectEffect
  <2>2. UNCHANGED <<endpoints, deliveries, inserting, posts, acks, unsent, lost, faults>>
    BY <1>4 DEF ProcessPending
  <2>3. TablesOK' /\ HistoryOK'
    BY <1>0, <2>1, <2>2 DEF TablesOK, HistoryOK, Pending
  <2>4. \A d \in Delivery : UnwrittenOK(d)'
    BY <1>0, <2>1, <2>2 DEF UnwrittenOK, Holds, Pending
  <2> QED
    BY <2>1, <2>3, <2>4
<1>5. ASSUME NEW w \in Dispatcher, NEW d \in Delivery, NEW answer \in {"ok", "failed"},
             Deliver(w, d, answer)
      PROVE  TablesOK' /\ HistoryOK' /\ WorkersOK' /\ \A c \in Delivery : UnwrittenOK(c)'
  <2>1. /\ WorkersOK'
        /\ d \in worker[w].batch
        /\ worker'[w].batch = worker[w].batch
        /\ \A v \in Dispatcher \ {w} : worker'[v] = worker[v]
    BY <1>0, <1>5, DeliverEffect
  <2>2. UNCHANGED <<endpoints, deliveries, inserting, overlapped, lost, faults>>
    BY <1>5 DEF Deliver
  <2>3. /\ posts' \in [Delivery -> Nat] /\ acks' \in [Delivery -> 0 .. 2]
        /\ \A c \in Delivery \ {d} : posts'[c] = posts[c] /\ acks'[c] = acks[c]
    BY <1>0, <1>5 DEF Deliver, Post, NoRequest, HistoryOK
  <2>5. unsent' \subseteq Delivery
    BY <1>0, <1>5 DEF Deliver, Post, NoRequest, HistoryOK
  <2>4. ASSUME NEW c \in Delivery PROVE UnwrittenOK(c)'
    <3>1. deliveries[d].st # "none"
      BY <1>0, <2>1 DEF UnwrittenOK, Holds
    <3> QED
      BY <1>0, <2>1, <2>2, <2>3, <3>1 DEF UnwrittenOK, Holds
  <2> QED
    BY <1>0, <2>1, <2>2, <2>3, <2>4, <2>5 DEF TablesOK, HistoryOK
<1>6. ASSUME NEW w \in Dispatcher, MarkDelivered(w) \/ MarkRetry(w)
      PROVE  TablesOK' /\ HistoryOK' /\ WorkersOK' /\ \A d \in Delivery : UnwrittenOK(d)'
  <2> DEFINE d == worker[w].current
  <2>1. /\ d \in Delivery /\ Holds(w, d) /\ NextRow(w)
        /\ \/ /\ deliveries' \in [Delivery -> DeliveryRow]
              /\ deliveries'[d].st \in {"waiting", "delivered"}
              /\ \A c \in Delivery \ {d} : deliveries'[c] = deliveries[c]
              /\ UNCHANGED <<lost, faults>>
           \/ /\ Fault /\ UNCHANGED deliveries
              /\ lost' = IF worker[w].at = "ok" THEN lost \cup {d} ELSE lost
        /\ UNCHANGED <<endpoints, inserting, posts, acks, unsent, overlapped>>
    BY <1>6, MarkEffect
  <2>2. /\ WorkersOK' /\ \A v \in Dispatcher \ {w} : worker'[v] = worker[v]
        /\ worker'[w].batch = worker[w].batch \ {d}
    BY <1>0, <2>1, NextRowEffect
  <2> HIDE DEF d
  <2>3. TablesOK'
    BY <1>0, <2>1 DEF TablesOK
  <2>4. HistoryOK'
    BY <1>0, <2>1, WebhooksAssumption DEF HistoryOK, Fault
  <2>5. ASSUME NEW c \in Delivery PROVE UnwrittenOK(c)'
    BY <1>0, <2>1, <2>2 DEF UnwrittenOK, Holds
  <2> QED
    BY <2>2, <2>3, <2>4, <2>5
<1>7. ASSUME NEW w \in Dispatcher, Crash(w)
      PROVE  TablesOK' /\ HistoryOK' /\ WorkersOK' /\ \A d \in Delivery : UnwrittenOK(d)'
  <2>1. /\ WorkersOK' /\ worker'[w].batch = {}
        /\ \A v \in Dispatcher \ {w} : worker'[v] = worker[v]
    BY <1>0, <1>7, IdleEffect DEF Crash
  <2>2. UNCHANGED <<endpoints, deliveries, inserting, posts, acks, unsent, overlapped>>
    BY <1>7 DEF Crash
  <2>3. lost' \subseteq Delivery
    <3>1. worker[w].at = "ok" => worker[w].current \in Delivery
      BY <1>0 DEF WorkersOK, WorkerOK, Worker
    <3> QED
      BY <1>0, <1>7, <3>1 DEF Crash, HistoryOK
  <2>4. faults' \in 0 .. MaxFaults
    BY <1>0, <1>7, WebhooksAssumption DEF Crash, Fault, HistoryOK
  <2>5. ASSUME NEW d \in Delivery PROVE UnwrittenOK(d)'
    BY <1>0, <2>1, <2>2 DEF UnwrittenOK, Holds
  <2> QED
    BY <1>0, <2>1, <2>2, <2>3, <2>4, <2>5 DEF TablesOK, HistoryOK
<1>8. ASSUME NEW d \in Delivery, RetryDue(d)
      PROVE  TablesOK' /\ HistoryOK' /\ WorkersOK' /\ \A c \in Delivery : UnwrittenOK(c)'
  <2>1. /\ deliveries' \in [Delivery -> DeliveryRow]
        /\ deliveries'[d].st = "due"
        /\ \A c \in Delivery \ {d} : deliveries'[c] = deliveries[c]
    BY <1>0, <1>8, RetryDueEffect DEF TablesOK
  <2>2. UNCHANGED <<endpoints, inserting, worker, posts, acks, unsent, overlapped, lost, faults>>
    BY <1>8 DEF RetryDue
  <2> QED
    BY <1>0, <2>1, <2>2 DEF TablesOK, HistoryOK, WorkersOK, WorkerOK, UnwrittenOK, Holds
<1>9. CASE UNCHANGED vars
  BY <1>0, <1>9 DEF vars, TablesOK, HistoryOK, WorkersOK, WorkerOK, UnwrittenOK, Holds
<1> QED
  BY <1>1, <1>2, <1>3, <1>4, <1>5, <1>6, <1>7, <1>8, <1>9 DEF Next

\* The variables keep their types, a dispatcher marks only what it has in its
\* batch, and a row that was never written was never posted.
THEOREM TypeCorrect == Spec => []TypeOK
  BY TypeInit, TypeStep, PTL DEF Spec

-----------------------------------------------------------------------------
(***************************************************************************)
(* How often a delivery is posted.  A dispatcher that holds a row will     *)
(* post it and count it once more, and one that has posted it has not      *)
(* counted it yet; so attempts and the dispatchers that hold the row are   *)
(* bounded together, and posts is attempts, the dispatchers that have yet  *)
(* to count, and what the faults kept from being counted (less, if there   *)
(* was an attempt that posted nothing).                                    *)
(***************************************************************************)
Holders(d) == {w \in Dispatcher : Holds(w, d)}
Posting(d) == {w \in Dispatcher : worker[w].at \in {"ok", "failed"} /\ worker[w].current = d}

Counted(d) ==
  /\ deliveries[d].attempts + Cardinality(Holders(d)) <= MaxAttempts + Cardinality(Dispatcher) - 1
  /\ d \notin unsent => deliveries[d].attempts + Cardinality(Posting(d)) <= posts[d]
  /\ posts[d] <= deliveries[d].attempts + Cardinality(Posting(d)) + faults

CountInv == \A d \in Delivery : Counted(d)

\* A set of dispatchers is finite, and one of them counts one.
LEMMA CountDispatchers ==
  ASSUME NEW S \in SUBSET Dispatcher
  PROVE  /\ Cardinality(S) \in Nat /\ Cardinality(S) <= Cardinality(Dispatcher)
         /\ Cardinality(Dispatcher) \in Nat
         /\ \A w \in Dispatcher \ S : Cardinality(S \cup {w}) = Cardinality(S) + 1
         /\ \A w \in S : Cardinality(S \ {w}) = Cardinality(S) - 1
         /\ \A w \in Dispatcher \ S : S \ {w} = S
<1>1. IsFiniteSet(Dispatcher) /\ IsFiniteSet(S)
  BY WebhooksAssumption, FS_Subset
<1> QED
  BY <1>1, FS_Subset, FS_CardinalityType, FS_AddElement, FS_RemoveElement

\* A dispatcher that posts a row holds it.
LEMMA PostingHolds ==
  ASSUME TypeOK, NEW d \in Delivery
  PROVE  /\ Posting(d) \in SUBSET Dispatcher /\ Holders(d) \in SUBSET Dispatcher
         /\ Posting(d) \subseteq Holders(d)
         /\ Cardinality(Posting(d)) <= Cardinality(Holders(d))
<1>1. /\ Posting(d) \in SUBSET Dispatcher /\ Holders(d) \in SUBSET Dispatcher
      /\ Posting(d) \subseteq Holders(d)
  BY DEF TypeOK, Posting, Holders, Holds
<1>2. IsFiniteSet(Holders(d))
  BY <1>1, WebhooksAssumption, FS_Subset
<1> QED
  BY <1>1, <1>2, FS_Subset

LEMMA CountInit == Init => CountInv
<1> SUFFICES ASSUME Init, NEW d \in Delivery PROVE Counted(d)
  BY DEF CountInv
<1>1. Holders(d) = {} /\ Posting(d) = {}
  BY DEF Init, Idle, Holders, Posting, Holds
<1>2. deliveries[d].attempts = 0 /\ posts[d] = 0 /\ faults = 0
  BY DEF Init
<1> QED
  BY <1>1, <1>2, FS_EmptySet, CountDispatchers, WebhooksAssumption DEF Counted

\* Nobody takes, posts or counts the row.
LEMMA CountKept ==
  ASSUME TypeOK, NEW d \in Delivery, Counted(d),
         Holders(d)' = Holders(d), Posting(d)' = Posting(d),
         deliveries'[d].attempts = deliveries[d].attempts, posts'[d] = posts[d],
         faults' \in Nat, faults' >= faults, d \in unsent => d \in unsent'
  PROVE  Counted(d)'
<1>1. /\ deliveries[d].attempts \in Nat /\ posts[d] \in Nat /\ faults \in Nat
      /\ Cardinality(Holders(d)) \in Nat /\ Cardinality(Posting(d)) \in Nat
      /\ Cardinality(Dispatcher) \in Nat
  BY PostingHolds, CountDispatchers DEF TypeOK, DeliveryRow
<1> QED
  BY <1>1, WebhooksAssumption DEF Counted

\* The dispatcher stops holding the row, and either the post was counted, or a
\* fault kept it from being counted, or it was not made.
LEMMA CountLeaves ==
  ASSUME TypeOK, NEW d \in Delivery, Counted(d), NEW w \in Dispatcher,
         Holders(d)' = Holders(d) \ {w}, Posting(d)' = Posting(d) \ {w},
         posts'[d] = posts[d], faults' \in Nat, unsent' = unsent,
         \/ /\ w \in Posting(d) /\ faults' = faults
            /\ deliveries'[d].attempts = deliveries[d].attempts + 1
         \/ /\ faults' = faults + 1
            /\ deliveries'[d].attempts = deliveries[d].attempts
  PROVE  Counted(d)'
<1>1. /\ deliveries[d].attempts \in Nat /\ posts[d] \in Nat /\ faults \in Nat
      /\ Cardinality(Holders(d)) \in Nat /\ Cardinality(Posting(d)) \in Nat
      /\ Cardinality(Dispatcher) \in Nat
  BY PostingHolds, CountDispatchers DEF TypeOK, DeliveryRow
<1>2. w \in Posting(d) =>
        /\ Cardinality(Posting(d)') = Cardinality(Posting(d)) - 1
        /\ Cardinality(Holders(d)') = Cardinality(Holders(d)) - 1
  BY PostingHolds, CountDispatchers
<1>3. w \notin Posting(d) => Cardinality(Posting(d)') = Cardinality(Posting(d))
  BY PostingHolds, CountDispatchers
<1>4. Cardinality(Holders(d)') <= Cardinality(Holders(d)) /\ Cardinality(Holders(d)') \in Nat
  <2>1. CASE w \in Holders(d)
    <3>1. Cardinality(Holders(d) \ {w}) = Cardinality(Holders(d)) - 1
      BY <2>1, PostingHolds, CountDispatchers
    <3>2. Cardinality(Holders(d) \ {w}) \in Nat
      BY PostingHolds, CountDispatchers
    <3> QED
      BY <1>1, <3>1, <3>2
  <2>2. CASE w \notin Holders(d)
    <3>1. Holders(d) \ {w} = Holders(d)
      BY <2>2
    <3> QED
      BY <1>1, <3>1
  <2> QED
    BY <2>1, <2>2
<1> QED
  BY <1>1, <1>2, <1>3, <1>4, WebhooksAssumption DEF Counted

LEMMA CountStep == TypeOK /\ CountInv /\ [Next]_vars => CountInv'
<1> SUFFICES ASSUME TypeOK, CountInv, [Next]_vars, NEW d \in Delivery PROVE Counted(d)'
  BY DEF CountInv
<1>0. Counted(d) /\ WorkersOK /\ faults \in Nat /\ deliveries \in [Delivery -> DeliveryRow]
  BY TypeParts DEF CountInv, HistoryOK, TablesOK
<1>1. ASSUME worker' = worker, posts' = posts, unsent' = unsent, faults' = faults \/ Fault,
             deliveries'[d].attempts = deliveries[d].attempts
      PROVE  Counted(d)'
  <2>1. Holders(d)' = Holders(d) /\ Posting(d)' = Posting(d)
    BY <1>1 DEF Holders, Posting, Holds
  <2>2. faults' \in Nat /\ faults' >= faults
    BY <1>0, <1>1 DEF Fault
  <2> QED
    BY <1>0, <1>1, <2>1, <2>2, CountKept
<1>2. ASSUME NEW ep \in Endpoint, NEW names \in Subscription, NEW st \in {"active", "inactive"},
             CreateEndpoint(ep, names) \/ UpdateEndpoint(ep, names, st)
      PROVE  Counted(d)'
  BY <1>1, <1>2 DEF CreateEndpoint, UpdateEndpoint
<1>3. ASSUME NEW e \in Event, Dispatch(e) \/ DispatchCrash(e) PROVE Counted(d)'
  BY <1>1, <1>3 DEF Dispatch, DispatchCrash
<1>4. ASSUME NEW e \in Event, NEW ep \in Endpoint, DispatchTo(e, ep) PROVE Counted(d)'
  <2>1. ASSUME NEW c \in Delivery, InsertDelivery(c, ep)
        PROVE  deliveries'[d].attempts = deliveries[d].attempts
    BY <1>0, <2>1, InsertEffect DEF TypeOK
  <2>2. deliveries'[d].attempts = deliveries[d].attempts
    BY <1>4, <2>1, FreshIsDelivery DEF DispatchTo
  <2> QED
    BY <1>1, <1>4, <2>2 DEF DispatchTo
<1>5. ASSUME NEW w \in Dispatcher, ProcessPending(w) PROVE Counted(d)'
  <2>1. PICK B \in SUBSET Pending :
          /\ worker[w].at = "idle" /\ worker[w].batch = {}
          /\ worker'[w].at = "deliver" /\ worker'[w].batch = B
          /\ \A v \in Dispatcher \ {w} : worker'[v] = worker[v]
    BY <1>0, <1>5, SelectEffect
  <2>2. UNCHANGED <<deliveries, posts, unsent, faults>>
    BY <1>5 DEF ProcessPending
  <2>3. Posting(d)' = Posting(d)
    BY <2>1 DEF Posting
  <2>4. CASE d \notin B
    <3>1. Holders(d)' = Holders(d)
      BY <2>1, <2>4 DEF Holders, Holds
    <3> QED
      BY <1>0, <2>2, <2>3, <3>1, CountKept
  <2>5. CASE d \in B
    <3>1. deliveries[d].attempts < MaxAttempts /\ deliveries[d].attempts \in Nat
      BY <1>0, <2>1, <2>5 DEF Pending, DeliveryRow
    <3>2. Holders(d)' \in SUBSET Dispatcher
      BY DEF Holders
    <3>3. /\ Cardinality(Holders(d)') \in Nat /\ Cardinality(Dispatcher) \in Nat
          /\ Cardinality(Holders(d)') <= Cardinality(Dispatcher)
      BY <3>2, CountDispatchers
    <3> QED
      BY <1>0, <2>2, <2>3, <3>1, <3>3, WebhooksAssumption DEF Counted
  <2> QED
    BY <2>4, <2>5
<1>6. ASSUME NEW w \in Dispatcher, NEW c \in Delivery, NEW answer \in {"ok", "failed"},
             Deliver(w, c, answer)
      PROVE  Counted(d)'
  <2>1. /\ worker[w].at = "deliver" /\ c \in worker[w].batch
        /\ worker'[w].at = answer /\ worker'[w].batch = worker[w].batch
        /\ worker'[w].current = c
        /\ \A v \in Dispatcher \ {w} : worker'[v] = worker[v]
    BY <1>0, <1>6, DeliverEffect
  <2>2. /\ UNCHANGED <<deliveries, faults>>
        /\ \/ UNCHANGED unsent /\ posts' = [posts EXCEPT ![c] = @ + 1]
           \/ unsent' = unsent \cup {c} /\ UNCHANGED posts
    BY <1>6 DEF Deliver, Post, NoRequest
  <2>3. Holders(d)' = Holders(d)
    BY <2>1 DEF Holders, Holds
  <2>4. CASE c # d
    <3>1. Posting(d)' = Posting(d)
      BY <2>1, <2>4 DEF Posting
    <3>2. posts'[d] = posts[d] /\ (d \in unsent => d \in unsent')
      BY <2>2, <2>4 DEF TypeOK
    <3> QED
      BY <1>0, <2>2, <2>3, <3>1, <3>2, CountKept
  <2>5. CASE c = d
    <3>1. w \notin Posting(d) /\ Posting(d)' = Posting(d) \cup {w}
      BY <2>1, <2>5 DEF Posting
    <3>2. \/ unsent' = unsent /\ posts'[d] = posts[d] + 1
          \/ d \in unsent' /\ posts'[d] = posts[d]
      BY <2>2, <2>5 DEF TypeOK
    <3>3. Cardinality(Posting(d)') = Cardinality(Posting(d)) + 1
      BY <3>1, PostingHolds, CountDispatchers
    <3>4. /\ deliveries[d].attempts \in Nat /\ posts[d] \in Nat
          /\ Cardinality(Posting(d)) \in Nat
      BY <1>0, PostingHolds, CountDispatchers DEF TypeOK, DeliveryRow
    <3> QED
      BY <1>0, <2>2, <2>3, <3>2, <3>3, <3>4 DEF Counted
  <2> QED
    BY <2>4, <2>5
<1>7. ASSUME NEW w \in Dispatcher, MarkDelivered(w) \/ MarkRetry(w) PROVE Counted(d)'
  <2> DEFINE c == worker[w].current
  <2>1. /\ c \in Delivery /\ Holds(w, c)
        /\ worker[w].at \in {"ok", "failed"} /\ NextRow(w)
        /\ \/ /\ deliveries'[c].attempts = deliveries[c].attempts + 1
              /\ \A b \in Delivery \ {c} : deliveries'[b] = deliveries[b]
              /\ faults' = faults
           \/ Fault /\ UNCHANGED deliveries
        /\ UNCHANGED <<posts, unsent>>
    BY <1>7, MarkEffect
  <2>2. /\ worker'[w].at \in {"idle", "deliver"}
        /\ worker'[w].batch = worker[w].batch \ {c}
        /\ \A v \in Dispatcher \ {w} : worker'[v] = worker[v]
    BY <1>0, <2>1, NextRowEffect
  <2>3. w \in Posting(c)
    BY <2>1 DEF Posting
  <2>4. faults' \in Nat /\ faults' >= faults
    BY <1>0, <2>1 DEF Fault
  <2>5. CASE c = d
    <3>1. Holders(d)' = Holders(d) \ {w} /\ Posting(d)' = Posting(d) \ {w}
      BY <2>2, <2>5 DEF Holders, Posting, Holds
    <3> QED
      BY <1>0, <2>1, <2>3, <2>4, <2>5, <3>1, CountLeaves DEF Fault
  <2>6. CASE c # d
    <3>1. Holders(d)' = Holders(d) /\ Posting(d)' = Posting(d)
      BY <2>2, <2>6 DEF Holders, Posting, Holds
    <3> QED
      BY <1>0, <2>1, <2>4, <2>6, <3>1, CountKept
  <2> QED
    BY <2>5, <2>6
<1>8. ASSUME NEW w \in Dispatcher, Crash(w) PROVE Counted(d)'
  <2>1. /\ worker'[w].at = "idle" /\ worker'[w].batch = {}
        /\ \A v \in Dispatcher \ {w} : worker'[v] = worker[v]
    BY <1>0, <1>8, IdleEffect DEF Crash
  <2>2. Holders(d)' = Holders(d) \ {w} /\ Posting(d)' = Posting(d) \ {w}
    BY <2>1 DEF Holders, Posting, Holds
  <2>3. faults' \in Nat /\ faults' = faults + 1 /\ UNCHANGED <<deliveries, posts, unsent>>
    BY <1>0, <1>8 DEF Crash, Fault
  <2> QED
    BY <1>0, <2>2, <2>3, CountLeaves
<1>9. ASSUME NEW c \in Delivery, RetryDue(c) PROVE Counted(d)'
  <2>1. deliveries'[d].attempts = deliveries[d].attempts
    BY <1>0, <1>9, RetryDueEffect
  <2> QED
    BY <1>1, <1>9, <2>1 DEF RetryDue
<1>10. CASE UNCHANGED vars
  BY <1>1, <1>10 DEF vars
<1> QED
  BY <1>2, <1>3, <1>4, <1>5, <1>6, <1>7, <1>8, <1>9, <1>10 DEF Next

LEMMA CountSafe == Spec => [](TypeOK /\ CountInv)
<1>1. TypeOK /\ CountInv /\ [Next]_vars => (TypeOK /\ CountInv)'
  BY TypeStep, CountStep
<1> QED
  BY <1>1, TypeInit, CountInit, PTL DEF Spec

\* A delivery is posted at most MaxAttempts times (GetPendingDeliveries selects
\* attempts < 5), once more for each other dispatcher and for each fault, for
\* any number of dispatchers whose batches overlap in any way.
THEOREM PostsAreBounded == Spec => []PostsBounded
<1>1. TypeOK /\ CountInv => PostsBounded
  <2> SUFFICES ASSUME TypeOK, CountInv, NEW d \in Delivery
               PROVE  posts[d] <= MaxAttempts + (Cardinality(Dispatcher) - 1) + faults
    BY DEF PostsBounded
  <2>1. Counted(d)
    BY DEF CountInv
  <2>2. /\ deliveries[d].attempts \in Nat /\ posts[d] \in Nat /\ faults \in Nat
        /\ Cardinality(Holders(d)) \in Nat /\ Cardinality(Posting(d)) \in Nat
        /\ Cardinality(Dispatcher) \in Nat
        /\ Cardinality(Posting(d)) <= Cardinality(Holders(d))
    BY PostingHolds, CountDispatchers DEF TypeOK, DeliveryRow
  <2> QED
    BY <2>1, <2>2, WebhooksAssumption DEF Counted
<1> QED
  BY <1>1, CountSafe, PTL

\* A delivery the dispatchers give up on was posted MaxAttempts times, unless
\* http.NewRequest refused its url at some attempt: MarkRetry counts that
\* attempt like any other.  No failed mark, crash or overlap makes attempts run
\* ahead of the posts.
THEOREM GivenUpAfterPosts == Spec => []GivenUpWasPosted
<1>1. TypeOK /\ CountInv => GivenUpWasPosted
  <2> SUFFICES ASSUME TypeOK, CountInv, NEW d \in Delivery,
                      deliveries[d].attempts >= MaxAttempts, d \notin unsent
               PROVE  posts[d] >= MaxAttempts
    BY DEF GivenUpWasPosted
  <2>1. Counted(d)
    BY DEF CountInv
  <2>2. /\ deliveries[d].attempts \in Nat /\ posts[d] \in Nat /\ Cardinality(Posting(d)) \in Nat
    BY PostingHolds, CountDispatchers DEF TypeOK, DeliveryRow
  <2> QED
    BY <2>1, <2>2, WebhooksAssumption DEF Counted
<1> QED
  BY <1>1, CountSafe, PTL

-----------------------------------------------------------------------------
(***************************************************************************)
(* Acknowledgements.  Recorded is DeliveredIffAcked with what a dispatcher *)
(* about to mark a row knows.  Sole says why an acknowledgement is not     *)
(* repeated: a row that was never in two batches and lost no mark has one  *)
(* holder, and none once it is delivered.                                  *)
(***************************************************************************)
Marks(w, d) == worker[w].at = "ok" /\ worker[w].current = d

Recorded(d) ==
  /\ deliveries[d].st = "delivered" => acks[d] >= 1
  /\ \A w \in Dispatcher : Marks(w, d) => acks[d] >= 1
  /\ acks[d] >= 1 => \/ deliveries[d].st = "delivered"
                     \/ d \in lost
                     \/ \E w \in Dispatcher : Marks(w, d)

Sole(d) ==
  d \notin overlapped \cup lost =>
    /\ \A v, w \in Dispatcher : Holds(v, d) /\ Holds(w, d) => v = w
    /\ deliveries[d].st = "delivered" => \A w \in Dispatcher : ~ Holds(w, d)
    /\ acks[d] <= 1

AckInv == \A d \in Delivery : Recorded(d) /\ Sole(d)

LEMMA AckInit == Init => AckInv
  BY DEF Init, AckInv, Recorded, Sole, Marks, Idle, Holds

\* Of this row nothing changes that counts: nobody takes, posts or marks it.
LEMMA AckKept ==
  ASSUME TypeOK, NEW d \in Delivery, Recorded(d), Sole(d),
         \A w \in Dispatcher : /\ Holds(w, d)' => Holds(w, d)
                               /\ Marks(w, d)' <=> Marks(w, d),
         deliveries'[d].st = "delivered" <=> deliveries[d].st = "delivered",
         acks'[d] = acks[d], overlapped \subseteq overlapped',
         d \in lost' <=> d \in lost
  PROVE  Recorded(d)' /\ Sole(d)'
  BY DEF Recorded, Sole

LEMMA AckStep == TypeOK /\ AckInv /\ [Next]_vars => AckInv'
<1> SUFFICES ASSUME TypeOK, AckInv, [Next]_vars, NEW d \in Delivery
             PROVE  Recorded(d)' /\ Sole(d)'
  BY DEF AckInv
<1>0. /\ Recorded(d) /\ Sole(d) /\ WorkersOK /\ UnwrittenOK(d)
      /\ deliveries \in [Delivery -> DeliveryRow] /\ acks \in [Delivery -> 0 .. 2]
  BY TypeParts DEF AckInv, TablesOK, HistoryOK
<1>1. ASSUME UNCHANGED <<worker, acks, overlapped, lost>>,
             deliveries'[d].st = "delivered" <=> deliveries[d].st = "delivered"
      PROVE  Recorded(d)' /\ Sole(d)'
  BY <1>0, <1>1 DEF Recorded, Sole, Marks, Holds
<1>2. ASSUME NEW ep \in Endpoint, NEW names \in Subscription, NEW st \in {"active", "inactive"},
             CreateEndpoint(ep, names) \/ UpdateEndpoint(ep, names, st)
      PROVE  Recorded(d)' /\ Sole(d)'
  BY <1>1, <1>2 DEF CreateEndpoint, UpdateEndpoint
<1>3. ASSUME NEW e \in Event, Dispatch(e) \/ DispatchCrash(e) PROVE Recorded(d)' /\ Sole(d)'
  BY <1>1, <1>3 DEF Dispatch, DispatchCrash
<1>4. ASSUME NEW e \in Event, NEW ep \in Endpoint, DispatchTo(e, ep)
      PROVE  Recorded(d)' /\ Sole(d)'
  <2>1. ASSUME NEW c \in Delivery, InsertDelivery(c, ep)
        PROVE  deliveries'[d].st = "delivered" <=> deliveries[d].st = "delivered"
    BY <1>0, <2>1, InsertEffect
  <2>2. deliveries'[d].st = "delivered" <=> deliveries[d].st = "delivered"
    BY <1>4, <2>1, FreshIsDelivery DEF DispatchTo
  <2> QED
    BY <1>1, <1>4, <2>2 DEF DispatchTo
<1>5. ASSUME NEW w \in Dispatcher, ProcessPending(w) PROVE Recorded(d)' /\ Sole(d)'
  <2>1. PICK B \in SUBSET Pending :
          /\ worker[w].at = "idle" /\ worker[w].batch = {}
          /\ worker'[w].at = "deliver" /\ worker'[w].batch = B
          /\ \A v \in Dispatcher \ {w} : worker'[v] = worker[v]
          /\ overlapped' = overlapped \cup {c \in B : \E v \in Dispatcher : Holds(v, c)}
    BY <1>0, <1>5, SelectEffect
  <2>2. UNCHANGED <<deliveries, acks, lost>>
    BY <1>5 DEF ProcessPending
  <2>3. \A v \in Dispatcher : Marks(v, d)' <=> Marks(v, d)
    BY <2>1 DEF Marks
  <2>4. CASE d \notin B
    BY <1>0, <2>1, <2>2, <2>3, <2>4, AckKept DEF Holds
  <2>5. CASE d \in B
    <3>1. Recorded(d)'
      BY <1>0, <2>2, <2>3 DEF Recorded
    <3>2. deliveries[d].st # "delivered"
      BY <2>5 DEF Pending
    <3>3. CASE \E v \in Dispatcher : Holds(v, d)
      BY <2>1, <2>5, <3>1, <3>3 DEF Sole
    <3>4. CASE \A v \in Dispatcher : ~ Holds(v, d)
      BY <1>0, <2>1, <2>2, <3>1, <3>2, <3>4 DEF Sole, Holds
    <3> QED
      BY <3>3, <3>4
  <2> QED
    BY <2>4, <2>5
<1>6. ASSUME NEW w \in Dispatcher, NEW c \in Delivery, NEW answer \in {"ok", "failed"},
             Deliver(w, c, answer)
      PROVE  Recorded(d)' /\ Sole(d)'
  <2>1. /\ worker[w].at = "deliver" /\ c \in worker[w].batch
        /\ worker'[w].at = answer /\ worker'[w].batch = worker[w].batch
        /\ worker'[w].current = c
        /\ \A v \in Dispatcher \ {w} : worker'[v] = worker[v]
    BY <1>0, <1>6, DeliverEffect
  <2>2. /\ UNCHANGED <<deliveries, overlapped, lost>>
        /\ acks' = [acks EXCEPT ![c] = IF answer = "ok" /\ @ < 2 THEN @ + 1 ELSE @]
    BY <1>0, <1>6 DEF Deliver, Post, NoRequest
  <2>3. \A v \in Dispatcher : Holds(v, d)' <=> Holds(v, d)
    BY <2>1 DEF Holds
  <2>4. CASE c # d
    <3>1. \A v \in Dispatcher : Marks(v, d)' <=> Marks(v, d)
      BY <2>1, <2>4 DEF Marks
    <3>2. acks'[d] = acks[d]
      BY <1>0, <2>2, <2>4
    <3> QED
      BY <1>0, <2>2, <2>3, <3>1, <3>2, AckKept
  <2>5. CASE c = d /\ answer = "failed"
    <3>1. \A v \in Dispatcher : Marks(v, d)' <=> Marks(v, d)
      BY <2>1, <2>5 DEF Marks
    <3>2. acks'[d] = acks[d]
      BY <1>0, <2>2, <2>5
    <3> QED
      BY <1>0, <2>2, <2>3, <3>1, <3>2, AckKept
  <2>6. CASE c = d /\ answer = "ok"
    <3>1. /\ acks'[d] = IF acks[d] < 2 THEN acks[d] + 1 ELSE acks[d]
          /\ acks[d] \in 0 .. 2
      BY <1>0, <2>2, <2>6
    <3>2. Marks(w, d)' /\ acks'[d] >= 1
      BY <2>1, <2>6, <3>1 DEF Marks
    <3>3. Recorded(d)'
      BY <3>2 DEF Recorded
    <3>4. ASSUME d \notin overlapped \cup lost PROVE acks[d] = 0
      <4>1. Holds(w, d)
        BY <2>1, <2>6 DEF Holds
      <4>2. ASSUME NEW v \in Dispatcher PROVE ~ Marks(v, d)
        <5>1. v # w => ~ Holds(v, d)
          BY <1>0, <3>4, <4>1 DEF Sole
        <5>2. Marks(v, d) => Holds(v, d)
          BY <1>0 DEF WorkersOK, WorkerOK, Marks, Holds
        <5> QED
          BY <2>1, <5>1, <5>2 DEF Marks
      <4>3. deliveries[d].st # "delivered"
        BY <1>0, <3>4, <4>1 DEF Sole
      <4> QED
        BY <1>0, <3>1, <3>4, <4>2, <4>3 DEF Recorded
    <3>5. Sole(d)'
      BY <1>0, <2>2, <2>3, <3>1, <3>4 DEF Sole
    <3> QED
      BY <3>3, <3>5
  <2> QED
    BY <2>4, <2>5, <2>6
<1>7. ASSUME NEW w \in Dispatcher, MarkDelivered(w) \/ MarkRetry(w)
      PROVE  Recorded(d)' /\ Sole(d)'
  <2> DEFINE c == worker[w].current
  <2>1. /\ c \in Delivery /\ Holds(w, c)
        /\ worker[w].at \in {"ok", "failed"} /\ NextRow(w)
        /\ \/ /\ worker[w].at = "ok" => deliveries'[c].st = "delivered"
              /\ worker[w].at = "failed" =>
                   (deliveries'[c].st = "delivered" <=> deliveries[c].st = "delivered")
              /\ \A b \in Delivery \ {c} : deliveries'[b] = deliveries[b]
              /\ UNCHANGED lost
           \/ /\ UNCHANGED deliveries
              /\ lost' = IF worker[w].at = "ok" THEN lost \cup {c} ELSE lost
        /\ UNCHANGED <<acks, overlapped>>
    BY <1>7, MarkEffect
  <2>2. /\ worker'[w].at \in {"idle", "deliver"}
        /\ worker'[w].batch = worker[w].batch \ {c}
        /\ \A v \in Dispatcher \ {w} : worker'[v] = worker[v]
    BY <1>0, <2>1, NextRowEffect
  <2>3. \A v \in Dispatcher : /\ Holds(v, d)' => Holds(v, d)
                              /\ c = d => (Holds(v, d)' <=> Holds(v, d) /\ v # w)
                              /\ Marks(v, d)' <=> Marks(v, d) /\ v # w
    BY <2>2 DEF Holds, Marks
  <2>4. CASE ~ Marks(w, d)
    BY <1>0, <2>1, <2>3, <2>4, AckKept DEF Marks
  <2>5. CASE Marks(w, d)
    <3>1. c = d /\ worker[w].at = "ok" /\ acks[d] >= 1
      BY <1>0, <2>5 DEF Marks, Recorded
    <3>2. Recorded(d)'
      BY <1>0, <2>1, <2>3, <3>1 DEF Recorded
    <3>3. ASSUME d \notin overlapped \cup lost PROVE \A v \in Dispatcher : ~ Holds(v, d)'
      BY <1>0, <2>1, <2>3, <3>1, <3>3 DEF Sole
    <3>4. Sole(d)'
      BY <1>0, <2>1, <2>3, <3>1, <3>3 DEF Sole
    <3> QED
      BY <3>2, <3>4
  <2> QED
    BY <2>4, <2>5
<1>8. ASSUME NEW w \in Dispatcher, Crash(w) PROVE Recorded(d)' /\ Sole(d)'
  <2>1. /\ worker'[w].at = "idle" /\ worker'[w].batch = {}
        /\ \A v \in Dispatcher \ {w} : worker'[v] = worker[v]
    BY <1>0, <1>8, IdleEffect DEF Crash
  <2>2. /\ UNCHANGED <<deliveries, acks, overlapped>>
        /\ lost' = IF worker[w].at = "ok" THEN lost \cup {worker[w].current} ELSE lost
    BY <1>8 DEF Crash
  <2>3. \A v \in Dispatcher : /\ Holds(v, d)' => Holds(v, d)
                              /\ Marks(v, d)' <=> Marks(v, d) /\ v # w
    BY <2>1 DEF Holds, Marks
  <2>4. CASE ~ Marks(w, d)
    BY <1>0, <2>2, <2>3, <2>4, AckKept DEF Marks
  <2>5. CASE Marks(w, d)
    BY <1>0, <2>2, <2>3, <2>5 DEF Marks, Recorded, Sole
  <2> QED
    BY <2>4, <2>5
<1>9. ASSUME NEW c \in Delivery, RetryDue(c) PROVE Recorded(d)' /\ Sole(d)'
  <2>1. deliveries'[d].st = "delivered" <=> deliveries[d].st = "delivered"
    BY <1>0, <1>9, RetryDueEffect
  <2> QED
    BY <1>1, <1>9, <2>1 DEF RetryDue
<1>10. CASE UNCHANGED vars
  BY <1>1, <1>10 DEF vars
<1> QED
  BY <1>2, <1>3, <1>4, <1>5, <1>6, <1>7, <1>8, <1>9, <1>10 DEF Next

LEMMA AckSafe == Spec => [](TypeOK /\ AckInv)
<1>1. TypeOK /\ AckInv /\ [Next]_vars => (TypeOK /\ AckInv)'
  BY TypeStep, AckStep
<1> QED
  BY <1>1, TypeInit, AckInit, PTL DEF Spec

\* An endpoint acknowledges a delivery twice only if two dispatchers had it in
\* their batch at once (GetPendingDeliveries locks no row) or the mark of the
\* first acknowledgement failed or was cut off.
THEOREM DuplicatesExplained == Spec => []DuplicateNeedsOverlap
<1>1. TypeOK /\ AckInv => DuplicateNeedsOverlap
  BY DEF TypeOK, AckInv, Sole, DuplicateNeedsOverlap
<1> QED
  BY <1>1, AckSafe, PTL

\* A row is delivered only after a 2xx answer, and an answer is recorded, about
\* to be recorded, or lost with a failed UPDATE or its process.
THEOREM DeliveredMeansAcked == Spec => []DeliveredIffAcked
<1>1. AckInv => DeliveredIffAcked
  BY DEF AckInv, Recorded, Marks, DeliveredIffAcked
<1> QED
  BY <1>1, AckSafe, PTL

=============================================================================
