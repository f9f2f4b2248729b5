------------------------------- MODULE Billing -------------------------------
(***************************************************************************)
(* The subscription of one organization: CreateCheckoutSession and the     *)
(* Stripe webhook (internal/domain/billing/service.go and                  *)
(* internal/http/handlers/billing.go) on its row of subscriptions.         *)
(*                                                                         *)
(* Stripe is external and modelled from how the code uses it: sessions     *)
(* that are paid, subscriptions that change, and an event for each change. *)
(* Stripe promises neither the order nor the single delivery of events.    *)
(* The handler answers 200 whatever becomes of the statement, so an event  *)
(* whose statement failed is not sent again.                               *)
(*                                                                         *)
(* Abstractions.  Customer ids and period ends are not modelled.  Stripe's *)
(* statuses are active (with trialing), past_due (with unpaid, incomplete) *)
(* and canceled.  Events of other types change nothing.                    *)
(***************************************************************************)
EXTENDS Naturals, Sequences

CONSTANTS Sub,       \* ids of Stripe subscriptions (bound: used once)
          NoSub,     \* stripe_subscription_id is NULL
          Request,   \* slots of concurrent CreateCheckoutSession calls
          MaxOpen,   \* bound on the open checkout sessions
          MaxQueue,  \* bound on the events under way
          Faults     \* "db": a statement may fail; "reorder" and "duplicate":
                     \* of events

ASSUME BillingAssumption ==
  /\ NoSub \notin Sub
  /\ MaxOpen \in Nat
  /\ MaxQueue \in Nat
  /\ Faults \subseteq {"db", "reorder", "duplicate"}

VARIABLES
  row,      \* the organization's row of subscriptions
  request,  \* where each CreateCheckoutSession is
  stripe,   \* status of each Stripe subscription
  open,     \* checkout sessions that can still be paid
  events    \* events under way, in the order in which Stripe sent them

(***************************************************************************)
(* History variables.                                                      *)
(***************************************************************************)
VARIABLES
  paid,        \* subscriptions whose checkout.session.completed was applied
  raced,       \* "checkout": two calls found no row; "upsert": the row that
               \* a call should have written was not written
  disordered,  \* subscriptions with an event applied before an earlier one
  dropped      \* subscriptions with an event whose statement failed

hist == <<paid, raced, disordered, dropped>>
vars == <<row, request, stripe, open, events, paid, raced, disordered, dropped>>

-----------------------------------------------------------------------------
StripeStatus == {"active", "past_due", "canceled"}

Row == [status : {"none", "incomplete"} \cup StripeStatus,   \* "none": no row
        plan   : {"free", "pro"},
        sub    : Sub \cup {NoSub}]

EventType == {"completed", "updated", "deleted", "invoice.paid"}
Message   == [type : EventType, sub : Sub, status : StripeStatus]

Place == {"idle", "upsert", "session"}

Init ==
  /\ row = [status |-> "none", plan |-> "free", sub |-> NoSub]
  /\ request = [r \in Request |-> "idle"]
  /\ stripe = [s \in Sub |-> "none"]
  /\ open = 0
  /\ events = <<>>
  /\ paid = {} /\ raced = {} /\ disordered = {} /\ dropped = {}

DbFails == "db" \in Faults

-----------------------------------------------------------------------------
(***************************************************************************)
(* The statements.                                                         *)
(***************************************************************************)
\* INSERT ... ON CONFLICT (org_id) DO UPDATE: every column is replaced.
UpsertSubscription(sub, status, plan) ==
  row' = [status |-> status, plan |-> plan, sub |-> sub]

\* UPDATE ... WHERE stripe_subscription_id = $1.
UpdateSubscriptionStatus(sub, status, plan) ==
  row' = IF row.sub = sub THEN [status |-> status, plan |-> plan, sub |-> sub] ELSE row

\* mutant: the WHERE is lost
CancelAny(sub) == row' = [status |-> "canceled", plan |-> row.plan, sub |-> row.sub]

\* UPDATE ... SET status = 'canceled' WHERE stripe_subscription_id = $1: plan
\* is not written.
CancelSubscription(sub) ==
  row' = IF row.sub = sub
           THEN [status |-> "canceled", plan |-> row.plan, sub |-> sub] ELSE row

-----------------------------------------------------------------------------
(***************************************************************************)
(* CreateCheckoutSession.                                                  *)
(***************************************************************************)
Move(r, place) == request' = [request EXCEPT ![r] = place]

\* mutant: the row is not looked for
ReadNothing(r) ==
  /\ request[r] = "idle"
  /\ Move(r, "upsert")
  /\ UNCHANGED <<row, stripe, open, events, hist>>

\* GetSubscriptionByOrg.  Without a row a Stripe customer is created, and the
\* row saved next.
ReadSubscription(r) ==
  /\ request[r] = "idle"
  /\ IF row.status = "none"
       THEN /\ Move(r, "upsert")
            /\ raced' = IF \E q \in Request : request[q] = "upsert"
                          THEN raced \cup {"checkout"} ELSE raced
       ELSE Move(r, "session") /\ UNCHANGED raced
  /\ UNCHANGED <<row, stripe, open, events, paid, disordered, dropped>>

\* "Save subscription record"; the error is ignored.
SaveIncomplete(r) ==
  /\ request[r] = "upsert"
  /\ Move(r, "session")
  /\ \/ UpsertSubscription(NoSub, "incomplete", "free") /\ UNCHANGED raced
     \/ DbFails /\ raced' = raced \cup {"upsert"} /\ UNCHANGED row
  /\ UNCHANGED <<stripe, open, events, paid, disordered, dropped>>

\* session.New opens a checkout session at Stripe.
NewSession(r) ==
  /\ request[r] = "session"
  /\ open < MaxOpen
  /\ open' = open + 1
  /\ Move(r, "idle")
  /\ UNCHANGED <<row, stripe, events, hist>>

\* customer.New or session.New fails: the handler answers 500.
StripeRefuses(r) ==
  /\ request[r] \in {"upsert", "session"}
  /\ Move(r, "idle")
  /\ UNCHANGED <<row, stripe, open, events, hist>>

-----------------------------------------------------------------------------
(***************************************************************************)
(* Stripe.                                                                 *)
(***************************************************************************)
Message1(type, s, status) == <<[type |-> type, sub |-> s, status |-> status]>>

Send(msgs) == Len(events) + Len(msgs) <= MaxQueue /\ events' = events \o msgs

\* A checkout session is paid: it becomes an active subscription.
Pay(s) ==
  /\ open > 0 /\ stripe[s] = "none"
  /\ open' = open - 1
  /\ stripe' = [stripe EXCEPT ![s] = "active"]
  /\ Send(Message1("completed", s, "active"))
  /\ UNCHANGED <<row, request, hist>>

\* A renewal fails or is paid after all.  For the latter Stripe sends
\* invoice.paid as well.
Renew(s) ==
  /\ \/ /\ stripe[s] = "active"
        /\ stripe' = [stripe EXCEPT ![s] = "past_due"]
        /\ Send(Message1("updated", s, "past_due"))
     \/ /\ stripe[s] = "past_due"
        /\ stripe' = [stripe EXCEPT ![s] = "active"]
        /\ Send(Message1("invoice.paid", s, "active") \o Message1("updated", s, "active"))
  /\ UNCHANGED <<row, request, open, hist>>

Cancel(s) ==
  /\ stripe[s] \in {"active", "past_due"}
  /\ stripe' = [stripe EXCEPT ![s] = "canceled"]
  /\ Send(Message1("deleted", s, "canceled"))
  /\ UNCHANGED <<row, request, open, hist>>

-----------------------------------------------------------------------------
(***************************************************************************)
(* The webhook.                                                            *)
(***************************************************************************)
\* mutant: the plan of a subscription that is behind is kept
PlanOfAny(status) == "pro"

PlanOf(status) == IF status = "active" THEN "pro" ELSE "free"

\* mutant: the event's subscription is not recorded
ApplyCompletedWithoutId(m) == UpsertSubscription(NoSub, "active", "pro")

\* handleCheckoutCompleted: "active" and "pro" whatever happened since.
ApplyCompleted(m) == UpsertSubscription(m.sub, "active", "pro")

\* handleSubscriptionUpdated on a subscription.
ApplyUpdated(m) == UpdateSubscriptionStatus(m.sub, m.status, PlanOf(m.status))

\* handleSubscriptionUpdated on an invoice: its id is the invoice's, which is
\* no stripe_subscription_id, and the UPDATE matches no row.
ApplyInvoice(m) == UNCHANGED row

Apply(m) ==
  CASE m.type = "completed"    -> ApplyCompleted(m)
    [] m.type = "updated"      -> ApplyUpdated(m)
    [] m.type = "deleted"      -> CancelSubscription(m.sub)
    [] m.type = "invoice.paid" -> ApplyInvoice(m)

RemoveAt(seq, i) == SubSeq(seq, 1, i - 1) \o SubSeq(seq, i + 1, Len(seq))

\* Webhook: the i-th event arrives and is applied.  If it is delivered twice
\* it stays under way.
Webhook(i) ==
  LET m == events[i]
  IN  /\ i = 1 \/ "reorder" \in Faults
      /\ \/ events' = RemoveAt(events, i)
         \/ "duplicate" \in Faults /\ UNCHANGED events
      /\ \/ /\ Apply(m)
            /\ paid' = IF m.type = "completed" THEN paid \cup {m.sub} ELSE paid
            /\ UNCHANGED dropped
         \/ /\ DbFails
            /\ dropped' = dropped \cup {m.sub}
            /\ UNCHANGED <<row, paid>>
      /\ disordered' = IF \E j \in 1 .. i - 1 : events[j].sub = m.sub
                         THEN disordered \cup {m.sub} ELSE disordered
      /\ UNCHANGED <<request, stripe, open, raced>>

-----------------------------------------------------------------------------
Next ==
  \/ \E r \in Request :
       \/ ReadSubscription(r) \/ SaveIncomplete(r)
       \/ NewSession(r) \/ StripeRefuses(r)
  \/ \E s \in Sub : Pay(s) \/ Renew(s) \/ Cancel(s)
  \/ \E i \in 1 .. Len(events) : Webhook(i)

Spec == Init /\ [][Next]_vars

-----------------------------------------------------------------------------
\* The variables have their types; a subscription in the row, or with an event,
\* exists at Stripe; a row without a subscription is absent or incomplete.
TypeOK ==
  /\ row \in Row
  /\ request \in [Request -> Place]
  /\ stripe \in [Sub -> {"none"} \cup StripeStatus]
  /\ open \in 0 .. MaxOpen
  /\ events \in Seq(Message) /\ Len(events) <= MaxQueue
  /\ paid \subseteq Sub
  /\ raced \subseteq {"checkout", "upsert"}
  /\ disordered \subseteq Sub
  /\ dropped \subseteq Sub
  /\ row.sub # NoSub => stripe[row.sub] # "none"
  /\ row.sub = NoSub <=> row.status \in {"none", "incomplete"}
  /\ \A i \in 1 .. Len(events) : stripe[events[i].sub] # "none"

UnderWay(s) == \E i \in 1 .. Len(events) : events[i].sub = s

\* A paid subscription is not forgotten: once a completed checkout was
\* applied, the row names such a subscription, unless a call that found no
\* row yet overwrites it.
PaidIsRemembered == paid # {} /\ raced = {} => row.sub \in paid

\* Once all its events were applied, the row has the status that the
\* subscription has at Stripe, unless events came in another order or the
\* statement of one failed.
AgreesWithStripe ==
  \A s \in Sub :
    row.sub = s /\ ~ UnderWay(s) /\ s \notin disordered \cup dropped
      => row.status = stripe[s]

\* RequirePlan lets a request for minPlan "pro" pass: it looks at the plan only.
RequirePlanPro == row.plan \in {"pro", "enterprise"}

\* The plan gate follows Stripe: once all events of its subscription were
\* applied, an organization passes if the subscription is active at Stripe and
\* does not if it is behind, unless events came in another order (a completed
\* applied late makes the row active again) or the statement of one failed.
\* Nothing is said of a canceled subscription: CancelSubscription keeps the plan,
\* and the gate does not look at the status.
GateFollowsStripe ==
  \A s \in Sub :
    row.sub = s /\ ~ UnderWay(s) /\ s \notin disordered \cup dropped
      => /\ stripe[s] = "active" => RequirePlanPro
         /\ stripe[s] = "past_due" => ~ RequirePlanPro

=============================================================================
