---------------------------- MODULE BillingProofs ----------------------------
(***************************************************************************)
(* Proofs about Billing, for every number of subscriptions and concurrent  *)
(* checkouts, every bound on the sessions and the events under way, and    *)
(* every set of faults: a paid subscription is remembered, and the row and *)
(* the plan gate agree with Stripe once the events have arrived in order.  *)
(***************************************************************************)
EXTENDS Billing, SequenceTheorems, TLAPS

-----------------------------------------------------------------------------
(***************************************************************************)
(* The queue of events.                                                    *)
(***************************************************************************)
\* Where the elements are after one was removed.
LEMMA RemoveAtEffect ==
  ASSUME NEW S, NEW seq \in Seq(S), NEW i \in 1 .. Len(seq)
  PROVE  /\ RemoveAt(seq, i) \in Seq(S)
         /\ Len(RemoveAt(seq, i)) = Len(seq) - 1
         /\ \A j \in 1 .. i - 1 : RemoveAt(seq, i)[j] = seq[j]
         /\ \A j \in i .. Len(seq) - 1 : RemoveAt(seq, i)[j] = seq[j + 1]
<1> DEFINE a == SubSeq(seq, 1, i - 1)
           b == SubSeq(seq, i + 1, Len(seq))
<1>1. a \in Seq(S) /\ Len(a) = i - 1 /\ \A j \in 1 .. i - 1 : a[j] = seq[j]
  BY SubSeqProperties
<1>2. b \in Seq(S) /\ Len(b) = Len(seq) - i /\ \A j \in 1 .. Len(seq) - i : b[j] = seq[j + i]
  BY SubSeqProperties
<1> HIDE DEF a, b
<1>3. /\ a \o b \in Seq(S) /\ Len(a \o b) = Len(seq) - 1
      /\ \A j \in 1 .. i - 1 : (a \o b)[j] = a[j]
      /\ \A j \in i .. Len(seq) - 1 : (a \o b)[j] = b[j - (i - 1)]
  <2>1. /\ a \o b \in Seq(S) /\ Len(a \o b) = Len(a) + Len(b)
        /\ \A j \in 1 .. Len(a) + Len(b) :
             (a \o b)[j] = IF j <= Len(a) THEN a[j] ELSE b[j - Len(a)]
    BY <1>1, <1>2, ConcatProperties
  <2>2. Len(a) = i - 1 /\ Len(a) + Len(b) = Len(seq) - 1
    BY <1>1, <1>2
  <2>3. ASSUME NEW j \in 1 .. i - 1 PROVE (a \o b)[j] = a[j]
    BY <2>1, <2>2, <2>3
  <2>4. ASSUME NEW j \in i .. Len(seq) - 1 PROVE (a \o b)[j] = b[j - (i - 1)]
    BY <2>1, <2>2, <2>4
  <2> QED
    BY <2>1, <2>2, <2>3, <2>4
<1>4. ASSUME NEW j \in i .. Len(seq) - 1 PROVE b[j - (i - 1)] = seq[j + 1]
  BY <1>2, <1>4
<1> QED
  BY <1>1, <1>3, <1>4 DEF RemoveAt, a, b

\* The messages of a completed checkout and of a deletion have the status these
\* leave the subscription in.
WellFormed(m) == /\ m.type = "completed" => m.status = "active"
                 /\ m.type = "deleted" => m.status = "canceled"

\* Stripe changes a subscription and sends its events; the last of them is
\* about the subscription itself, and tells its status.
Sends(s, status) ==
  /\ stripe' = [stripe EXCEPT ![s] = status]
  /\ events' \in Seq(Message) /\ Len(events) < Len(events') /\ Len(events') <= MaxQueue
  /\ \A i \in 1 .. Len(events) : events'[i] = events[i]
  /\ \A i \in Len(events) + 1 .. Len(events') : events'[i].sub = s /\ WellFormed(events'[i])
  /\ events'[Len(events')].type # "invoice.paid" /\ events'[Len(events')].status = status

LEMMA SendOne ==
  ASSUME events \in Seq(Message), NEW s \in Sub, NEW type \in EventType \ {"invoice.paid"},
         NEW status \in StripeStatus, Send(Message1(type, s, status)),
         stripe' = [stripe EXCEPT ![s] = status],
         type = "completed" => status = "active", type = "deleted" => status = "canceled"
  PROVE  Sends(s, status)
<1> DEFINE m == [type |-> type, sub |-> s, status |-> status]
<1>1. m \in Message /\ m.type = type /\ m.sub = s /\ m.status = status
  BY DEF Message
<1>2. events' = events \o <<m>> /\ Len(events) + Len(<<m>>) <= MaxQueue
  BY DEF Send, Message1
<1> HIDE DEF m
<1>3. /\ events' \in Seq(Message) /\ Len(events') = Len(events) + 1 /\ Len(events') <= MaxQueue
      /\ \A i \in 1 .. Len(events) : events'[i] = events[i]
      /\ events'[Len(events) + 1] = m
  BY <1>1, <1>2
<1> QED
  BY <1>1, <1>3 DEF Sends, WellFormed

LEMMA SendTwo ==
  ASSUME events \in Seq(Message), NEW s \in Sub,
         Send(Message1("invoice.paid", s, "active") \o Message1("updated", s, "active")),
         stripe' = [stripe EXCEPT ![s] = "active"]
  PROVE  Sends(s, "active")
<1> DEFINE a == [type |-> "invoice.paid", sub |-> s, status |-> "active"]
           b == [type |-> "updated", sub |-> s, status |-> "active"]
<1>1. /\ a \in Message /\ a.type = "invoice.paid" /\ a.sub = s /\ a.status = "active"
      /\ b \in Message /\ b.type = "updated" /\ b.sub = s /\ b.status = "active"
  BY DEF Message, EventType, StripeStatus
<1>2. /\ events' = events \o (<<a>> \o <<b>>)
      /\ Len(events) + Len(<<a>> \o <<b>>) <= MaxQueue
  BY DEF Send, Message1
<1> HIDE DEF a, b
<1>3. /\ events' \in Seq(Message) /\ Len(events') = Len(events) + 2 /\ Len(events') <= MaxQueue
      /\ \A i \in 1 .. Len(events) : events'[i] = events[i]
      /\ events'[Len(events) + 1] = a /\ events'[Len(events) + 2] = b
  <2> DEFINE ab == <<a>> \o <<b>>
  <2>1. ab \in Seq(Message) /\ Len(ab) = 2 /\ ab[1] = a /\ ab[2] = b
    <3>1. <<a>> \in Seq(Message) /\ <<b>> \in Seq(Message) /\ Len(<<a>>) = 1 /\ Len(<<b>>) = 1
      BY <1>1
    <3> QED
      BY <3>1, ConcatProperties
  <2>2. events' = events \o ab /\ Len(events) + Len(ab) <= MaxQueue
    BY <1>2
  <2> HIDE DEF ab
  <2>3. /\ events' \in Seq(Message) /\ Len(events') = Len(events) + Len(ab)
        /\ \A i \in 1 .. Len(events) + Len(ab) :
             events'[i] = IF i <= Len(events) THEN events[i] ELSE ab[i - Len(events)]
    BY <2>1, <2>2, ConcatProperties
  <2>4. events'[Len(events) + 1] = ab[1] /\ events'[Len(events) + 2] = ab[2]
    BY <2>1, <2>3
  <2> QED
    BY <2>1, <2>2, <2>3, <2>4
<1>4. \A i \in Len(events) + 1 .. Len(events') : i = Len(events) + 1 \/ i = Len(events) + 2
  BY <1>3
<1> QED
  BY <1>1, <1>3, <1>4 DEF Sends, WellFormed

LEMMA StripeSends ==
  ASSUME events \in Seq(Message), NEW s \in Sub, Pay(s) \/ Renew(s) \/ Cancel(s)
  PROVE  \E status \in StripeStatus : Sends(s, status)
<1>1. CASE Pay(s)
  BY <1>1, SendOne DEF Pay, EventType, StripeStatus
<1>2. CASE Cancel(s)
  BY <1>2, SendOne DEF Cancel, EventType, StripeStatus
<1>3. CASE Renew(s)
  BY <1>3, SendOne, SendTwo DEF Renew, EventType, StripeStatus
<1> QED
  BY <1>1, <1>2, <1>3

\* What an event does to the row: it writes its own subscription or nothing.
LEMMA ApplyEffect ==
  ASSUME row \in Row, NEW m \in Message, Apply(m)
  PROVE  /\ row' \in Row
         /\ row'.sub # m.sub => row' = row
         /\ m.type # "completed" => row'.sub = row.sub
         /\ row' = row \/ (row'.sub = m.sub /\ row'.status \in StripeStatus)
         /\ m.type = "completed" => row'.sub = m.sub
         /\ WellFormed(m) /\ m.type # "invoice.paid" /\ row'.sub = m.sub
              => row'.status = m.status
<1>1. m.type \in EventType /\ m.sub \in Sub /\ m.status \in StripeStatus
  BY DEF Message
<1>2. CASE m.type = "completed"
  BY <1>1, <1>2 DEF Apply, ApplyCompleted, UpsertSubscription, Row, StripeStatus, WellFormed
<1>3. CASE m.type = "updated"
  BY <1>1, <1>3 DEF Apply, ApplyUpdated, UpdateSubscriptionStatus, PlanOf, Row, StripeStatus,
                    WellFormed
<1>4. CASE m.type = "deleted"
  BY <1>1, <1>4 DEF Apply, CancelSubscription, Row, StripeStatus, WellFormed
<1>5. CASE m.type = "invoice.paid"
  BY <1>1, <1>5 DEF Apply, ApplyInvoice
<1> QED
  BY <1>1, <1>2, <1>3, <1>4, <1>5 DEF EventType

\* An event arrives: it leaves the queue or stays, and what is under way after
\* it was before.
LEMMA WebhookEvents ==
  ASSUME events \in Seq(Message), NEW i \in 1 .. Len(events), Webhook(i)
  PROVE  /\ events[i] \in Message
         /\ events' \in Seq(Message) /\ Len(events') <= Len(events)
         /\ \A j \in 1 .. Len(events') : \E k \in 1 .. Len(events) : events'[j] = events[k]
<1>1. events[i] \in Message
  OBVIOUS
<1>2. CASE UNCHANGED events
  BY <1>1, <1>2
<1>3. CASE events' = RemoveAt(events, i)
  <2>1. /\ events' \in Seq(Message) /\ Len(events') = Len(events) - 1
        /\ \A j \in 1 .. i - 1 : events'[j] = events[j]
        /\ \A j \in i .. Len(events) - 1 : events'[j] = events[j + 1]
    BY <1>3, RemoveAtEffect
  <2>2. ASSUME NEW j \in 1 .. Len(events')
        PROVE  \E k \in 1 .. Len(events) : events'[j] = events[k]
    <3>1. CASE j < i
      BY <2>1, <3>1
    <3>2. CASE j >= i
      <4>1. j + 1 \in 1 .. Len(events) /\ events'[j] = events[j + 1]
        BY <2>1, <3>2
      <4> QED
        BY <4>1
    <3> QED
      BY <3>1, <3>2
  <2> QED
    BY <1>1, <2>1, <2>2
<1> QED
  BY <1>2, <1>3 DEF Webhook

-----------------------------------------------------------------------------
(***************************************************************************)
(* Types.  TypeOK is inductive; its parts are named here.                  *)
(***************************************************************************)
RowOK == row \in Row /\ (row.sub = NoSub <=> row.status \in {"none", "incomplete"})

StripeOK ==
  /\ stripe \in [Sub -> {"none"} \cup StripeStatus]
  /\ events \in Seq(Message) /\ Len(events) <= MaxQueue
  /\ row.sub # NoSub => stripe[row.sub] # "none"
  /\ \A i \in 1 .. Len(events) : stripe[events[i].sub] # "none"

RestOK ==
  /\ request \in [Request -> Place]
  /\ open \in 0 .. MaxOpen
  /\ paid \subseteq Sub
  /\ raced \subseteq {"checkout", "upsert"}
  /\ disordered \subseteq Sub
  /\ dropped \subseteq Sub

LEMMA TypeParts == TypeOK <=> RowOK /\ StripeOK /\ RestOK
  BY DEF TypeOK, RowOK, StripeOK, RestOK

LEMMA TypeInit == Init => TypeOK
<1> SUFFICES ASSUME Init PROVE RowOK /\ StripeOK /\ RestOK
  BY TypeParts
<1> USE BillingAssumption DEF Init
<1>1. RowOK
  BY DEF RowOK, Row
<1>2. StripeOK
  BY DEF StripeOK
<1>3. RestOK
  BY DEF RestOK, Place
<1> QED
  BY <1>1, <1>2, <1>3

LEMMA TypeStep == TypeOK /\ [Next]_vars => TypeOK'
<1> SUFFICES ASSUME RowOK, StripeOK, RestOK, [Next]_vars PROVE RowOK' /\ StripeOK' /\ RestOK'
  BY TypeParts DEF TypeOK, RowOK, StripeOK, RestOK
<1> USE BillingAssumption
<1>1. ASSUME NEW r \in Request, ReadSubscription(r) \/ NewSession(r) \/ StripeRefuses(r)
      PROVE  RowOK' /\ StripeOK' /\ RestOK'
  <2>1. UNCHANGED <<row, stripe, events, paid, disordered, dropped>>
    BY <1>1 DEF ReadSubscription, NewSession, StripeRefuses, hist
  <2>2. RowOK' /\ StripeOK'
    BY <2>1 DEF RowOK, StripeOK
  <2>3. request' \in [Request -> Place]
    BY <1>1 DEF ReadSubscription, NewSession, StripeRefuses, Move, RestOK, Place
  <2>4. open' \in 0 .. MaxOpen
    BY <1>1 DEF ReadSubscription, NewSession, StripeRefuses, RestOK
  <2>5. raced' \subseteq {"checkout", "upsert"}
    BY <1>1 DEF ReadSubscription, NewSession, StripeRefuses, hist, RestOK
  <2> QED
    BY <2>1, <2>2, <2>3, <2>4, <2>5 DEF RestOK
<1>2. ASSUME NEW r \in Request, SaveIncomplete(r) PROVE RowOK' /\ StripeOK' /\ RestOK'
  <2>1. UNCHANGED <<stripe, open, events, paid, disordered, dropped>>
    BY <1>2 DEF SaveIncomplete
  <2>2. request' \in [Request -> Place]
    BY <1>2 DEF SaveIncomplete, Move, RestOK, Place
  <2>3. raced' \subseteq {"checkout", "upsert"}
    BY <1>2 DEF SaveIncomplete, RestOK
  <2>4. CASE UNCHANGED row
    BY <2>1, <2>2, <2>3, <2>4 DEF RowOK, StripeOK, RestOK
  <2>5. CASE UpsertSubscription(NoSub, "incomplete", "free")
    <3>1. RowOK' /\ row'.sub = NoSub
      BY <2>5 DEF UpsertSubscription, RowOK, Row
    <3> QED
      BY <2>1, <2>2, <2>3, <3>1 DEF StripeOK, RestOK
  <2> QED
    BY <1>2, <2>4, <2>5 DEF SaveIncomplete
<1>3. ASSUME NEW s \in Sub, Pay(s) \/ Renew(s) \/ Cancel(s)
      PROVE  RowOK' /\ StripeOK' /\ RestOK'
  <2>1. UNCHANGED <<row, request, paid, raced, disordered, dropped>> /\ open' \in 0 .. MaxOpen
    BY <1>3 DEF Pay, Renew, Cancel, hist, RestOK
  <2>2. PICK status \in StripeStatus : Sends(s, status)
    BY <1>3, StripeSends DEF StripeOK
  <2>3. stripe' \in [Sub -> {"none"} \cup StripeStatus]
        /\ \A t \in Sub : stripe[t] # "none" \/ t = s => stripe'[t] # "none"
    BY <2>2 DEF Sends, StripeOK, StripeStatus
  <2>4. ASSUME NEW i \in 1 .. Len(events') PROVE stripe'[events'[i].sub] # "none"
    <3>1. CASE i \in 1 .. Len(events)
      <4>1. events'[i] = events[i]
        BY <2>2, <3>1 DEF Sends
      <4>2. events[i] \in Message
        BY <3>1 DEF StripeOK
      <4> QED
        BY <2>3, <3>1, <4>1, <4>2 DEF StripeOK, Message
    <3>2. CASE i \in Len(events) + 1 .. Len(events')
      BY <2>2, <2>3, <3>2 DEF Sends
    <3>3. Len(events) \in Nat /\ Len(events') \in Nat
      BY <2>2 DEF Sends, StripeOK
    <3> QED
      BY <3>1, <3>2, <3>3
  <2>5. row.sub # NoSub => stripe'[row.sub] # "none"
    BY <2>3 DEF StripeOK, RowOK, Row
  <2> QED
    BY <2>1, <2>2, <2>3, <2>4, <2>5 DEF RowOK, StripeOK, RestOK, Sends
<1>4. ASSUME NEW i \in 1 .. Len(events), Webhook(i) PROVE RowOK' /\ StripeOK' /\ RestOK'
  <2> DEFINE m == events[i]
  <2>1. /\ m \in Message /\ events' \in Seq(Message) /\ Len(events') <= Len(events)
        /\ \A j \in 1 .. Len(events') : \E k \in 1 .. Len(events) : events'[j] = events[k]
    BY <1>4, WebhookEvents DEF StripeOK
  <2>2. m.sub \in Sub /\ stripe[m.sub] # "none" /\ Len(events') <= MaxQueue
    BY <2>1 DEF Message, StripeOK
  <2>3. UNCHANGED <<request, stripe, open, raced>>
    BY <1>4 DEF Webhook
  <2>4. /\ Apply(m) \/ row' = row
        /\ paid' \in {paid, paid \cup {m.sub}}
        /\ dropped' \in {dropped, dropped \cup {m.sub}}
        /\ disordered' \in {disordered, disordered \cup {m.sub}}
    BY <1>4 DEF Webhook
  <2> HIDE DEF m
  <2>5. RowOK' /\ (row'.sub # NoSub => stripe[row'.sub] # "none")
    <3>1. CASE row' = row
      BY <3>1 DEF RowOK, StripeOK
    <3>2. CASE Apply(m)
      BY <2>1, <2>2, <3>2, ApplyEffect DEF RowOK, StripeOK, StripeStatus
    <3> QED
      BY <2>4, <3>1, <3>2
  <2>6. RestOK'
    BY <2>2, <2>3, <2>4 DEF RestOK
  <2>7. StripeOK'
    BY <2>1, <2>2, <2>3, <2>5 DEF StripeOK
  <2> QED
    BY <2>5, <2>6, <2>7
<1>5. CASE UNCHANGED vars
  BY <1>5 DEF vars, RowOK, StripeOK, RestOK
<1> QED
  BY <1>1, <1>2, <1>3, <1>4, <1>5 DEF Next

\* The variables keep their types: the row and every event are about a
\* subscription that exists at Stripe, whatever is lost, repeated or reordered.
THEOREM TypeCorrect == Spec => []TypeOK
  BY TypeInit, TypeStep, PTL DEF Spec

-----------------------------------------------------------------------------
(***************************************************************************)
(* The plan gate looks at the plan, and AgreesWithStripe is about the      *)
(* status.  What relates them is that a statement that writes the status   *)
(* writes the plan with it, but for CancelSubscription.                    *)
(***************************************************************************)
PlanWithStatus ==
  /\ row.status = "active" => row.plan = "pro"
  /\ row.status \in {"none", "incomplete", "past_due"} => row.plan = "free"

LEMMA PlanInit == Init => PlanWithStatus
  BY DEF Init, PlanWithStatus

LEMMA PlanStep == TypeOK /\ PlanWithStatus /\ [Next]_vars => PlanWithStatus'
<1> SUFFICES ASSUME TypeOK, PlanWithStatus, [Next]_vars PROVE PlanWithStatus'
  OBVIOUS
<1> USE DEF PlanWithStatus
<1>1. CASE UNCHANGED row
  BY <1>1
<1>2. ASSUME NEW r \in Request, SaveIncomplete(r) PROVE PlanWithStatus'
  BY <1>1, <1>2 DEF SaveIncomplete, UpsertSubscription
<1>3. ASSUME NEW i \in 1 .. Len(events), Webhook(i) PROVE PlanWithStatus'
  <2> DEFINE m == events[i]
  <2>1. m \in Message
    BY DEF TypeOK
  <2> HIDE DEF m
  <2>2. CASE Apply(m)
    <3>1. CASE m.type = "completed"
      BY <2>2, <3>1 DEF Apply, ApplyCompleted, UpsertSubscription
    <3>2. CASE m.type = "updated"
      BY <2>2, <3>2 DEF Apply, ApplyUpdated, UpdateSubscriptionStatus, PlanOf
    <3>3. CASE m.type = "deleted"
      BY <2>2, <3>3 DEF Apply, CancelSubscription
    <3>4. CASE m.type = "invoice.paid"
      BY <2>2, <3>4 DEF Apply, ApplyInvoice
    <3> QED
      BY <2>1, <3>1, <3>2, <3>3, <3>4 DEF Message, EventType
  <2> QED
    BY <1>1, <1>3, <2>2 DEF Webhook, m
<1> QED
  BY <1>1, <1>2, <1>3 DEF Next, ReadSubscription, NewSession, StripeRefuses, Pay, Renew, Cancel,
                          hist, vars

-----------------------------------------------------------------------------
(***************************************************************************)
(* The paid subscription.  While no two calls have found no row and no     *)
(* first save has failed, at most one call is about to write the row, and  *)
(* until it does no session was opened and nothing was paid.               *)
(***************************************************************************)
Unsold == /\ open = 0 /\ paid = {}
          /\ \A r \in Request : request[r] # "session"
          /\ \A s \in Sub : stripe[s] = "none"

OneBuyer ==
  /\ row.status = "none" => Unsold
  /\ \A r \in Request : request[r] = "upsert" => row.status = "none"
  /\ \A q, r \in Request : request[q] = "upsert" /\ request[r] = "upsert" => q = r
  /\ paid # {} => row.sub \in paid

PaidInv == raced = {} => OneBuyer

LEMMA PaidInit == Init => PaidInv
  BY DEF Init, PaidInv, OneBuyer, Unsold

LEMMA PaidStep == TypeOK /\ PaidInv /\ [Next]_vars => PaidInv'
<1> SUFFICES ASSUME TypeOK, PaidInv, [Next]_vars, raced' = {}
             PROVE  OneBuyer'
  BY DEF PaidInv
<1>0. raced = {} /\ request \in [Request -> Place] /\ stripe \in [Sub -> {"none"} \cup StripeStatus]
  BY DEF Next, ReadSubscription, SaveIncomplete, NewSession, StripeRefuses, Pay, Renew, Cancel,
         Webhook, hist, vars, TypeOK
<1> USE <1>0 DEF PaidInv, OneBuyer
<1>1. ASSUME NEW r \in Request, ReadSubscription(r)
      PROVE  OneBuyer'
  <2>1. UNCHANGED <<row, stripe, open, paid>>
    BY <1>1 DEF ReadSubscription
  <2>2. CASE row.status = "none" /\ Move(r, "upsert")
    <3>1. \A q \in Request : request[q] # "upsert"
      BY <1>1, <2>2 DEF ReadSubscription
    <3>2. /\ request'[r] = "upsert"
          /\ \A q \in Request \ {r} : request'[q] = request[q]
      BY <2>2 DEF Move
    <3> QED
      BY <2>1, <2>2, <3>1, <3>2 DEF Unsold
  <2>3. CASE row.status # "none" /\ Move(r, "session")
    <3>1. /\ request'[r] = "session"
          /\ \A q \in Request \ {r} : request'[q] = request[q]
      BY <2>3 DEF Move
    <3> QED
      BY <2>1, <2>3, <3>1
  <2> QED
    BY <1>1, <2>2, <2>3 DEF ReadSubscription
<1>2. ASSUME NEW r \in Request, SaveIncomplete(r)
      PROVE  OneBuyer'
  <2>1. UpsertSubscription(NoSub, "incomplete", "free") /\ UNCHANGED paid
    BY <1>2 DEF SaveIncomplete
  <2>2. request[r] = "upsert" /\ row.status = "none" /\ paid = {}
    BY <1>2 DEF SaveIncomplete, Unsold
  <2>3. /\ request'[r] = "session"
        /\ \A q \in Request \ {r} : request'[q] = request[q]
    BY <1>2 DEF SaveIncomplete, Move
  <2>4. \A q \in Request : request'[q] # "upsert"
    BY <2>2, <2>3
  <2>5. row'.status = "incomplete"
    BY <2>1 DEF UpsertSubscription
  <2> QED
    BY <2>1, <2>2, <2>4, <2>5
<1>3. ASSUME NEW r \in Request, NewSession(r) \/ StripeRefuses(r)
      PROVE  OneBuyer'
  <2>1. UNCHANGED <<row, stripe, paid>> /\ (open' = open \/ request[r] = "session")
    BY <1>3 DEF NewSession, StripeRefuses, hist
  <2>2. /\ request'[r] = "idle"
        /\ \A q \in Request \ {r} : request'[q] = request[q]
    BY <1>3 DEF NewSession, StripeRefuses, Move
  <2> QED
    BY <2>1, <2>2 DEF Unsold
<1>4. ASSUME NEW s \in Sub, Pay(s) \/ Renew(s) \/ Cancel(s)
      PROVE  OneBuyer'
  <2>1. UNCHANGED <<row, request, paid>>
    BY <1>4 DEF Pay, Renew, Cancel, hist
  <2>2. open # 0 \/ stripe[s] # "none"
    BY <1>4 DEF Pay, Renew, Cancel
  <2> QED
    BY <2>1, <2>2 DEF Unsold
<1>5. ASSUME NEW i \in 1 .. Len(events), Webhook(i)
      PROVE  OneBuyer'
  <2> DEFINE m == events[i]
  <2>1. m \in Message /\ m.sub \in Sub /\ stripe[m.sub] # "none"
    <3>1. m \in Message /\ stripe[m.sub] # "none"
      BY DEF TypeOK
    <3> QED
      BY <3>1 DEF Message
  <2>2. row.status # "none" /\ UNCHANGED request
    BY <1>5, <2>1 DEF Webhook, Unsold
  <2> HIDE DEF m
  <2>3. CASE UNCHANGED <<row, paid>>
    BY <2>2, <2>3
  <2>4. CASE Apply(m) /\ paid' = IF m.type = "completed" THEN paid \cup {m.sub} ELSE paid
    <3>1. /\ row' = row \/ row'.status \in StripeStatus
          /\ m.type # "completed" => row'.sub = row.sub
          /\ m.type = "completed" => row'.sub = m.sub
      BY <2>1, <2>4, ApplyEffect DEF TypeOK
    <3>2. row'.status # "none"
      BY <2>2, <3>1 DEF StripeStatus
    <3>3. paid' # {} => row'.sub \in paid'
      BY <2>4, <3>1
    <3> QED
      BY <2>2, <3>2, <3>3
  <2> QED
    BY <1>5, <2>3, <2>4 DEF Webhook, m
<1>6. CASE UNCHANGED vars
  BY <1>6 DEF vars, Unsold
<1> QED
  BY <1>1, <1>2, <1>3, <1>4, <1>5, <1>6 DEF Next

\* The row names a subscription that was paid once a checkout.session.completed
\* was applied, unless two calls of CreateCheckoutSession found no row or the
\* save of the first failed, for any number of calls, sessions and events.
THEOREM PaidStaysRemembered == Spec => []PaidIsRemembered
<1>1. TypeOK /\ PaidInv /\ [Next]_vars => (TypeOK /\ PaidInv)'
  BY TypeStep, PaidStep
<1>2. PaidInv => PaidIsRemembered
  BY DEF PaidInv, OneBuyer, PaidIsRemembered
<1> QED
  BY <1>1, <1>2, TypeInit, PaidInit, PTL DEF Spec

-----------------------------------------------------------------------------
(***************************************************************************)
(* The row and Stripe.  AgreesWithStripe speaks of a subscription with no  *)
(* event under way.  Until then its last event tells its status: Told adds *)
(* that.  It is lost only when an event overtakes an earlier one, and an   *)
(* event that is applied when no other of its subscription is under way    *)
(* leaves the row with the status it tells.                                *)
(***************************************************************************)
IsLast(i, s) == /\ events[i].sub = s
                /\ \A j \in i + 1 .. Len(events) : events[j].sub # s

Told(s) ==
  s \notin disordered =>
    \A i \in 1 .. Len(events) :
      IsLast(i, s) => events[i].type # "invoice.paid" /\ events[i].status = stripe[s]

Agrees(s) ==
  row.sub = s /\ ~ UnderWay(s) /\ s \notin disordered \cup dropped => row.status = stripe[s]

AgreeInv ==
  /\ \A i \in 1 .. Len(events) : WellFormed(events[i])
  /\ \A s \in Sub : Told(s) /\ Agrees(s)

LEMMA AgreeInit == Init => AgreeInv
  BY BillingAssumption DEF Init, AgreeInv, Told, Agrees

\* Only requests change, or the row is written without a subscription.
LEMMA AgreeKept ==
  ASSUME AgreeInv, UNCHANGED <<stripe, events, disordered, dropped>>,
         UNCHANGED row \/ row'.sub = NoSub
  PROVE  AgreeInv'
  BY BillingAssumption DEF AgreeInv, Told, Agrees, IsLast, UnderWay

\* Stripe sends: the last event of the subscription is the new one, and the
\* others keep theirs.
LEMMA AgreeSends ==
  ASSUME TypeOK, AgreeInv, NEW s \in Sub, NEW status \in StripeStatus, Sends(s, status),
         UNCHANGED <<row, disordered, dropped>>
  PROVE  AgreeInv'
<1>1. /\ Len(events) \in Nat /\ Len(events') \in Nat /\ Len(events) < Len(events')
      /\ \A i \in 1 .. Len(events) : events'[i] = events[i]
      /\ \A i \in Len(events) + 1 .. Len(events') :
           events'[i].sub = s /\ WellFormed(events'[i])
      /\ events'[Len(events')].type # "invoice.paid" /\ events'[Len(events')].status = status
  BY DEF Sends, TypeOK
<1>2. stripe'[s] = status /\ \A t \in Sub \ {s} : stripe'[t] = stripe[t]
  BY DEF Sends, TypeOK
<1>3. \A i \in 1 .. Len(events') : i \in 1 .. Len(events) \/ i \in Len(events) + 1 .. Len(events')
  BY <1>1
<1>4. ASSUME NEW i \in 1 .. Len(events') PROVE WellFormed(events'[i])
  BY <1>1, <1>3 DEF AgreeInv
<1>5. Told(s)' /\ Agrees(s)'
  <2>1. events'[Len(events')].sub = s /\ Len(events') \in 1 .. Len(events')
    BY <1>1
  <2>2. ASSUME NEW i \in 1 .. Len(events'), IsLast(i, s)' PROVE i = Len(events')
    BY <1>1, <2>1, <2>2 DEF IsLast
  <2>3. Told(s)'
    BY <1>1, <1>2, <2>2 DEF Told
  <2>4. UnderWay(s)'
    BY <2>1 DEF UnderWay
  <2> QED
    BY <2>3, <2>4 DEF Agrees
<1>6. ASSUME NEW t \in Sub \ {s} PROVE Told(t)' /\ Agrees(t)'
  <2>1. \A i \in 1 .. Len(events') : events'[i].sub = t => i \in 1 .. Len(events)
    BY <1>1, <1>3
  <2>2. ASSUME NEW i \in 1 .. Len(events'), IsLast(i, t)'
        PROVE  i \in 1 .. Len(events) /\ IsLast(i, t)
    <3>1. i \in 1 .. Len(events) /\ events[i].sub = t
      BY <1>1, <2>1, <2>2 DEF IsLast
    <3>2. ASSUME NEW j \in i + 1 .. Len(events) PROVE events[j].sub # t
      <4>1. j \in i + 1 .. Len(events') /\ j \in 1 .. Len(events)
        BY <1>1, <3>1
      <4> QED
        BY <1>1, <2>2, <4>1 DEF IsLast
    <3> QED
      BY <3>1, <3>2 DEF IsLast
  <2>3. Told(t)'
    BY <1>1, <1>2, <2>2 DEF Told, AgreeInv
  <2>4. UnderWay(t) => UnderWay(t)'
    BY <1>1 DEF UnderWay
  <2>5. Agrees(t)'
    BY <1>2, <2>4 DEF Agrees, AgreeInv
  <2> QED
    BY <2>3, <2>5
<1> QED
  BY <1>4, <1>5, <1>6 DEF AgreeInv

\* Where an event that is still under way was before another was removed, and
\* where one that was under way is now.
Before(i, k) == IF k < i THEN k ELSE k + 1

LEMMA RemovedEvents ==
  ASSUME events \in Seq(Message), NEW i \in 1 .. Len(events), events' = RemoveAt(events, i)
  PROVE  /\ Len(events) \in Nat /\ Len(events') = Len(events) - 1
         /\ \A k \in 1 .. Len(events') : /\ Before(i, k) \in 1 .. Len(events) \ {i}
                                         /\ events'[k] = events[Before(i, k)]
         /\ \A j \in 1 .. Len(events) \ {i} : \E k \in 1 .. Len(events') : Before(i, k) = j
<1>1. /\ Len(events) \in Nat /\ Len(events') = Len(events) - 1
      /\ \A j \in 1 .. i - 1 : events'[j] = events[j]
      /\ \A j \in i .. Len(events) - 1 : events'[j] = events[j + 1]
  BY RemoveAtEffect
<1>2. ASSUME NEW k \in 1 .. Len(events')
      PROVE  Before(i, k) \in 1 .. Len(events) \ {i} /\ events'[k] = events[Before(i, k)]
  <2>1. CASE k < i
    BY <1>1, <2>1 DEF Before
  <2>2. CASE k >= i
    BY <1>1, <2>2 DEF Before
  <2> QED
    BY <1>1, <2>1, <2>2
<1>3. ASSUME NEW j \in 1 .. Len(events) \ {i}
      PROVE  \E k \in 1 .. Len(events') : Before(i, k) = j
  <2>1. CASE j < i
    BY <1>1, <2>1 DEF Before
  <2>2. CASE j > i
    <3>1. j - 1 \in 1 .. Len(events') /\ Before(i, j - 1) = j
      BY <1>1, <2>2 DEF Before
    <3> QED
      BY <3>1
  <2> QED
    BY <1>1, <2>1, <2>2
<1> QED
  BY <1>1, <1>2, <1>3

LEMMA AgreeWebhook ==
  ASSUME TypeOK, AgreeInv, NEW i \in 1 .. Len(events), Webhook(i)
  PROVE  AgreeInv'
<1> DEFINE m == events[i]
<1>0. events \in Seq(Message) /\ m \in Message /\ m.sub \in Sub /\ WellFormed(m)
  <2>1. events \in Seq(Message)
    BY DEF TypeOK
  <2>2. m \in Message
    BY <2>1
  <2>3. WellFormed(m)
    BY DEF AgreeInv
  <2> QED
    BY <2>1, <2>2, <2>3 DEF Message
<1>1. /\ UNCHANGED stripe
      /\ disordered' = IF \E j \in 1 .. i - 1 : events[j].sub = m.sub
                         THEN disordered \cup {m.sub} ELSE disordered
      /\ \/ Apply(m) /\ UNCHANGED dropped
         \/ dropped' = dropped \cup {m.sub} /\ UNCHANGED row
  BY DEF Webhook
<1> HIDE DEF m
<1>2. \A s \in Sub \ {m.sub} : row'.sub = s => row' = row
  BY <1>0, <1>1, ApplyEffect DEF TypeOK
<1>3. CASE UNCHANGED events
  <2>1. ASSUME NEW s \in Sub PROVE Told(s)'
    BY <1>1, <1>3 DEF AgreeInv, Told, IsLast
  <2>2. ASSUME NEW s \in Sub, s = m.sub PROVE UnderWay(s)'
    BY <1>3, <2>2 DEF UnderWay, m
  <2>3. ASSUME NEW s \in Sub PROVE Agrees(s)'
    <3>1. CASE s = m.sub
      BY <2>2, <3>1 DEF Agrees
    <3>2. CASE s # m.sub
      <4>1. UnderWay(s)' <=> UnderWay(s)
        BY <1>3 DEF UnderWay
      <4>2. row'.sub = s => row' = row
        BY <1>2, <3>2
      <4>3. disordered \subseteq disordered' /\ dropped \subseteq dropped'
        BY <1>1
      <4> QED
        BY <1>1, <4>1, <4>2, <4>3 DEF AgreeInv, Agrees
    <3> QED
      BY <3>1, <3>2
  <2> QED
    BY <1>3, <2>1, <2>3 DEF AgreeInv
<1>4. CASE events' = RemoveAt(events, i)
  <2>1. /\ Len(events) \in Nat /\ Len(events') = Len(events) - 1
        /\ \A k \in 1 .. Len(events') : /\ Before(i, k) \in 1 .. Len(events) \ {i}
                                        /\ events'[k] = events[Before(i, k)]
        /\ \A j \in 1 .. Len(events) \ {i} : \E k \in 1 .. Len(events') : Before(i, k) = j
    BY <1>0, <1>4, RemovedEvents
  <2>2. \A k \in 1 .. Len(events') : WellFormed(events'[k])
    BY <2>1 DEF AgreeInv
  <2>3. ASSUME NEW s \in Sub PROVE Told(s)'
    <3> SUFFICES ASSUME s \notin disordered', NEW k \in 1 .. Len(events'), IsLast(k, s)'
                 PROVE  events'[k].type # "invoice.paid" /\ events'[k].status = stripe'[s]
      BY DEF Told
    <3>1. /\ Before(i, k) \in 1 .. Len(events) \ {i} /\ events'[k] = events[Before(i, k)]
          /\ events[Before(i, k)].sub = s
      BY <2>1 DEF IsLast
    <3>2. ASSUME NEW j \in Before(i, k) + 1 .. Len(events) PROVE events[j].sub # s
      <4>1. CASE j = i
        <5>1. Before(i, k) \in 1 .. i - 1
          BY <2>1, <3>1, <3>2, <4>1
        <5> QED
          BY <1>1, <3>1, <4>1, <5>1 DEF m
      <4>2. CASE j # i
        <5>1. PICK l \in 1 .. Len(events') : Before(i, l) = j
          BY <2>1, <3>1, <3>2, <4>2
        <5>2. l \in k + 1 .. Len(events')
          BY <2>1, <3>2, <5>1 DEF Before
        <5> QED
          BY <2>1, <5>1, <5>2 DEF IsLast
      <4> QED
        BY <4>1, <4>2
    <3>3. IsLast(Before(i, k), s)
      BY <3>1, <3>2 DEF IsLast
    <3> QED
      BY <1>1, <3>1, <3>3 DEF AgreeInv, Told
  <2>4. ASSUME NEW s \in Sub PROVE Agrees(s)'
    <3> SUFFICES ASSUME row'.sub = s, ~ UnderWay(s)', s \notin disordered' \cup dropped'
                 PROVE  row'.status = stripe'[s]
      BY DEF Agrees
    <3>1. \A j \in 1 .. Len(events) \ {i} : events[j].sub # s
      BY <2>1 DEF UnderWay
    <3>2. CASE s # m.sub
      <4>1. ~ UnderWay(s)
        BY <3>1, <3>2 DEF UnderWay, m
      <4> QED
        BY <1>1, <1>2, <3>2, <4>1 DEF AgreeInv, Agrees
    <3>3. CASE s = m.sub
      <4>1. IsLast(i, s)
        <5>1. ASSUME NEW j \in i + 1 .. Len(events) PROVE events[j].sub # s
          <6>1. j \in 1 .. Len(events) \ {i}
            BY <2>1, <5>1
          <6> QED
            BY <3>1, <6>1
        <5> QED
          BY <3>3, <5>1 DEF IsLast, m
      <4>2. m.type # "invoice.paid" /\ m.status = stripe[s]
        BY <1>1, <4>1 DEF AgreeInv, Told, m
      <4>3. Apply(m)
        BY <1>1, <3>3
      <4> QED
        BY <1>0, <1>1, <3>3, <4>2, <4>3, ApplyEffect DEF TypeOK
    <3> QED
      BY <3>2, <3>3
  <2> QED
    BY <2>2, <2>3, <2>4 DEF AgreeInv
<1> QED
  BY <1>3, <1>4 DEF Webhook

LEMMA AgreeStep == TypeOK /\ AgreeInv /\ [Next]_vars => AgreeInv'
<1> SUFFICES ASSUME TypeOK, AgreeInv, [Next]_vars PROVE AgreeInv'
  OBVIOUS
<1>1. ASSUME NEW r \in Request,
             ReadSubscription(r) \/ SaveIncomplete(r) \/ NewSession(r) \/ StripeRefuses(r)
      PROVE  AgreeInv'
  <2>1. UNCHANGED <<stripe, events, disordered, dropped>> /\ (UNCHANGED row \/ row'.sub = NoSub)
    BY <1>1 DEF ReadSubscription, SaveIncomplete, NewSession, StripeRefuses, UpsertSubscription,
                hist
  <2> QED
    BY <2>1, AgreeKept
<1>2. ASSUME NEW s \in Sub, Pay(s) \/ Renew(s) \/ Cancel(s) PROVE AgreeInv'
  <2>1. PICK status \in StripeStatus : Sends(s, status)
    BY <1>2, StripeSends DEF TypeOK
  <2>2. UNCHANGED <<row, disordered, dropped>>
    BY <1>2 DEF Pay, Renew, Cancel, hist
  <2> QED
    BY <2>1, <2>2, AgreeSends
<1>3. ASSUME NEW i \in 1 .. Len(events), Webhook(i) PROVE AgreeInv'
  BY <1>3, AgreeWebhook
<1>4. CASE UNCHANGED vars
  BY <1>4, AgreeKept DEF vars
<1> QED
  BY <1>1, <1>2, <1>3, <1>4 DEF Next

\* Once the events of the subscription in the row have all been applied, the
\* row has the status of the subscription at Stripe, unless an event overtook
\* an earlier one or its statement failed (the webhook handler answers 200
\* then, and Stripe does not send it again), however often events are repeated.
THEOREM RowAgrees == Spec => []AgreesWithStripe
<1>1. TypeOK /\ AgreeInv /\ [Next]_vars => (TypeOK /\ AgreeInv)'
  BY TypeStep, AgreeStep
<1>2. AgreeInv => AgreesWithStripe
  BY DEF AgreeInv, Agrees, AgreesWithStripe
<1> QED
  BY <1>1, <1>2, TypeInit, AgreeInit, PTL DEF Spec

\* An organization whose subscription is active at Stripe passes RequirePlan, and
\* one whose subscription is behind does not, once all events of the
\* subscription were applied in order and no statement failed.
THEOREM GateFollows == Spec => []GateFollowsStripe
<1>1. TypeOK /\ PlanWithStatus /\ [Next]_vars => (TypeOK /\ PlanWithStatus)'
  BY TypeStep, PlanStep
<1>2. Spec => []PlanWithStatus
  BY <1>1, TypeInit, PlanInit, PTL DEF Spec
<1>3. AgreesWithStripe /\ PlanWithStatus => GateFollowsStripe
  BY DEF AgreesWithStripe, PlanWithStatus, GateFollowsStripe, RequirePlanPro
<1> QED
  BY <1>2, <1>3, RowAgrees, PTL

=============================================================================
