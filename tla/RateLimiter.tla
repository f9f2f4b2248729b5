---------------------------- MODULE RateLimiter ----------------------------
(***************************************************************************)
(* The rate limiter: internal/pkg/ratelimit/limiter.go and the middleware  *)
(* that calls it for every request.  Buckets are created on first use,     *)
(* refilled when they are next seen, and evicted by a goroutine when they  *)
(* have not been seen for a while.  Allow, Remaining and a sweep of the    *)
(* goroutine each hold the mutex, so each is one action; a request calls   *)
(* Allow and then Remaining, and others come between.                      *)
(*                                                                         *)
(* Abstractions.  Time is a count of instants and tokens are counted in    *)
(* units: One units make a token and Rate of them flow in at every         *)
(* instant, so that a bucket can hold a part of a token (rounding of       *)
(* float64 is left out).  A sweep can come at any time: that it comes once *)
(* a minute is not used.                                                   *)
(***************************************************************************)
EXTENDS Integers

CONSTANTS Key,      \* keys of buckets (ip:... or tenant:...)
          Request,  \* requests in the middleware at once
          NoKey,
          One,      \* units in a token
          Rate,     \* units that flow in at an instant
          Cap,      \* units in a full bucket, burst of them tokens
          Second,   \* instants in a second, what Retry-After says
          TTL,      \* instants in five minutes
          MaxTime   \* bound on the clock

ASSUME LimiterAssumption ==
  /\ NoKey \notin Key
  /\ One \in Nat \ {0} /\ Rate \in Nat \ {0} /\ Cap \in Nat
  /\ Second \in Nat /\ TTL \in Nat /\ MaxTime \in Nat

\* The configuration: burst is at least 1, rate at least 1 per second, and a
\* bucket is full when it is evicted (20 * 300 >= 40 in the defaults).
ASSUME ConfigAssumption ==
  /\ Cap >= One
  /\ Second * Rate >= One
  /\ TTL * Rate >= Cap

VARIABLES
  now,       \* time.Now()
  buckets,   \* the map of buckets
  stopped,   \* stopCh is closed
  cleaner,   \* the goroutine of cleanup is running
  request    \* what each request in the middleware was told by Allow

(***************************************************************************)
(* History variables.                                                      *)
(***************************************************************************)
VARIABLES
  lastAdmit, \* when a request of each key was last admitted
  verdict, admitted, quota  \* as in TokenBuckets

vars == <<now, buckets, stopped, cleaner, request, lastAdmit, verdict, admitted, quota>>

-----------------------------------------------------------------------------
Bucket   == [tokens : 0 .. Cap, lastSeen : -1 .. MaxTime]
\* The map has no bucket for the key.
NoBucket == [tokens |-> Cap, lastSeen |-> -1]
Has(k)   == buckets[k].lastSeen # -1

Idle == [at |-> "idle", key |-> NoKey, decided |-> 0]

Init ==
  /\ now = 0
  /\ buckets = [k \in Key |-> NoBucket]
  /\ stopped = FALSE
  /\ cleaner = TRUE
  /\ request = [r \in Request |-> Idle]
  /\ lastAdmit = [k \in Key |-> - Second]
  /\ verdict = [key |-> NoKey, ok |-> TRUE]
  /\ admitted = [k \in Key |-> 0]
  /\ quota = [k \in Key |-> Cap]

\* mutant: only whole tokens flow in, and the rest of the time is forgotten
RefilledWhole(b) ==
  LET n == b.tokens + (((now - b.lastSeen) * Rate) \div One) * One
  IN  IF n > Cap THEN Cap ELSE n

\* The tokens of a bucket now, at most burst.
Refilled(b) ==
  LET n == b.tokens + (now - b.lastSeen) * Rate
  IN  IF n > Cap THEN Cap ELSE n

\* What a request for k finds: a key without a bucket gets a full one.
Level(k) == IF Has(k) THEN Refilled(buckets[k]) ELSE Cap

\* mutant: a bucket that holds exactly one token refuses
EnoughMoreThanOne(n) == n > One

Enough(n) == n >= One

\* Time passes.
Tick ==
  /\ now < MaxTime
  /\ now' = now + 1
  /\ quota' = [k \in Key |-> quota[k] + Rate]
  /\ UNCHANGED <<buckets, stopped, cleaner, request, lastAdmit, verdict, admitted>>

\* Allow, called by the middleware for a new request.
Admit(r, k) ==
  /\ request[r].at = "idle"
  /\ Enough(Level(k))
  /\ buckets' = [buckets EXCEPT ![k] = [tokens |-> Level(k) - One, lastSeen |-> now]]
  /\ request' = [request EXCEPT ![r] = [at |-> "allowed", key |-> k, decided |-> now]]
  /\ lastAdmit' = [lastAdmit EXCEPT ![k] = now]
  /\ verdict' = [key |-> k, ok |-> TRUE]
  /\ admitted' = [admitted EXCEPT ![k] = @ + 1]
  /\ UNCHANGED <<now, stopped, cleaner, quota>>

\* A refusal also creates, refills and touches the bucket.
Refuse(r, k) ==
  /\ request[r].at = "idle"
  /\ ~ Enough(Level(k))
  /\ buckets' = [buckets EXCEPT ![k] = [tokens |-> Level(k), lastSeen |-> now]]
  /\ request' = [request EXCEPT ![r] = [at |-> "refused", key |-> k, decided |-> now]]
  /\ verdict' = [key |-> k, ok |-> FALSE]
  /\ UNCHANGED <<now, stopped, cleaner, lastAdmit, admitted, quota>>

\* Remaining, in whole tokens; it changes nothing.
Remaining(k) == Level(k) \div One

\* The middleware asks for Remaining and answers, with 429 if Allow refused.
Answer(r) ==
  /\ request[r].at # "idle"
  /\ request' = [request EXCEPT ![r] = Idle]
  /\ UNCHANGED <<now, buckets, stopped, cleaner, lastAdmit, verdict, admitted, quota>>

\* mutant: the cutoff is a minute ago, not five
StaleEarly(k) == Has(k) /\ buckets[k].lastSeen < now - 1

\* lastSeen.Before(now - 5 minutes).
Stale(k) == Has(k) /\ buckets[k].lastSeen < now - TTL

\* mutant: the goroutine sweeps once and ends
CleanupOnce ==
  /\ cleaner
  /\ cleaner' = FALSE
  /\ buckets' = [k \in Key |-> IF Stale(k) THEN NoBucket ELSE buckets[k]]
  /\ UNCHANGED <<now, stopped, request, lastAdmit, verdict, admitted, quota>>

\* A tick of the ticker: the sweep.
Cleanup ==
  /\ cleaner
  /\ buckets' = [k \in Key |-> IF Stale(k) THEN NoBucket ELSE buckets[k]]
  /\ UNCHANGED <<now, stopped, cleaner, request, lastAdmit, verdict, admitted, quota>>

\* Stop closes stopCh, once.
Stop ==
  /\ ~ stopped
  /\ stopped' = TRUE
  /\ UNCHANGED <<now, buckets, cleaner, request, lastAdmit, verdict, admitted, quota>>

\* The goroutine sees it; a tick that is ready as well may come first.
CleanupReturn ==
  /\ stopped /\ cleaner
  /\ cleaner' = FALSE
  /\ UNCHANGED <<now, buckets, stopped, request, lastAdmit, verdict, admitted, quota>>

\* The observer opens the window of a key.
OpenWindow(k) ==
  /\ admitted' = [admitted EXCEPT ![k] = 0]
  /\ quota' = [quota EXCEPT ![k] = Cap]
  /\ UNCHANGED <<now, buckets, stopped, cleaner, request, lastAdmit, verdict>>

Next ==
  \/ Tick \/ Cleanup \/ Stop \/ CleanupReturn
  \/ \E r \in Request, k \in Key : Admit(r, k) \/ Refuse(r, k)
  \/ \E r \in Request : Answer(r)
  \/ \E k \in Key : OpenWindow(k)

Spec == Init /\ [][Next]_vars

\* Time passes and the ticker fires.
FairSpec == Spec /\ WF_vars(Tick) /\ WF_vars(Cleanup)

-----------------------------------------------------------------------------
\* The variables have their types, and no bucket was seen in the future.
TypeOK ==
  /\ now \in 0 .. MaxTime
  /\ buckets \in [Key -> Bucket]
  /\ stopped \in BOOLEAN /\ cleaner \in BOOLEAN
  /\ request \in [Request -> [at : {"idle", "allowed", "refused"},
                              key : Key \cup {NoKey}, decided : 0 .. MaxTime]]
  /\ lastAdmit \in [Key -> Int]
  /\ verdict \in [key : Key \cup {NoKey}, ok : BOOLEAN]
  /\ admitted \in [Key -> Nat]
  /\ quota \in [Key -> Nat]
  /\ \A k \in Key : buckets[k].lastSeen <= now /\ lastAdmit[k] <= now
  /\ \A r \in Request : request[r].at # "idle" => /\ request[r].key \in Key
                                                  /\ request[r].decided <= now

\* In every window, wherever it is opened and whatever is evicted in it, a key
\* gets at most burst requests and rate times the length of the window.
WindowBound == \A k \in Key : admitted[k] * One <= quota[k]

\* A request is refused only if one of its key was admitted within the last
\* second: who waits as Retry-After: 1 says is admitted, however often others
\* of the key were refused, and touched the bucket, in between.
RefusedIsRecent ==
  \A r \in Request :
    request[r].at = "refused" => request[r].decided < lastAdmit[request[r].key] + Second

\* A 429 says that nothing remains, although Remaining looks again after other
\* requests and sweeps, unless time has passed since Allow.
RefusedMeansEmpty ==
  \A r \in Request :
    request[r].at = "refused" /\ request[r].decided = now => Remaining(request[r].key) = 0

\* A bucket that is not seen for five minutes is evicted, unless the limiter is
\* stopped.
StaleIsEvicted ==
  \A k \in Key, t \in 0 .. MaxTime - TTL - 1 :
    buckets[k].lastSeen = t ~> buckets[k].lastSeen # t \/ stopped

\* Refilling late and evicting what is full are not observable: the decisions
\* are those of buckets that fill all the time and are never forgotten.
Abstract == INSTANCE TokenBuckets WITH level <- [k \in Key |-> Level(k)]
ImplementsTokenBuckets == Abstract!Spec
=============================================================================
