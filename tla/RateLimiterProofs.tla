------------------------- MODULE RateLimiterProofs -------------------------
(***************************************************************************)
(* Theorems about RateLimiter, for any keys and requests, any rate, burst  *)
(* and eviction time that satisfy the assumptions, and any bound on the    *)
(* clock.                                                                  *)
(***************************************************************************)
EXTENDS RateLimiter, TLAPS

-----------------------------------------------------------------------------
(***************************************************************************)
(* What flows into a bucket.                                               *)
(***************************************************************************)
\* The product of two naturals is a natural.
LEMMA FlowNat == ASSUME NEW n \in Nat PROVE n * Rate \in Nat
  BY LimiterAssumption

\* One more instant adds Rate.
LEMMA FlowNext == ASSUME NEW n \in Nat PROVE (n + 1) * Rate = n * Rate + Rate
  BY LimiterAssumption

\* More time, more tokens.
LEMMA FlowMonotone ==
  ASSUME NEW m \in Nat, NEW n \in Nat, m <= n
  PROVE  m * Rate <= n * Rate
<1>1. (n - m) * Rate \in Nat
  BY FlowNat
<1>2. n * Rate = m * Rate + (n - m) * Rate
  BY LimiterAssumption
<1> QED
  BY <1>1, <1>2, FlowNat

-----------------------------------------------------------------------------
\* Level, which Allow and Remaining compute, is between 0 and burst.
LEMMA LevelType == ASSUME TypeOK, NEW k \in Key PROVE Level(k) \in 0 .. Cap
<1>1. CASE ~ Has(k)
  BY <1>1, LimiterAssumption DEF Level
<1>2. CASE Has(k)
  <2>1. /\ now - buckets[k].lastSeen \in Nat
        /\ buckets[k].tokens \in 0 .. Cap
    BY DEF TypeOK, Bucket
  <2>2. (now - buckets[k].lastSeen) * Rate \in Nat
    BY <2>1, FlowNat
  <2> QED
    BY <1>2, <2>1, <2>2, LimiterAssumption DEF Level, Refilled
<1> QED
  BY <1>1, <1>2

\* A step of the clock fills every bucket as TokenBuckets does, although no
\* bucket is touched.
LEMMA LevelTick ==
  ASSUME TypeOK, Tick, NEW k \in Key
  PROVE  Level(k)' = Abstract!Fill(Level(k))
<1> USE DEF Abstract!Fill
<1>1. now' = now + 1 /\ buckets' = buckets
  BY DEF Tick
<1>2. CASE ~ Has(k)
  BY <1>1, <1>2, LimiterAssumption DEF Level, Has
<1>3. CASE Has(k)
  <2>1. /\ now - buckets[k].lastSeen \in Nat
        /\ buckets[k].tokens \in 0 .. Cap
        /\ now \in Int /\ buckets[k].lastSeen \in Int
    BY DEF TypeOK, Bucket
  <2> DEFINE n == now - buckets[k].lastSeen
  <2>2. n * Rate \in Nat /\ (n + 1) * Rate = n * Rate + Rate
    BY <2>1, FlowNat, FlowNext
  <2>3. now' - buckets'[k].lastSeen = n + 1
    BY <1>1, <2>1
  <2>4. Level(k) = IF buckets[k].tokens + n * Rate > Cap
                     THEN Cap ELSE buckets[k].tokens + n * Rate
    BY <1>3 DEF Level, Refilled
  <2>5. Level(k)' = IF buckets[k].tokens + (n + 1) * Rate > Cap
                      THEN Cap ELSE buckets[k].tokens + (n + 1) * Rate
    BY <1>1, <1>3, <2>3 DEF Level, Refilled, Has
  <2> HIDE DEF n
  <2> QED
    BY <2>1, <2>2, <2>4, <2>5, LimiterAssumption
<1> QED
  BY <1>2, <1>3

\* A bucket that Allow has just written holds what was written.
LEMMA LevelWritten ==
  ASSUME NEW k \in Key, TypeOK, TypeOK', now' = now,
         NEW t \in 0 .. Cap, buckets' = [buckets EXCEPT ![k] = [tokens |-> t, lastSeen |-> now]]
  PROVE  /\ Level(k)' = t
         /\ \A j \in Key : j # k => Level(j)' = Level(j)
<1>1. buckets \in [Key -> Bucket] /\ now \in 0 .. MaxTime
  BY DEF TypeOK
<1>2. buckets'[k] = [tokens |-> t, lastSeen |-> now]
  BY <1>1
<1>3. Level(k)' = t
  <2>1. Has(k)'
    BY <1>1, <1>2, LimiterAssumption DEF Has
  <2>2. (now - now) * Rate = 0
    BY <1>1, LimiterAssumption
  <2> QED
    BY <1>1, <1>2, <2>1, <2>2, LimiterAssumption DEF Level, Refilled
<1>4. ASSUME NEW j \in Key, j # k PROVE Level(j)' = Level(j)
  <2>1. buckets'[j] = buckets[j]
    BY <1>1, <1>4
  <2> QED
    BY <2>1 DEF Level, Refilled, Has
<1> QED
  BY <1>3, <1>4

\* A bucket that is evicted was full.
LEMMA LevelStale == ASSUME TypeOK, NEW k \in Key, Stale(k) PROVE Level(k) = Cap
<1>1. /\ now - buckets[k].lastSeen \in Nat
      /\ buckets[k].tokens \in 0 .. Cap
      /\ TTL <= now - buckets[k].lastSeen
  BY LimiterAssumption DEF TypeOK, Bucket, Stale
<1>2. TTL * Rate <= (now - buckets[k].lastSeen) * Rate
  BY <1>1, FlowMonotone, LimiterAssumption
<1>3. (now - buckets[k].lastSeen) * Rate \in Nat /\ TTL * Rate \in Nat
  BY <1>1, FlowNat, LimiterAssumption
<1>4. Cap <= (now - buckets[k].lastSeen) * Rate
  BY <1>2, <1>3, ConfigAssumption, LimiterAssumption
<1> DEFINE flow == (now - buckets[k].lastSeen) * Rate
<1>5. Level(k) = IF buckets[k].tokens + flow > Cap THEN Cap ELSE buckets[k].tokens + flow
  BY DEF Level, Refilled, Stale
<1>6. flow \in Nat /\ Cap <= flow
  BY <1>3, <1>4
<1> HIDE DEF flow
<1> QED
  BY <1>1, <1>5, <1>6, LimiterAssumption

\* A sweep changes no level.
LEMMA LevelCleanup == ASSUME TypeOK, Cleanup, NEW k \in Key PROVE Level(k)' = Level(k)
<1>1. now' = now /\ buckets'[k] = IF Stale(k) THEN NoBucket ELSE buckets[k]
  BY DEF Cleanup
<1>2. CASE Stale(k)
  <2>1. ~ Has(k)'
    BY <1>1, <1>2 DEF Has, NoBucket
  <2> QED
    BY <1>2, <2>1, LevelStale DEF Level
<1>3. CASE ~ Stale(k)
  BY <1>1, <1>3 DEF Level, Refilled, Has
<1> QED
  BY <1>2, <1>3

\* No other step changes a level.
LEMMA LevelUnchanged ==
  ASSUME now' = now, buckets' = buckets, NEW k \in Key
  PROVE  Level(k)' = Level(k)
  BY DEF Level, Refilled, Has

-----------------------------------------------------------------------------
LEMMA TypeInit == Init => TypeOK
<1> SUFFICES ASSUME Init PROVE TypeOK
  OBVIOUS
<1>1. NoBucket \in Bucket /\ NoBucket.lastSeen <= 0
  BY LimiterAssumption DEF NoBucket, Bucket
<1>2. - Second \in Int /\ - Second <= 0
  BY LimiterAssumption
<1>3. /\ buckets \in [Key -> Bucket]
      /\ \A k \in Key : buckets[k].lastSeen <= now /\ lastAdmit[k] <= now
      /\ lastAdmit \in [Key -> Int]
  BY <1>1, <1>2 DEF Init
<1>4. request \in [Request -> [at : {"idle", "allowed", "refused"},
                               key : Key \cup {NoKey}, decided : 0 .. MaxTime]]
  BY LimiterAssumption DEF Init, Idle
<1>5. verdict \in [key : Key \cup {NoKey}, ok : BOOLEAN] /\ stopped \in BOOLEAN /\ cleaner \in BOOLEAN
  BY DEF Init
<1>6. now \in 0 .. MaxTime /\ admitted \in [Key -> Nat] /\ quota \in [Key -> Nat]
  BY LimiterAssumption DEF Init
<1>7. \A r \in Request : request[r].at = "idle"
  BY DEF Init, Idle
<1> QED
  BY <1>3, <1>4, <1>5, <1>6, <1>7 DEF TypeOK

\* Every step keeps the types.
LEMMA TypeStep == TypeOK /\ [Next]_vars => TypeOK'
<1> SUFFICES ASSUME TypeOK, [Next]_vars PROVE TypeOK'
  OBVIOUS
<1> USE DEF Bucket
<1>1. CASE Tick
  BY <1>1, LimiterAssumption DEF Tick, TypeOK
<1>2. CASE Cleanup
  <2>1. \A k \in Key : buckets'[k] \in Bucket /\ buckets'[k].lastSeen <= now
    BY <1>2, LimiterAssumption DEF Cleanup, TypeOK, NoBucket
  <2> QED
    BY <1>2, <2>1 DEF Cleanup, TypeOK
<1>3. CASE Stop \/ CleanupReturn
  BY <1>3 DEF Stop, CleanupReturn, TypeOK
<1>4. ASSUME NEW r \in Request, NEW k \in Key, Admit(r, k) PROVE TypeOK'
  <2>1. Level(k) - One \in 0 .. Cap
    BY <1>4, LevelType, LimiterAssumption DEF Admit, Enough
  <2> QED
    BY <1>4, <2>1, LimiterAssumption DEF Admit, TypeOK
<1>5. ASSUME NEW r \in Request, NEW k \in Key, Refuse(r, k) PROVE TypeOK'
  <2>1. Level(k) \in 0 .. Cap
    BY LevelType
  <2> QED
    BY <1>5, <2>1, LimiterAssumption DEF Refuse, TypeOK
<1>6. ASSUME NEW r \in Request, Answer(r) PROVE TypeOK'
  BY <1>6, LimiterAssumption DEF Answer, Idle, TypeOK
<1>7. ASSUME NEW k \in Key, OpenWindow(k) PROVE TypeOK'
  BY <1>7, LimiterAssumption DEF OpenWindow, TypeOK
<1>8. CASE UNCHANGED vars
  BY <1>8 DEF vars, TypeOK
<1> QED
  BY <1>1, <1>2, <1>3, <1>4, <1>5, <1>6, <1>7, <1>8 DEF Next

\* The buckets, the requests in the middleware and the clock keep their types,
\* and no bucket holds more than burst.
THEOREM TypeCorrect == Spec => []TypeOK
  BY TypeInit, TypeStep, PTL DEF Spec

-----------------------------------------------------------------------------
(***************************************************************************)
(* The refinement.                                                         *)
(***************************************************************************)
LEMMA RefineInit == Init => Abstract!Init
  BY DEF Init, Abstract!Init, Level, Has, NoBucket

\* Every step is a step of buckets that fill all the time and are never
\* forgotten, or changes nothing they show.
LEMMA RefineStep ==
  TypeOK /\ TypeOK' /\ [Next]_vars => [Abstract!Next]_(Abstract!tbVars)
<1> SUFFICES ASSUME TypeOK, TypeOK', [Next]_vars
             PROVE  Abstract!Next \/ UNCHANGED Abstract!tbVars
  OBVIOUS
<1> DEFINE L == [k \in Key |-> Level(k)]
<1> USE DEF Abstract!tbVars
<1>1. CASE Tick
  <2>1. \A k \in Key : Level(k)' = Abstract!Fill(Level(k))
    BY <1>1, LevelTick
  <2>2. Abstract!Tick
    BY <1>1, <2>1 DEF Tick, Abstract!Tick
  <2> QED
    BY <2>2 DEF Abstract!Next
<1>2. CASE Cleanup
  <2>1. \A k \in Key : Level(k)' = Level(k)
    BY <1>2, LevelCleanup
  <2> QED
    BY <1>2, <2>1 DEF Cleanup
<1>3. CASE Stop \/ CleanupReturn
  <2>1. \A k \in Key : Level(k)' = Level(k)
    BY <1>3, LevelUnchanged DEF Stop, CleanupReturn
  <2> QED
    BY <1>3, <2>1 DEF Stop, CleanupReturn
<1>4. ASSUME NEW r \in Request, NEW k \in Key, Admit(r, k) PROVE Abstract!Next
  <2>1. Level(k) \in 0 .. Cap /\ Level(k) >= One /\ Level(k) - One \in 0 .. Cap
    BY <1>4, LevelType, LimiterAssumption DEF Admit, Enough
  <2>2. /\ Level(k)' = Level(k) - One
        /\ \A j \in Key : j # k => Level(j)' = Level(j)
    BY <1>4, <2>1, LevelWritten DEF Admit
  <2>3. Abstract!Admit(k)
    BY <1>4, <2>1, <2>2 DEF Admit, Abstract!Admit
  <2> QED
    BY <2>3 DEF Abstract!Next
<1>5. ASSUME NEW r \in Request, NEW k \in Key, Refuse(r, k) PROVE Abstract!Next
  <2>1. Level(k) \in 0 .. Cap /\ Level(k) < One
    BY <1>5, LevelType, LimiterAssumption DEF Refuse, Enough
  <2>2. \A j \in Key : Level(j)' = Level(j)
    BY <1>5, <2>1, LevelWritten DEF Refuse
  <2>3. Abstract!Refuse(k)
    BY <1>5, <2>1, <2>2 DEF Refuse, Abstract!Refuse
  <2> QED
    BY <2>3 DEF Abstract!Next
<1>6. ASSUME NEW r \in Request, Answer(r) PROVE UNCHANGED Abstract!tbVars
  <2>1. \A k \in Key : Level(k)' = Level(k)
    BY <1>6, LevelUnchanged DEF Answer
  <2> QED
    BY <1>6, <2>1 DEF Answer
<1>7. ASSUME NEW k \in Key, OpenWindow(k) PROVE Abstract!Next
  <2>1. \A j \in Key : Level(j)' = Level(j)
    BY <1>7, LevelUnchanged DEF OpenWindow
  <2>2. Abstract!OpenWindow(k)
    BY <1>7, <2>1 DEF OpenWindow, Abstract!OpenWindow
  <2> QED
    BY <2>2 DEF Abstract!Next
<1>8. CASE UNCHANGED vars
  <2>1. \A k \in Key : Level(k)' = Level(k)
    BY <1>8, LevelUnchanged DEF vars
  <2> QED
    BY <1>8, <2>1 DEF vars
<1> QED
  BY <1>1, <1>2, <1>3, <1>4, <1>5, <1>6, <1>7, <1>8 DEF Next

\* Refilling a bucket only when it is seen, and evicting it after five minutes,
\* cannot be observed in the decisions.
THEOREM Refinement == Spec => ImplementsTokenBuckets
<1>1. Init => Abstract!Init
  BY RefineInit
<1>2. TypeOK /\ TypeOK' /\ [Next]_vars => [Abstract!Next]_(Abstract!tbVars)
  BY RefineStep
<1> QED
  BY <1>1, <1>2, TypeCorrect, PTL DEF Spec, Abstract!Spec, ImplementsTokenBuckets

-----------------------------------------------------------------------------
(***************************************************************************)
(* Safety.  The properties do not speak of the level of the buckets; the   *)
(* inductive invariant does.                                               *)
(***************************************************************************)
\* What was admitted in the window and what is left are within the quota.
Budget == \A k \in Key : admitted[k] * One + Level(k) <= quota[k]

\* Who waits earns tokens: a bucket is full, or holds at least what has flowed
\* in since its last admission.
Earned == \A k \in Key : Level(k) = Cap \/ (now - lastAdmit[k]) * Rate <= Level(k)

\* The bucket of a request just refused holds less than a token.
Empty ==
  \A r \in Request :
    request[r].at = "refused" /\ request[r].decided = now => Level(request[r].key) < One

LimiterInv == Budget /\ Earned /\ RefusedIsRecent /\ Empty

\* Holds at the start, where every bucket would be full.
LEMMA SafeInit == Init => LimiterInv
<1> SUFFICES ASSUME Init PROVE LimiterInv
  OBVIOUS
<1>1. \A k \in Key : Level(k) = Cap
  BY DEF Init, Level, Has, NoBucket
<1>2. 0 * One + Cap <= Cap
  BY LimiterAssumption
<1>3. Budget
  BY <1>1, <1>2 DEF Init, Budget
<1> QED
  BY <1>1, <1>3 DEF Init, Idle, LimiterInv, Earned, RefusedIsRecent, Empty

\* A step that changes neither levels nor clock nor what the invariant says of
\* admissions and refusals keeps it.
LEMMA SafeQuiet ==
  ASSUME TypeOK, LimiterInv, now' = now, lastAdmit' = lastAdmit,
         \A k \in Key : Level(k)' = Level(k),
         \A r \in Request : request'[r].at = "refused" => request'[r] = request[r],
         admitted' = admitted, quota' = quota
  PROVE  LimiterInv'
<1>1. \A r \in Request : request[r].at = "refused" => request[r].key \in Key
  BY DEF TypeOK
<1>2. Budget' /\ Earned'
  BY DEF LimiterInv, Budget, Earned
<1>3. RefusedIsRecent'
  BY DEF LimiterInv, RefusedIsRecent
<1>4. Empty'
  BY <1>1 DEF LimiterInv, Empty
<1> QED
  BY <1>2, <1>3, <1>4 DEF LimiterInv

\* Time fills the buckets no faster than the quotas.
LEMMA SafeTick == TypeOK /\ LimiterInv /\ Tick => LimiterInv'
<1> SUFFICES ASSUME TypeOK, LimiterInv, Tick PROVE LimiterInv'
  OBVIOUS
<1>1. now' = now + 1 /\ now \in Nat /\ request' = request /\ lastAdmit' = lastAdmit
  BY LimiterAssumption DEF Tick, TypeOK
<1>2. \A k \in Key : /\ Level(k) \in 0 .. Cap
                     /\ Level(k)' = Abstract!Fill(Level(k))
  BY LevelType, LevelTick
<1>3. Budget'
  <2> SUFFICES ASSUME NEW k \in Key PROVE admitted'[k] * One + Level(k)' <= quota'[k]
    BY DEF Budget
  <2>1. admitted[k] * One + Level(k) <= quota[k]
    BY DEF LimiterInv, Budget
  <2>2. admitted' = admitted /\ quota'[k] = quota[k] + Rate
    BY DEF Tick
  <2>3. admitted[k] * One \in Nat /\ quota[k] \in Nat
    BY LimiterAssumption DEF TypeOK
  <2>4. Level(k)' <= Level(k) + Rate /\ Level(k)' \in Nat
    BY <1>2, LimiterAssumption DEF Abstract!Fill
  <2> QED
    BY <1>2, <2>1, <2>2, <2>3, <2>4, LimiterAssumption
<1>4. Earned'
  <2> SUFFICES ASSUME NEW k \in Key
               PROVE  Level(k)' = Cap \/ (now' - lastAdmit'[k]) * Rate <= Level(k)'
    BY DEF Earned
  <2> DEFINE n == now - lastAdmit[k]
  <2>1. n \in Nat /\ now' - lastAdmit'[k] = n + 1
    BY <1>1 DEF TypeOK
  <2>2. n * Rate \in Nat /\ (n + 1) * Rate = n * Rate + Rate
    BY <2>1, FlowNat, FlowNext
  <2>3. Level(k) = Cap \/ n * Rate <= Level(k)
    BY DEF LimiterInv, Earned
  <2> HIDE DEF n
  <2>4. Level(k)' = Cap \/ (n + 1) * Rate <= Level(k)'
    BY <1>2, <2>2, <2>3, LimiterAssumption DEF Abstract!Fill
  <2> QED
    BY <2>1, <2>4
<1>5. RefusedIsRecent'
  BY <1>1 DEF LimiterInv, RefusedIsRecent
<1>6. Empty'
  BY <1>1 DEF Empty, TypeOK
<1> QED
  BY <1>3, <1>4, <1>5, <1>6 DEF LimiterInv

\* Admit takes from the level what it adds to the admissions.
LEMMA SafeAdmit ==
  ASSUME TypeOK, TypeOK', LimiterInv, NEW r \in Request, NEW k \in Key, Admit(r, k)
  PROVE  LimiterInv'
<1>1. Level(k) \in 0 .. Cap /\ Level(k) >= One /\ Level(k) - One \in 0 .. Cap
  BY LevelType, LimiterAssumption DEF Admit, Enough
<1>2. /\ Level(k)' = Level(k) - One
      /\ \A j \in Key : j # k => Level(j)' = Level(j)
  BY <1>1, LevelWritten DEF Admit
<1>3. now' = now /\ quota' = quota /\ now \in Nat
  BY DEF Admit, TypeOK
<1>4. Budget'
  <2> SUFFICES ASSUME NEW j \in Key PROVE admitted'[j] * One + Level(j)' <= quota'[j]
    BY DEF Budget
  <2>1. admitted[j] * One + Level(j) <= quota[j]
    BY DEF LimiterInv, Budget
  <2>2. CASE j # k
    BY <1>2, <1>3, <2>1, <2>2 DEF Admit, TypeOK
  <2>3. CASE j = k
    <3>1. admitted'[k] = admitted[k] + 1 /\ admitted[k] \in Nat
      BY DEF Admit, TypeOK
    <3>2. (admitted[k] + 1) * One = admitted[k] * One + One
      BY <3>1, LimiterAssumption
    <3>3. admitted[k] * One \in Nat /\ quota[k] \in Nat
      BY <3>1, LimiterAssumption DEF TypeOK
    <3> QED
      BY <1>1, <1>2, <1>3, <2>1, <2>3, <3>1, <3>2, <3>3, LimiterAssumption
  <2> QED
    BY <2>2, <2>3
<1>5. Earned'
  <2> SUFFICES ASSUME NEW j \in Key
               PROVE  Level(j)' = Cap \/ (now' - lastAdmit'[j]) * Rate <= Level(j)'
    BY DEF Earned
  <2>1. CASE j # k
    BY <1>2, <1>3, <2>1 DEF Admit, TypeOK, LimiterInv, Earned
  <2>2. CASE j = k
    <3>1. lastAdmit'[k] = now
      BY DEF Admit, TypeOK
    <3>2. (now - now) * Rate = 0
      BY <1>3, LimiterAssumption
    <3> QED
      BY <1>1, <1>2, <1>3, <2>2, <3>1, <3>2
  <2> QED
    BY <2>1, <2>2
<1>6. \A q \in Request : request'[q].at = "refused" =>
        request'[q] = request[q] /\ request[q].key \in Key
  BY DEF Admit, TypeOK
<1>7. RefusedIsRecent'
  <2>1. \A j \in Key : lastAdmit[j] <= lastAdmit'[j] /\ lastAdmit[j] \in Int /\ lastAdmit'[j] \in Int
    BY <1>3 DEF Admit, TypeOK
  <2>2. \A q \in Request : request[q].decided \in Int
    BY LimiterAssumption DEF TypeOK
  <2> QED
    BY <1>6, <2>1, <2>2, LimiterAssumption DEF LimiterInv, RefusedIsRecent
<1>8. Empty'
  <2>1. \A j \in Key : Level(j)' <= Level(j) /\ Level(j)' \in Int /\ Level(j) \in Int
    BY <1>1, <1>2, LevelType, LimiterAssumption
  <2> QED
    BY <1>3, <1>6, <2>1, LimiterAssumption DEF LimiterInv, Empty
<1> QED
  BY <1>4, <1>5, <1>7, <1>8 DEF LimiterInv

\* A bucket that refuses has not waited a second.
LEMMA SafeRefuse ==
  ASSUME TypeOK, TypeOK', LimiterInv, NEW r \in Request, NEW k \in Key, Refuse(r, k)
  PROVE  LimiterInv'
<1>1. Level(k) \in 0 .. Cap /\ Level(k) < One
  BY LevelType, LimiterAssumption DEF Refuse, Enough
<1>2. \A j \in Key : Level(j)' = Level(j)
  BY <1>1, LevelWritten DEF Refuse
<1>3. /\ now' = now /\ lastAdmit' = lastAdmit /\ admitted' = admitted /\ quota' = quota
      /\ request'[r] = [at |-> "refused", key |-> k, decided |-> now]
      /\ \A q \in Request : q # r => request'[q] = request[q]
  BY DEF Refuse, TypeOK
<1>4. now < lastAdmit[k] + Second
  <2>1. (now - lastAdmit[k]) * Rate <= Level(k)
    BY <1>1, ConfigAssumption, LimiterAssumption DEF LimiterInv, Earned
  <2>2. now - lastAdmit[k] \in Nat /\ now \in Int /\ lastAdmit[k] \in Int
    BY DEF TypeOK
  <2>3. Second <= now - lastAdmit[k] => Second * Rate <= (now - lastAdmit[k]) * Rate
    BY <2>2, FlowMonotone, LimiterAssumption
  <2>4. (now - lastAdmit[k]) * Rate \in Nat /\ Second * Rate \in Nat
    BY <2>2, FlowNat, LimiterAssumption
  <2>5. ~ (Second <= now - lastAdmit[k])
    BY <1>1, <2>1, <2>3, <2>4, ConfigAssumption, LimiterAssumption
  <2> QED
    BY <2>2, <2>5, LimiterAssumption
<1>5. Budget' /\ Earned'
  BY <1>2, <1>3 DEF LimiterInv, Budget, Earned
<1>6. RefusedIsRecent'
  BY <1>3, <1>4 DEF LimiterInv, RefusedIsRecent
<1>7. Empty'
  <2>1. \A q \in Request : request[q].at = "refused" => request[q].key \in Key
    BY DEF TypeOK
  <2> QED
    BY <1>1, <1>2, <1>3, <2>1 DEF LimiterInv, Empty
<1> QED
  BY <1>5, <1>6, <1>7 DEF LimiterInv

\* Every step keeps the invariant.
LEMMA SafeStep == TypeOK /\ TypeOK' /\ LimiterInv /\ [Next]_vars => LimiterInv'
<1> SUFFICES ASSUME TypeOK, TypeOK', LimiterInv, [Next]_vars PROVE LimiterInv'
  OBVIOUS
<1>1. CASE Tick
  BY <1>1, SafeTick
<1>2. CASE Cleanup
  <2>1. \A k \in Key : Level(k)' = Level(k)
    BY <1>2, LevelCleanup
  <2> QED
    BY <1>2, <2>1, SafeQuiet DEF Cleanup
<1>3. CASE Stop \/ CleanupReturn
  <2>1. \A k \in Key : Level(k)' = Level(k)
    BY <1>3, LevelUnchanged DEF Stop, CleanupReturn
  <2> QED
    BY <1>3, <2>1, SafeQuiet DEF Stop, CleanupReturn
<1>4. ASSUME NEW r \in Request, NEW k \in Key, Admit(r, k) PROVE LimiterInv'
  BY <1>4, SafeAdmit
<1>5. ASSUME NEW r \in Request, NEW k \in Key, Refuse(r, k) PROVE LimiterInv'
  BY <1>5, SafeRefuse
<1>6. ASSUME NEW r \in Request, Answer(r) PROVE LimiterInv'
  <2>1. \A k \in Key : Level(k)' = Level(k)
    BY <1>6, LevelUnchanged DEF Answer
  <2>2. \A q \in Request : request'[q].at = "refused" => request'[q] = request[q]
    BY <1>6 DEF Answer, Idle, TypeOK
  <2> QED
    BY <1>6, <2>1, <2>2, SafeQuiet DEF Answer
<1>7. ASSUME NEW k \in Key, OpenWindow(k) PROVE LimiterInv'
  <2>1. \A j \in Key : Level(j)' = Level(j) /\ Level(j) \in 0 .. Cap
    BY <1>7, LevelUnchanged, LevelType DEF OpenWindow
  <2>2. Budget'
    <3> SUFFICES ASSUME NEW j \in Key PROVE admitted'[j] * One + Level(j)' <= quota'[j]
      BY DEF Budget
    <3>1. CASE j # k
      BY <1>7, <2>1, <3>1 DEF OpenWindow, TypeOK, LimiterInv, Budget
    <3>2. CASE j = k
      <4>1. admitted'[k] = 0 /\ quota'[k] = Cap /\ 0 * One = 0
        BY <1>7, LimiterAssumption DEF OpenWindow, TypeOK
      <4> QED
        BY <2>1, <3>2, <4>1, LimiterAssumption
    <3> QED
      BY <3>1, <3>2
  <2>3. Earned' /\ RefusedIsRecent'
    BY <1>7, <2>1 DEF OpenWindow, LimiterInv, Earned, RefusedIsRecent
  <2>4. Empty'
    BY <1>7, <2>1 DEF OpenWindow, LimiterInv, Empty, TypeOK
  <2> QED
    BY <2>2, <2>3, <2>4 DEF LimiterInv
<1>8. CASE UNCHANGED vars
  <2>1. \A k \in Key : Level(k)' = Level(k)
    BY <1>8, LevelUnchanged DEF vars
  <2> QED
    BY <1>8, <2>1, SafeQuiet DEF vars
<1> QED
  BY <1>1, <1>2, <1>3, <1>4, <1>5, <1>6, <1>7, <1>8 DEF Next

\* The invariant says what the properties say.
LEMMA SafeEnough ==
  TypeOK /\ LimiterInv => WindowBound /\ RefusedIsRecent /\ RefusedMeansEmpty
<1> SUFFICES ASSUME TypeOK, LimiterInv
             PROVE  WindowBound /\ RefusedIsRecent /\ RefusedMeansEmpty
  OBVIOUS
<1>1. WindowBound
  <2> SUFFICES ASSUME NEW k \in Key PROVE admitted[k] * One <= quota[k]
    BY DEF WindowBound
  <2>1. admitted[k] * One + Level(k) <= quota[k] /\ Level(k) \in 0 .. Cap
    BY LevelType DEF LimiterInv, Budget
  <2>2. admitted[k] * One \in Nat /\ quota[k] \in Nat
    BY LimiterAssumption DEF TypeOK
  <2> QED
    BY <2>1, <2>2, LimiterAssumption
<1>2. RefusedMeansEmpty
  <2> SUFFICES ASSUME NEW r \in Request, request[r].at = "refused", request[r].decided = now
               PROVE  Remaining(request[r].key) = 0
    BY DEF RefusedMeansEmpty
  <2>1. request[r].key \in Key
    BY DEF TypeOK
  <2>2. Level(request[r].key) \in 0 .. Cap /\ Level(request[r].key) < One
    BY <2>1, LevelType DEF LimiterInv, Empty
  <2>3. \A n \in Nat : n < One => n \div One = 0
    BY LimiterAssumption
  <2> QED
    BY <2>2, <2>3, LimiterAssumption DEF Remaining
<1> QED
  BY <1>1, <1>2 DEF LimiterInv

\* In every window a key gets at most burst plus rate times its length; who
\* waits a second is admitted; and a 429 says that nothing remains.
THEOREM LimiterSafe == Spec => [](WindowBound /\ RefusedIsRecent /\ RefusedMeansEmpty)
<1>1. Spec => []LimiterInv
  BY SafeInit, SafeStep, TypeCorrect, PTL DEF Spec
<1> QED
  BY <1>1, TypeCorrect, SafeEnough, PTL

\* Who waits as Retry-After: 1 says is admitted: a refusal means that a request
\* of the key was admitted within the last second.
COROLLARY WaitingHelps == Spec => []RefusedIsRecent
  BY LimiterSafe, PTL

\* A 429 says X-RateLimit-Remaining: 0, although Remaining looks at the bucket
\* again after Allow, unless time has passed between the two.
COROLLARY RefusalIsHonest == Spec => []RefusedMeansEmpty
  BY LimiterSafe, PTL
=============================================================================
