-------------------------- MODULE AuditTrailProofs --------------------------
(***************************************************************************)
(* Proofs about AuditTrail, for every set of projects, contents, requests  *)
(* and faults: where handlers do not overlap on a project and no read or   *)
(* record of it fails, its trail is a complete chain.  About AuditPages:   *)
(* who reads the trail page by page misses nothing of it.                  *)
(***************************************************************************)
EXTENDS AuditPages, SequenceTheorems, TLAPS

Typed ==
  /\ row \in [Project -> State]
  /\ log \in [Project -> Seq(Entry)]
  /\ request \in [Request -> Handler]

\* A slot changes to a handler of p; the others stay.
LEMMA MoveEffect ==
  ASSUME Typed, NEW r \in Request, NEW p \in Project, NEW at \in {"write", "record"},
         NEW before \in State, NEW after \in State, Move(r, at, p, before, after)
  PROVE  /\ request' \in [Request -> Handler]
         /\ request'[r].at = at /\ request'[r].project = p
         /\ request'[r].before = before /\ request'[r].after = after
         /\ \A q \in Request \ {r} : request'[q] = request[q]
  BY DEF Typed, Move, Handler

\* A slot becomes idle; the others stay.
LEMMA FinishEffect ==
  ASSUME Typed, NEW r \in Request, Finish(r)
  PROVE  /\ request' \in [Request -> Handler]
         /\ request'[r].at = "idle"
         /\ \A q \in Request \ {r} : request'[q] = request[q]
  BY DEF Typed, Finish, Idle, Handler, State

\* An entry is added at the end of the trail of p.
LEMMA InsertEffect ==
  ASSUME Typed, NEW p \in Project, NEW before \in State, NEW after \in State,
         InsertAuditLog(p, before, after)
  PROVE  /\ log' \in [Project -> Seq(Entry)]
         /\ \A q \in Project \ {p} : log'[q] = log[q]
         /\ Len(log[p]) \in Nat /\ Len(log'[p]) = Len(log[p]) + 1
         /\ \A i \in 1 .. Len(log[p]) : log'[p][i] = log[p][i]
         /\ log'[p][Len(log[p]) + 1].before = before
         /\ log'[p][Len(log[p]) + 1].after = after
<1> DEFINE e == [before |-> before, after |-> after]
<1>1. e \in Entry
  BY DEF Entry
<1>2. log[p] \in Seq(Entry)
  BY DEF Typed
<1>3. log' = [log EXCEPT ![p] = Append(log[p], e)]
  BY DEF InsertAuditLog
<1>4. Append(log[p], e) \in Seq(Entry)
  BY <1>1, <1>2
<1>5. log'[p] = Append(log[p], e) /\ \A q \in Project \ {p} : log'[q] = log[q]
  BY <1>3 DEF Typed
<1>6. log' \in [Project -> Seq(Entry)]
  BY <1>3, <1>4 DEF Typed
<1>7. /\ Len(log[p]) \in Nat /\ Len(Append(log[p], e)) = Len(log[p]) + 1
      /\ \A i \in 1 .. Len(log[p]) : Append(log[p], e)[i] = log[p][i]
      /\ Append(log[p], e)[Len(log[p]) + 1] = e
  BY <1>1, <1>2
<1>8. e.before = before /\ e.after = after
  OBVIOUS
<1> QED
  BY <1>5, <1>6, <1>7, <1>8

-----------------------------------------------------------------------------
\* The state of a slot that works on a project.
Works(r, p) == request[r].at # "idle" /\ request[r].project = p

\* Types, and that only created projects are worked on, survive every step.
LEMMA TypeStep == TypeOK /\ [Next]_vars => TypeOK'
<1> SUFFICES ASSUME TypeOK, [Next]_vars PROVE TypeOK'
  OBVIOUS
<1> USE AuditTrailAssumption
<1>0. Typed
  BY DEF TypeOK, Typed
<1>1. ASSUME NEW r \in Request, NEW p \in Project, NEW c \in Content, Create(r, p, c)
      PROVE  TypeOK'
  <2>1. Move(r, "record", p, Absent, c) /\ Absent \in State /\ c \in State
    BY <1>1 DEF Create, State
  <2>2. /\ request' \in [Request -> Handler]
        /\ request'[r].project = p
        /\ \A q \in Request \ {r} : request'[q] = request[q]
    BY <1>0, <2>1, MoveEffect
  <2>3. row' \in [Project -> State] /\ \A q \in Project \ {p} : row'[q] = row[q]
    BY <1>0, <1>1, <2>1 DEF Create, InsertProject, Typed
  <2> QED
    BY <1>1, <2>2, <2>3 DEF TypeOK, Create, InsertProject
<1>2. ASSUME NEW r \in Request, NEW p \in Project, NEW after \in State, Capture(r, p, after)
      PROVE  TypeOK'
  <2>1. PICK before \in State : Move(r, "write", p, before, after)
    BY <1>0, <1>2 DEF Capture, GetProject, Typed, State
  <2>2. /\ request' \in [Request -> Handler]
        /\ request'[r].project = p
        /\ \A q \in Request \ {r} : request'[q] = request[q]
    BY <1>0, <2>1, MoveEffect
  <2>3. p \in created
    BY <1>2 DEF TypeOK, Capture, GetProject
  <2> QED
    BY <1>2, <2>2, <2>3 DEF TypeOK, Capture
<1>3. ASSUME NEW r \in Request, Write(r) PROVE TypeOK'
  <2>1. PICK p \in Project : p = request[r].project /\ p \in created
    BY <1>3 DEF TypeOK, Write
  <2>2. request[r].before \in State /\ request[r].after \in State
    BY <1>0 DEF Typed, Handler
  <2>3. CASE Move(r, "record", p, request[r].before, request[r].after) /\ ~ Finish(r)
    <3>1. /\ request' \in [Request -> Handler]
          /\ request'[r].project = p
          /\ \A q \in Request \ {r} : request'[q] = request[q]
      BY <1>0, <2>2, <2>3, MoveEffect
    <3>2. row' \in [Project -> State] /\ \A q \in Project \ {p} : row'[q] = row[q]
      BY <1>0, <1>3, <2>1, <2>2, <2>3
      DEF Write, DeleteProject, UpdateProject, Typed, State
    <3> QED
      BY <1>3, <2>1, <3>1, <3>2 DEF Write, TypeOK
  <2>4. CASE Finish(r) /\ UNCHANGED row
    <3>1. /\ request' \in [Request -> Handler] /\ request'[r].at = "idle"
          /\ \A q \in Request \ {r} : request'[q] = request[q]
      BY <1>0, <2>4, FinishEffect
    <3> QED
      BY <1>3, <2>4, <3>1 DEF Write, TypeOK
  <2>5. CASE Finish(r) /\ Move(r, "record", p, request[r].before, request[r].after)
    <3>1. request'[r].at = "idle" /\ request'[r].at = "record"
      BY <1>0, <2>2, <2>5, MoveEffect, FinishEffect
    <3> QED
      BY <3>1
  <2> QED
    BY <1>3, <2>1, <2>3, <2>4, <2>5 DEF Write
<1>4. ASSUME NEW r \in Request, Reject(r) PROVE TypeOK'
  <2>1. /\ request' \in [Request -> Handler] /\ request'[r].at = "idle"
        /\ \A q \in Request \ {r} : request'[q] = request[q]
    BY <1>0, <1>4, FinishEffect DEF Reject
  <2> QED
    BY <1>4, <2>1 DEF Reject, TypeOK
<1>5. ASSUME NEW r \in Request, Record(r) PROVE TypeOK'
  <2>1. PICK p \in Project : p = request[r].project /\ p \in created
    BY <1>5 DEF TypeOK, Record
  <2>2. /\ request' \in [Request -> Handler] /\ request'[r].at = "idle"
        /\ \A q \in Request \ {r} : request'[q] = request[q]
    BY <1>0, <1>5, FinishEffect DEF Record
  <2>3. request[r].before \in State /\ request[r].after \in State
    BY <1>0 DEF Typed, Handler
  <2>4. log' \in [Project -> Seq(Entry)] /\ \A q \in Project \ {p} : log'[q] = log[q]
    BY <1>0, <1>5, <2>1, <2>3, InsertEffect DEF Record, Typed
  <2>5. lost' \subseteq Project
    BY <1>5, <2>1 DEF Record, TypeOK
  <2> QED
    BY <1>5, <2>1, <2>2, <2>4, <2>5 DEF Record, TypeOK
<1>6. CASE Crash
  <2>1. /\ request' \in [Request -> Handler]
        /\ \A q \in Request : request'[q].at = "idle"
    BY <1>6 DEF Crash, Idle, Handler, State
  <2> QED
    BY <1>6, <2>1 DEF Crash, TypeOK
<1>7. CASE UNCHANGED vars
  BY <1>7 DEF TypeOK, vars
<1> QED
  BY <1>1, <1>2, <1>3, <1>4, <1>5, <1>6, <1>7 DEF Next, Update, Delete, State

\* Types: Spec keeps the types of AuditTrail for every value of the constants,
\* and handlers only work on projects that were created.
THEOREM TypeCorrect == Spec => []TypeOK
<1>1. Init => TypeOK
  BY AuditTrailAssumption DEF Init, TypeOK, Handler, Idle, State
<1> QED
  BY <1>1, TypeStep, PTL DEF Spec

-----------------------------------------------------------------------------
(***************************************************************************)
(* The trail.  TrailIsChain and TrailIsComplete say nothing of a handler   *)
(* between its read and its record; TrailInv adds what holds of it.        *)
(***************************************************************************)
AtMostOne(p) ==
  \A r, q \in Request : Works(r, p) /\ Works(q, p) => r = q

\* Before its write a handler holds what the row holds; after it the row holds
\* what it wrote, and its Before is what the trail ends with.
InStep(p) ==
  \A r \in Request : Works(r, p) =>
    /\ request[r].at = "write" => request[r].before = row[p]
    /\ request[r].at = "record" => /\ request[r].after = row[p]
                                   /\ request[r].before = LastAfter(p)

Chain(p) ==
  \A i \in 1 .. Len(log[p]) :
    log[p][i].before = IF i = 1 THEN Absent ELSE log[p][i - 1].after

Complete(p) ==
  \/ LastAfter(p) = row[p]
  \/ \E r \in Request : Works(r, p) /\ request[r].at = "record"

Good(p) == AtMostOne(p) /\ InStep(p) /\ Chain(p) /\ Complete(p)

TrailInv == \A p \in Project \ Excused : Good(p)

\* A project stays good if its row, its trail and its handlers stay.
LEMMA GoodFrame ==
  ASSUME NEW p \in Project, Good(p), row'[p] = row[p], log'[p] = log[p],
         \A r \in Request : Works(r, p) \/ Works(r, p)' => request'[r] = request[r]
  PROVE  Good(p)'
  BY DEF Good, AtMostOne, InStep, Chain, Complete, Works, LastAfter

\* A handler of p ends before its write.
LEMMA GoodEnd ==
  ASSUME NEW p \in Project, NEW r \in Request, Good(p), Works(r, p),
         request[r].at = "write", row'[p] = row[p], log'[p] = log[p],
         request'[r].at = "idle",
         \A q \in Request \ {r} : request'[q] = request[q]
  PROVE  Good(p)'
<1>1. \A q \in Request : Works(q, p) <=> q = r
  BY DEF Good, AtMostOne
<1>2. \A q \in Request : ~ Works(q, p)'
  BY <1>1 DEF Works
<1>3. LastAfter(p) = row[p] /\ LastAfter(p)' = LastAfter(p)
  BY <1>1 DEF Good, Complete, LastAfter
<1> QED
  BY <1>2, <1>3 DEF Good, AtMostOne, InStep, Chain, Complete

\* The trail survives every step: one case per action.
LEMMA TrailStep == TypeOK /\ TypeOK' /\ TrailInv /\ [Next]_vars => TrailInv'
<1> SUFFICES ASSUME TypeOK, TypeOK', TrailInv, [Next]_vars,
                    NEW p \in Project, p \notin Excused'
             PROVE  Good(p)'
  BY DEF TrailInv
<1> USE AuditTrailAssumption
<1>0. Typed
  BY DEF TypeOK, Typed
<1>1. ASSUME NEW r \in Request, NEW s \in Project, NEW c \in Content, Create(r, s, c)
      PROVE  Good(p)'
  <2>1. Move(r, "record", s, Absent, c) /\ Absent \in State /\ c \in State
    BY <1>1 DEF Create, State
  <2>2. /\ request'[r].at = "record" /\ request'[r].project = s
        /\ request'[r].before = Absent /\ request'[r].after = c
        /\ \A q \in Request \ {r} : request'[q] = request[q]
    BY <1>0, <2>1, MoveEffect
  <2>3. /\ row'[s] = c /\ \A q \in Project \ {s} : row'[q] = row[q]
        /\ log' = log /\ s \notin created /\ request[r].at = "idle"
    BY <1>0, <1>1 DEF Create, InsertProject, Typed
  <2>4. p \notin Excused
    BY <1>1 DEF Create, Excused
  <2>5. CASE p = s
    <3>1. \A q \in Request : ~ Works(q, s)
      BY <2>3 DEF TypeOK, Works
    <3>2. \A q \in Request : Works(q, s)' <=> q = r
      BY <2>2, <3>1 DEF Works
    <3>3. log'[s] = <<>>
      BY <2>3 DEF TypeOK
    <3>4. LastAfter(s)' = Absent /\ Chain(s)'
      BY <3>3 DEF LastAfter, Chain
    <3> QED
      BY <2>2, <2>3, <2>5, <3>2, <3>4 DEF Good, AtMostOne, InStep, Complete
  <2>6. CASE p # s
    BY <2>2, <2>3, <2>4, <2>6, GoodFrame DEF TrailInv, Works
  <2> QED
    BY <2>5, <2>6
<1>2. ASSUME NEW r \in Request, NEW s \in Project, NEW after \in State, Capture(r, s, after)
      PROVE  Good(p)'
  <2>1. p \notin Excused /\ row' = row /\ log' = log /\ request[r].at = "idle"
    BY <1>2 DEF Capture, Excused
  <2>2. CASE p = s
    <3>1. /\ Move(r, "write", s, row[s], after) /\ row[s] \in State
          /\ \A q \in Request : ~ Works(q, s)
      BY <1>0, <1>2, <2>2 DEF Capture, Excused, Busy, Works, GetProject, Typed
    <3>2. /\ request'[r].at = "write" /\ request'[r].before = row[s]
          /\ \A q \in Request \ {r} : request'[q] = request[q]
      BY <1>0, <3>1, MoveEffect
    <3>3. \A q \in Request : Works(q, s)' => q = r
      BY <3>1, <3>2 DEF Works
    <3>4. LastAfter(s)' = row'[s] /\ Chain(s)'
      BY <2>1, <2>2, <3>1 DEF TrailInv, Good, Complete, Chain, LastAfter
    <3> QED
      BY <2>1, <2>2, <3>2, <3>3, <3>4 DEF Good, AtMostOne, InStep, Complete
  <2>3. CASE p # s
    <3>1. PICK before \in State : Move(r, "write", s, before, after)
      BY <1>0, <1>2 DEF Capture, GetProject, Typed, State
    <3>2. /\ request'[r].project = s
          /\ \A q \in Request \ {r} : request'[q] = request[q]
      BY <1>0, <3>1, MoveEffect
    <3> QED
      BY <2>1, <2>3, <3>2, GoodFrame DEF TrailInv, Works
  <2> QED
    BY <2>2, <2>3
<1>3. ASSUME NEW r \in Request, Write(r) PROVE Good(p)'
  <2>1. PICK s \in Project : s = request[r].project
    BY <1>3 DEF TypeOK, Write
  <2>2. /\ request[r].before \in State /\ request[r].after \in State
        /\ Works(r, s) /\ request[r].at = "write" /\ p \notin Excused /\ log' = log
    BY <1>0, <1>3, <2>1 DEF Typed, Handler, Write, Works, Excused
  <2>3. CASE /\ Move(r, "record", s, request[r].before, request[r].after)
             /\ row' = [row EXCEPT ![s] = request[r].after]
    <3>1. /\ request'[r].at = "record" /\ request'[r].project = s
          /\ request'[r].before = request[r].before /\ request'[r].after = request[r].after
          /\ \A q \in Request \ {r} : request'[q] = request[q]
      BY <1>0, <2>2, <2>3, MoveEffect
    <3>2. row'[s] = request[r].after /\ \A q \in Project \ {s} : row'[q] = row[q]
      BY <1>0, <2>3 DEF Typed
    <3>3. CASE p = s
      <4>1. Good(s)
        BY <2>2, <3>3 DEF TrailInv
      <4>2. \A q \in Request : Works(q, s) <=> q = r
        BY <2>2, <4>1 DEF Good, AtMostOne
      <4>3. \A q \in Request : Works(q, s)' <=> q = r
        BY <3>1, <4>2 DEF Works
      <4>4. LastAfter(s) = row[s] /\ request[r].before = row[s]
        BY <2>2, <4>1, <4>2 DEF Good, Complete, InStep
      <4>5. LastAfter(s)' = LastAfter(s) /\ Chain(s)'
        BY <2>2, <4>1 DEF LastAfter, Good, Chain
      <4> QED
        BY <3>1, <3>2, <3>3, <4>3, <4>4, <4>5 DEF Good, AtMostOne, InStep, Complete
    <3>4. CASE p # s
      BY <2>1, <2>2, <3>1, <3>2, <3>4, GoodFrame DEF TrailInv, Works
    <3> QED
      BY <3>3, <3>4
  <2>4. CASE Finish(r) /\ UNCHANGED row
    <3>1. /\ request'[r].at = "idle"
          /\ \A q \in Request \ {r} : request'[q] = request[q]
      BY <1>0, <2>4, FinishEffect
    <3>2. CASE p = s
      BY <2>2, <2>4, <3>1, <3>2, GoodEnd DEF TrailInv
    <3>3. CASE p # s
      BY <2>1, <2>2, <2>4, <3>1, <3>3, GoodFrame DEF TrailInv, Works
    <3> QED
      BY <3>2, <3>3
  <2> QED
    BY <1>3, <2>1, <2>3, <2>4 DEF Write, DeleteProject, UpdateProject
<1>4. ASSUME NEW r \in Request, Reject(r) PROVE Good(p)'
  <2>1. PICK s \in Project : s = request[r].project
    BY <1>4 DEF TypeOK, Reject
  <2>2. /\ Works(r, s) /\ request[r].at = "write" /\ p \notin Excused
        /\ log' = log /\ row' = row
    BY <1>4, <2>1 DEF Reject, Works, Excused
  <2>3. /\ request'[r].at = "idle"
        /\ \A q \in Request \ {r} : request'[q] = request[q]
    BY <1>0, <1>4, FinishEffect DEF Reject
  <2>4. CASE p = s
    BY <2>2, <2>3, <2>4, GoodEnd DEF TrailInv
  <2>5. CASE p # s
    BY <2>1, <2>2, <2>3, <2>5, GoodFrame DEF TrailInv, Works
  <2> QED
    BY <2>4, <2>5
<1>5. ASSUME NEW r \in Request, Record(r) PROVE Good(p)'
  <2>1. PICK s \in Project : s = request[r].project
    BY <1>5 DEF TypeOK, Record
  <2>2. /\ request[r].before \in State /\ request[r].after \in State
        /\ Works(r, s) /\ request[r].at = "record" /\ p \notin Excused /\ row' = row
    BY <1>0, <1>5, <2>1 DEF Typed, Handler, Record, Works, Excused
  <2>3. /\ request'[r].at = "idle"
        /\ \A q \in Request \ {r} : request'[q] = request[q]
    BY <1>0, <1>5, FinishEffect DEF Record
  <2>4. CASE p = s
    <3>1. Good(s)
      BY <2>2, <2>4 DEF TrailInv
    <3>2. InsertAuditLog(s, request[r].before, request[r].after)
      BY <1>5, <2>1, <2>4 DEF Record, Excused
    <3>3. PICK n \in Nat : n = Len(log[s])
      BY <1>0, <2>2, <3>2, InsertEffect
    <3>4. /\ Len(log'[s]) = n + 1
          /\ \A i \in 1 .. n : log'[s][i] = log[s][i]
          /\ log'[s][n + 1].before = request[r].before
          /\ log'[s][n + 1].after = request[r].after
      BY <1>0, <2>2, <3>2, <3>3, InsertEffect
    <3>5. /\ request[r].after = row[s] /\ request[r].before = LastAfter(s)
          /\ \A q \in Request : Works(q, s) <=> q = r
      BY <2>2, <3>1 DEF Good, AtMostOne, InStep
    <3>6. \A q \in Request : ~ Works(q, s)'
      BY <2>3, <3>5 DEF Works
    <3>7. LastAfter(s)' = row'[s]
      <4>1. log'[s] # <<>>
        BY <3>4
      <4> QED
        BY <2>2, <3>4, <3>5, <4>1 DEF LastAfter
    <3>8. LastAfter(s) = IF n = 0 THEN Absent ELSE log[s][n].after
      BY <1>0, <3>3 DEF LastAfter, Typed
    <3>9. Chain(s)'
      <4> SUFFICES ASSUME NEW i \in 1 .. n + 1
                   PROVE  log'[s][i].before = IF i = 1 THEN Absent ELSE log'[s][i - 1].after
        BY <3>4 DEF Chain
      <4>1. CASE i = n + 1
        <5>1. CASE n = 0
          BY <3>4, <3>5, <3>8, <4>1, <5>1
        <5>2. CASE n > 0
          BY <3>4, <3>5, <3>8, <4>1, <5>2
        <5> QED
          BY <5>1, <5>2
      <4>2. CASE i \in 1 .. n
        <5>1. log'[s][i] = log[s][i] /\ (i # 1 => log'[s][i - 1] = log[s][i - 1])
          BY <3>4, <4>2
        <5> QED
          BY <3>1, <3>3, <4>2, <5>1 DEF Chain, Good
      <4> QED
        BY <4>1, <4>2
    <3> QED
      BY <2>4, <3>6, <3>7, <3>9 DEF Good, AtMostOne, InStep, Complete
  <2>5. CASE p # s
    <3>1. log'[p] = log[p]
      BY <1>0, <1>5, <2>1, <2>2, <2>5, InsertEffect DEF Record
    <3> QED
      BY <2>1, <2>2, <2>3, <2>5, <3>1, GoodFrame DEF TrailInv, Works
  <2> QED
    BY <2>4, <2>5
<1>6. CASE Crash
  <2>1. /\ p \notin Excused /\ row' = row /\ log' = log
        /\ \A r \in Request : ~ (request[r].at = "record" /\ request[r].project = p)
        /\ \A r \in Request : request'[r].at = "idle"
    BY <1>6 DEF Crash, Excused, Idle
  <2>2. LastAfter(p)' = row'[p] /\ Chain(p)'
    BY <2>1 DEF TrailInv, Good, Complete, Works, LastAfter, Chain
  <2> QED
    BY <2>1, <2>2 DEF Good, AtMostOne, InStep, Complete, Works
<1>7. CASE UNCHANGED vars
  BY <1>7, GoodFrame DEF TrailInv, vars, Excused
<1> QED
  BY <1>1, <1>2, <1>3, <1>4, <1>5, <1>6, <1>7 DEF Next, Update, Delete, State

\* The audit trail (Record after every write): a project on which no handlers
\* overlapped, and none of whose reads or records failed, has a trail that is a
\* chain and ends at its row.
THEOREM TrailSafe == Spec => [](TrailIsChain /\ TrailIsComplete)
<1>1. Init => TrailInv
  <2> SUFFICES ASSUME Init, NEW p \in Project PROVE Good(p)
    BY DEF TrailInv
  <2>1. log[p] = <<>> /\ row[p] = Absent /\ \A r \in Request : ~ Works(r, p)
    BY DEF Init, Works, Idle
  <2> QED
    BY <2>1 DEF Good, AtMostOne, InStep, Chain, Complete, LastAfter
<1>2. TrailInv => TrailIsChain /\ TrailIsComplete
  BY DEF TrailInv, Good, Chain, Complete, Works, TrailIsChain, TrailIsComplete
<1> QED
  BY <1>1, <1>2, TypeCorrect, TrailStep, PTL DEF Spec

\* The trail is complete: a handler whose change is written and not recorded
\* is still about to record it.
COROLLARY TrailEndsAtRow == Spec => []TrailIsComplete
  BY TrailSafe, PTL

-----------------------------------------------------------------------------
(***************************************************************************)
(* Reading page by page.  The entries that the reader has not seen stand   *)
(* below the pages it has asked for: an entry that is added only moves     *)
(* others down.                                                            *)
(***************************************************************************)
Item == Project \X Nat

\* An entry is put behind the first k of a sequence.
Put(s, k, e) == SubSeq(s, 1, k) \o <<e>> \o SubSeq(s, k + 1, Len(s))

LEMMA PutEffect ==
  ASSUME NEW S, NEW s \in Seq(S), NEW e \in S, NEW k \in 0 .. Len(s)
  PROVE  /\ Put(s, k, e) \in Seq(S) /\ Len(Put(s, k, e)) = Len(s) + 1
         /\ \A i \in 1 .. Len(s) : Put(s, k, e)[IF i <= k THEN i ELSE i + 1] = s[i]
<1> DEFINE t == Put(s, k, e)
           a == SubSeq(s, 1, k)
           b == SubSeq(s, k + 1, Len(s))
<1>0. Len(s) \in Nat /\ k \in Nat
  OBVIOUS
<1>1. a \in Seq(S) /\ Len(a) = k /\ \A i \in 1 .. k : a[i] = s[i]
  BY <1>0, SubSeqProperties
<1>2. /\ b \in Seq(S) /\ Len(b) = Len(s) - k
      /\ \A i \in 1 .. Len(s) - k : b[i] = s[k + i]
  BY <1>0, SubSeqProperties
<1> HIDE DEF a, b
<1>3. <<e>> \in Seq(S) /\ Len(<<e>>) = 1
  OBVIOUS
<1> DEFINE c == a \o <<e>>
<1>4. c \in Seq(S) /\ Len(c) = k + 1 /\ \A i \in 1 .. k : c[i] = s[i]
  <2>1. /\ c \in Seq(S) /\ Len(c) = Len(a) + Len(<<e>>)
        /\ \A i \in 1 .. Len(a) + Len(<<e>>) :
             c[i] = IF i <= Len(a) THEN a[i] ELSE <<e>>[i - Len(a)]
    BY <1>1, <1>3, ConcatProperties, Zenon
  <2> QED
    BY <1>0, <1>1, <1>3, <2>1
<1>5. t = c \o b
  BY DEF Put, a, b
<1> HIDE DEF c, t
<1>6. /\ t \in Seq(S) /\ Len(t) = Len(c) + Len(b)
      /\ \A i \in 1 .. Len(c) + Len(b) : t[i] = IF i <= Len(c) THEN c[i] ELSE b[i - Len(c)]
  BY <1>2, <1>4, <1>5, ConcatProperties, Zenon
<1>7. Len(t) = Len(s) + 1 /\ Len(c) + Len(b) = Len(s) + 1
  BY <1>0, <1>2, <1>4, <1>6
<1>8. ASSUME NEW i \in 1 .. Len(s) PROVE t[IF i <= k THEN i ELSE i + 1] = s[i]
  <2>1. CASE i <= k
    <3>1. i \in 1 .. Len(c) + Len(b) /\ i <= Len(c) /\ i \in 1 .. k
      BY <1>0, <1>4, <1>7, <2>1
    <3> QED
      BY <1>4, <1>6, <2>1, <3>1
  <2>2. CASE ~ (i <= k)
    <3>1. /\ i + 1 \in 1 .. Len(c) + Len(b) /\ ~ (i + 1 <= Len(c))
          /\ i + 1 - Len(c) = i - k
          /\ i - k \in 1 .. Len(s) - k /\ k + (i - k) = i
      BY <1>0, <1>4, <1>7, <2>2
    <3>2. t[i + 1] = b[i - k]
      <4>1. PICK j \in 1 .. Len(c) + Len(b) : j = i + 1
        BY <3>1
      <4>2. ~ (j <= Len(c)) /\ j - Len(c) = i - k
        BY <3>1, <4>1
      <4>3. t[j] = b[j - Len(c)]
        BY <1>6, <4>2
      <4> QED
        BY <4>1, <4>2, <4>3
    <3>3. b[i - k] = s[i]
      BY <1>2, <3>1
    <3> QED
      BY <2>2, <3>2, <3>3
  <2> QED
    BY <2>1, <2>2
<1> QED
  BY <1>6, <1>7, <1>8 DEF t


\* A page holds the entries at the places behind its offset, and is not full
\* only at the end.
LEMMA PageEffect ==
  ASSUME listing \in Seq(Item), NEW limit \in Nat, limit > 0, NEW offset \in Nat
  PROVE  LET page == ListAuditLogs(limit, offset) IN
         /\ Len(page) \in Nat
         /\ Len(page) < limit => Len(listing) < offset + limit
         /\ \A i \in 1 .. Len(listing) :
              i > offset /\ i <= offset + limit => listing[i] \in Items(page)
<1> DEFINE last == IF Len(listing) < offset + limit THEN Len(listing) ELSE offset + limit
           page == SubSeq(listing, offset + 1, last)
<1>0. Len(listing) \in Nat /\ last \in Nat /\ last <= Len(listing) /\ last <= offset + limit
  OBVIOUS
<1>1. \A i \in offset + 1 .. last : listing[i] \in Item
  BY <1>0, ElementOfSeq
<1>2. last # offset + limit => Len(listing) < offset + limit
  OBVIOUS
<1>3. \A i \in 1 .. Len(listing) : i <= offset + limit => i <= last
  BY <1>0
<1> HIDE DEF last
<1>4. /\ Len(page) = IF offset + 1 <= last THEN last - (offset + 1) + 1 ELSE 0
      /\ \A i \in 1 .. last - (offset + 1) + 1 : page[i] = listing[offset + 1 + i - 1]
  BY <1>0, <1>1, SubSeqProperties
<1>5. page = ListAuditLogs(limit, offset)
  BY DEF ListAuditLogs, last
<1> HIDE DEF page
<1>6. Len(page) \in Nat /\ (Len(page) < limit => Len(listing) < offset + limit)
  BY <1>0, <1>2, <1>4
<1>7. ASSUME NEW i \in 1 .. Len(listing), i > offset, i <= offset + limit
      PROVE  listing[i] \in Items(page)
  <2>1. i <= last
    BY <1>3, <1>7
  <2>2. PICK j \in 1 .. last - (offset + 1) + 1 : offset + 1 + j - 1 = i
    <3>1. i - offset \in 1 .. last - (offset + 1) + 1 /\ offset + 1 + (i - offset) - 1 = i
      BY <1>0, <1>7, <2>1
    <3> QED
      BY <3>1
  <2>3. j \in 1 .. Len(page) /\ page[j] = listing[i]
    BY <1>0, <1>4, <2>2
  <2> QED
    BY <2>3 DEF Items
<1> QED
  BY <1>5, <1>6, <1>7

ReaderType == [at      : {"idle", "reading", "done"},
               size    : 0 .. MaxSize,
               page    : Nat \ {0},
               missing : SUBSET Item]

\* The handlers that are about to record were overtaken by entries that are in
\* the listing.
ListingInv ==
  /\ listing \in Seq(Item)
  /\ later \in [Request -> Nat]
  /\ \A r \in Request : later[r] <= Len(listing)

\* x stands behind the offset.
Ahead(x, offset) == \E i \in 1 .. Len(listing) : i > offset /\ listing[i] = x

ReadInv ==
  /\ reader \in ReaderType
  /\ reader.at = "reading" =>
       /\ reader.size > 0
       /\ \A x \in reader.missing : Ahead(x, (reader.page - 1) * reader.size)
  /\ PagesMissNothing

\* Reading changes nothing of the trail.
LEMMA PagesStepIsStep == [PagesNext]_pageVars => [Next]_vars
<1>1. PagesNext => [Next]_vars
  BY DEF PagesNext, Next, Handle, Insert, StartReading, ReadPage
<1>2. UNCHANGED pageVars => UNCHANGED vars
  BY DEF pageVars
<1> QED
  BY <1>1, <1>2

LEMMA ListingStep == TypeOK /\ TypeOK' /\ ListingInv /\ [PagesNext]_pageVars
                       => /\ ListingInv'
                          /\ \A x, o : o \in Nat /\ Ahead(x, o) => Ahead(x, o)'
<1> SUFFICES ASSUME TypeOK, TypeOK', ListingInv, [PagesNext]_pageVars
             PROVE  ListingInv' /\ \A x, o : o \in Nat /\ Ahead(x, o) => Ahead(x, o)'
  OBVIOUS
<1>0. listing \in Seq(Item) /\ Len(listing) \in Nat /\ later \in [Request -> Nat]
  BY DEF ListingInv
<1>1. CASE UNCHANGED <<listing, later>>
  BY <1>1 DEF ListingInv, Ahead
<1>2. CASE UNCHANGED listing /\ later' = [r \in Request |-> 0]
  BY <1>0, <1>2 DEF ListingInv, Ahead
<1>3. ASSUME NEW r \in Request, Insert(r)
      PROVE  ListingInv' /\ \A x, o : o \in Nat /\ Ahead(x, o) => Ahead(x, o)'
  <2>1. CASE log' = log
    <3>1. UNCHANGED listing /\ later' = [later EXCEPT ![r] = 0]
      BY <1>3, <2>1 DEF Insert
    <3> QED
      BY <1>0, <3>1 DEF ListingInv, Ahead
  <2>2. CASE log' # log
    <3> DEFINE p == request[r].project
               e == <<p, Len(log'[p])>>
    <3>1. request[r].at = "record" /\ p \in Project
      BY <1>3 DEF Insert, Record, TypeOK
    <3>2. Len(log'[p]) \in Nat
      BY <3>1 DEF TypeOK
    <3>3. e \in Item
      BY <3>1, <3>2 DEF Item
    <3>4. PICK k \in 0 .. later[r] : listing' = Put(listing, k, e)
      BY <1>3, <2>2 DEF Insert, Put
    <3>5. later' = [q \in Request |-> IF q # r /\ request[q].at = "record" THEN later[q] + 1 ELSE 0]
      BY <1>3, <2>2 DEF Insert
    <3> HIDE DEF e, p
    <3>6. k \in 0 .. Len(listing)
      BY <1>0, <3>4 DEF ListingInv
    <3>7. /\ listing' \in Seq(Item) /\ Len(listing') = Len(listing) + 1
          /\ \A i \in 1 .. Len(listing) : listing'[IF i <= k THEN i ELSE i + 1] = listing[i]
      BY <1>0, <3>3, <3>4, <3>6, PutEffect
    <3>8. ListingInv'
      <4>1. later' \in [Request -> Nat]
        BY <1>0, <3>5
      <4>2. ASSUME NEW q \in Request PROVE later'[q] <= Len(listing')
        <5>1. later[q] \in Nat /\ later[q] <= Len(listing)
          BY <1>0 DEF ListingInv
        <5>2. later'[q] = later[q] + 1 \/ later'[q] = 0
          BY <3>5
        <5> QED
          BY <1>0, <3>7, <5>1, <5>2
      <4> QED
        BY <3>7, <4>1, <4>2 DEF ListingInv
    <3>9. ASSUME NEW x, NEW o \in Nat, Ahead(x, o) PROVE Ahead(x, o)'
      <4>1. PICK i \in 1 .. Len(listing) : i > o /\ listing[i] = x
        BY <3>9 DEF Ahead
      <4>2. PICK j \in Nat : j = IF i <= k THEN i ELSE i + 1
        OBVIOUS
      <4>3. j \in 1 .. Len(listing') /\ j > o
        BY <1>0, <3>7, <4>1, <4>2
      <4>4. listing'[j] = x
        BY <3>7, <4>1, <4>2
      <4> QED
        BY <4>3, <4>4 DEF Ahead
    <3> QED
      BY <3>8, <3>9
  <2> QED
    BY <2>1, <2>2
<1> QED
  BY <1>1, <1>2, <1>3 DEF PagesNext, Handle, StartReading, ReadPage, pageVars


\* One request of the reader: the page at the offset, and the next offset.
LEMMA ReadPageStep ==
  ASSUME ListingInv, ReadInv, ReadPage
  PROVE  ReadInv'
<1> DEFINE size   == reader.size
           offset == (reader.page - 1) * reader.size
           items  == List(reader.size, offset)
<1>0. /\ reader \in ReaderType /\ reader.at = "reading" /\ size \in 1 .. MaxSize
      /\ reader.page \in Nat \ {0} /\ reader.missing \in SUBSET Item /\ MaxSize \in Nat
      /\ \A x \in reader.missing : Ahead(x, offset)
  BY AuditPagesAssumption DEF ReadInv, ReadPage, ReaderType
<1>1. offset \in Nat /\ reader.page * size = offset + size
  <2>1. PICK p \in Nat, s \in Nat : reader.page = p + 1 /\ reader.size = s
    <3>1. reader.page - 1 \in Nat /\ reader.page = (reader.page - 1) + 1 /\ reader.size \in Nat
      BY <1>0
    <3> QED
      BY <3>1
  <2>2. offset = p * s /\ p * s \in Nat /\ (p + 1) * s = p * s + s
    BY <2>1
  <2> QED
    BY <2>1, <2>2
<1>2. UNCHANGED listing
  BY DEF ReadPage
<1>3. items = ListAuditLogs(size, offset)
  BY <1>0 DEF List
<1>4. reader' = IF Len(items) < size
                  THEN [NoReader EXCEPT !.at = "done", !.missing = reader.missing \ Items(items)]
                  ELSE [reader EXCEPT !.page = @ + 1, !.missing = reader.missing \ Items(items)]
  BY DEF ReadPage
<1> HIDE DEF items, offset, size
<1>5. /\ Len(items) \in Nat /\ (Len(items) < size => Len(listing) < offset + size)
      /\ \A i \in 1 .. Len(listing) : i > offset /\ i <= offset + size => listing[i] \in Items(items)
  <2>1. size \in Nat /\ size > 0 /\ offset \in Nat /\ listing \in Seq(Item)
    BY <1>0, <1>1 DEF ListingInv
  <2> QED
    BY <1>3, <2>1, PageEffect
<1>6. ASSUME NEW x \in reader.missing, x \notin Items(items)
      PROVE  Ahead(x, offset + size) /\ ~ (Len(items) < size)
  <2>1. PICK i \in 1 .. Len(listing) : i > offset /\ listing[i] = x
    BY <1>0 DEF Ahead
  <2>2. i > offset + size
    BY <1>0, <1>1, <1>5, <1>6, <2>1
  <2>3. Len(listing) \in Nat
    BY DEF ListingInv
  <2> QED
    BY <1>0, <1>1, <1>5, <2>1, <2>2, <2>3 DEF Ahead
<1>7. CASE Len(items) < size
  <2>1. reader.missing \ Items(items) = {}
    BY <1>6, <1>7
  <2>2. reader' = [at |-> "done", size |-> 0, page |-> 1, missing |-> {}]
    BY <1>4, <1>7, <2>1 DEF NoReader
  <2> QED
    BY <1>0, <2>2 DEF ReadInv, ReaderType, PagesMissNothing
<1>8. CASE ~ (Len(items) < size)
  <2>1. reader' = [at |-> "reading", size |-> reader.size, page |-> reader.page + 1,
                   missing |-> reader.missing \ Items(items)]
    BY <1>0, <1>4, <1>8 DEF ReaderType
  <2>2. reader' \in ReaderType /\ reader'.size = size /\ size > 0
    BY <1>0, <2>1 DEF ReaderType, size
  <2>3. (reader'.page - 1) * reader'.size = offset + size
    <3>1. reader'.page - 1 = reader.page
      BY <1>0, <2>1
    <3> QED
      BY <1>1, <2>2, <3>1
  <2>4. ASSUME NEW x \in reader'.missing PROVE Ahead(x, (reader.page - 1) * reader.size)'
    <3>1. Ahead(x, offset + size)
      BY <1>6, <2>1
    <3> QED
      BY <1>2, <2>3, <3>1 DEF Ahead
  <2> QED
    BY <2>1, <2>2, <2>4 DEF ReadInv, PagesMissNothing
<1> QED
  BY <1>7, <1>8

LEMMA ReadStep == TypeOK /\ TypeOK' /\ ListingInv /\ ReadInv /\ [PagesNext]_pageVars => ReadInv'
<1> SUFFICES ASSUME TypeOK, TypeOK', ListingInv, ReadInv, [PagesNext]_pageVars PROVE ReadInv'
  OBVIOUS
<1>1. CASE UNCHANGED reader
  <2>1. ASSUME reader.at = "reading", NEW x \in reader.missing
        PROVE  Ahead(x, (reader.page - 1) * reader.size)'
    <3>1. PICK o \in Nat : o = (reader.page - 1) * reader.size
      <4>1. reader.page - 1 \in Nat /\ reader.size \in Nat
        BY AuditPagesAssumption DEF ReadInv, ReaderType
      <4> QED
        BY <4>1
    <3>2. Ahead(x, o)
      BY <2>1, <3>1 DEF ReadInv
    <3>3. Ahead(x, o)'
      BY <3>2, ListingStep
    <3> QED
      BY <1>1, <3>1, <3>3 DEF Ahead
  <2> QED
    BY <1>1, <2>1 DEF ReadInv, PagesMissNothing
<1>2. ASSUME NEW n \in RequestedSize, StartReading(n) PROVE ReadInv'
  <2>1. n \in Nat /\ PageSize(n) \in 1 .. MaxSize /\ MaxSize \in Nat
    BY AuditPagesAssumption DEF PageSize
  <2>2. reader' = [at |-> "reading", size |-> PageSize(n), page |-> 1, missing |-> Items(listing)]
    BY <1>2 DEF StartReading, NoReader
  <2>3. Items(listing) \in SUBSET Item
    BY ElementOfSeq DEF Items, ListingInv
  <2>4. UNCHANGED listing /\ (1 - 1) * PageSize(n) = 0
    BY <1>2, <2>1 DEF StartReading
  <2>5. \A x \in reader'.missing : Ahead(x, (reader.page - 1) * reader.size)'
    <3>1. \A x \in Items(listing) : Ahead(x, 0)
      BY DEF Items, Ahead
    <3> QED
      BY <2>2, <2>4, <3>1 DEF Ahead
  <2> QED
    BY <2>1, <2>2, <2>3, <2>5 DEF ReadInv, ReaderType, PagesMissNothing
<1>3. CASE ReadPage
  BY <1>3, ReadPageStep
<1> QED
  BY <1>1, <1>2, <1>3 DEF PagesNext, Handle, Insert, pageVars

\* Reading the trail is safe for the handlers that write it: whatever pages a
\* client asks for, they behave as without it.
THEOREM ReadersDoNotWrite == PagesSpec => Spec
<1>1. PagesInit => Init
  BY DEF PagesInit
<1> QED
  BY <1>1, PagesStepIsStep, PTL DEF PagesSpec, Spec

\* A client that reads List of the audit handler to a page that is not full
\* has seen every entry there was when it started, for every page size it asks
\* for and however many entries are recorded, in any order, while it reads.
THEOREM ReadersMissNothing == PagesSpec => []PagesMissNothing
<1>1. PagesInit => TypeOK /\ ListingInv /\ ReadInv
  <2> SUFFICES ASSUME PagesInit PROVE TypeOK /\ ListingInv /\ ReadInv
    OBVIOUS
  <2>1. TypeOK
    BY AuditTrailAssumption DEF PagesInit, Init, TypeOK, Handler, Idle, State
  <2>2. ListingInv
    BY DEF PagesInit, ListingInv
  <2>3. ReadInv
    BY AuditPagesAssumption DEF PagesInit, NoReader, ReadInv, ReaderType, PagesMissNothing
  <2> QED
    BY <2>1, <2>2, <2>3
<1>2. TypeOK /\ [PagesNext]_pageVars => TypeOK'
  BY PagesStepIsStep, TypeStep
<1>3. ReadInv => PagesMissNothing
  BY DEF ReadInv
<1> QED
  BY <1>1, <1>2, <1>3, ListingStep, ReadStep, PTL DEF PagesSpec

=============================================================================
