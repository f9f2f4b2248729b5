----------------------------- MODULE AuditTrail -----------------------------
(***************************************************************************)
(* Projects and their audit trail: internal/http/handlers/projects.go on   *)
(* the tables projects and audit_logs.  A handler reads the row, writes it *)
(* and records the change with what it read as Before and what it wrote as *)
(* After: three statements without a transaction, and the errors of the    *)
(* first and of the last are ignored.                                      *)
(*                                                                         *)
(* Abstractions.  The projects of one organization (every query filters on *)
(* org_id).  Name and description are one content: the binding requires a  *)
(* name, so an UPDATE replaces both.  log[p] is the part of audit_logs     *)
(* about p, in the order of its id.  The handlers List and Get only read.  *)
(***************************************************************************)
EXTENDS Naturals, Sequences

CONSTANTS Project,   \* project ids (bound: an id is used once)
          Content,   \* contents of a row
          Absent,    \* no row; as Before or After, an empty project
          Request,   \* slots of concurrently running handlers
          NoProject, \* an idle slot has no project
          MaxLog,    \* bound on the entries about one project
          Faults     \* "db": a statement may fail; "crash": the server may

ASSUME AuditTrailAssumption ==
  /\ Absent \notin Content
  /\ NoProject \notin Project
  /\ MaxLog \in Nat
  /\ Faults \subseteq {"db", "crash"}

VARIABLES
  row,      \* content of each row of projects
  created,  \* ids that InsertProject has used
  log,      \* audit entries about each project
  request   \* where each running handler is, and what it will write

(***************************************************************************)
(* History variables.                                                      *)
(***************************************************************************)
VARIABLES
  overlapped,  \* projects two handlers worked on at once
  lost         \* projects with a change that was never recorded, or recorded
               \* without the Before that could not be read

vars == <<row, created, log, request, overlapped, lost>>

-----------------------------------------------------------------------------
State == Content \cup {Absent}
Entry == [before : State, after : State]

\* after is what the handler will write: Absent for a delete.
Handler == [at      : {"idle", "write", "record"},
            project : Project \cup {NoProject},
            before  : State,
            after   : State]

Idle == [at |-> "idle", project |-> NoProject, before |-> Absent, after |-> Absent]

Init ==
  /\ row = [p \in Project |-> Absent]
  /\ created = {}
  /\ log = [p \in Project |-> <<>>]
  /\ request = [r \in Request |-> Idle]
  /\ overlapped = {} /\ lost = {}

DbFails == "db" \in Faults

Busy(p)   == \E r \in Request : request[r].at # "idle" /\ request[r].project = p
Finish(r) == request' = [request EXCEPT ![r] = Idle]
Move(r, at, p, before, after) ==
  request' = [request EXCEPT ![r] =
                [at |-> at, project |-> p, before |-> before, after |-> after]]

-----------------------------------------------------------------------------
(***************************************************************************)
(* The statements.                                                         *)
(***************************************************************************)
InsertProject(p, c) ==
  /\ p \notin created                    \* Create draws a fresh id
  /\ created' = created \cup {p}
  /\ row' = [row EXCEPT ![p] = c]

GetProject(p) == row[p]

UpdateProject(p, c) == row[p] # Absent /\ row' = [row EXCEPT ![p] = c]
DeleteProject(p)    == row[p] # Absent /\ row' = [row EXCEPT ![p] = Absent]

InsertAuditLog(p, before, after) ==
  log' = [log EXCEPT ![p] = Append(@, [before |-> before, after |-> after])]

-----------------------------------------------------------------------------
\* Create: the INSERT; the record follows.
Create(r, p, c) ==
  /\ request[r].at = "idle"
  /\ InsertProject(p, c)
  /\ Move(r, "record", p, Absent, c)
  /\ UNCHANGED <<log, overlapped, lost>>

\* "Capture before state".  If the read fails, Before is an empty project.
\* (Without a row the write that follows finds none either, and nothing
\* happens.)
Capture(r, p, after) ==
  /\ request[r].at = "idle"
  /\ GetProject(p) # Absent
  /\ Len(log[p]) < MaxLog
  /\ \/ Move(r, "write", p, GetProject(p), after) /\ UNCHANGED lost
     \/ DbFails /\ Move(r, "write", p, Absent, after) /\ lost' = lost \cup {p}
  /\ overlapped' = IF Busy(p) THEN overlapped \cup {p} ELSE overlapped
  /\ UNCHANGED <<row, created, log>>

Update(r, p, c) == Capture(r, p, c)
Delete(r, p)    == Capture(r, p, Absent)

\* mutant: the handler returns without recording
WriteUnrecorded(r) ==
  LET p == request[r].project
  IN  /\ request[r].at = "write"
      /\ row' = [row EXCEPT ![p] = request[r].after]
      /\ Finish(r)
      /\ UNCHANGED <<created, log, overlapped, lost>>

\* The UPDATE or DELETE.  It may find no row any more, or fail: the handler
\* then answers 404 or 500 and records nothing.
Write(r) ==
  LET p == request[r].project
  IN  /\ request[r].at = "write"
      /\ \/ /\ IF request[r].after = Absent
                 THEN DeleteProject(p) ELSE UpdateProject(p, request[r].after)
            /\ Move(r, "record", p, request[r].before, request[r].after)
         \/ /\ row[p] = Absent \/ DbFails
            /\ Finish(r)
            /\ UNCHANGED row
      /\ UNCHANGED <<created, log, overlapped, lost>>

\* Update reads the row before it binds the payload, and answers 422 if that
\* fails.
Reject(r) ==
  /\ request[r].at = "write" /\ request[r].after # Absent
  /\ Finish(r)
  /\ UNCHANGED <<row, created, log, overlapped, lost>>

\* mutant: the entry holds the new content twice
RecordAfterTwice(r) ==
  LET p == request[r].project
  IN  /\ request[r].at = "record"
      /\ Finish(r)
      /\ InsertAuditLog(p, request[r].after, request[r].after)
      /\ UNCHANGED <<row, created, overlapped, lost>>

\* Record; its error is ignored.
Record(r) ==
  LET p == request[r].project
  IN  /\ request[r].at = "record"
      /\ Finish(r)
      /\ \/ InsertAuditLog(p, request[r].before, request[r].after) /\ UNCHANGED lost
         \/ DbFails /\ lost' = lost \cup {p} /\ UNCHANGED log
      /\ UNCHANGED <<row, created, overlapped>>

\* The process dies: changes that were written and not recorded are lost.
Crash ==
  /\ "crash" \in Faults
  /\ \E r \in Request : request[r].at # "idle"
  /\ request' = [r \in Request |-> Idle]
  /\ lost' = lost \cup {p \in Project :
       \E r \in Request : request[r].at = "record" /\ request[r].project = p}
  /\ UNCHANGED <<row, created, log, overlapped>>

Next ==
  \/ \E r \in Request, p \in Project, c \in Content : Create(r, p, c)
  \/ \E r \in Request, p \in Project, c \in Content : Update(r, p, c)
  \/ \E r \in Request, p \in Project : Delete(r, p)
  \/ \E r \in Request : Write(r) \/ Reject(r) \/ Record(r)
  \/ Crash

Spec == Init /\ [][Next]_vars

\* A handler that has started runs to its end.
Fairness == \A r \in Request : WF_vars(Write(r) \/ Reject(r) \/ Record(r))
FairSpec == Spec /\ Fairness

-----------------------------------------------------------------------------
\* The variables have their types; a row exists, and is worked on and logged,
\* only after its project was created.
TypeOK ==
  /\ row \in [Project -> State]
  /\ created \subseteq Project
  /\ log \in [Project -> Seq(Entry)]
  /\ request \in [Request -> Handler]
  /\ overlapped \subseteq Project
  /\ lost \subseteq Project
  /\ \A r \in Request : request[r].at # "idle" => request[r].project \in created
  /\ \A p \in Project \ created : row[p] = Absent /\ log[p] = <<>>

Excused == overlapped \cup lost

LastAfter(p) == IF log[p] = <<>> THEN Absent ELSE log[p][Len(log[p])].after

\* The trail of a project is a chain: each entry's Before is the After of the
\* one before it and the first starts from nothing, unless handlers
\* overlapped on the project or a read or record failed.
TrailIsChain ==
  \A p \in Project \ Excused : \A i \in 1 .. Len(log[p]) :
    log[p][i].before = IF i = 1 THEN Absent ELSE log[p][i - 1].after

\* The trail is complete: its last entry holds what the row holds, unless a
\* handler is about to record its change, or as above.
TrailIsComplete ==
  \A p \in Project \ Excused :
    \/ LastAfter(p) = row[p]
    \/ \E r \in Request : request[r].at = "record" /\ request[r].project = p

\* A change that was written is recorded in the end: the trail catches up with
\* the row, or as above.
TrailCatchesUp ==
  \A p \in Project : []<>(p \in Excused \/ LastAfter(p) = row[p])

=============================================================================
