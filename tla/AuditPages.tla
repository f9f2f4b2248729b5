----------------------------- MODULE AuditPages -----------------------------
(***************************************************************************)
(* Reading the audit trail page by page, while the handlers of AuditTrail  *)
(* write it: List in internal/http/handlers/audit.go, the service's List   *)
(* and its query.                                                          *)
(*                                                                         *)
(* Abstractions.  The filters are left out: each selects by columns that   *)
(* never change, so the entries that match are a trail like the whole.     *)
(* Record reads the clock before the INSERT, so an entry may come to stand *)
(* below entries with a smaller id; no two have the same microsecond.      *)
(***************************************************************************)
EXTENDS AuditTrail

CONSTANTS MaxSize,       \* 100 in the code
          DefaultSize,   \* 20 in the code
          RequestedSize  \* values of page_size in requests; 0 if there is none

ASSUME AuditPagesAssumption ==
  /\ DefaultSize \in 1 .. MaxSize /\ MaxSize \in Nat
  /\ RequestedSize \subseteq Nat

VARIABLES
  listing,  \* <<project, position in its log>> of the entries, newest first
  later,    \* entries added since each handler's change was written
  reader    \* a client that asks for one page after the other

pageVars == <<vars, listing, later, reader>>

\* missing holds the entries there were when it started that it has not seen.
NoReader == [at |-> "idle", size |-> 0, page |-> 1, missing |-> {}]

PagesInit ==
  /\ Init
  /\ listing = <<>> /\ later = [r \in Request |-> 0]
  /\ reader = NoReader

-----------------------------------------------------------------------------
\* Record reads the clock and inserts the entry: it may be older than those
\* that were added since the handler's change was written.
Insert(r) ==
  /\ Record(r)
  /\ IF log' = log THEN later' = [later EXCEPT ![r] = 0] /\ UNCHANGED listing
     ELSE /\ \E k \in 0 .. later[r] :
               listing' = SubSeq(listing, 1, k)
                            \o <<<<request[r].project, Len(log'[request[r].project])>>>>
                            \o SubSeq(listing, k + 1, Len(listing))
          /\ later' = [q \in Request |->
                         IF q # r /\ request[q].at = "record" THEN later[q] + 1 ELSE 0]
  /\ UNCHANGED reader

\* ORDER BY created_at DESC LIMIT limit OFFSET offset
ListAuditLogs(limit, offset) ==
  LET last == IF Len(listing) < offset + limit THEN Len(listing) ELSE offset + limit
  IN  SubSeq(listing, offset + 1, last)

\* The service puts the default in place of a limit out of range.
List(limit, offset) ==
  ListAuditLogs(IF limit \in 1 .. MaxSize THEN limit ELSE DefaultSize, offset)

\* mutant: the handler leaves the upper limit to the service
PageSizeUncapped(n) == IF n < 1 THEN DefaultSize ELSE n

\* The handler's page size: the default for none, the largest for more.
PageSize(n) == IF n < 1 THEN DefaultSize ELSE IF n > MaxSize THEN MaxSize ELSE n

Items(s) == {s[i] : i \in 1 .. Len(s)}

StartReading(n) ==
  /\ reader.at = "idle"
  /\ reader' = [NoReader EXCEPT !.at = "reading", !.size = PageSize(n),
                                !.missing = Items(listing)]
  /\ UNCHANGED <<vars, listing, later>>

\* One request.  The client ends with a page that is not full: it compares
\* the items with the page_size in the answer.
ReadPage ==
  /\ reader.at = "reading"
  /\ LET items   == List(reader.size, (reader.page - 1) * reader.size)
         missing == reader.missing \ Items(items)
     IN  reader' = IF Len(items) < reader.size
                     THEN [NoReader EXCEPT !.at = "done", !.missing = missing]
                     ELSE [reader EXCEPT !.page = @ + 1, !.missing = missing]
  /\ UNCHANGED <<vars, listing, later>>

-----------------------------------------------------------------------------
\* The steps of the handlers that do not record.
Handle(r) == (Write(r) \/ Reject(r)) /\ UNCHANGED <<listing, later, reader>>

PagesNext ==
  \/ \E r \in Request, p \in Project, c \in Content :
       (Create(r, p, c) \/ Update(r, p, c)) /\ UNCHANGED <<listing, later, reader>>
  \/ \E r \in Request, p \in Project : Delete(r, p) /\ UNCHANGED <<listing, later, reader>>
  \/ \E r \in Request : Handle(r) \/ Insert(r)
  \/ Crash /\ later' = [r \in Request |-> 0] /\ UNCHANGED <<listing, reader>>
  \/ \E n \in RequestedSize : StartReading(n)
  \/ ReadPage

\* A handler that has started runs to its end; no client has to read on.
PagesSpec == /\ PagesInit /\ [][PagesNext]_pageVars
             /\ \A r \in Request : WF_pageVars(Handle(r) \/ Insert(r))

-----------------------------------------------------------------------------
\* A client that reads to a page that is not full has seen every entry there
\* was when it started, though entries are added at the top and, with an
\* older created_at, further down while it reads, and whatever page size it
\* asks for: the sizes of the handler and of the service agree.
PagesMissNothing == reader.at = "done" => reader.missing = {}

=============================================================================
