---------------------------- MODULE StorageProofs ----------------------------
(***************************************************************************)
(* Proofs about Storage, for every number of files, organizations, buckets *)
(* and concurrent deletions, every page size and every set of faults: rows *)
(* of one object, uploads after their deletion, objects that rows lose,    *)
(* and what a client that pages through the files misses.                  *)
(***************************************************************************)
EXTENDS Storage, FiniteSetTheorems, FunctionTheorems, TLAPS

-----------------------------------------------------------------------------
(***************************************************************************)
(* Types.  The parts of TypeOK, and what the operators do to the rows.     *)
(***************************************************************************)
FilesOK ==
  /\ orgs \subseteq Org
  /\ file \in [File -> Row]
  /\ older \in [File -> SUBSET File]
  /\ \A f \in File : /\ file[f].state # "unused" => file[f].org \in Org
                     /\ Stored(f) => file[f].org \in orgs

ObjectsOK == objects \subseteq Object /\ left \subseteq File

RequestsOK ==
  /\ request \in [Request -> Handler]
  /\ \A r \in Request : request[r].at # "idle" => request[r].file \in File

LEMMA TypeParts == TypeOK <=> FilesOK /\ ObjectsOK /\ RequestsOK /\ reader \in Reader
  BY DEF TypeOK, FilesOK, ObjectsOK, RequestsOK

LEMMA UnusedIsRow == /\ Unused \in Row /\ Unused.state = "unused"
                     /\ Unused.asked.org = NoOrg
<1>1. NoKey \in Key /\ NoKey.org = NoOrg
  BY StorageAssumption DEF NoKey, Key
<1> QED
  BY <1>1 DEF Unused, Row

LEMMA IdleIsHandler == Idle \in Handler /\ Idle.at = "idle"
  BY DEF Idle, Handler

LEMMA NoReaderIsReader ==
  /\ NoReader \in Reader /\ NoReader.at = "idle" /\ NoReader.offset = 0
  /\ NoReader.missing = {} /\ NoReader.removed = 0
  BY DEF NoReader, Reader

States == {"unused", "inserting", "stored", "deleted", "cascaded"}

\* The columns of the row of an id stay.
SameRow(f) == /\ file'[f].org = file[f].org /\ file'[f].bucket = file[f].bucket
              /\ file'[f].asked = file[f].asked /\ file'[f].key = file[f].key

LEMMA SetStateEffect ==
  ASSUME file \in [File -> Row], NEW F \in SUBSET File, NEW s \in States, SetState(F, s)
  PROVE  /\ file' \in [File -> Row]
         /\ \A f \in File : SameRow(f)
         /\ \A f \in F : file'[f].state = s
         /\ \A f \in File \ F : file'[f] = file[f]
<1>1. ASSUME NEW f \in File
      PROVE  /\ file'[f] \in Row /\ SameRow(f)
             /\ f \in F => file'[f].state = s
             /\ f \notin F => file'[f] = file[f]
  <2>1. file[f] \in Row
    OBVIOUS
  <2>2. CASE f \in F
    <3>1. file'[f] = [file[f] EXCEPT !.state = s]
      BY <2>2 DEF SetState
    <3> QED
      BY <2>1, <2>2, <3>1 DEF Row, States, SameRow
  <2>3. CASE f \notin F
    BY <2>1, <2>3 DEF SetState, SameRow
  <2> QED
    BY <2>2, <2>3
<1>2. file' = [f \in File |-> file'[f]]
  BY DEF SetState
<1> QED
  BY <1>1, <1>2

LEMMA RefuseEffect ==
  ASSUME file \in [File -> Row], older \in [File -> SUBSET File], NEW F \in SUBSET File, Refuse(F)
  PROVE  /\ file' \in [File -> Row] /\ older' \in [File -> SUBSET File]
         /\ \A f \in F : file'[f] = Unused /\ older'[f] = {}
         /\ \A f \in File \ F : file'[f] = file[f] /\ older'[f] = older[f] \ F
  BY UnusedIsRow DEF Refuse

\* CountRemoved changes nothing else of the reader.
LEMMA CountEffect ==
  ASSUME reader \in Reader, NEW F \in SUBSET File, CountRemoved(F)
  PROVE  /\ reader' \in Reader
         /\ reader'.at = reader.at /\ reader'.org = reader.org
         /\ reader'.offset = reader.offset /\ reader'.missing = reader.missing
         /\ reader'.removed = IF reader.at = "paging"
              THEN reader.removed + Cardinality(F \cap RowsOf(reader.org)) ELSE reader.removed
<1>1. Cardinality(F \cap RowsOf(reader.org)) \in Nat
  BY StorageAssumption, FS_Subset, FS_CardinalityType DEF RowsOf
<1> QED
  BY <1>1 DEF CountRemoved, Reader

LEMMA RequestEffect ==
  ASSUME RequestsOK, NEW r \in Request, NEW h \in Handler,
         request' = [request EXCEPT ![r] = h], h.at # "idle" => h.file \in File
  PROVE  /\ RequestsOK' /\ request'[r] = h
         /\ \A q \in Request \ {r} : request'[q] = request[q]
<1>1. /\ request' \in [Request -> Handler] /\ request'[r] = h
      /\ \A q \in Request \ {r} : request'[q] = request[q]
  BY DEF RequestsOK
<1> QED
  BY <1>1 DEF RequestsOK

\* A row that is inserted is a row.
LEMMA NewRowEffect ==
  ASSUME NEW o \in Org, NEW b \in Bucket \cup {NoBucket}, NEW k \in Key
  PROVE  /\ NewRow(o, b, k) \in Row
         /\ NewRow(o, b, k).state = "inserting" /\ NewRow(o, b, k).org = o
         /\ NewRow(o, b, k).asked = k /\ NewRow(o, b, k).bucket = b
         /\ k.org # NoOrg => NewRow(o, b, k).key = k
<1>1. ObjectKey(o, k) \in Key /\ (k.org # NoOrg => ObjectKey(o, k) = k)
  BY DEF ObjectKey, Key
<1> QED
  BY <1>1 DEF NewRow, Row

\* The answer to a request for a page.
LEMMA PageEffect ==
  ASSUME reader \in Reader, NEW n \in RequestedLimit, NextPage(n)
  PROVE  LET items == ListFiles(reader.org, Limit(n), reader.offset) IN
         /\ items \in SUBSET RowsOf(reader.org) /\ IsFiniteSet(items)
         /\ Limit(n) \in Nat /\ Limit(n) > 0
         /\ reader' \in Reader
         /\ reader.at = "paging" /\ reader'.org = reader.org
         /\ reader'.at = IF items = {} THEN "done" ELSE "paging"
         /\ reader'.missing = reader.missing \ items
         /\ reader'.offset = reader.offset + Cardinality(items)
         /\ reader'.removed = reader.removed
<1> DEFINE items == ListFiles(reader.org, Limit(n), reader.offset)
<1>1. items \in SUBSET RowsOf(reader.org) /\ items \in SUBSET File
  BY DEF ListFiles, RowsOf
<1>2. IsFiniteSet(items) /\ Cardinality(items) \in Nat
  BY <1>1, StorageAssumption, FS_Subset, FS_CardinalityType
<1>3. Limit(n) \in Nat /\ Limit(n) > 0
  BY StorageAssumption DEF Limit, MaxLimit, DefaultLimit
<1>4. /\ reader.at = "paging"
      /\ reader' = [reader EXCEPT !.missing = @ \ items,
                                  !.offset  = @ + Cardinality(items),
                                  !.at      = IF items = {} THEN "done" ELSE @]
  BY DEF NextPage
<1> HIDE DEF items
<1>5. /\ reader' \in Reader /\ reader'.org = reader.org
      /\ reader'.at = IF items = {} THEN "done" ELSE "paging"
      /\ reader'.missing = reader.missing \ items
      /\ reader'.offset = reader.offset + Cardinality(items)
      /\ reader'.removed = reader.removed
  <2>1. /\ reader.missing \in SUBSET File /\ reader.offset \in Nat /\ reader.removed \in Nat
        /\ reader.org \in Org \cup {NoOrg}
    BY DEF Reader
  <2>2. reader' = [at |-> IF items = {} THEN "done" ELSE "paging", org |-> reader.org,
                   offset |-> reader.offset + Cardinality(items),
                   missing |-> reader.missing \ items, removed |-> reader.removed]
    BY <1>4 DEF Reader
  <2> QED
    BY <1>2, <2>1, <2>2 DEF Reader
<1> QED
  BY <1>1, <1>2, <1>3, <1>4, <1>5 DEF items

LEMMA TypeInit == Init => TypeOK
<1> SUFFICES ASSUME Init PROVE FilesOK /\ ObjectsOK /\ RequestsOK /\ reader \in Reader
  BY TypeParts
<1>1. FilesOK
  BY UnusedIsRow DEF Init, FilesOK, Stored
<1>2. ObjectsOK /\ RequestsOK /\ reader \in Reader
  BY IdleIsHandler, NoReaderIsReader DEF Init, ObjectsOK, RequestsOK
<1> QED
  BY <1>1, <1>2

LEMMA TypeStep == TypeOK /\ [Next]_vars => TypeOK'
<1> SUFFICES ASSUME TypeOK, [Next]_vars PROVE FilesOK' /\ ObjectsOK' /\ RequestsOK' /\ reader' \in Reader
  BY DEF TypeOK, FilesOK, ObjectsOK, RequestsOK
<1>0. FilesOK /\ ObjectsOK /\ RequestsOK /\ reader \in Reader
  BY TypeParts
<1>1. UNCHANGED <<orgs, file, older>> => FilesOK'
  BY <1>0 DEF FilesOK, Stored
<1>2. UNCHANGED <<objects, left>> => ObjectsOK'
  BY <1>0 DEF ObjectsOK
<1>3. UNCHANGED request => RequestsOK'
  BY <1>0 DEF RequestsOK
<1>4. UNCHANGED reader => reader' \in Reader
  BY <1>0
<1>5. ASSUME NEW b \in Bucket \cup {NoBucket}, NEW k \in Key, PresignPut(b, k)
      PROVE  ObjectsOK' /\ UNCHANGED <<orgs, file, older, request, reader>>
  <2>1. [bucket |-> Resolve(b), key |-> k] \in Object
    BY StorageAssumption DEF Resolve, Object
  <2> QED
    BY <1>0, <1>5, <2>1 DEF PresignPut, ObjectsOK, Emptied
<1>6. ASSUME NEW f \in File, NEW o \in Org, NEW b \in Bucket \cup {NoBucket}, NEW k \in Key,
             CreateFile(f, o, b, k)
      PROVE  FilesOK' /\ UNCHANGED <<objects, request, reader, left>>
  <2>1. /\ file' = [file EXCEPT ![f] = NewRow(o, b, k)] /\ orgs' = orgs
        /\ older' = [older EXCEPT ![f] = {g \in File : file[g].state # "unused"}]
        /\ UNCHANGED <<objects, request, reader, left>>
    BY <1>6 DEF CreateFile
  <2>2. /\ file' \in [File -> Row] /\ older' \in [File -> SUBSET File]
        /\ file'[f] = NewRow(o, b, k) /\ \A g \in File \ {f} : file'[g] = file[g]
    BY <1>0, <2>1, NewRowEffect DEF FilesOK
  <2> QED
    BY <1>0, <2>1, <2>2, NewRowEffect DEF FilesOK, Stored
<1>7. ASSUME NEW f \in File, InsertFile(f)
      PROVE  FilesOK' /\ UNCHANGED <<objects, request, reader, left>>
  <2>1. UNCHANGED <<orgs, objects, request, reader, left>>
    BY <1>7 DEF InsertFile
  <2>2. CASE file[f].org \in orgs /\ SetState({f}, "stored") /\ UNCHANGED older
    <3>1. /\ file' \in [File -> Row] /\ SameRow(f) /\ \A g \in File \ {f} : file'[g] = file[g]
      BY <1>0, <2>2, SetStateEffect DEF FilesOK, States
    <3> QED
      BY <1>0, <2>1, <2>2, <3>1 DEF FilesOK, Stored, SameRow
  <2>3. CASE Refuse({f})
    <3>1. /\ file' \in [File -> Row] /\ older' \in [File -> SUBSET File]
          /\ file'[f] = Unused /\ \A g \in File \ {f} : file'[g] = file[g]
      BY <1>0, <2>3, RefuseEffect DEF FilesOK
    <3> QED
      BY <1>0, <2>1, <3>1, UnusedIsRow DEF FilesOK, Stored
  <2> QED
    BY <1>7, <2>1, <2>2, <2>3 DEF InsertFile
<1>8. ASSUME NEW r \in Request, NEW f \in File, GetFile(r, f)
      PROVE  RequestsOK' /\ UNCHANGED <<orgs, file, older, objects, reader, left>>
  <2> DEFINE h == [at |-> "object", file |-> f]
  <2>1. h \in Handler /\ h.file = f
    BY DEF Handler
  <2>2. request' = [request EXCEPT ![r] = h] /\ UNCHANGED <<orgs, file, older, objects, reader, left>>
    BY <1>8 DEF GetFile
  <2> HIDE DEF h
  <2> QED
    BY <1>0, <2>1, <2>2, RequestEffect
<1>9. ASSUME NEW r \in Request, DeleteObject(r)
      PROVE  ObjectsOK' /\ RequestsOK' /\ UNCHANGED <<orgs, file, older, reader>>
  <2> DEFINE h == [request[r] EXCEPT !.at = "row"]
  <2>1. request[r] \in Handler /\ request[r].file \in File
    BY <1>0, <1>9 DEF DeleteObject, RequestsOK
  <2>2. h \in Handler /\ h.file = request[r].file
    BY <2>1 DEF Handler
  <2>3. request' = [request EXCEPT ![r] = h]
    BY <1>9 DEF DeleteObject
  <2> HIDE DEF h
  <2>4. RequestsOK'
    BY <1>0, <2>1, <2>2, <2>3, RequestEffect
  <2> QED
    BY <1>0, <1>9, <2>1, <2>4 DEF DeleteObject, ObjectsOK
<1>10. ASSUME NEW r \in Request, DeleteFile(r)
       PROVE  FilesOK' /\ RequestsOK' /\ reader' \in Reader /\ UNCHANGED <<objects, left>>
  <2> DEFINE f == request[r].file
  <2>1. f \in File
    BY <1>0, <1>10 DEF DeleteFile, RequestsOK
  <2>2. RequestsOK' /\ UNCHANGED <<orgs, older, objects, left>>
    BY <1>0, <1>10, IdleIsHandler, RequestEffect DEF DeleteFile, Finish
  <2>3. CASE DeleteRow(f)
    <3>1. /\ file' \in [File -> Row] /\ file'[f].state = "deleted" /\ SameRow(f)
          /\ \A g \in File \ {f} : file'[g] = file[g]
      BY <1>0, <2>1, <2>3, SetStateEffect DEF DeleteRow, FilesOK, States
    <3>2. reader' \in Reader
      BY <1>0, <2>1, <2>3, CountEffect DEF DeleteRow
    <3>3. FilesOK'
      BY <1>0, <2>1, <2>2, <2>3, <3>1 DEF FilesOK, Stored, DeleteRow, SameRow
    <3> QED
      BY <2>2, <3>2, <3>3
  <2> QED
    BY <1>1, <1>4, <1>10, <2>2, <2>3 DEF DeleteFile
<1>11. ASSUME NEW o \in Org, DeleteOrg(o)
       PROVE  FilesOK' /\ reader' \in Reader /\ UNCHANGED <<objects, request, left>>
  <2>1. RowsOf(o) \in SUBSET File /\ orgs' = orgs \ {o} /\ UNCHANGED <<older, objects, request, left>>
    BY <1>11 DEF DeleteOrg, RowsOf
  <2>2. /\ file' \in [File -> Row] /\ \A f \in File : SameRow(f)
        /\ \A f \in RowsOf(o) : file'[f].state = "cascaded"
        /\ \A f \in File \ RowsOf(o) : file'[f] = file[f]
    BY <1>0, <1>11, <2>1, SetStateEffect DEF DeleteOrg, FilesOK, States
  <2>3. reader' \in Reader
    BY <1>0, <1>11, <2>1, CountEffect DEF DeleteOrg
  <2>4. ASSUME NEW f \in File
        PROVE  /\ file'[f].state # "unused" => file'[f].org \in Org
               /\ Stored(f)' => file'[f].org \in orgs'
    BY <1>0, <2>1, <2>2 DEF FilesOK, RowsOf, Stored, SameRow
  <2> QED
    BY <1>0, <2>1, <2>2, <2>3, <2>4 DEF FilesOK
<1>12. CASE Crash
  <2>1. RequestsOK' /\ UNCHANGED <<orgs, objects, reader, left>>
    BY <1>0, <1>12, IdleIsHandler DEF Crash, RequestsOK
  <2> DEFINE F == {f \in File : file[f].state = "inserting"}
  <2>2. F \in SUBSET File /\ Refuse(F)
    BY <1>12 DEF Crash
  <2> HIDE DEF F
  <2>3. /\ file' \in [File -> Row] /\ older' \in [File -> SUBSET File]
        /\ \A f \in F : file'[f] = Unused
    BY <1>0, <2>2, RefuseEffect DEF FilesOK
  <2>4. \A f \in File : file'[f] = Unused \/ file'[f] = file[f]
    <3>1. \A f \in F : file'[f] = Unused
      BY <2>3
    <3>2. \A f \in File \ F : file'[f] = file[f]
      BY <1>0, <2>2, RefuseEffect DEF FilesOK
    <3> QED
      BY <3>1, <3>2
  <2>5. FilesOK'
    BY <1>0, <2>1, <2>3, <2>4, UnusedIsRow DEF FilesOK, Stored
  <2> QED
    BY <1>2, <1>4, <2>1, <2>5
<1>13. ASSUME NEW o \in Org, StartPaging(o)
       PROVE  reader' \in Reader /\ UNCHANGED <<orgs, file, older, objects, request, left>>
  <2>1. RowsOf(o) \in SUBSET File
    BY DEF RowsOf
  <2>2. reader' = [at |-> "paging", org |-> o, offset |-> 0, missing |-> RowsOf(o), removed |-> 0]
    BY <1>13 DEF StartPaging, NoReader
  <2> QED
    BY <1>13, <2>1, <2>2 DEF StartPaging, Reader
<1>14. ASSUME NEW n \in RequestedLimit, NextPage(n)
       PROVE  reader' \in Reader /\ UNCHANGED <<orgs, file, older, objects, request, left>>
  BY <1>0, <1>14, PageEffect DEF NextPage
<1>15. CASE UNCHANGED vars
  BY <1>1, <1>2, <1>3, <1>4, <1>15 DEF vars
<1> QED
  BY <1>1, <1>2, <1>3, <1>4, <1>5, <1>6, <1>7, <1>8, <1>9, <1>10, <1>11, <1>12, <1>13,
     <1>14, <1>15 DEF Next

\* The variables keep their types: a row belongs to an organization that
\* exists, though the INSERT of CreateFile and the DELETE of the organization
\* run at the same time.
THEOREM TypeCorrect == Spec => []TypeOK
  BY TypeInit, TypeStep, PTL DEF Spec

-----------------------------------------------------------------------------
(***************************************************************************)
(* What a step may do to a row, whatever the step is.                      *)
(***************************************************************************)
Settled == {"stored", "deleted", "cascaded"}

Keyed(f) == file[f].asked.org # NoOrg => file[f].key = file[f].asked

Begins(f)  == file[f].state = "unused" /\ file'[f].state = "inserting" /\ Keyed(f)'
Refused(f) == file[f].state = "inserting" /\ file'[f] = Unused
Inserts(f) == /\ file[f].state = "inserting" /\ file'[f].state = "stored" /\ SameRow(f)
              /\ ~Taken(f) /\ \A g \in File \ {f} : file'[g] = file[g]
Removed(f) == /\ Stored(f) /\ file'[f].state \in {"deleted", "cascaded"} /\ SameRow(f)
              /\ file'[f].state = "deleted" =>
                   \E r \in Request : request[r] = [at |-> "row", file |-> f]

LEMMA RowStep ==
  ASSUME TypeOK, [Next]_vars, NEW f \in File
  PROVE  file'[f] = file[f] \/ Begins(f) \/ Refused(f) \/ Inserts(f) \/ Removed(f)
<1>0. FilesOK /\ RequestsOK
  BY TypeParts
<1>1. UNCHANGED file => file'[f] = file[f]
  OBVIOUS
<1>2. ASSUME NEW g \in File, NEW o \in Org, NEW b \in Bucket \cup {NoBucket}, NEW k \in Key,
             CreateFile(g, o, b, k)
      PROVE  file'[f] = file[f] \/ Begins(f)
  <2>1. file[g].state = "unused" /\ file' = [file EXCEPT ![g] = NewRow(o, b, k)]
    BY <1>2 DEF CreateFile
  <2>2. file'[g] = NewRow(o, b, k) /\ \A h \in File \ {g} : file'[h] = file[h]
    BY <1>0, <2>1 DEF FilesOK
  <2> QED
    BY <2>1, <2>2, NewRowEffect DEF Begins, Keyed
<1>3. ASSUME NEW g \in File, InsertFile(g)
      PROVE  file'[f] = file[f] \/ Refused(f) \/ Inserts(f)
  <2>1. CASE ~Taken(g) /\ SetState({g}, "stored")
    <3>1. /\ file'[g].state = "stored" /\ SameRow(g) /\ \A h \in File \ {g} : file'[h] = file[h]
      BY <1>0, <2>1, SetStateEffect DEF FilesOK, States
    <3> QED
      BY <1>3, <2>1, <3>1 DEF InsertFile, Inserts
  <2>2. CASE Refuse({g})
    <3>1. file'[g] = Unused /\ \A h \in File \ {g} : file'[h] = file[h]
      BY <1>0, <2>2, RefuseEffect DEF FilesOK
    <3> QED
      BY <1>3, <3>1 DEF InsertFile, Refused
  <2> QED
    BY <1>3, <2>1, <2>2 DEF InsertFile
<1>4. ASSUME NEW r \in Request, DeleteFile(r)
      PROVE  file'[f] = file[f] \/ Removed(f)
  <2> DEFINE g == request[r].file
  <2>1. g \in File
    BY <1>0, <1>4 DEF DeleteFile, RequestsOK
  <2>3. request[r] = [at |-> "row", file |-> g]
    BY <1>0, <1>4 DEF DeleteFile, RequestsOK, Handler
  <2> HIDE DEF g
  <2>2. CASE DeleteRow(g)
    <3>1. /\ file'[g].state = "deleted" /\ SameRow(g) /\ \A h \in File \ {g} : file'[h] = file[h]
      BY <1>0, <2>1, <2>2, SetStateEffect DEF DeleteRow, FilesOK, States
    <3> QED
      BY <2>2, <2>3, <3>1 DEF DeleteRow, Removed
  <2> QED
    BY <1>1, <1>4, <2>2 DEF DeleteFile, g
<1>5. ASSUME NEW o \in Org, DeleteOrg(o)
      PROVE  file'[f] = file[f] \/ Removed(f)
  <2>1. RowsOf(o) \in SUBSET File
    BY DEF RowsOf
  <2>2. /\ \A h \in RowsOf(o) : file'[h].state = "cascaded" /\ SameRow(h) /\ Stored(h)
        /\ \A h \in File \ RowsOf(o) : file'[h] = file[h]
    BY <1>0, <1>5, <2>1, SetStateEffect DEF DeleteOrg, FilesOK, States, RowsOf
  <2> QED
    BY <2>2 DEF Removed
<1>6. CASE Crash
  <2> DEFINE F == {h \in File : file[h].state = "inserting"}
  <2>1. F \in SUBSET File /\ Refuse(F)
    BY <1>6 DEF Crash
  <2>2. (f \in F => file'[f] = Unused) /\ (f \notin F => file'[f] = file[f])
    BY <1>0, <2>1, RefuseEffect DEF FilesOK
  <2> QED
    BY <2>2 DEF Refused
<1> QED
  BY <1>1, <1>2, <1>3, <1>4, <1>5, <1>6
  DEF Next, PresignPut, GetFile, DeleteObject, StartPaging, NextPage, vars

\* A row that is settled stays, with its columns.
LEMMA SettledStays ==
  ASSUME TypeOK, [Next]_vars, NEW f \in File, file[f].state \in Settled
  PROVE  file'[f].state \in Settled /\ SameRow(f)
  BY RowStep DEF Begins, Refused, Inserts, Removed, Settled, SameRow

-----------------------------------------------------------------------------
(***************************************************************************)
(* Rows and objects.  HandlerInv says that a DeleteFile is about a row     *)
(* that was stored once, so its id is no other file's; UniqueInv is the    *)
(* unique index; KeyInv relates the upload and the row.                    *)
(***************************************************************************)
UniqueInv ==
  \A f, g \in File :
    f # g /\ Stored(f) /\ Stored(g) => file[f].bucket # file[g].bucket \/ file[f].key # file[g].key

KeyInv == \A f \in File : Keyed(f)

HandlerInv ==
  \A r \in Request : request[r].at # "idle" => file[request[r].file].state \in Settled

LEMMA UniqueStep == TypeOK /\ UniqueInv /\ [Next]_vars => UniqueInv'
<1> SUFFICES ASSUME TypeOK, UniqueInv, [Next]_vars, NEW f \in File, NEW g \in File, f # g,
                    Stored(f)', Stored(g)'
             PROVE  file'[f].bucket # file'[g].bucket \/ file'[f].key # file'[g].key
  BY DEF UniqueInv
<1>1. ASSUME NEW h \in {f, g} PROVE (Stored(h) /\ SameRow(h)) \/ Inserts(h)
  <2>1. file'[h] = file[h] \/ Begins(h) \/ Refused(h) \/ Inserts(h) \/ Removed(h)
    BY RowStep
  <2>2. file'[h].state = "stored"
    BY DEF Stored
  <2> QED
    BY <2>1, <2>2, UnusedIsRow DEF Begins, Refused, Removed, Stored, SameRow
<1>2. CASE Stored(f) /\ SameRow(f) /\ Stored(g) /\ SameRow(g)
  BY <1>2 DEF UniqueInv, SameRow
<1>3. CASE Inserts(f)
  BY <1>3 DEF Inserts, Taken, Stored, SameRow
<1>4. CASE Inserts(g)
  BY <1>4 DEF Inserts, Taken, Stored, SameRow
<1> QED
  BY <1>1, <1>2, <1>3, <1>4

LEMMA KeyStep == TypeOK /\ KeyInv /\ [Next]_vars => KeyInv'
<1> SUFFICES ASSUME TypeOK, KeyInv, [Next]_vars, NEW f \in File PROVE Keyed(f)'
  BY DEF KeyInv
<1> QED
  BY RowStep, UnusedIsRow DEF KeyInv, Keyed, Begins, Refused, Inserts, Removed, SameRow

\* A handler goes on with its file, ends, or reads a row that is there.
LEMMA HandlerStep == TypeOK /\ HandlerInv /\ [Next]_vars => HandlerInv'
<1> SUFFICES ASSUME TypeOK, HandlerInv, [Next]_vars, NEW r \in Request, request'[r].at # "idle"
             PROVE  file'[request'[r].file].state \in Settled
  BY DEF HandlerInv
<1>0. request \in [Request -> Handler] /\ \A q \in Request : request[q].at # "idle" => request[q].file \in File
  BY DEF TypeOK
<1>1. CASE request[r].at # "idle" /\ request'[r].file = request[r].file
  BY <1>0, <1>1, SettledStays DEF HandlerInv
<1>2. ASSUME NEW q \in Request, NEW f \in File, GetFile(q, f)
      PROVE  file'[request'[r].file].state \in Settled
  <2>1. request' = [request EXCEPT ![q] = [at |-> "object", file |-> f]] /\ file' = file /\ Stored(f)
    BY <1>2 DEF GetFile
  <2>2. CASE q = r
    BY <1>0, <2>1, <2>2 DEF Stored, Settled
  <2>3. CASE q # r
    BY <1>0, <1>1, <2>1, <2>3
  <2> QED
    BY <2>2, <2>3
<1>3. ASSUME NEW q \in Request, DeleteObject(q) PROVE file'[request'[r].file].state \in Settled
  <2>1. request' = [request EXCEPT ![q].at = "row"] /\ request[q].at = "object"
    BY <1>3 DEF DeleteObject
  <2>2. request[r] \in Handler
    BY <1>0
  <2>3. request'[r].file = request[r].file /\ request[r].at # "idle"
    BY <1>0, <2>1, <2>2 DEF Handler
  <2> QED
    BY <1>1, <2>3
<1>4. ASSUME NEW q \in Request, DeleteFile(q) PROVE request'[r] = request[r]
  BY <1>0, <1>4, IdleIsHandler DEF DeleteFile, Finish
<1>5. CASE UNCHANGED request
  BY <1>1, <1>5
<1>6. CASE Crash
  BY <1>6, IdleIsHandler DEF Crash
<1> QED
  BY <1>1, <1>2, <1>3, <1>4, <1>5, <1>6
  DEF Next, PresignPut, CreateFile, InsertFile, DeleteOrg, StartPaging, NextPage, vars

RowsInv == TypeOK /\ UniqueInv /\ KeyInv /\ HandlerInv

LEMMA RowsInit == Init => RowsInv
<1> SUFFICES ASSUME Init PROVE UniqueInv /\ KeyInv /\ HandlerInv
  BY TypeInit DEF RowsInv
<1>1. \A f \in File : file[f] = Unused
  BY DEF Init
<1>2. \A r \in Request : request[r] = Idle
  BY DEF Init
<1> QED
  BY <1>1, <1>2, UnusedIsRow, IdleIsHandler DEF UniqueInv, KeyInv, Keyed, HandlerInv, Stored

LEMMA RowsStep == RowsInv /\ [Next]_vars => RowsInv'
  BY TypeStep, UniqueStep, KeyStep, HandlerStep DEF RowsInv

LEMMA UniqueObject == TypeOK /\ UniqueInv => OneRowPerObject
<1> SUFFICES ASSUME TypeOK, UniqueInv, NEW f \in File, NEW g \in File, f # g,
                    Stored(f), Stored(g), ObjectOf(f) = ObjectOf(g)
             PROVE  Aliases(f, g)
  BY DEF OneRowPerObject
<1>1. /\ Resolve(file[f].bucket) = Resolve(file[g].bucket) /\ file[f].key = file[g].key
  BY DEF ObjectOf
<1>2. file[f].bucket # file[g].bucket
  BY <1>1 DEF UniqueInv
<1> QED
  BY <1>1, <1>2 DEF Resolve, Aliases

\* Two rows have one object only if one leaves the bucket empty and the other
\* names the default: the unique index of migration 0006 is on the columns as
\* stored, for any number of concurrent CreateFile and DeleteFile.
THEOREM ObjectsAreUnique == Spec => []OneRowPerObject
<1>1. RowsInv => OneRowPerObject
  BY UniqueObject DEF RowsInv
<1> QED
  BY <1>1, RowsInit, RowsStep, PTL DEF Spec

\* The object of a row that stays is removed only by a DeleteFile of the row,
\* of its alias, or of a row that another request has removed meanwhile
\* (StorageHandler.DeleteFile reads the row and then deletes the object).
THEOREM LossesAreExcused == Spec => LossIsExcused
<1> DEFINE Excused == \A f \in File :
             Stored(f) /\ Stored(f)' /\ ObjectOf(f) \in objects \ objects'
               => \E r \in Request :
                    /\ request[r].at = "object"
                    /\ LET g == request[r].file
                       IN  g = f \/ (Stored(g) /\ Aliases(f, g)) \/ ~Stored(g)
<1>1. RowsInv /\ [Next]_vars => [Excused]_vars
  <2> SUFFICES ASSUME RowsInv, Next, NEW f \in File, Stored(f), ObjectOf(f) \in objects \ objects'
               PROVE  \E r \in Request :
                        /\ request[r].at = "object"
                        /\ LET g == request[r].file
                           IN  g = f \/ (Stored(g) /\ Aliases(f, g)) \/ ~Stored(g)
    OBVIOUS
  <2>1. PICK r \in Request : DeleteObject(r)
    BY DEF Next, PresignPut, CreateFile, InsertFile, GetFile, DeleteFile, DeleteOrg, Crash,
           StartPaging, NextPage
  <2>2. request[r].at = "object" /\ request[r].file \in File /\ ObjectOf(f) = ObjectOf(request[r].file)
    BY <2>1 DEF DeleteObject, RowsInv, TypeOK
  <2>3. f # request[r].file /\ Stored(request[r].file) => Aliases(f, request[r].file)
    BY <2>2, UniqueObject DEF RowsInv, OneRowPerObject
  <2> QED
    BY <2>2, <2>3
<1> QED
  BY <1>1, RowsInit, RowsStep, PTL DEF Spec, LossIsExcused

-----------------------------------------------------------------------------
(***************************************************************************)
(* Deletion.  Between DeleteObject and the DELETE of the row, and after    *)
(* it, the object of the row is gone or the file is in left.               *)
(***************************************************************************)
EmptiedInv == \A f \in Emptied : ObjectOf(f) \in objects => f \in left

\* A file is emptied only by DeleteObject, and the row of one stays.
LEMMA EmptiedRows ==
  ASSUME RowsInv, [Next]_vars
  PROVE  /\ \A f \in Emptied : f \in File /\ SameRow(f) /\ ObjectOf(f)' = ObjectOf(f)
         /\ \A f \in Emptied' : f \in Emptied \/ \E r \in Request : DeleteObject(r) /\ request[r].file = f
<1>0. request \in [Request -> Handler] /\ FilesOK
  BY TypeParts DEF RowsInv, TypeOK
<1>1. ASSUME NEW f \in Emptied PROVE f \in File /\ SameRow(f) /\ ObjectOf(f)' = ObjectOf(f)
  <2>1. f \in File /\ file[f].state \in Settled
    BY DEF Emptied, RowsInv, HandlerInv, Settled
  <2>2. SameRow(f)
    BY <2>1, SettledStays DEF RowsInv
  <2> QED
    BY <2>1, <2>2 DEF SameRow, ObjectOf
<1>2. ASSUME NEW f \in Emptied', f \notin Emptied
      PROVE  \E r \in Request : DeleteObject(r) /\ request[r].file = f
  <2>0. f \in File /\ file[f].state # "deleted"
        /\ \A r \in Request : request[r] # [at |-> "row", file |-> f]
    BY <1>2 DEF Emptied
  <2>1. file'[f].state # "deleted"
    BY <2>0, RowStep, UnusedIsRow DEF RowsInv, Begins, Refused, Inserts, Removed
  <2>2. PICK r \in Request : request'[r] = [at |-> "row", file |-> f]
    BY <1>2, <2>1 DEF Emptied
  <2>3. request'[r] # request[r] /\ request'[r].at = "row"
    BY <2>0, <2>2
  <2>4. ASSUME NEW q \in Request, NEW g \in File, GetFile(q, g) PROVE FALSE
    <3>1. request' = [request EXCEPT ![q] = [at |-> "object", file |-> g]]
      BY <2>4 DEF GetFile
    <3> QED
      BY <1>0, <2>3, <3>1
  <2>5. ASSUME NEW q \in Request, DeleteFile(q) PROVE FALSE
    BY <1>0, <2>3, <2>5, IdleIsHandler DEF DeleteFile, Finish
  <2>6. ~ Crash
    BY <2>3, IdleIsHandler DEF Crash
  <2>7. PICK q \in Request : DeleteObject(q)
    BY <2>3, <2>4, <2>5, <2>6
    DEF Next, PresignPut, CreateFile, InsertFile, DeleteOrg, StartPaging, NextPage, vars
  <2>8. request' = [request EXCEPT ![q].at = "row"] /\ request[q] \in Handler
    BY <1>0, <2>7 DEF DeleteObject
  <2>9. q = r /\ request'[q].file = request[q].file
    BY <1>0, <2>3, <2>8 DEF Handler
  <2> QED
    BY <2>2, <2>7, <2>9
<1> QED
  BY <1>1, <1>2

LEMMA EmptiedStep == RowsInv /\ EmptiedInv /\ [Next]_vars => EmptiedInv'
<1> SUFFICES ASSUME RowsInv, EmptiedInv, [Next]_vars, NEW f \in Emptied', ObjectOf(f)' \in objects'
             PROVE  f \in left'
  BY DEF EmptiedInv
<1>1. ASSUME NEW r \in Request, DeleteObject(r) PROVE f \in left'
  <2> DEFINE g == request[r].file
  <2>1. /\ UNCHANGED file
        /\ \/ objects' = objects \ {ObjectOf(g)} /\ left' = left \ {g}
           \/ left' = left \cup {g} /\ UNCHANGED objects
    BY <1>1 DEF DeleteObject
  <2>2. ObjectOf(f)' = ObjectOf(f)
    BY <2>1 DEF ObjectOf
  <2> HIDE DEF g
  <2>3. CASE f = g
    BY <2>1, <2>2, <2>3
  <2>4. CASE f # g
    <3>1. f \in Emptied
      <4>1. ASSUME NEW q \in Request, DeleteObject(q), request[q].file = f PROVE f = g
        <5>1. request \in [Request -> Handler] /\ request[q].at = "object"
          BY <4>1 DEF DeleteObject, RowsInv, TypeOK
        <5>2. request' = [request EXCEPT ![r].at = "row"] /\ request' = [request EXCEPT ![q].at = "row"]
          BY <1>1, <4>1 DEF DeleteObject
        <5>3. request'[q].at = "row"
          BY <5>1, <5>2 DEF Handler
        <5>4. q = r
          BY <5>1, <5>2, <5>3
        <5> QED
          BY <4>1, <5>4 DEF g
      <4> QED
        BY <2>4, <4>1, EmptiedRows
    <3> QED
      BY <2>1, <2>2, <2>4, <3>1 DEF EmptiedInv
  <2> QED
    BY <2>3, <2>4
<1>2. ASSUME \A r \in Request : ~ DeleteObject(r) PROVE f \in left'
  <2>1. f \in Emptied /\ ObjectOf(f)' = ObjectOf(f)
    BY <1>2, EmptiedRows
  <2>2. ASSUME NEW b \in Bucket \cup {NoBucket}, NEW k \in Key, PresignPut(b, k) PROVE f \in left'
    <3>1. /\ objects' = objects \cup {[bucket |-> Resolve(b), key |-> k]}
          /\ left' = left \cup {g \in Emptied : ObjectOf(g) = [bucket |-> Resolve(b), key |-> k]}
      BY <2>2 DEF PresignPut
    <3> QED
      BY <2>1, <3>1 DEF EmptiedInv
  <2>3. CASE UNCHANGED <<objects, left>>
    BY <2>1, <2>3 DEF EmptiedInv
  <2> QED
    BY <1>2, <2>2, <2>3
    DEF Next, CreateFile, InsertFile, GetFile, DeleteFile, DeleteOrg, Crash, StartPaging,
        NextPage, vars
<1> QED
  BY <1>1, <1>2

LEMMA EmptiedInit == Init => EmptiedInv
<1> SUFFICES ASSUME Init PROVE Emptied = {}
  BY DEF EmptiedInv
<1>1. \A f \in File : file[f].state # "deleted"
  BY UnusedIsRow DEF Init
<1>2. \A r \in Request : request[r].at # "row"
  BY IdleIsHandler DEF Init
<1> QED
  BY <1>1, <1>2 DEF Emptied

\* After the 204 of DeleteFile the upload is gone, unless the object store
\* failed, the client uploaded again, or the upload was to a plain key, for any
\* number of uploads, registrations and deletions at once.
THEOREM DeletedUploadsGone == Spec => []DeletedIsGone
<1>1. RowsInv /\ EmptiedInv => DeletedIsGone
  <2> SUFFICES ASSUME RowsInv, EmptiedInv, NEW f \in File, file[f].state = "deleted",
                      Uploaded(f) \in objects, file[f].asked.org # NoOrg
               PROVE  f \in left
    BY DEF DeletedIsGone
  <2>1. Uploaded(f) = ObjectOf(f)
    BY DEF RowsInv, KeyInv, Keyed, Uploaded, ObjectOf
  <2>2. f \in Emptied
    BY DEF Emptied
  <2> QED
    BY <2>1, <2>2 DEF EmptiedInv
<1>2. RowsInv /\ EmptiedInv /\ [Next]_vars => (RowsInv /\ EmptiedInv)'
  BY RowsStep, EmptiedStep
<1> QED
  BY <1>1, <1>2, RowsInit, EmptiedInit, PTL DEF Spec

-----------------------------------------------------------------------------
(***************************************************************************)
(* ListFiles.  older is a strict total order of the ids in use, so the     *)
(* rows of an organization stand at the places 0, 1, 2, ... of the query.  *)
(***************************************************************************)
Used(f) == file[f].state # "unused"

OrderInv ==
  /\ \A f, g \in File : f \in older[g] => Used(f) /\ Used(g) /\ f # g
  /\ \A f, g \in File : Used(f) /\ Used(g) /\ f # g => f \in older[g] \/ g \in older[f]
  /\ \A f, g, h \in File : f \in older[g] /\ g \in older[h] => f \in older[h]

LEMMA OrderInit == Init => OrderInv
<1> SUFFICES ASSUME Init PROVE OrderInv
  OBVIOUS
<1>1. \A f \in File : ~ Used(f) /\ older[f] = {}
  BY UnusedIsRow DEF Init, Used
<1> QED
  BY <1>1 DEF OrderInv

LEMMA OrderKept ==
  ASSUME OrderInv, UNCHANGED older, \A f \in File : Used(f)' <=> Used(f)
  PROVE  OrderInv'
  BY DEF OrderInv

\* Ids are given back: they leave the order.
LEMMA OrderRefuse ==
  ASSUME TypeOK, OrderInv, NEW F \in SUBSET File, Refuse(F)
  PROVE  OrderInv'
<1>1. /\ \A f \in F : file'[f] = Unused /\ older'[f] = {}
      /\ \A f \in File \ F : file'[f] = file[f] /\ older'[f] = older[f] \ F
  BY RefuseEffect DEF TypeOK
<1>2. \A f \in File : Used(f)' <=> Used(f) /\ f \notin F
  BY <1>1, UnusedIsRow DEF Used
<1>3. \A f, g \in File : f \in older'[g] <=> f \in older[g] /\ f \notin F /\ g \notin F
  BY <1>1
<1> QED
  BY <1>2, <1>3 DEF OrderInv

LEMMA OrderStep == TypeOK /\ OrderInv /\ [Next]_vars => OrderInv'
<1> SUFFICES ASSUME TypeOK, OrderInv, [Next]_vars PROVE OrderInv'
  OBVIOUS
<1>0. file \in [File -> Row] /\ older \in [File -> SUBSET File]
  BY DEF TypeOK
<1>1. CASE UNCHANGED <<file, older>>
  BY <1>1, OrderKept DEF Used
<1>2. ASSUME NEW f \in File, NEW o \in Org, NEW b \in Bucket \cup {NoBucket}, NEW k \in Key,
             CreateFile(f, o, b, k)
      PROVE  OrderInv'
  <2>1. /\ ~ Used(f) /\ file' = [file EXCEPT ![f] = NewRow(o, b, k)]
        /\ older' = [older EXCEPT ![f] = {g \in File : Used(g)}]
    BY <1>2 DEF CreateFile, Used
  <2>2. \A g \in File : Used(g)' <=> Used(g) \/ g = f
    <3>1. file'[f] = NewRow(o, b, k) /\ \A g \in File \ {f} : file'[g] = file[g]
      BY <1>0, <2>1
    <3> QED
      BY <3>1, NewRowEffect DEF Used
  <2>3. \A g, h \in File : g \in older'[h] <=> IF h = f THEN Used(g) ELSE g \in older[h]
    BY <1>0, <2>1
  <2> QED
    BY <2>1, <2>2, <2>3 DEF OrderInv
<1>3. ASSUME NEW f \in File, InsertFile(f) PROVE OrderInv'
  <2>1. CASE SetState({f}, "stored") /\ UNCHANGED older
    <3>1. file'[f].state = "stored" /\ \A g \in File \ {f} : file'[g] = file[g]
      BY <1>0, <2>1, SetStateEffect DEF States
    <3>2. \A g \in File : Used(g)' <=> Used(g)
      BY <1>3, <3>1 DEF Used, InsertFile
    <3> QED
      BY <2>1, <3>2, OrderKept
  <2>2. CASE Refuse({f})
    BY <2>2, OrderRefuse
  <2> QED
    BY <1>3, <2>1, <2>2 DEF InsertFile
<1>4. CASE Crash
  BY <1>4, OrderRefuse DEF Crash
<1>5. ASSUME NEW r \in Request, DeleteFile(r) PROVE OrderInv'
  <2> DEFINE d == request[r].file
  <2>1. d \in File /\ UNCHANGED older
    BY <1>5 DEF DeleteFile, TypeOK
  <2>2. CASE DeleteRow(d)
    <3>1. Stored(d) /\ file'[d].state = "deleted" /\ \A g \in File \ {d} : file'[g] = file[g]
      BY <1>0, <2>1, <2>2, SetStateEffect DEF DeleteRow, States
    <3>2. \A f \in File : Used(f)' <=> Used(f)
      BY <3>1 DEF Stored, Used
    <3> QED
      BY <2>1, <3>2, OrderKept
  <2>3. CASE UNCHANGED file
    BY <1>1, <2>1, <2>3
  <2> QED
    BY <1>5, <2>2, <2>3 DEF DeleteFile
<1>6. ASSUME NEW o \in Org, DeleteOrg(o) PROVE OrderInv'
  <2>1. RowsOf(o) \in SUBSET File
    BY DEF RowsOf
  <2>2. /\ \A f \in RowsOf(o) : file'[f].state = "cascaded" /\ Stored(f)
        /\ \A f \in File \ RowsOf(o) : file'[f] = file[f]
    BY <1>0, <1>6, <2>1, SetStateEffect DEF DeleteOrg, States, RowsOf
  <2>3. UNCHANGED older /\ \A f \in File : Used(f)' <=> Used(f)
    BY <1>6, <2>2 DEF DeleteOrg, Stored, Used
  <2> QED
    BY <2>3, OrderKept
<1> QED
  BY <1>1, <1>2, <1>3, <1>4, <1>5, <1>6
  DEF Next, PresignPut, GetFile, DeleteObject, StartPaging, NextPage, vars

\* The place of a row in the query.
Place(o, f) == Cardinality(Newer(o, f))

LEMMA RowsFinite ==
  ASSUME NEW o
  PROVE  /\ RowsOf(o) \in SUBSET File /\ IsFiniteSet(RowsOf(o)) /\ Cardinality(RowsOf(o)) \in Nat
         /\ \A f : /\ Newer(o, f) \in SUBSET RowsOf(o) /\ IsFiniteSet(Newer(o, f))
                   /\ Place(o, f) \in Nat
<1>1. RowsOf(o) \in SUBSET File /\ \A f : Newer(o, f) \in SUBSET RowsOf(o)
  BY DEF RowsOf, Newer
<1>2. IsFiniteSet(RowsOf(o))
  BY <1>1, StorageAssumption, FS_Subset
<1>3. \A f : IsFiniteSet(Newer(o, f))
  BY <1>1, <1>2, FS_Subset
<1> QED
  BY <1>1, <1>2, <1>3, FS_CardinalityType DEF Place

\* An older row stands behind a newer one.
LEMMA PlaceOrder ==
  ASSUME TypeOK, OrderInv, NEW o, NEW f \in RowsOf(o), NEW g \in RowsOf(o), f \in older[g]
  PROVE  Place(o, g) < Place(o, f)
<1>1. f \in File /\ g \in File
  BY RowsFinite
<1>2. Newer(o, g) \subseteq Newer(o, f) /\ g \in Newer(o, f) /\ g \notin Newer(o, g)
  BY <1>1, RowsFinite DEF Newer, OrderInv
<1>3. Place(o, g) <= Place(o, f) /\ Place(o, g) # Place(o, f)
  BY <1>2, RowsFinite, FS_Subset DEF Place
<1> QED
  BY <1>3, RowsFinite

LEMMA PlaceIsUnique ==
  ASSUME TypeOK, OrderInv, NEW o, NEW f \in RowsOf(o), NEW g \in RowsOf(o), Place(o, f) = Place(o, g)
  PROVE  f = g
<1>1. f \in File /\ g \in File /\ Used(f) /\ Used(g)
  BY DEF RowsOf, Stored, Used
<1>2. Place(o, f) \in Nat /\ Place(o, g) \in Nat
  BY RowsFinite
<1> QED
  BY <1>1, <1>2, PlaceOrder DEF OrderInv

LEMMA PlaceBound ==
  ASSUME TypeOK, OrderInv, NEW o, NEW f \in RowsOf(o)
  PROVE  Place(o, f) < Cardinality(RowsOf(o))
<1>1. Newer(o, f) \in SUBSET RowsOf(o) /\ Newer(o, f) # RowsOf(o)
  BY RowsFinite DEF Newer, OrderInv
<1>2. Place(o, f) <= Cardinality(RowsOf(o)) /\ Place(o, f) # Cardinality(RowsOf(o))
  BY <1>1, RowsFinite, FS_Subset DEF Place
<1> QED
  BY <1>2, RowsFinite

\* LIMIT: a page is no longer than it.
LEMMA PageIsShort ==
  ASSUME TypeOK, OrderInv, NEW o, NEW limit \in Nat, NEW offset \in Nat
  PROVE  Cardinality(ListFiles(o, limit, offset)) <= limit
<1> DEFINE items == ListFiles(o, limit, offset)
           T     == offset .. offset + limit - 1
           p     == [f \in items |-> Place(o, f)]
<1>1. items \in SUBSET RowsOf(o) /\ \A f \in items : Place(o, f) \in T
  BY DEF ListFiles, Place
<1>2. p \in [items -> T] /\ \A f, g \in items : p[f] = p[g] => f = g
  BY <1>1, PlaceIsUnique
<1>3. p \in Injection(items, T)
  BY <1>2, Fun_IsInj
<1>4. IsFiniteSet(T) /\ Cardinality(T) = limit
  BY FS_Interval
<1> HIDE DEF items, T, p
<1>5. Cardinality(items) <= Cardinality(T)
  BY <1>3, <1>4, FS_Injection
<1> QED
  BY <1>4, <1>5 DEF items

\* A page is empty only when every row stands before its offset.
LEMMA EmptyPageIsEnd ==
  ASSUME TypeOK, OrderInv, NEW o, NEW limit \in Nat, limit > 0, NEW offset \in Nat,
         ListFiles(o, limit, offset) = {}, NEW f \in RowsOf(o)
  PROVE  Place(o, f) < offset
<1> DEFINE rows == RowsOf(o)
           n    == Cardinality(rows)
           T    == 0 .. n - 1
           p    == [g \in rows |-> Place(o, g)]
<1>1. n \in Nat /\ \A g \in rows : Place(o, g) \in T
  BY RowsFinite, PlaceBound
<1>2. p \in [rows -> T] /\ \A g, h \in rows : p[g] = p[h] => g = h
  BY <1>1, PlaceIsUnique
<1>3. p \in Injection(rows, T)
  BY <1>2, Fun_IsInj
<1>4. IsFiniteSet(T) /\ Cardinality(T) = n
  BY <1>1, FS_Interval
<1>5. p \in Surjection(rows, T)
  <2> HIDE DEF T, p
  <2> QED
    BY <1>3, <1>4, FS_Injection
<1>6. \A t \in T : \E g \in rows : Place(o, g) = t
  BY <1>5 DEF Surjection
<1>7. \A g \in rows : Place(o, g) # offset
  BY DEF ListFiles, Place
<1> QED
  BY <1>1, <1>6, <1>7

\* The order of two rows never changes.
LEMMA OlderKept ==
  ASSUME TypeOK, [Next]_vars, NEW f \in File, NEW g \in File, Stored(f), Stored(g)
  PROVE  f \in older'[g] <=> f \in older[g]
<1>0. file \in [File -> Row] /\ older \in [File -> SUBSET File]
  BY DEF TypeOK
<1>1. ASSUME NEW h \in File, NEW o \in Org, NEW b \in Bucket \cup {NoBucket}, NEW k \in Key,
             CreateFile(h, o, b, k)
      PROVE  older'[g] = older[g]
  <2>1. h # g /\ older' = [older EXCEPT ![h] = {i \in File : file[i].state # "unused"}]
    BY <1>1 DEF CreateFile, Stored
  <2> QED
    BY <1>0, <2>1
<1>2. ASSUME NEW F \in SUBSET File, Refuse(F), \A h \in F : file[h].state = "inserting"
      PROVE  f \in older'[g] <=> f \in older[g]
  <2>1. f \notin F /\ g \notin F
    BY <1>2 DEF Stored
  <2> QED
    BY <1>0, <1>2, <2>1, RefuseEffect
<1>3. ASSUME NEW h \in File, InsertFile(h) PROVE f \in older'[g] <=> f \in older[g]
  BY <1>2, <1>3 DEF InsertFile
<1>4. CASE Crash
  BY <1>2, <1>4 DEF Crash
<1>5. CASE UNCHANGED older
  BY <1>5
<1> QED
  BY <1>1, <1>3, <1>4, <1>5
  DEF Next, PresignPut, GetFile, DeleteObject, DeleteFile, DeleteOrg, StartPaging, NextPage, vars

LEMMA NextPlaceFinite ==
  ASSUME NEW o, NEW f
  PROVE  IsFiniteSet(Newer(o, f)') /\ Place(o, f)' \in Nat
<1>1. Newer(o, f)' \in SUBSET File
  BY DEF Newer, RowsOf
<1> QED
  BY <1>1, StorageAssumption, FS_Subset, FS_CardinalityType DEF Place

\* A row moves up in the query only by the rows that go.
LEMMA PlaceStep ==
  ASSUME TypeOK, [Next]_vars, NEW o, NEW D, RowsOf(o) \ D \subseteq RowsOf(o)', NEW f \in RowsOf(o)
  PROVE  Newer(o, f) \ D \subseteq Newer(o, f)'
<1> SUFFICES ASSUME NEW g \in RowsOf(o), g \notin D, f \in older[g]
             PROVE  g \in RowsOf(o)' /\ f \in older'[g]
  BY DEF Newer
<1>1. Stored(f) /\ Stored(g) /\ f \in File /\ g \in File
  BY DEF RowsOf
<1> QED
  BY <1>1, OlderKept

\* The rows of M that stand before an offset.
Passed(o, M, n) == {f \in M : Stored(f) /\ Place(o, f) < n}

LEMMA PassedFinite ==
  ASSUME NEW o, NEW M \in SUBSET File, NEW n
  PROVE  IsFiniteSet(Passed(o, M, n)) /\ Cardinality(Passed(o, M, n)) \in Nat
<1>1. Passed(o, M, n) \in SUBSET File
  BY DEF Passed
<1> QED
  BY <1>1, StorageAssumption, FS_Subset, FS_CardinalityType

\* Rows of an organization that were there once.
OldRows(o, M) == \A f \in M : file[f].state \in Settled /\ file[f].org = o

LEMMA OldRowsKept ==
  ASSUME TypeOK, [Next]_vars, NEW o, NEW M \in SUBSET File, OldRows(o, M)
  PROVE  OldRows(o, M)' /\ \A f \in M : Stored(f)' => f \in RowsOf(o)
<1>1. ASSUME NEW f \in M PROVE /\ file'[f].state \in Settled /\ file'[f].org = o
                               /\ Stored(f)' => f \in RowsOf(o)
  <2>1. f \in File /\ file[f].state \in Settled /\ file[f].org = o
    BY DEF OldRows
  <2>2. file'[f].state \in Settled /\ file'[f].org = o
    BY <2>1, SettledStays DEF SameRow
  <2>3. Stored(f)' => Stored(f)
    BY <2>1, RowStep DEF Begins, Refused, Inserts, Removed, Settled, Stored
  <2> QED
    BY <2>1, <2>2, <2>3 DEF RowsOf
<1> QED
  BY <1>1 DEF OldRows

\* No row goes: no old row comes before the offset.
LEMMA PassedKept ==
  ASSUME TypeOK, [Next]_vars, NEW o, NEW M \in SUBSET File, OldRows(o, M), NEW n \in Nat,
         RowsOf(o) \subseteq RowsOf(o)'
  PROVE  Cardinality(Passed(o, M, n)') <= Cardinality(Passed(o, M, n))
<1>1. ASSUME NEW f \in M, Stored(f)', Place(o, f)' < n PROVE f \in Passed(o, M, n)
  <2>1. f \in RowsOf(o) /\ Stored(f)
    BY <1>1, OldRowsKept DEF RowsOf
  <2>2. Newer(o, f) \subseteq Newer(o, f)'
    BY <2>1, PlaceStep, Zenon
  <2>3. IsFiniteSet(Newer(o, f)') /\ Place(o, f)' \in Nat /\ Place(o, f) \in Nat
    BY RowsFinite, NextPlaceFinite
  <2>4. Place(o, f) <= Place(o, f)'
    BY <2>2, <2>3, FS_Subset DEF Place
  <2> QED
    BY <1>1, <2>1, <2>3, <2>4 DEF Passed
<1>2. Passed(o, M, n)' \subseteq Passed(o, M, n)
  BY <1>1 DEF Passed
<1> QED
  BY <1>2, PassedFinite, FS_Subset

\* One row goes: at most the old row that stood at the offset comes before it.
LEMMA PassedGrows ==
  ASSUME TypeOK, OrderInv, [Next]_vars, NEW o, NEW M \in SUBSET File, OldRows(o, M), NEW n \in Nat,
         NEW d, RowsOf(o) \ {d} \subseteq RowsOf(o)'
  PROVE  Cardinality(Passed(o, M, n)') <= Cardinality(Passed(o, M, n)) + 1
<1> DEFINE P == Passed(o, M, n)
<1>1. ASSUME NEW f \in M, Stored(f)', Place(o, f)' < n
      PROVE  f \in RowsOf(o) /\ Stored(f) /\ Place(o, f) <= n
  <2>1. f \in RowsOf(o) /\ Stored(f)
    BY <1>1, OldRowsKept DEF RowsOf
  <2>2. Newer(o, f) \ {d} \subseteq Newer(o, f)'
    BY <2>1, PlaceStep, Zenon
  <2>3. /\ IsFiniteSet(Newer(o, f)') /\ Place(o, f)' \in Nat
        /\ IsFiniteSet(Newer(o, f)) /\ Place(o, f) \in Nat
    BY RowsFinite, NextPlaceFinite
  <2>4. Cardinality(Newer(o, f) \ {d}) <= Place(o, f)'
    BY <2>2, <2>3, FS_Subset DEF Place
  <2>5. Cardinality(Newer(o, f) \ {d}) \in {Place(o, f), Place(o, f) - 1}
    BY <2>3, FS_RemoveElement DEF Place
  <2> QED
    BY <1>1, <2>1, <2>3, <2>4, <2>5
<1>2. IsFiniteSet(P) /\ Cardinality(P) \in Nat
  BY PassedFinite
<1>3. CASE \E g \in RowsOf(o) : Place(o, g) = n
  <2>1. PICK g \in RowsOf(o) : Place(o, g) = n
    BY <1>3
  <2>2. ASSUME NEW f \in P' PROVE f \in P \cup {g}
    <3>1. f \in M /\ Stored(f)' /\ Place(o, f)' < n
      BY DEF Passed
    <3>2. f \in RowsOf(o) /\ Stored(f) /\ Place(o, f) <= n /\ Place(o, f) \in Nat
      BY <1>1, <3>1, RowsFinite
    <3>3. CASE Place(o, f) = n
      BY <2>1, <3>2, <3>3, PlaceIsUnique
    <3> QED
      BY <3>1, <3>2, <3>3 DEF Passed
  <2>3. IsFiniteSet(P \cup {g}) /\ Cardinality(P \cup {g}) <= Cardinality(P) + 1
        /\ Cardinality(P \cup {g}) \in Nat
    <3> HIDE DEF P
    <3>1. IsFiniteSet(P \cup {g})
      BY <1>2, FS_AddElement
    <3>2. Cardinality(P \cup {g}) = IF g \in P THEN Cardinality(P) ELSE Cardinality(P) + 1
      BY <1>2, FS_AddElement
    <3> QED
      BY <1>2, <3>1, <3>2
  <2>4. Cardinality(P') <= Cardinality(P \cup {g}) /\ Cardinality(P') \in Nat
    <3> HIDE DEF P
    <3> QED
      BY <2>2, <2>3, FS_Subset, FS_CardinalityType
  <2> QED
    BY <1>2, <2>3, <2>4
<1>4. CASE \A g \in RowsOf(o) : Place(o, g) # n
  <2>1. ASSUME NEW f \in P' PROVE f \in P
    <3>1. f \in M /\ Stored(f)' /\ Place(o, f)' < n
      BY DEF Passed
    <3>2. f \in RowsOf(o) /\ Stored(f) /\ Place(o, f) <= n /\ Place(o, f) \in Nat
      BY <1>1, <3>1, RowsFinite
    <3> QED
      BY <1>4, <3>1, <3>2 DEF Passed
  <2>2. Cardinality(P') <= Cardinality(P) /\ Cardinality(P') \in Nat
    <3> HIDE DEF P
    <3> QED
      BY <1>2, <2>1, FS_Subset, FS_CardinalityType
  <2> QED
    BY <1>2, <2>2
<1> QED
  BY <1>3, <1>4

(***************************************************************************)
(* The rows of the reader that it has not seen and that stand before its   *)
(* offset, where it will not look again, are no more than the rows that    *)
(* went while it read.                                                     *)
(***************************************************************************)
ReadInv ==
  reader.at # "idle" =>
    /\ OldRows(reader.org, reader.missing)
    /\ IF reader.at = "paging"
       THEN Cardinality(Passed(reader.org, reader.missing, reader.offset)) <= reader.removed
       ELSE ListMissesFew

\* A request for a page.
LEMMA ReadPage ==
  ASSUME TypeOK, OrderInv, ReadInv, NEW n \in RequestedLimit, NextPage(n)
  PROVE  ReadInv'
<1> DEFINE items == ListFiles(reader.org, Limit(n), reader.offset)
<1>0. reader \in Reader /\ reader.offset \in Nat /\ reader.removed \in Nat /\ reader.missing \in SUBSET File
  BY DEF TypeOK, Reader
<1>1. /\ items \in SUBSET RowsOf(reader.org) /\ IsFiniteSet(items)
      /\ Limit(n) \in Nat /\ Limit(n) > 0 /\ reader.at = "paging"
      /\ reader'.org = reader.org
      /\ reader'.at = IF items = {} THEN "done" ELSE "paging"
      /\ reader'.missing = reader.missing \ items
      /\ reader'.offset = reader.offset + Cardinality(items)
      /\ reader'.removed = reader.removed
  BY <1>0, PageEffect
<1>2. Cardinality(items) <= Limit(n) /\ Cardinality(items) \in Nat
  BY <1>0, <1>1, PageIsShort, FS_CardinalityType
<1>3. UNCHANGED <<file, older>>
  BY DEF NextPage
<1>4. \A f : Stored(f)' <=> Stored(f)
  BY <1>3 DEF Stored
<1>5. \A f : Place(reader.org, f)' = Place(reader.org, f)
  BY <1>1, <1>3 DEF Place, Newer, RowsOf, Stored
<1>6. OldRows(reader.org, reader.missing)'
  BY <1>1, <1>3 DEF ReadInv, OldRows
<1> DEFINE P == Passed(reader.org, reader.missing, reader.offset)
<1>7. IsFiniteSet(P) /\ Cardinality(P) \in Nat /\ Cardinality(P) <= reader.removed
  BY <1>0, <1>1, PassedFinite DEF ReadInv
<1>8. ASSUME items # {} PROVE Cardinality(P') <= reader'.removed
  <2>1. ASSUME NEW f \in P' PROVE f \in P
    <3>1. /\ f \in reader.missing /\ f \notin items /\ Stored(f)
          /\ Place(reader.org, f) < reader.offset + Cardinality(items)
      BY <1>1, <1>4, <1>5 DEF Passed
    <3>2. f \in RowsOf(reader.org)
      BY <1>0, <1>1, <3>1 DEF ReadInv, OldRows, RowsOf
    <3>3. Place(reader.org, f) \in Nat
      BY RowsFinite
    <3>4. Place(reader.org, f) \notin reader.offset .. reader.offset + Limit(n) - 1
      BY <3>1, <3>2 DEF ListFiles, Place
    <3> QED
      BY <1>0, <1>1, <1>2, <3>1, <3>3, <3>4 DEF Passed
  <2> HIDE DEF P
  <2>2. Cardinality(P') <= Cardinality(P) /\ Cardinality(P') \in Nat
    BY <1>7, <2>1, FS_Subset, FS_CardinalityType
  <2> QED
    BY <1>0, <1>1, <1>7, <2>2
<1>9. ASSUME items = {} PROVE ListMissesFew'
  <2>1. \A f \in RowsOf(reader.org) : Place(reader.org, f) < reader.offset
    BY <1>0, <1>1, <1>9, EmptyPageIsEnd
  <2>2. {f \in reader.missing : Stored(f)} = P
    BY <1>0, <1>1, <2>1 DEF Passed, ReadInv, OldRows, RowsOf
  <2>3. {f \in reader'.missing : Stored(f)'} = {f \in reader.missing : Stored(f)}
    BY <1>1, <1>4, <1>9
  <2> QED
    BY <1>1, <1>7, <2>2, <2>3 DEF ListMissesFew
<1> QED
  BY <1>1, <1>6, <1>8, <1>9 DEF ReadInv

\* Every step but those of the reader leaves it alone or counts a row that
\* goes.
LEMMA ReadOther ==
  ASSUME TypeOK, OrderInv, ReadInv, [Next]_vars, reader.at # "idle",
         NEW o, o = reader.org, NEW M, M = reader.missing, NEW n, n = reader.offset,
         reader'.at = reader.at, reader'.org = o, reader'.missing = M, reader'.offset = n,
         reader'.removed \in Nat, reader'.removed >= reader.removed,
         reader.at = "paging" =>
           \/ RowsOf(o) \subseteq RowsOf(o)'
           \/ RowsOf(o)' = {}
           \/ \E d \in File : RowsOf(o) \ {d} \subseteq RowsOf(o)' /\ reader'.removed = reader.removed + 1
  PROVE  ReadInv'
<1>0. M \in SUBSET File /\ n \in Nat /\ reader.removed \in Nat /\ OldRows(o, M)
  BY DEF TypeOK, Reader, ReadInv
<1>1. OldRows(o, M)' /\ \A f \in M : Stored(f)' => f \in RowsOf(o)
  BY <1>0, OldRowsKept
<1>2. CASE reader.at = "paging"
  <2>1. Cardinality(Passed(o, M, n)) <= reader.removed /\ Cardinality(Passed(o, M, n)) \in Nat
    BY <1>0, <1>2, PassedFinite DEF ReadInv
  <2>2. Cardinality(Passed(o, M, n)') \in Nat
    <3>1. Passed(o, M, n)' \in SUBSET File
      BY <1>0 DEF Passed
    <3> QED
      BY <3>1, StorageAssumption, FS_Subset, FS_CardinalityType
  <2>3. Cardinality(Passed(o, M, n)') <= reader'.removed
    <3>1. CASE RowsOf(o) \subseteq RowsOf(o)'
      BY <1>0, <2>1, <2>2, <3>1, PassedKept
    <3>2. CASE RowsOf(o)' = {}
      <4>1. \A f \in M : ~ Stored(f)'
        BY <1>0, <1>1, <3>2 DEF OldRows, RowsOf
      <4>2. Passed(o, M, n)' = {}
        BY <4>1 DEF Passed
      <4> QED
        BY <4>2, FS_EmptySet
    <3>3. ASSUME NEW d \in File, RowsOf(o) \ {d} \subseteq RowsOf(o)',
                 reader'.removed = reader.removed + 1
          PROVE  Cardinality(Passed(o, M, n)') <= reader'.removed
      <4>1. Cardinality(Passed(o, M, n)') <= Cardinality(Passed(o, M, n)) + 1
        BY <1>0, <3>3, PassedGrows
      <4> QED
        BY <1>0, <2>1, <2>2, <3>3, <4>1
    <3> QED
      BY <1>2, <3>1, <3>2, <3>3
  <2>4. Passed(reader.org, reader.missing, reader.offset)' = Passed(o, M, n)'
    BY DEF Passed, Place, Newer, RowsOf
  <2>5. OldRows(reader.org, reader.missing)'
    BY <1>1 DEF OldRows
  <2> QED
    BY <1>2, <2>3, <2>4, <2>5 DEF ReadInv
<1>3. CASE reader.at = "done"
  <2> DEFINE S == {f \in M : Stored(f)}
  <2>1. IsFiniteSet(S) /\ Cardinality(S) \in Nat
    BY <1>0, StorageAssumption, FS_Subset, FS_CardinalityType
  <2>2. S' \subseteq S
    BY <1>1 DEF RowsOf
  <2>3. Cardinality(S) <= reader.removed
    BY <1>3 DEF ReadInv, ListMissesFew
  <2>4. Cardinality(S') <= reader'.removed
    <3>1. Cardinality(S') <= Cardinality(S) /\ Cardinality(S') \in Nat
      <4> HIDE DEF S
      <4> QED
        BY <2>1, <2>2, FS_Subset, FS_CardinalityType
    <3> QED
      BY <1>0, <2>1, <2>3, <3>1
  <2>5. OldRows(reader.org, reader.missing)'
    BY <1>1 DEF OldRows
  <2> QED
    BY <1>3, <2>4, <2>5 DEF ReadInv, ListMissesFew
<1> QED
  BY <1>2, <1>3 DEF TypeOK, Reader

LEMMA ReadStep == TypeOK /\ OrderInv /\ ReadInv /\ [Next]_vars => ReadInv'
<1> SUFFICES ASSUME TypeOK, OrderInv, ReadInv, [Next]_vars PROVE ReadInv'
  OBVIOUS
<1>0. reader \in Reader /\ reader.removed \in Nat /\ file \in [File -> Row]
  BY DEF TypeOK, Reader
<1>1. ASSUME NEW o \in Org, StartPaging(o) PROVE ReadInv'
  <2>1. reader' = [at |-> "paging", org |-> o, offset |-> 0, missing |-> RowsOf(o), removed |-> 0]
    BY <1>1 DEF StartPaging, NoReader
  <2>2. UNCHANGED file
    BY <1>1 DEF StartPaging
  <2>3. OldRows(reader.org, reader.missing)'
    BY <2>1, <2>2 DEF OldRows, RowsOf, Stored, Settled
  <2>4. Passed(reader.org, reader.missing, reader.offset)' = {}
    <3>1. \A f : Place(reader.org, f)' \in Nat
      BY <2>1, NextPlaceFinite
    <3> QED
      BY <2>1, <3>1 DEF Passed
  <2> QED
    BY <2>1, <2>3, <2>4, FS_EmptySet DEF ReadInv
<1>2. ASSUME NEW n \in RequestedLimit, NextPage(n) PROVE ReadInv'
  BY <1>2, ReadPage
<1>3. CASE reader.at = "idle" /\ reader'.at = "idle"
  BY <1>3 DEF ReadInv
<1>4. ASSUME UNCHANGED reader, \A f \in File : Stored(f) => file'[f] = file[f] PROVE ReadInv'
  <2>1. RowsOf(reader.org) \subseteq RowsOf(reader.org)'
    BY <1>4 DEF RowsOf, Stored
  <2> QED
    BY <1>0, <1>3, <1>4, <2>1, ReadOther
<1>5. ASSUME NEW r \in Request, DeleteFile(r) PROVE ReadInv'
  <2> DEFINE d == request[r].file
  <2>1. d \in File
    BY <1>5 DEF DeleteFile, TypeOK
  <2>2. CASE DeleteRow(d)
    <3>1. /\ reader' \in Reader /\ reader'.at = reader.at /\ reader'.org = reader.org
          /\ reader'.offset = reader.offset /\ reader'.missing = reader.missing
          /\ reader'.removed = IF reader.at = "paging"
               THEN reader.removed + Cardinality({d} \cap RowsOf(reader.org)) ELSE reader.removed
      BY <1>0, <2>1, <2>2, CountEffect DEF DeleteRow
    <3>2. \A g \in File \ {d} : file'[g] = file[g]
      BY <1>0, <2>1, <2>2, SetStateEffect DEF DeleteRow, States
    <3>3. RowsOf(reader.org) \ {d} \subseteq RowsOf(reader.org)'
      BY <3>1, <3>2 DEF RowsOf, Stored
    <3>4. CASE d \in RowsOf(reader.org)
      <4>1. Cardinality({d} \cap RowsOf(reader.org)) = 1
        <5>1. {d} \cap RowsOf(reader.org) = {d}
          BY <3>4
        <5> QED
          BY <5>1, FS_Singleton
      <4> QED
        BY <1>0, <1>3, <2>1, <3>1, <3>3, <4>1, ReadOther
    <3>5. CASE d \notin RowsOf(reader.org)
      <4>1. Cardinality({d} \cap RowsOf(reader.org)) = 0
        <5>1. {d} \cap RowsOf(reader.org) = {}
          BY <3>5
        <5> QED
          BY <5>1, FS_EmptySet
      <4>2. RowsOf(reader.org) \subseteq RowsOf(reader.org)'
        BY <3>3, <3>5
      <4>3. reader'.removed \in Nat /\ reader'.removed >= reader.removed
        BY <1>0, <3>1, <4>1
      <4> QED
        BY <1>3, <3>1, <4>2, <4>3, ReadOther
    <3> QED
      BY <3>4, <3>5
  <2>3. CASE UNCHANGED <<file, reader>>
    BY <1>4, <2>3
  <2> QED
    BY <1>5, <2>2, <2>3 DEF DeleteFile
<1>6. ASSUME NEW o \in Org, DeleteOrg(o) PROVE ReadInv'
  <2>1. RowsOf(o) \in SUBSET File
    BY DEF RowsOf
  <2>2. /\ reader' \in Reader /\ reader'.at = reader.at /\ reader'.org = reader.org
        /\ reader'.offset = reader.offset /\ reader'.missing = reader.missing
        /\ reader'.removed = IF reader.at = "paging"
             THEN reader.removed + Cardinality(RowsOf(o) \cap RowsOf(reader.org)) ELSE reader.removed
    BY <1>0, <1>6, <2>1, CountEffect DEF DeleteOrg
  <2>3. /\ \A f \in RowsOf(o) : file'[f].state = "cascaded"
        /\ \A f \in File \ RowsOf(o) : file'[f] = file[f]
        /\ \A f \in File : SameRow(f)
    BY <1>0, <1>6, <2>1, SetStateEffect DEF DeleteOrg, States
  <2>4. Cardinality(RowsOf(o) \cap RowsOf(reader.org)) \in Nat
    <3>1. RowsOf(o) \cap RowsOf(reader.org) \in SUBSET File
      BY <2>1
    <3> QED
      BY <3>1, StorageAssumption, FS_Subset, FS_CardinalityType
  <2>5. reader'.removed \in Nat /\ reader'.removed >= reader.removed
    BY <1>0, <2>2, <2>4
  <2>6. CASE o = reader.org
    <3>1. RowsOf(reader.org)' = {}
      BY <2>2, <2>3, <2>6 DEF RowsOf, Stored, SameRow
    <3> QED
      BY <1>3, <2>2, <2>5, <3>1, ReadOther
  <2>7. CASE o # reader.org
    <3>1. RowsOf(reader.org) \subseteq RowsOf(reader.org)'
      BY <2>2, <2>3, <2>7 DEF RowsOf, Stored
    <3> QED
      BY <1>3, <2>2, <2>5, <3>1, ReadOther
  <2> QED
    BY <2>6, <2>7
<1>7. ASSUME NEW f \in File, NEW o \in Org, NEW b \in Bucket \cup {NoBucket}, NEW k \in Key,
             CreateFile(f, o, b, k)
      PROVE  ReadInv'
  <2>1. file[f].state = "unused" /\ file' = [file EXCEPT ![f] = NewRow(o, b, k)] /\ UNCHANGED reader
    BY <1>7 DEF CreateFile
  <2>2. \A g \in File : Stored(g) => file'[g] = file[g]
    BY <1>0, <2>1 DEF Stored
  <2> QED
    BY <1>4, <2>1, <2>2
<1>8. ASSUME NEW F \in SUBSET File, Refuse(F), \A f \in F : file[f].state = "inserting",
             UNCHANGED reader
      PROVE  ReadInv'
  <2>1. \A g \in File : Stored(g) => file'[g] = file[g]
    BY <1>0, <1>8 DEF Stored, Refuse
  <2> QED
    BY <1>4, <1>8, <2>1
<1>9. ASSUME NEW f \in File, InsertFile(f) PROVE ReadInv'
  <2>1. file[f].state = "inserting" /\ UNCHANGED reader
    BY <1>9 DEF InsertFile
  <2>2. CASE SetState({f}, "stored")
    <3>1. \A g \in File : Stored(g) => file'[g] = file[g]
      BY <1>0, <2>1, <2>2, SetStateEffect DEF States, Stored
    <3> QED
      BY <1>4, <2>1, <3>1
  <2>3. CASE Refuse({f})
    BY <1>8, <2>1, <2>3
  <2> QED
    BY <1>9, <2>2, <2>3 DEF InsertFile
<1>10. CASE Crash
  BY <1>8, <1>10 DEF Crash
<1>11. CASE UNCHANGED <<file, reader>>
  BY <1>4, <1>11
<1> QED
  BY <1>1, <1>2, <1>5, <1>6, <1>7, <1>9, <1>10, <1>11
  DEF Next, PresignPut, GetFile, DeleteObject, vars

\* A client that follows next_offset to the end of ListFiles misses at most as
\* many of the files that stay as were deleted while it read, for any number
\* of files, page sizes that change from page to page, and any uploads,
\* deletions, failures and stops of the server meanwhile.
THEOREM ListingMissesFew == Spec => []ListMissesFew
<1>1. Init => ReadInv
  BY NoReaderIsReader DEF Init, ReadInv
<1>2. TypeOK /\ ReadInv => ListMissesFew
  BY DEF ReadInv, ListMissesFew
<1> QED
  BY <1>1, <1>2, TypeInit, TypeStep, OrderInit, OrderStep, ReadStep, PTL DEF Spec

=============================================================================
