------------------------------ MODULE Storage ------------------------------
(***************************************************************************)
(* File storage: internal/http/handlers/storage.go and its service over    *)
(* the table files, and the client of the object store,                    *)
(* internal/storage/s3/client.go.  A client asks for a presigned URL,      *)
(* uploads to the object store without the server, registers the file,     *)
(* lists files and deletes them.  Row and object are changed by two        *)
(* systems without a transaction.                                          *)
(*                                                                         *)
(* Abstractions.  A key is a name under the prefix of an organization, or  *)
(* a plain name (org = NoOrg); one user per organization.  Content types,  *)
(* sizes and metadata are left out: the checks on them answer 400 before   *)
(* anything changes.  GetFile and PresignGet change nothing.  created_at   *)
(* is the order of the files; no two get the same microsecond.             *)
(***************************************************************************)
EXTENDS Naturals, FiniteSets

CONSTANTS File,            \* file ids (bound: an id has at most one row)
          NoFile,          \* an idle slot has no file
          Org,             \* organizations
          NoOrg,           \* a key outside the prefix org/
          Name,            \* names of files
          Bucket,          \* names of buckets
          DefaultBucket,   \* S3_BUCKET
          NoBucket,        \* the empty bucket of a request that names none
          Request,         \* slots of concurrently running DeleteFile handlers
          RequestedLimit,  \* limits that a client of ListFiles asks for
          Faults           \* "db": a statement may fail; "s3": a call of the
                           \* object store may fail, or be cancelled because
                           \* the client is gone; "crash": the server may stop

ASSUME StorageAssumption ==
  /\ IsFiniteSet(File)
  /\ NoFile \notin File
  /\ NoOrg \notin Org
  /\ Name # {}
  /\ NoBucket \notin Bucket
  /\ DefaultBucket \in Bucket
  /\ RequestedLimit \subseteq Nat
  /\ Faults \subseteq {"db", "s3", "crash"}

VARIABLES
  orgs,     \* organizations that exist
  file,     \* what became of each id, and its row
  older,    \* ids with an earlier created_at than each id
  objects,  \* what the object store holds
  request,  \* where each DeleteFile handler is
  reader    \* a client that follows next_offset through ListFiles

(***************************************************************************)
(* History variable.                                                       *)
(***************************************************************************)
VARIABLE
  left      \* files whose object the last DeleteObject did not remove, or
            \* that was uploaded again after it

vars == <<orgs, file, older, objects, request, reader, left>>

-----------------------------------------------------------------------------
Key    == [org : Org \cup {NoOrg}, name : Name]
Object == [bucket : Bucket, key : Key]

\* "inserting" is a CreateFile between time.Now() and its INSERT; "cascaded" a
\* row that went with its organization.  asked is the key in the request, key
\* the one in the row.
Row == [state  : {"unused", "inserting", "stored", "deleted", "cascaded"},
        org    : Org \cup {NoOrg},
        bucket : Bucket \cup {NoBucket},
        asked  : Key,
        key    : Key]

Handler == [at : {"idle", "object", "row"}, file : File \cup {NoFile}]

Reader == [at      : {"idle", "paging", "done"},
           org     : Org \cup {NoOrg},
           offset  : Nat,
           missing : SUBSET File,   \* rows when it started that it has not seen
           removed : Nat]           \* rows deleted since

Idle     == [at |-> "idle", file |-> NoFile]
NoKey    == [org |-> NoOrg, name |-> CHOOSE n \in Name : TRUE]
Unused   == [state |-> "unused", org |-> NoOrg, bucket |-> NoBucket,
             asked |-> NoKey, key |-> NoKey]
NoReader == [at |-> "idle", org |-> NoOrg, offset |-> 0,
             missing |-> {}, removed |-> 0]

Init ==
  /\ orgs = Org
  /\ file = [f \in File |-> Unused]
  /\ older = [f \in File |-> {}]
  /\ objects = {}
  /\ request = [r \in Request |-> Idle]
  /\ reader = NoReader
  /\ left = {}

DbFails == "db" \in Faults
S3Fails == "s3" \in Faults

Stored(f)     == file[f].state = "stored"
RowsOf(o)     == {f \in File : Stored(f) /\ file[f].org = o}
Finish(r)     == request' = [request EXCEPT ![r] = Idle]
SetState(F, s) == file' = [f \in File |-> IF f \in F THEN [file[f] EXCEPT !.state = s]
                                                    ELSE file[f]]
\* Ids that no row has; nothing else knows them, so they may be drawn again.
Refuse(F) == /\ file' = [f \in File |-> IF f \in F THEN Unused ELSE file[f]]
             /\ older' = [f \in File |-> IF f \in F THEN {} ELSE older[f] \ F]

\* Rows of the reader's organization are gone.
CountRemoved(F) ==
  reader' = [reader EXCEPT !.removed =
               IF reader.at = "paging" THEN @ + Cardinality(F \cap RowsOf(reader.org)) ELSE @]

-----------------------------------------------------------------------------
(***************************************************************************)
(* The object store.                                                       *)
(***************************************************************************)
\* The bucket that the client of the object store uses for the bucket it is
\* given; the row keeps the one it is given.
Resolve(b) == IF b = NoBucket THEN DefaultBucket ELSE b

ObjectOf(f) == [bucket |-> Resolve(file[f].bucket), key |-> file[f].key]

\* The object under the key that the client uploaded to and registered.
Uploaded(f) == [bucket |-> Resolve(file[f].bucket), key |-> file[f].asked]

\* Files whose DeleteFile has been through DeleteObject.
Emptied == {f \in File : \/ file[f].state = "deleted"
                         \/ \E r \in Request : request[r] = [at |-> "row", file |-> f]}

\* PresignPut signs the bucket and the key as it is given, prefixed or plain,
\* and the client PUTs to the URL.  A member can have a URL for any key at any
\* time, so the life of one (300 s, at most an hour) restricts nothing.
PresignPut(b, k) ==
  LET u == [bucket |-> Resolve(b), key |-> k]
  IN  /\ objects' = objects \cup {u}
      /\ left' = left \cup {f \in Emptied : ObjectOf(f) = u}
      /\ UNCHANGED <<orgs, file, older, request, reader>>

-----------------------------------------------------------------------------
(***************************************************************************)
(* CreateFile.                                                             *)
(***************************************************************************)
ObjectKey(o, k) == IF k.org = NoOrg THEN [org |-> o, name |-> k.name] ELSE k

\* The service's Create up to its INSERT, with the id drawn and the clock read.
NewRow(o, b, k) == [state |-> "inserting", org |-> o, bucket |-> b,
                    asked |-> k, key |-> ObjectKey(o, k)]

\* The handler up to the INSERT.  Nothing asks the object store whether the
\* object is there.
CreateFile(f, o, b, k) ==
  /\ file[f].state = "unused"
  /\ o \in orgs
  /\ file' = [file EXCEPT ![f] = NewRow(o, b, k)]
  /\ older' = [older EXCEPT ![f] = {g \in File : file[g].state # "unused"}]
  /\ UNCHANGED <<orgs, objects, request, reader, left>>

\* The unique index of the table, on the bucket and the key as stored.
Taken(f) == \E g \in File \ {f} :
              Stored(g) /\ file[g].bucket = file[f].bucket /\ file[g].key = file[f].key

\* mutant: no unique index
InsertAnyFile(f) ==
  /\ file[f].state = "inserting"
  /\ \/ file[f].org \in orgs /\ SetState({f}, "stored")
        /\ UNCHANGED older
     \/ DbFails /\ Refuse({f})
  /\ UNCHANGED <<orgs, objects, request, reader, left>>

\* mutant: a refused INSERT takes the upload back
InsertCleansUp(f) ==
  /\ file[f].state = "inserting"
  /\ \/ ~Taken(f) /\ SetState({f}, "stored") /\ UNCHANGED <<older, objects>>
     \/ Taken(f) /\ Refuse({f}) /\ objects' = objects \ {ObjectOf(f)}
  /\ UNCHANGED <<orgs, request, reader, left>>

\* The INSERT; a key that is taken, an organization that is gone or a failure
\* is answered with 500.
InsertFile(f) ==
  /\ file[f].state = "inserting"
  /\ \/ ~Taken(f) /\ file[f].org \in orgs /\ SetState({f}, "stored")
        /\ UNCHANGED older
     \/ (Taken(f) \/ file[f].org \notin orgs \/ DbFails) /\ Refuse({f})
  /\ UNCHANGED <<orgs, objects, request, reader, left>>

-----------------------------------------------------------------------------
(***************************************************************************)
(* DeleteFile.                                                             *)
(***************************************************************************)
\* The handler reads bucket and key; without a row it answers 404.
GetFile(r, f) ==
  /\ request[r].at = "idle"
  /\ Stored(f)
  /\ request' = [request EXCEPT ![r] = [at |-> "object", file |-> f]]
  /\ UNCHANGED <<orgs, file, older, objects, reader, left>>

\* mutant: the row's bucket goes to the object store unresolved
DeleteRawObject(r) ==
  LET f == request[r].file
  IN  /\ request[r].at = "object"
      /\ request' = [request EXCEPT ![r].at = "row"]
      /\ objects' = objects \ {[bucket |-> file[f].bucket, key |-> file[f].key]}
      /\ left' = left \ {f}
      /\ UNCHANGED <<orgs, file, older, reader>>

\* The object store removes the object, or fails: that is logged and the
\* handler goes on.
DeleteObject(r) ==
  LET f == request[r].file
  IN  /\ request[r].at = "object"
      /\ request' = [request EXCEPT ![r].at = "row"]
      /\ \/ objects' = objects \ {ObjectOf(f)} /\ left' = left \ {f}
         \/ S3Fails /\ left' = left \cup {f} /\ UNCHANGED objects
      /\ UNCHANGED <<orgs, file, older, reader>>

\* The DELETE of one row.
DeleteRow(f) == Stored(f) /\ SetState({f}, "deleted") /\ CountRemoved({f})

\* The handler answers 204 if the DELETE found the row, 500 if it did not or
\* failed.
DeleteFile(r) ==
  LET f == request[r].file
  IN  /\ request[r].at = "row"
      /\ \/ DeleteRow(f)
         \/ (~Stored(f) \/ DbFails) /\ UNCHANGED <<file, reader>>
      /\ Finish(r)
      /\ UNCHANGED <<orgs, older, objects, left>>

\* mutant: the foreign key does not cascade
DeleteOrgOnly(o) ==
  /\ o \in orgs
  /\ orgs' = orgs \ {o}
  /\ UNCHANGED <<file, older, objects, request, reader, left>>

\* The organization is deleted and its rows go with it (ON DELETE CASCADE);
\* the objects stay.
DeleteOrg(o) ==
  /\ o \in orgs
  /\ orgs' = orgs \ {o}
  /\ SetState(RowsOf(o), "cascaded")
  /\ CountRemoved(RowsOf(o))
  /\ UNCHANGED <<older, objects, request, left>>

\* The process dies with its handlers.
Crash ==
  /\ "crash" \in Faults
  /\ request' = [r \in Request |-> Idle]
  /\ Refuse({f \in File : file[f].state = "inserting"})
  /\ UNCHANGED <<orgs, objects, reader, left>>

-----------------------------------------------------------------------------
(***************************************************************************)
(* ListFiles.                                                              *)
(***************************************************************************)
MaxLimit     == 100
DefaultLimit == 20

Limit(n) == IF n \in 1 .. MaxLimit THEN n ELSE DefaultLimit

\* The rows of the organization that the query puts before a row of it.
Newer(o, f) == {g \in RowsOf(o) : f \in older[g]}

\* ORDER BY created_at DESC LIMIT limit OFFSET offset
ListFiles(o, limit, offset) ==
  {f \in RowsOf(o) : Cardinality(Newer(o, f)) \in offset .. offset + limit - 1}

\* A client starts to page through the files of an organization.
StartPaging(o) ==
  /\ reader.at = "idle"
  /\ o \in orgs
  /\ reader' = [NoReader EXCEPT !.at = "paging", !.org = o, !.missing = RowsOf(o)]
  /\ UNCHANGED <<orgs, file, older, objects, request, left>>

\* mutant: next_offset counts from one
NextPageFromOne(n) ==
  /\ reader.at = "paging"
  /\ LET items == ListFiles(reader.org, Limit(n), reader.offset)
     IN  reader' = [reader EXCEPT
           !.missing = @ \ items,
           !.offset  = @ + Cardinality(items) + 1,
           !.at      = IF items = {} THEN "done" ELSE @]
  /\ UNCHANGED <<orgs, file, older, objects, request, left>>

\* One request: the page at the offset, and next_offset in the answer.  The
\* client ends with an empty page.
NextPage(n) ==
  /\ reader.at = "paging"
  /\ LET items == ListFiles(reader.org, Limit(n), reader.offset)
     IN  reader' = [reader EXCEPT
           !.missing = @ \ items,
           !.offset  = @ + Cardinality(items),
           !.at      = IF items = {} THEN "done" ELSE @]
  /\ UNCHANGED <<orgs, file, older, objects, request, left>>

-----------------------------------------------------------------------------
Next ==
  \/ \E b \in Bucket \cup {NoBucket}, k \in Key : PresignPut(b, k)
  \/ \E f \in File, o \in Org, b \in Bucket \cup {NoBucket}, k \in Key : CreateFile(f, o, b, k)
  \/ \E f \in File : InsertFile(f)
  \/ \E r \in Request, f \in File : GetFile(r, f)
  \/ \E r \in Request : DeleteObject(r) \/ DeleteFile(r)
  \/ \E o \in Org : DeleteOrg(o)
  \/ Crash
  \/ \E o \in Org : StartPaging(o)
  \/ \E n \in RequestedLimit : NextPage(n)

Spec == Init /\ [][Next]_vars

-----------------------------------------------------------------------------
\* The variables have their types; a handler that runs has a file, and a row
\* belongs to an organization that exists.
TypeOK ==
  /\ orgs \subseteq Org
  /\ file \in [File -> Row]
  /\ older \in [File -> SUBSET File]
  /\ objects \subseteq Object
  /\ request \in [Request -> Handler]
  /\ reader \in Reader
  /\ left \subseteq File
  /\ \A r \in Request : request[r].at # "idle" => request[r].file \in File
  /\ \A f \in File : /\ file[f].state # "unused" => file[f].org \in Org
                     /\ Stored(f) => file[f].org \in orgs

\* One of two rows leaves the bucket to the default and the other names it.
Aliases(f, g) == {file[f].bucket, file[g].bucket} = {NoBucket, DefaultBucket}

\* Two rows are about the same object only if one leaves the bucket empty and
\* the other names the default: the unique index does not see that these are
\* one bucket.
OneRowPerObject ==
  \A f, g \in File :
    f # g /\ Stored(f) /\ Stored(g) /\ ObjectOf(f) = ObjectOf(g) => Aliases(f, g)

\* After the 204 of DeleteFile the upload of the client is gone, unless the
\* call of the object store failed, the client uploaded again after it, or the
\* upload was to a plain key: the row then has another key than the upload,
\* and DeleteFile removes nothing of it.
DeletedIsGone ==
  \A f \in File :
    file[f].state = "deleted" /\ Uploaded(f) \in objects
      => f \in left \/ file[f].asked.org = NoOrg

\* The object of a row that stays is removed only by a DeleteFile of the row
\* itself, of a row with the same object under the other name of the bucket,
\* or by one that read its row before another request removed that row and a
\* new one took the key.
LossIsExcused ==
  [][\A f \in File :
       Stored(f) /\ Stored(f)' /\ ObjectOf(f) \in objects \ objects'
         => \E r \in Request :
              /\ request[r].at = "object"
              /\ LET g == request[r].file
                 IN  g = f \/ (Stored(g) /\ Aliases(f, g)) \/ ~Stored(g)]_vars

\* A client that follows next_offset to the end misses at most as many of the
\* rows there were when it started, and still are, as rows were deleted while
\* it read: new rows, also those with an older created_at, hide nothing.
ListMissesFew ==
  reader.at = "done" =>
    Cardinality({f \in reader.missing : Stored(f)}) <= reader.removed

=============================================================================
