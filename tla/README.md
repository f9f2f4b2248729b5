# Vergo: TLA+ models and proofs

Vergo is a multi-tenant SaaS backend in Go (gin, sqlc on PostgreSQL, Stripe,
S3). Its handlers open almost no transactions: a request is a sequence of
autocommit statements, requests interleave between them, several errors are
ignored on purpose (`_ = ...`), and a process may die between any two
statements. That is where its hard behaviour is, and what these modules are
about.

## Inventory

| Part | State | Operations | Interacts with | Hard behaviour | Module |
|---|---|---|---|---|---|
| Sessions (`handlers/auth.go`, `internal/auth`) | `users`, `refresh_tokens`, `password_reset_tokens` | Signup, Login, Refresh, Logout, LogoutAll, ForgotPassword, ResetPassword | every request carries its access token | check and invalidation of a credential are two statements; revocation sees only the rows that exist; ignored errors | `Sessions` |
| Outgoing webhooks (`domain/webhook`) | `webhook_endpoints`, `webhook_deliveries` | endpoint CRUD, Dispatch, ProcessPending | a ticker goroutine in every process | no row locks; post and mark are two steps; retries; shutdown in a batch | `Webhooks` |
| Projects and audit (`handlers/projects.go`, `audit.go`, `domain/audit`) | `projects`, `audit_logs` | Create, Update, Delete, Record, List of the trail | projects call audit | read, write and record are three statements; paging while entries are added | `AuditTrail`, `AuditPages` |
| Billing (`domain/billing`, `handlers/billing.go`, `middleware/plan.go`) | `subscriptions` | CreateCheckoutSession, Webhook, RequirePlan | Stripe, by calls and by events | events repeated and out of order; an upsert that replaces every column; 200 for a failed statement | `Billing` |
| Tenancy (`middleware/tenant.go`, `rbac.go`, `handlers/orgs.go`, `context.go`) | `organizations`, `memberships`, `user_contexts` | organization and member CRUD, active organization | in front of projects, storage, billing, webhooks | check in the middleware, use in the handler | `Tenancy` |
| Rate limiter (`pkg/ratelimit`) | buckets in memory | Allow, Remaining, cleanup, Stop | middleware of every route | late refill, cap, eviction of idle buckets | `RateLimiter`, `TokenBuckets` |
| API keys (`domain/apikey`) | `api_keys` | Create, List, Revoke, Validate | middleware/auth.go | use after revocation, expiry, the goroutine that sets `last_used_at` | `Tenancy` |
| Storage (`handlers/storage.go`, `domain/file`, `storage/s3`) | `files`, objects | Presign, CreateFile, ListFiles, DeleteFile | S3; the client uploads past the server | row and object change separately; what is deleted was read before; two names of one bucket; paging while rows go | `Storage` |
| Start and shutdown (`cmd/api/main.go`, `pkg/db`, `pkg/telemetry`, `docker-compose.yml`) | `schema_migrations`, the advisory lock, handlers, spans, ticker, pool | migrations, serving, graceful shutdown | all; the migrate job, other servers | concurrent and interrupted migrations, order of shutdown, its timeout, unawaited goroutine | `Lifecycle` |

What is left out, and why, is under [Not modelled](#not-modelled).

What makes each part correct:

- Sessions: a credential works once; a revoked, logged out or rotated session
  stays dead; a password change ends the sessions of the old password.
- Webhooks: every event is delivered or given up on after the stated number of
  posts, is not posted twice without a reason, and `delivered` means what it says.
- Audit: the trail of a project is a chain without gaps that ends at its row.
- Billing: the row follows Stripe; what was paid is not forgotten; the plan
  gate follows the status.
- Tenancy: an organization is changed only for an actor with a role in it; what
  refers to an organization goes with it; a removed member is gone.
- API keys: a dead key stays dead, and only its own organization kills it.
- Rate limiter: a key gets burst plus rate times time, no more and no less.
- Storage: a row and its object come and go together; a list shows what is there.
- Lifecycle: the recorded schema is the schema; nobody serves without its tables;
  a stop loses nothing that it could have waited for, and ends whoever hangs.

## How the code is modelled

Shared conventions:

- **One action per statement.** Each sqlc query is one autocommit statement, so
  it is atomic and everything between two of them is not. A handler that needs
  several keeps its place in the variable `request` (`worker` in Webhooks); the
  code up to the next statement belongs to the action. Requests that are refused
  before they write are stuttering steps.
- **Faults.** The constant `Faults` names what may go wrong: `"db"` (a statement
  fails), `"crash"` (a process dies between two statements), `"reorder"` and
  `"duplicate"` (of Stripe events), `"s3"` (the object store fails), `"otlp"` (the
  collector fails), `"listen"` (the port is taken). Webhooks counts its failed
  statements and crashes up to `MaxFaults` instead, so that liveness can be asked
  under faults. Where the code ignores an error, the failing statement is a
  disjunct that goes on as the code does.
- **Time** is nondeterministic: a row expires, a retry becomes due.
- **History variables** (marked in each module) record what happened, guard no
  action, and let a property name precisely the window or failure that excuses a
  violation. A property of the form "X, unless c is in `overlapped` or `lost`" is
  strict everywhere else, and shows that these are the *only* ways to break X.
- **Bounds.** Every row or id is used once, so the sets `Token`, `Reset`,
  `Delivery`, `Project`, `Sub`, `Org`, `File` bound the length of a run. The other
  bounds are `MaxLost`, `MaxFaults`, `MaxLog`, `MaxOpen`, `MaxQueue`, `MaxTime` and
  `MaxInFlight`. The proofs hold for every value of them. A jti and the id of a
  delivery are random: which unused one is drawn makes no difference, so
  `FreshToken` and `FreshDelivery` choose one.
- **Schema.** The modules assume the tables that the queries are written for. The
  repository does not create all of them; `Lifecycle` is about that.

Operators marked `mutant:` are wrong variants of the definition below them. They
are used by nothing; substituting one shows that a property can fail.

### Sessions

`users`, `refreshTokens` and `resetTokens` are the tables. A refresh token is its
jti and has a state (none, live, revoked, expired), a user and `rotated_from`.
`request[r].at` is the statement a running handler executes next:

| Handler | Actions in order |
|---|---|
| Signup, Login | `Signup` or `Login`, `SaveRefresh` |
| Refresh | `Refresh` (to the SELECT of IsValid), `RotateRevoke`, `SaveRefresh` |
| Logout, LogoutAll, ForgotPassword | one action each |
| ResetPassword | `ResetPassword` (to the SELECT of ValidateAndConsume), `MarkUsed`, then `HashFails` or `UpdatePassword`, `ResetRevokeAll` |

`ExpireRefresh`, `ExpireReset` and `Crash` complete Next. Access tokens are
stateless JWTs that the code never stores; they are not modelled.

### Webhooks

One organization's endpoints and deliveries. A delivery is due, waiting (its
`next_retry` is in the future) or delivered, and counts `attempts`. Each process
has a dispatcher that selects a batch (`ProcessPending`), posts (`Deliver`) and
marks (`MarkDelivered`, `MarkRetry`). `pq.Array` is modelled by what it does: the
array literal of an event is a text other than the event. The url of an endpoint is
any text (`binding:"required"` asks no more), so `Deliver` is a `Post`, which fails
or is acknowledged, or finds a url that `http.NewRequest` or the client refuses
(`NoRequest`): the dispatcher counts such an attempt like any other, and the history
variable `unsent` remembers the delivery. `acks` counts the answers the dispatcher
got: a 2xx that comes after the client's 10 seconds is a failed post. `Dispatch` has no caller
in the handlers yet; it is modelled as the service exports it. `TestEndpoint`
posts and changes nothing.

### AuditTrail

The projects of one organization with name and description as one content, and
the entries about each. `Create` inserts and then records; `Update` and `Delete`
capture, `Write` (or `Reject`, when Update's payload does not bind), and `Record`.

### AuditPages

Extends AuditTrail by a client of `GET /v1/audit` that asks for one page after the
other. `listing` is the order of the query, `created_at DESC`; Record reads the
clock before its INSERT, so `Insert` may put an entry below entries that came in
since (`later` bounds how far). `PageSize` is the handler's clamp of `page_size`,
`List` the service's, which differs for values above the maximum: the handler cuts
to 100, the service falls back to 20, and only because the handler goes first does
the offset match the size that is used.

### Billing

The row of one organization, the running CreateCheckoutSession calls and the
events under way. Stripe (`Pay`, `Renew`, `Cancel`, `Send`) is external and
modelled from how the code uses it. `Webhook(i)` applies the i-th event under
way: the first when events come in order, any with `"reorder"`; with
`"duplicate"` it stays under way. Stripe's statuses are three: active (with
trialing), past_due (with unpaid and incomplete), canceled.

### Tenancy

`orgs`, `members`, `active` and `keys` are the tables `organizations`,
`memberships`, `user_contexts` and `api_keys`. A request of a tenant route is a
user with X-Org-ID (`WithHeader`), a user without it (`GetActiveOrg`, then
`IsMember`) or a key (`Validate`, then `IsMember`); it then holds the organization
and role that the middleware found, and the handler is the next action:
`AddMember`, `UpdateMember`, `RemoveMember`, `Delete`, `CreateKey`, `RevokeKey` or
`Other`. `Create` and `Set` need a user only. The handlers of members and
organizations work on the organization of the path, a parameter of its own.
`Param` is `c.Param("userID")`: the routes declare `:userId`, so it is empty.
Foreign keys are part of the statements. Audit entries are left out. A request
with a key carries the key's id where a user's would be, and fails at `IsMember`.

`TenancyClaims` adds two history variables to the same steps: the organizations
that were changed for an actor without the role in them, and the valid keys that
Tenant refused for their own organization. What the documentation says of both is
that there are none.

### Storage

`file` holds, per id, the row of `files` and what became of it; `objects` is what
the object store holds. A key is a name under the prefix of an organization, or a
plain name, which `CreateFile` prefixes (`ObjectKey`) though the upload went to the
plain one (`asked`). An empty bucket stays empty in the row and is resolved to the
default by the client of the object store (`Resolve`). `PresignPut` is the URL and
the upload; `CreateFile` and `InsertFile` are the two halves of a registration,
before and after the clock is read, and `older` is the order of `created_at`;
`GetFile`, `DeleteObject` and `DeleteFile` are
the three steps of a deletion; `DeleteOrg` cascades. `StartPaging` and `NextPage`
are a client that follows `next_offset`.

### Lifecycle

Several servers and the migrate job of `docker-compose.yml` on one database.
`at[p]` is where a process is: connect, instance, lock, apply/run/clean (one migration
after the other), register, serving, drain, flush, close, exit. golang-migrate is
external and modelled from its contract. `WithInstance` creates the version table
under the advisory lock, for which it waits without a deadline; `Lock` is the lock of
`m.Up`, which gives up after 15 seconds (`LockTimeout`). Then a version is marked
dirty, run and marked clean; a dirty version, or one whose file is unknown, is an
error. `RouteTables` gives for each group of routes of
`router.Register` the migrations whose tables its handlers use. Of handlers only
their number counts, of their spans whether all were exported; `pass` is a running
ProcessPending. A stop is `Signal` (which stops the ticker), `Drain`, `Flush`,
`CloseDatabase`, `Exit`; a process may also be killed anywhere, and a signal before
`signal.Notify` kills it. `damage` records what a stop cut off and `excuse` what
went wrong in it.

### RateLimiter and TokenBuckets

`TokenBuckets` is what the limiter promises: buckets that fill at every instant
and are never forgotten. `RateLimiter` is the code: a bucket is created on first
use, refilled from `lastSeen` when it is next seen, and evicted by a goroutine.
Allow (`Admit`, `Refuse`), Remaining (in `Answer`) and a sweep (`Cleanup`) each
hold the mutex and are one action. Time is a count of instants and tokens are
counted in units, so that a bucket can hold a part of a token; rounding of float64
is left out. `OpenWindow` starts the observation of a key at any moment.
`ConfigAssumption` is what the configuration must satisfy (the defaults, 20 per
second and 40, do; the code checks none of it): burst at least 1, rate at least 1
per second, and a bucket is full again when it is evicted.

## Runs

| Run | Checks | Bounds |
|---|---|---|
| `Sessions` | `RotationConsumes`, `ForkNeedsOverlap`, `LoggedOutStaysOut`, `ResetReuseNeedsOverlap`, `OldSessionsExcused`, `OldSessionsEnd` | 1 user, 2 tokens, 1 reset token, 2 requests, crashes, one failed statement that matters (`MaxLost`): a fork is a token with a successor and a handler about to save another, and a reset races a login, a refresh or itself |
| `WebhooksDelivery` | `TypeOK`, `PostsBounded`, `DuplicateNeedsOverlap`, `GivenUpWasPosted`, `DeliveredIffAcked`, `EventuallySettled` | 2 deliveries, batches of 1, 2 dispatchers, 2 attempts, 1 fault, urls that cannot be posted to: both dispatchers reach the limit together, and a lost mark is retried |
| `AuditTrail` | `TrailIsChain`, `TrailIsComplete`, `PagesMissNothing`, `TrailCatchesUp` | module AuditPages; 1 project, 2 contents, 2 requests, a change starts while the trail has fewer than 2 entries, all faults (projects are independent of each other); pages of at most 2 and by default 1, sizes 0 and 3 asked for: both clamps act, and entries come in above and below the reader |
| `BillingEvents` | `TypeOK`, `PaidIsRemembered`, `AgreesWithStripe`, `GateFollowsStripe` | 2 subscriptions, 2 checkouts, 3 events under way, all faults |
| `RateLimiter` | `WindowBound`, `RefusedIsRecent`, `RefusedMeansEmpty`, `StaleIsEvicted`, `ImplementsTokenBuckets` | 1 key, 2 requests, burst 2 tokens of 2 units, 8 instants, eviction after 4: a bucket empties, fills, is evicted and empties again (keys are independent of each other) |
| `Tenancy` | `ActiveIsMember`, `OrgHasMember`, `RoleIsCurrent`, `ChangesAreEntitled`, `KeysOnlyDie` | 2 users, 2 organizations, 1 key, 2 requests, crashes: what one organization's members do meets the other's rows |
| `TenancyRemoval` | violates `RemovedIsGone` | no faults |
| `TenancyRoles` | violates `RolesHoldPerOrganization` | module TenancyClaims, the same sets, no faults |
| `TenancyKeys` | violates `KeysGiveAccess` | module TenancyClaims, the same sets, no faults |
| `Storage` | `TypeOK`, `OneRowPerObject`, `DeletedIsGone`, `ListMissesFew`, `LossIsExcused` | 2 files, 1 organization, 1 name (plain and prefixed), the default bucket with and without its name, 2 deletions at once, limits 0 and 1, all faults: two files are what it takes to share an object, to take over a key or to be skipped by a page |
| `Lifecycle` | `TypeOK`, `RecordedIsApplied`, `ServingIsMigrated`, `StopIsOrderly`, `StopEnds` | 2 servers and the job, the code's 7 and 11 migrations with 8 to 10 failing, 1 handler per server (a stop asks whether there is one), all faults |
| `LifecycleSchema` | violates `SchemaUpToDate` | no faults |

The type invariants of Sessions, AuditTrail, RateLimiter and Tenancy are not among
the runs' properties: they are proved for every instance.

The passing runs say that the code is right except in named places. The runs that
violate a property show what a document or a comment says and the code does not:

- `RemoveMember` reads a path parameter under another name than the route declares,
  removes nobody and reports success.
- The handlers of members and of the deletion of an organization act on the
  organization of the path, while the role is the one in the organization of
  X-Org-ID, and nothing compares them: with a role in one organization a request
  changes another (`RolesHoldPerOrganization`; README.md:65 and :177, router.go:110
  say that roles hold per organization). The passing `RoleIsCurrent` is about the
  organization of the request only, and `ChangesAreEntitled` about requests in which
  the two are the same.
- A valid API key is refused by Tenant, which asks for a membership of the key's id
  (`KeysGiveAccess`; README.md:66 and :162 promise access with keys).
- The server embeds migrations 1 to 7, and the job stops at 8, which refers to a
  table `orgs` that no migration creates: a server serves routes for API keys,
  webhooks, billing and password resets without their tables. MIGRATIONS.md
  promises a database that is always up to date.

What the excuses in the properties name can happen, and is worth knowing:

- A Refresh or Login in flight during `ResetPassword` leaves a session of the old
  password alive, without any fault (`cut` in `OldSessionsExcused`).
- A file registered under a plain key is stored under a prefixed one: `DeleteFile`
  then removes an object that is not there and leaves the upload
  (`asked.org = NoOrg` in `DeletedIsGone`).
- The empty and the named default bucket are one bucket with two names: two rows
  can share an object, and deleting one takes it from the other (`Aliases`).
- A `DeleteFile` that read its row before another removed it takes the object from
  a file registered under the same key since (`~Stored(g)` in `LossIsExcused`).
- A client that follows `next_offset` misses a row for each one deleted meanwhile
  (`removed` in `ListMissesFew`).
- The order of shutdown does not wait for a webhook pass: one that runs when the
  signal comes can lose its database (`StopIsOrderly`), and is then retried
  (`DuplicateNeedsOverlap`). The flush shares the deadline of the drain, and may
  find little of it left; the spans of a running pass are not modelled.
- A delivery to a url that cannot be posted to is given up on without a post
  (`unsent` in `GivenUpWasPosted`).
- Events of Stripe that come out of order, or whose statement fails, can leave an
  active row of a subscription that is past due, which then passes the plan gate
  (`disordered` and `dropped` in `GateFollowsStripe`).
- A start can wait forever: Ping, `WithInstance` and the migrations have no deadline.

Other differences, visible in the models without a run of their own: `RequirePlan`
looks at the plan and not at the status, and a canceled row keeps its plan
(`RequirePlanPro`, `CancelSubscription`; plan.go:11 says "active"; `GateFollowsStripe`
leaves canceled subscriptions open for that reason; no route uses the gate); `Dispatch` compares the array literal of the event with the subscribed names
and misses the subscribers (`PqArray`; nothing calls it); `Refresh`
ignores the error of Revoke, so the old token can stay valid (`lost` in
`RotationConsumes`; auth.go:157 says that it is revoked); a failing webhook is
attempted 5 times, which is 4 retries (`Pending`; README.md:68 says 5
retries); the Before of an audit entry can be stale (`overlapped` in
`TrailIsChain`; projects.go:147); `invoice.paid` is decoded as a subscription and
updates no row (`ApplyInvoice`; billing.go:137 says "same as update"); RateLimit runs before
Tenant, so its key is always the client address (ratelimit.go:13 says "additionally
by tenant"); `ActiveIsMember` and `OrgHasMember` rest on `RemoveMember` doing
nothing, and will have to be argued again when it is repaired.

### Fairness

Liveness is checked under weak fairness of what the program schedules by itself:
the next statement of a handler that has started (gin gives each request a
goroutine and every statement runs on `context.Background()`, so no
cancellation stops it); the dispatcher's tick every 30 seconds and the turns of
its loop (the HTTP client times out after 10 seconds); the passing of
`next_retry`; the clock and the ticker of the rate limiter; in Lifecycle the
stop of `main`, whose two waits, for handlers and for the collector, share the
deadline `shutdownTimeout`. That a start goes on is not assumed, since it may wait
without a deadline, nor that a handler or a webhook pass ever ends. A crashed
dispatcher is one whose process is started again. New requests, signals, expiry and
faults are never assumed to happen. `EventuallySettled` and `TrailCatchesUp`
are checked with all faults (the latter excuses the projects they hit),
and so is `OldSessionsEnd` (which excuses a revocation that failed or died with its
process).

Deadlock is checked except in `AuditTrail`, where the handlers stop once the
bounded ids and trails are used up.

## Proofs

`SessionsProofs` proves, for every set of users, tokens, resets and requests and
every set of faults (from `SessionsAssumption`, which only says that the kinds of
values are disjoint):

- `TypeCorrect`: `Spec => []TypeOK`.
- `RotationSafe`: `RotationConsumes`, `ForkNeedsOverlap` and `LoggedOutStaysOut`.
  None is inductive: what a Refresh between its check and its save will do is not
  in them. `RotationInv` adds it. A token that is not excused (`overlapped` or
  `lost`) is *consumed* - no longer live - as soon as it has a successor or a
  request is about to save one; it has in total at most one successor or request
  that works on it; and no row or request names as its predecessor a token that
  was never issued.
- `ResetSafe`: `ResetReuseNeedsOverlap`. `ResetInv` says of a token that is not
  excused that at most one request has it between its check and the password
  change, that past the mark it is used, and that its count of changes plus the
  requests that may still make one is at most one.
- `OldSessionsSafe`: `OldSessionsExcused`. `OldInv` extends it from live tokens to
  the requests about to issue one: an old one is in `cut`, or its user's
  revocation is pending or lost.

`AuditTrailProofs` proves `TypeCorrect` and `TrailSafe` (`TrailIsChain` and
`TrailIsComplete`) for every set of projects, contents, requests and faults.
`TrailInv` adds, for a project that is not excused, that at most one handler works
on it, and what that handler knows: before its write it holds what the row holds,
and after it the last entry holds what it read before. About AuditPages it proves

- `ReadersDoNotWrite`: `PagesSpec => Spec`, so these theorems also hold of a trail
  that is read while it is written, which is what the run checks.
- `ReadersMissNothing`: `PagesMissNothing`, for every page size. `ReadInv` says where
  the entries that the reader has not seen are: behind the offset of the page it
  asks for next. An entry that is added only moves others down (`PutEffect`,
  `ListingStep`), and a page that is not full is the last (`PageEffect`).
  `ListingInv` is needed for the insertion to be into the listing: a handler is
  overtaken by no more entries than there are.

`RateLimiterProofs` proves, for every rate, burst, eviction time and bound of the
clock that satisfy the assumptions:

- `TypeCorrect`: `Spec => []TypeOK`.
- `Refinement`: `Spec => ImplementsTokenBuckets`. A step of the clock fills every
  level (`LevelTick`: the late refill with its cap equals a cap at every instant),
  and an evicted bucket was full (`LevelStale`), so a sweep changes nothing.
- `LimiterSafe`: `WindowBound`, `RefusedIsRecent` and `RefusedMeansEmpty`. None is
  inductive: they do not speak of the level. `LimiterInv` says that admissions and
  level together are within the quota, that a bucket is full or holds at least what
  flowed in since its last admission, and that the bucket of a request just refused
  holds less than a token.

`TenancyProofs` proves, for every set of users, organizations, keys, requests and
role names and with or without crashes:

- `TypeCorrect`: `Spec => []TypeOK`, the foreign keys included.
- `TenancySafe`: `ActiveIsMember`, `OrgHasMember` and `RoleIsCurrent`.
  `ActiveIsMember` is not inductive: `SetIsMember` adds that a Set past its check
  names an organization that exists, and a member of it as long as it lives.
  `Quiet` covers the steps that touch neither organizations nor members;
  `OthersGoOn` says that a change of members excuses whoever works for them.
  The proof uses that `UpdateMember` and `RemoveMember` change no row
  (`ParamEmpty`): with a removal that worked, neither `ActiveIsMember` nor
  `OrgHasMember` would follow from these statements, because DeleteMember leaves
  `user_contexts` alone and does not ask who remains.
- `KeysDie`: the action property `KeysOnlyDie`.
- `ChangesEntitled`: the action property `ChangesAreEntitled`, from `RoleIsCurrent`:
  only `AddMember` and `Delete` change an organization that lives, both behind
  RequireRole, and where the organization of the path is the one of the request the
  role they were let through with is the actor's. Of requests in which the two differ
  it says only that they are in a handler; `RolesHoldPerOrganization` is violated.

`WebhooksProofs` proves, for every set of endpoints and events, finitely many
deliveries and dispatchers, and every number of attempts, batch size and bound of
the faults:

- `TypeCorrect`: `Spec => []TypeOK`.
- `PostsAreBounded` and `GivenUpAfterPosts`: `PostsBounded` and `GivenUpWasPosted`.
  The column `attempts` is behind the posts by the dispatchers between a POST and
  its UPDATE, so neither is inductive. `CountInv` counts them: `attempts` and the
  dispatchers that hold the row are together at most `MaxAttempts` and the other
  dispatchers; the posts are at most `attempts`, the dispatchers that have posted and
  not yet marked, and the faults, and at least the former two unless an attempt was
  `unsent`.
- `DuplicatesExplained` and `DeliveredMeansAcked`: `DuplicateNeedsOverlap` and
  `DeliveredIffAcked`. `AckInv` says who may still acknowledge: a delivery that is
  not excused has one holder, and none once it is delivered.

`BillingProofs` proves, for every set of subscriptions and calls, every bound of the
queue and every set of faults:

- `TypeCorrect`.
- `GateFollows`: `GateFollowsStripe`. `AgreeInv` (below) gives the status of the row;
  `PlanWithStatus` adds the plan that each status comes with, except for canceled.
- `PaidStaysRemembered`: `PaidIsRemembered`. `PaidInv` adds that without a race an
  organization without a row has no session that anyone could pay, and at most one
  call that is about to write the row.
- `RowAgrees`: `AgreesWithStripe`. It speaks of rows all of whose events are applied;
  `AgreeInv` adds what holds of the events under way. The last one of a subscription
  has the status it has at Stripe, unless one overtook another, and is no
  `invoice.paid`, which says nothing about the status. `RemoveAtEffect` says what an
  event taken from the middle of the queue leaves.

`StorageProofs` proves, for finitely many files and every set of organizations,
names, buckets, deletions at once, limits and faults:

- `TypeCorrect`, the foreign key to the organization included.
- `ObjectsAreUnique`: `OneRowPerObject`, and `LossesAreExcused`: the action property
  `LossIsExcused`. `RowsInv` holds the unique index as it is, on the columns, and
  that the file of a running deletion was stored once, so its row never becomes
  another's (`RowStep` and `SettledStays`: what any step may do to a row).
- `DeletedUploadsGone`: `DeletedIsGone`. `EmptiedInv` says it already of a deletion
  that is past the object store and has its row still to delete.
- `ListingMissesFew`: `ListMissesFew`. `OrderInv` says that `created_at` orders the
  ids that are in use, so the rows of an organization have the places 0, 1, 2, ...
  (`PlaceIsUnique`, `PlaceBound`), a page holds at most its limit (`PageIsShort`) and
  an empty one is the end (`EmptyPageIsEnd`). `ReadInv` bounds the rows that are
  unseen and in front of the offset by the rows that were deleted: a deletion
  moves at most one row across the offset (`PassedGrows`), and a new row, wherever
  it comes to stand, moves none (`PassedKept`).

`LifecycleProofs` proves, for every set of servers, number of migrations, set of
broken ones and set of faults:

- `TypeCorrect`: `Spec => []TypeOK`. Who migrates holds the lock, and knows the
  version the database records.
- `MigrationsRecorded` and `ServersMigrated`: `RecordedIsApplied` and
  `ServingIsMigrated`. `MigrationInv` adds what a process in each stage of a migration
  knows: that the database was clean when it took the lock, that it marked the
  version it runs, and that it applied it before it removes the mark.
- `StopLosesLittle`: `StopIsOrderly`. `StopInv` adds what each stage of the stop may
  still lose: no pass begins after the signal, handlers remain after the drain only
  if it timed out, and spans after the flush only if it failed or a handler remained.

Each step lemma has one case per action. The effect of every statement is stated
once, in the lemmas at the head of the modules, and cited. Every invariant and every
action property of the passing runs is a theorem, and the types of all modules are.

Only model-checked is liveness, since the prover does not reason about fairness and
ENABLED: `OldSessionsEnd`, `EventuallySettled`, `TrailCatchesUp`, `StaleIsEvicted`
and `StopEnds`. `RolesHoldPerOrganization`, `KeysGiveAccess`, `RemovedIsGone` and
`SchemaUpToDate` do not hold.

## Not modelled

- Recovery, logging and configuration: input, output and formatting without state.
- The generated API documentation.
- The in-memory user service: a test double of the PostgreSQL one that the server
  does not use.
- The wiring of the router, beyond what Lifecycle and Tenancy take from it.
- Read-only handlers (me, the current context, lists of members, keys, endpoints and
  projects, GetFile, PresignGet): single SELECTs that change nothing.
- Access tokens: stateless, never stored, and valid until they expire whatever the
  tables say.
- The metrics server, whose end nothing waits for.

## Plan

In order of importance; the first eight are done.

1. `Sessions`.
2. `Webhooks`.
3. `AuditTrail` with `AuditPages`.
4. `Billing`.
5. `RateLimiter`, with its abstract specification.
6. `Tenancy`, with the API keys.
7. `Storage`.
8. `Lifecycle`.
9. Composition: audit entries of members and keys with the trail; tenancy in front
   of projects.

The proofs cover the safety of the first eight. Theorems to come: those of the
composition, and action properties of single components (what one step may do to a
row), for which `RowStep` of StorageProofs is the pattern.
