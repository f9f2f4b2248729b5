------------------------------ MODULE Tenancy ------------------------------
(***************************************************************************)
(* Organizations, members, the active organization of a user, API keys,    *)
(* and the middleware in front of every tenant route: AuthWithAPIKeys,     *)
(* Tenant and RequireRole.  The middleware reads the active organization   *)
(* and the membership in statements of their own; the handler runs later   *)
(* statements with the organization and role it was given.                 *)
(*                                                                         *)
(* Abstractions.  All users exist.  JWTs carry the user id and have no     *)
(* state.  A role is a text; only its rank matters.  The audit entry that  *)
(* each handler inserts as its last statement, whose error is ignored, is  *)
(* read by none of these statements and left out, as are the names of      *)
(* organizations and keys.                                                 *)
(***************************************************************************)
EXTENDS Naturals

CONSTANTS User, Org, Key, Request,
          Text,             \* roles that a payload can name
          NoOrg, NoActor,
          Faults            \* subset of {"crash"}

ASSUME TenancyAssumption ==
  /\ NoOrg \notin Org
  /\ User \cap Key = {}
  /\ NoActor \notin User \cup Key
  /\ "none" \notin Text

VARIABLES
  orgs,      \* organizations: none, live or deleted (an id is used once)
  members,   \* the role of each user in each organization, or none
  active,    \* user_contexts: the active organization of each user
  keys,      \* the rows of api_keys
  touching,  \* keys whose last_used_at a goroutine is about to set
  request    \* where each request is, and what the middleware found

(***************************************************************************)
(* History variables.                                                      *)
(***************************************************************************)
VARIABLES
  stale,     \* requests during which members of their organization changed
  removed    \* the last member that a RemoveMember reported as removed

vars == <<orgs, members, active, keys, touching, request, stale, removed>>

-----------------------------------------------------------------------------
Role == Text \cup {"member", "admin", "owner"}

\* roleOrder: an unknown role has order 0.
roleOrder(role) ==
  CASE role = "member" -> 1 [] role = "admin" -> 2 [] role = "owner" -> 3 [] OTHER -> 0

KeyRow == [st : {"none", "live", "expired", "revoked", "deleted"},
           org : Org \cup {NoOrg}, used : BOOLEAN]
NoKeyRow == [st |-> "none", org |-> NoOrg, used |-> FALSE]

\* at: idle; "member", IsMember of Tenant comes next; "handle", the handler;
\* "set", the upsert of the active organization.
Handler == [at    : {"idle", "member", "handle", "set"},
            actor : User \cup Key \cup {NoActor},
            org   : Org \cup {NoOrg},
            role  : Role \cup {"none"}]
Idle == [at |-> "idle", actor |-> NoActor, org |-> NoOrg, role |-> "none"]

Live(o) == orgs[o] = "live"

Init ==
  /\ orgs = [o \in Org |-> "none"]
  /\ members = [o \in Org |-> [u \in User |-> "none"]]
  /\ active = [u \in User |-> NoOrg]
  /\ keys = [k \in Key |-> NoKeyRow]
  /\ touching = {}
  /\ request = [r \in Request |-> Idle]
  /\ stale = {} /\ removed = {}

\* The request ends.  If it changed members of o, the requests that have
\* checked theirs go on with what they found.
Done(r, o) ==
  /\ request' = [request EXCEPT ![r] = Idle]
  /\ stale' = (stale \cup {q \in Request : request[q].org = o /\ members' # members}) \ {r}

-----------------------------------------------------------------------------
(***************************************************************************)
(* Statements.                                                             *)
(***************************************************************************)
InsertOrg(o) == orgs' = [orgs EXCEPT ![o] = "live"]

\* Refused by the foreign key when there is no such organization.
UpsertMember(o, u, role) ==
  members' = IF orgs'[o] = "live" THEN [members EXCEPT ![o][u] = role] ELSE members

\* WHERE org_id = $1 AND user_id = $2
UpdateMemberRole(o, a, role) ==
  members' = IF a \in User /\ members[o][a] # "none"
               THEN [members EXCEPT ![o][a] = role] ELSE members

\* WHERE org_id = $1 AND user_id = $2
DeleteMember(o, a) ==
  members' = IF a \in User THEN [members EXCEPT ![o][a] = "none"] ELSE members

GetMemberRole(o, a) == IF a \in User THEN members[o][a] ELSE "none"

\* With the ON DELETE CASCADE of the tables that refer to the organization.
DeleteOrg(o) ==
  /\ orgs' = [orgs EXCEPT ![o] = IF Live(o) THEN "deleted" ELSE @]
  /\ members' = [members EXCEPT ![o] = [u \in User |-> "none"]]
  /\ active' = [u \in User |-> IF active[u] = o THEN NoOrg ELSE active[u]]
  /\ keys' = [k \in Key |-> IF keys[k].org = o
                              THEN [st |-> "deleted", org |-> NoOrg, used |-> FALSE]
                              ELSE keys[k]]

\* Refused by the foreign key when the organization is gone.
CreateAPIKey(k, o) ==
  keys' = IF Live(o) THEN [keys EXCEPT ![k] = [st |-> "live", org |-> o, used |-> FALSE]]
          ELSE keys

\* mutant: the UPDATE forgets AND org_id = $2
RevokeAnyKey(k, o) ==
  keys' = [keys EXCEPT ![k].st = IF @ \in {"live", "expired"} THEN "revoked" ELSE @]

\* WHERE id = $1 AND org_id = $2 AND revoked_at IS NULL
RevokeAPIKey(k, o) ==
  keys' = [keys EXCEPT ![k].st =
             IF keys[k].org = o /\ @ \in {"live", "expired"} THEN "revoked" ELSE @]

\* WHERE id = $1, revoked or not.
TouchAPIKeyLastUsed(k) ==
  keys' = [keys EXCEPT ![k].used = keys[k].st # "deleted"]

\* WHERE key_hash = $1 AND revoked_at IS NULL
GetAPIKeyByHash(k) == keys[k].st \in {"live", "expired"}

\* And expires_at is not before now.
ValidKey(k) == GetAPIKeyByHash(k) /\ keys[k].st # "expired"

-----------------------------------------------------------------------------
(***************************************************************************)
(* Routes that need a user only.                                           *)
(***************************************************************************)
\* mutant: the organization is committed without its owner
CreateOrgAlone(u, o) == InsertOrg(o) /\ UNCHANGED members

\* One transaction: both rows or none.
CreateOrg(u, o) == InsertOrg(o) /\ UpsertMember(o, u, "owner")

Create(u, o) ==
  /\ orgs[o] = "none"
  /\ CreateOrg(u, o)
  /\ UNCHANGED <<active, keys, touching, request, stale, removed>>

\* mutant: Set does not ask for membership
SetUnchecked(r, u, o) ==
  /\ request[r].at = "idle"
  /\ request' = [request EXCEPT ![r] = [at |-> "set", actor |-> u, org |-> o, role |-> "none"]]
  /\ UNCHANGED <<orgs, members, active, keys, touching, stale, removed>>

\* Set of the context, up to IsMember.
Set(r, u, o) ==
  /\ request[r].at = "idle"
  /\ GetMemberRole(o, u) # "none"
  /\ request' = [request EXCEPT ![r] = [at |-> "set", actor |-> u, org |-> o, role |-> "none"]]
  /\ UNCHANGED <<orgs, members, active, keys, touching, stale, removed>>

\* The upsert; the foreign key refuses an organization deleted meanwhile.
UpsertActiveOrg(r) ==
  /\ request[r].at = "set"
  /\ active' = IF Live(request[r].org)
                 THEN [active EXCEPT ![request[r].actor] = request[r].org] ELSE active
  /\ UNCHANGED <<orgs, members, keys, touching, removed>>
  /\ Done(r, NoOrg)

-----------------------------------------------------------------------------
(***************************************************************************)
(* The middleware of the tenant routes.                                    *)
(***************************************************************************)
\* AuthWithAPIKeys with a key: the actor is the key, and a goroutine is started
\* to set last_used_at.  X-Org-ID names any organization.
Validate(r, k, o) ==
  /\ request[r].at = "idle"
  /\ ValidKey(k)
  /\ touching' = touching \cup {k}
  /\ request' = [request EXCEPT ![r] =
                   [at |-> "member", actor |-> k, org |-> o, role |-> "none"]]
  /\ UNCHANGED <<orgs, members, active, keys, stale, removed>>

\* The goroutine: UPDATE ... WHERE id = $1, also if the key was revoked since.
Touch(k) ==
  /\ k \in touching
  /\ touching' = touching \ {k}
  /\ TouchAPIKeyLastUsed(k)
  /\ UNCHANGED <<orgs, members, active, request, stale, removed>>

\* A user without X-Org-ID: GetActiveOrg.
GetActiveOrg(r, u) ==
  /\ request[r].at = "idle"
  /\ active[u] # NoOrg
  /\ request' = [request EXCEPT ![r] =
                   [at |-> "member", actor |-> u, org |-> active[u], role |-> "none"]]
  /\ UNCHANGED <<orgs, members, active, keys, touching, stale, removed>>

\* mutant: the membership is checked for one organization, and the handler is
\* given the active one
TenantOfOther(r, a, o) ==
  LET role == GetMemberRole(o, a)
  IN  request' = [request EXCEPT ![r] =
                    IF role = "none" THEN Idle
                    ELSE [at |-> "handle", actor |-> a,
                          org |-> IF active[a] = NoOrg THEN o ELSE active[a],
                          role |-> role]]

\* IsMember of Tenant: the request goes on with the role, or is refused.
Tenant(r, a, o) ==
  LET role == GetMemberRole(o, a)
  IN  request' = [request EXCEPT ![r] =
                    IF role = "none" THEN Idle
                    ELSE [at |-> "handle", actor |-> a, org |-> o, role |-> role]]

\* A user with X-Org-ID.
WithHeader(r, u, o) ==
  /\ request[r].at = "idle"
  /\ Tenant(r, u, o)
  /\ UNCHANGED <<orgs, members, active, keys, touching, stale, removed>>

\* A key, or a user without the header.
IsMember(r) ==
  /\ request[r].at = "member"
  /\ Tenant(r, request[r].actor, request[r].org)
  /\ stale' = stale \ {r}
  /\ UNCHANGED <<orgs, members, active, keys, touching, removed>>

\* mutant: the role of the request is not compared
RequireNoRole(r, minRole) == request[r].role # "none"

\* RequireRole; a route without it takes any role.
RequireRole(r, minRole) == roleOrder(request[r].role) >= roleOrder(minRole)

Handling(r, minRole) == request[r].at = "handle" /\ RequireRole(r, minRole)

-----------------------------------------------------------------------------
(***************************************************************************)
(* The handlers of the tenant routes.  The organization of the path (o) is *)
(* a parameter of its own.                                                 *)
(***************************************************************************)
\* c.Param("userID"), for a path that ends in u: the routes declare the
\* parameter as :userId, so no parameter has the name and the id is empty.
Param(u) == NoActor

AddMember(r, o, u, role) ==
  /\ Handling(r, "admin")
  /\ UNCHANGED <<orgs, active, keys, touching>>
  /\ UpsertMember(o, u, role)
  /\ removed' = removed \ {<<o, u>>}
  /\ Done(r, o)

\* 404 when no row is updated.
UpdateMember(r, o, u, role) ==
  /\ Handling(r, "admin")
  /\ UpdateMemberRole(o, Param(u), role)
  /\ UNCHANGED <<orgs, active, keys, touching, removed>>
  /\ Done(r, o)

\* 204 also when no row is deleted.
RemoveMember(r, o, u) ==
  /\ Handling(r, "admin")
  /\ DeleteMember(o, Param(u))
  /\ removed' = {<<o, u>>}
  /\ UNCHANGED <<orgs, active, keys, touching>>
  /\ Done(r, o)

\* 204 also when there is no such organization.
Delete(r, o) ==
  /\ Handling(r, "owner")
  /\ DeleteOrg(o)
  /\ removed' = {p \in removed : p[1] # o}
  /\ UNCHANGED touching
  /\ Done(r, o)

\* The key belongs to the organization of the request.
CreateKey(r, k) ==
  /\ Handling(r, "any")
  /\ keys[k].st = "none"
  /\ CreateAPIKey(k, request[r].org)
  /\ UNCHANGED <<orgs, members, active, touching, removed>>
  /\ Done(r, NoOrg)

RevokeKey(r, k) ==
  /\ Handling(r, "any")
  /\ RevokeAPIKey(k, request[r].org)
  /\ UNCHANGED <<orgs, members, active, touching, removed>>
  /\ Done(r, NoOrg)

\* Any other tenant route: the handler works on rows of the organization.
Other(r) ==
  /\ Handling(r, "any")
  /\ UNCHANGED <<orgs, members, active, keys, touching, removed>>
  /\ Done(r, NoOrg)

\* expires_at passes.
ExpireKey(k) ==
  /\ keys[k].st = "live"
  /\ keys' = [keys EXCEPT ![k].st = "expired"]
  /\ UNCHANGED <<orgs, members, active, touching, request, stale, removed>>

\* The process dies with its requests and goroutines.
Crash ==
  /\ "crash" \in Faults
  /\ touching' = {}
  /\ request' = [r \in Request |-> Idle]
  /\ stale' = {}
  /\ UNCHANGED <<orgs, members, active, keys, removed>>

Next ==
  \/ \E u \in User, o \in Org : Create(u, o)
  \/ \E r \in Request, u \in User, o \in Org : Set(r, u, o) \/ WithHeader(r, u, o)
  \/ \E r \in Request, u \in User : GetActiveOrg(r, u)
  \/ \E r \in Request, k \in Key, o \in Org : Validate(r, k, o)
  \/ \E r \in Request, o \in Org, u \in User, role \in Text :
       AddMember(r, o, u, role) \/ UpdateMember(r, o, u, role)
  \/ \E r \in Request, o \in Org, u \in User : RemoveMember(r, o, u)
  \/ \E r \in Request, o \in Org : Delete(r, o)
  \/ \E r \in Request, k \in Key : CreateKey(r, k) \/ RevokeKey(r, k)
  \/ \E r \in Request : UpsertActiveOrg(r) \/ IsMember(r) \/ Other(r)
  \/ \E k \in Key : Touch(k) \/ ExpireKey(k)
  \/ Crash

Spec == Init /\ [][Next]_vars

-----------------------------------------------------------------------------
\* The variables have their types, and the foreign keys hold: members, active
\* organizations and keys are those of live organizations.
TypeOK ==
  /\ orgs \in [Org -> {"none", "live", "deleted"}]
  /\ members \in [Org -> [User -> Role \cup {"none"}]]
  /\ active \in [User -> Org \cup {NoOrg}]
  /\ keys \in [Key -> KeyRow]
  /\ touching \subseteq Key
  /\ request \in [Request -> Handler]
  /\ stale \subseteq Request
  /\ removed \subseteq Org \X User
  /\ \A o \in Org, u \in User : members[o][u] # "none" => Live(o)
  /\ \A u \in User : active[u] # NoOrg => Live(active[u])
  /\ \A k \in Key : keys[k].org # NoOrg => Live(keys[k].org)
  /\ \A r \in Request :
       /\ request[r].at # "idle" => request[r].org \in Org /\ request[r].actor # NoActor
       /\ request[r].at = "set" => request[r].actor \in User

\* The active organization of a user is one he is a member of, although Set
\* checks the membership in one statement and writes in another, and the
\* organization may be deleted in between.
ActiveIsMember ==
  \A u \in User : active[u] # NoOrg => members[active[u]][u] # "none"

\* A live organization has a member: it is created with its owner, and no
\* sequence of member changes leaves it without anyone.  It rests on RemoveMember
\* deleting no row (see Param): DeleteMember itself does not ask who remains.
OrgHasMember ==
  \A o \in Org : Live(o) => \E u \in User : members[o][u] # "none"

\* A handler runs with the role that its actor has in the organization of the
\* request (the one X-Org-ID names, or the active one), unless the members of
\* that organization changed after the check.  It says nothing of the
\* organization in the path of the request.
RoleIsCurrent ==
  \A r \in Request :
    request[r].at = "handle" =>
      /\ request[r].role # "none"
      /\ r \notin stale => GetMemberRole(request[r].org, request[r].actor) = request[r].role

\* The handler of r ends in this step.
Handled(r) == request[r].at = "handle" /\ request'[r].at = "idle"

\* This step deletes o or changes its members.
Changed(o) == Live(o) /\ (members'[o] # members[o] \/ orgs'[o] # orgs[o])

\* The minimum role of the routes that do so.
MinimumRole(o) == IF orgs'[o] = "deleted" THEN "owner" ELSE "admin"

\* The actor of r lacks it in o, and not only because his role changed after
\* Tenant had looked it up.
Lacks(r, o) ==
  /\ r \notin stale
  /\ roleOrder(GetMemberRole(o, request[r].actor)) < roleOrder(MinimumRole(o))

\* The members of an organization are changed, and it is deleted, by the handler
\* of an actor with the role in it that the route asks for, if the organization
\* of the request is the one of the path: the handlers act on the latter, the
\* role is checked in the former, and nothing compares them.
ChangesAreEntitled ==
  [][\A o \in Org : Changed(o) =>
       \E r \in Request : Handled(r) /\ (request[r].org = o => ~ Lacks(r, o))]_vars

\* A key is revoked by a request of its own organization only, and a key that
\* is revoked, expired or deleted is never valid again.
KeysOnlyDie ==
  [][\A k \in Key :
       /\ ~ ValidKey(k) /\ ValidKey(k)' => keys[k].st = "none"
       /\ keys[k].st # "revoked" /\ keys'[k].st = "revoked" =>
            \E r \in Request : Handling(r, "any") /\ request[r].org = keys[k].org]_vars

-----------------------------------------------------------------------------
\* What handlers/orgs.go:171 says ("RemoveMember removes a user from an
\* organization"): a user reported as removed is no member until added again.
RemovedIsGone == \A p \in removed : members[p[1]][p[2]] = "none"
=============================================================================
