--------------------------- MODULE TenancyProofs ---------------------------
(***************************************************************************)
(* Theorems about Tenancy, for any users, organizations, keys, requests,   *)
(* roles and faults.                                                       *)
(***************************************************************************)
EXTENDS Tenancy, TLAPS

\* The tables, the requests and the history keep their types.
Shapes ==
  /\ orgs \in [Org -> {"none", "live", "deleted"}]
  /\ members \in [Org -> [User -> Role \cup {"none"}]]
  /\ active \in [User -> Org \cup {NoOrg}]
  /\ keys \in [Key -> KeyRow]
  /\ touching \subseteq Key
  /\ request \in [Request -> Handler]
  /\ stale \subseteq Request
  /\ removed \subseteq Org \X User

\* The foreign keys.
References ==
  /\ \A o \in Org, u \in User : members[o][u] # "none" => Live(o)
  /\ \A u \in User : active[u] # NoOrg => Live(active[u])
  /\ \A k \in Key : keys[k].org # NoOrg => Live(keys[k].org)

\* What a request holds.
Holds ==
  \A r \in Request :
    /\ request[r].at # "idle" => request[r].org \in Org /\ request[r].actor # NoActor
    /\ request[r].at = "set" => request[r].actor \in User

LEMMA TypeParts == TypeOK <=> Shapes /\ References /\ Holds
  BY DEF TypeOK, Shapes, References, Holds

\* The id that the member handlers read is no user's.
LEMMA ParamEmpty == \A u \in User : Param(u) \notin User
  BY TenancyAssumption DEF Param

\* UpdateMember and RemoveMember therefore change no membership.
LEMMA UpdateNothing ==
  ASSUME NEW o \in Org, NEW u \in User, NEW role, UpdateMemberRole(o, Param(u), role)
  PROVE  members' = members
  BY ParamEmpty DEF UpdateMemberRole

LEMMA RemoveNothing ==
  ASSUME NEW o \in Org, NEW u \in User, DeleteMember(o, Param(u))
  PROVE  members' = members
  BY ParamEmpty DEF DeleteMember

\* What an upsert leaves in the table.
LEMMA UpsertEffect ==
  ASSUME Shapes, NEW o \in Org, NEW u \in User, NEW role \in Role, UpsertMember(o, u, role)
  PROVE  /\ members' \in [Org -> [User -> Role \cup {"none"}]]
         /\ orgs'[o] = "live" => members'[o][u] = role
         /\ orgs'[o] # "live" => members' = members
         /\ \A p \in Org, v \in User : p # o \/ v # u => members'[p][v] = members[p][v]
  BY DEF UpsertMember, Shapes

LEMMA TextIsRole == Text \subseteq Role /\ "none" \notin Text /\ "owner" \in Role
  BY TenancyAssumption DEF Role

\* What deleting an organization leaves in the tables.
LEMMA DeleteEffect ==
  ASSUME Shapes, NEW o \in Org, DeleteOrg(o)
  PROVE  /\ orgs' \in [Org -> {"none", "live", "deleted"}]
         /\ orgs'[o] # "live" /\ (orgs[o] # "none" => orgs'[o] # "none")
         /\ \A p \in Org : p # o => orgs'[p] = orgs[p]
         /\ members' \in [Org -> [User -> Role \cup {"none"}]]
         /\ \A u \in User : members'[o][u] = "none"
         /\ \A p \in Org, u \in User : p # o => members'[p][u] = members[p][u]
         /\ active' \in [User -> Org \cup {NoOrg}]
         /\ \A u \in User : active'[u] = IF active[u] = o THEN NoOrg ELSE active[u]
         /\ keys' \in [Key -> KeyRow]
         /\ \A k \in Key : keys'[k].org = IF keys[k].org = o THEN NoOrg ELSE keys[k].org
<1>1. /\ orgs' \in [Org -> {"none", "live", "deleted"}]
      /\ orgs'[o] # "live" /\ (orgs[o] # "none" => orgs'[o] # "none")
      /\ \A p \in Org : p # o => orgs'[p] = orgs[p]
  BY DEF DeleteOrg, Shapes, Live
<1>2. /\ members' \in [Org -> [User -> Role \cup {"none"}]]
      /\ \A u \in User : members'[o][u] = "none"
      /\ \A p \in Org, u \in User : p # o => members'[p][u] = members[p][u]
  BY DEF DeleteOrg, Shapes
<1>3. /\ active' \in [User -> Org \cup {NoOrg}]
      /\ \A u \in User : active'[u] = IF active[u] = o THEN NoOrg ELSE active[u]
  BY DEF DeleteOrg, Shapes
<1>4. /\ keys' \in [Key -> KeyRow]
      /\ \A k \in Key : keys'[k].org = IF keys[k].org = o THEN NoOrg ELSE keys[k].org
  BY DEF DeleteOrg, Shapes, KeyRow
<1> QED
  BY <1>1, <1>2, <1>3, <1>4

\* A request that ends is idle, and the others are as they were.
LEMMA DoneEffect ==
  ASSUME Shapes, Holds, NEW r \in Request, NEW o, Done(r, o)
  PROVE  /\ request' \in [Request -> Handler]
         /\ stale' \subseteq Request
         /\ request'[r] = Idle
         /\ \A q \in Request : q # r => request'[q] = request[q]
         /\ Holds'
<1>1. Idle \in Handler
  BY DEF Idle, Handler
<1>2. /\ request'[r] = Idle
      /\ \A q \in Request : q # r => request'[q] = request[q]
      /\ request' \in [Request -> Handler]
      /\ stale' \subseteq Request
  BY <1>1 DEF Done, Shapes
<1> QED
  BY <1>2 DEF Holds, Idle

\* What the check of Tenant leaves in the request.
LEMMA TenantEffect ==
  ASSUME Shapes, Holds, NEW r \in Request, NEW a \in User \cup Key, NEW o \in Org, Tenant(r, a, o)
  PROVE  /\ request' \in [Request -> Handler]
         /\ \A q \in Request : q # r => request'[q] = request[q]
         /\ \/ request'[r] = Idle
            \/ /\ request'[r] = [at |-> "handle", actor |-> a, org |-> o,
                                 role |-> GetMemberRole(o, a)]
               /\ GetMemberRole(o, a) # "none"
         /\ Holds'
<1>1. Idle \in Handler
  BY DEF Idle, Handler
<1>2. GetMemberRole(o, a) \in Role \cup {"none"}
  BY DEF GetMemberRole, Shapes
<1>3. [at |-> "handle", actor |-> a, org |-> o, role |-> GetMemberRole(o, a)] \in Handler
  BY <1>2 DEF Handler
<1>4. /\ request' \in [Request -> Handler]
      /\ \A q \in Request : q # r => request'[q] = request[q]
      /\ \/ request'[r] = Idle
         \/ /\ request'[r] = [at |-> "handle", actor |-> a, org |-> o,
                              role |-> GetMemberRole(o, a)]
            /\ GetMemberRole(o, a) # "none"
  BY <1>1, <1>3 DEF Tenant, Shapes
<1>5. a # NoActor
  BY TenancyAssumption
<1> QED
  BY <1>4, <1>5 DEF Holds, Idle
-----------------------------------------------------------------------------
LEMMA TypeInit == Init => TypeOK
<1> SUFFICES ASSUME Init PROVE TypeOK
  OBVIOUS
<1>1. NoKeyRow \in KeyRow /\ Idle \in Handler
  BY DEF NoKeyRow, KeyRow, Idle, Handler
<1>2. Shapes
  BY <1>1 DEF Init, Shapes
<1>3. References /\ Holds
  BY DEF Init, References, Holds, Idle, NoKeyRow
<1> QED
  BY <1>2, <1>3, TypeParts

\* Every step keeps the types.
LEMMA TypeStep == TypeOK /\ [Next]_vars => TypeOK'
<1> SUFFICES ASSUME TypeOK, [Next]_vars PROVE TypeOK'
  OBVIOUS
<1>0. Shapes /\ References /\ Holds
  BY TypeParts
<1> SUFFICES Shapes' /\ References' /\ Holds'
  BY TypeParts, PTL
<1>1. ASSUME NEW u \in User, NEW o \in Org, Create(u, o) PROVE Shapes' /\ References' /\ Holds'
  <2>1. UpsertMember(o, u, "owner") /\ orgs' = [orgs EXCEPT ![o] = "live"]
    BY <1>1 DEF Create, CreateOrg, InsertOrg
  <2>2. /\ members' \in [Org -> [User -> Role \cup {"none"}]]
        /\ \A p \in Org, v \in User : p # o \/ v # u => members'[p][v] = members[p][v]
    BY <1>0, <2>1, UpsertEffect, TextIsRole
  <2>3. Shapes'
    BY <1>0, <1>1, <2>1, <2>2 DEF Create, Shapes
  <2>4. orgs'[o] = "live" /\ \A p \in Org : p # o => orgs'[p] = orgs[p]
    BY <1>0, <2>1 DEF Shapes
  <2>5. \A p \in Org : Live(p) => orgs'[p] = "live"
    BY <2>4 DEF Live
  <2>6. \A p \in Org, v \in User : members'[p][v] # "none" => orgs'[p] = "live"
    BY <1>0, <2>2, <2>4, <2>5 DEF References
  <2>7. \A v \in User : active[v] # NoOrg => orgs'[active[v]] = "live"
    BY <1>0, <2>5 DEF References, Shapes
  <2>8. \A k \in Key : keys[k].org # NoOrg => orgs'[keys[k].org] = "live"
    BY <1>0, <2>5 DEF References, Shapes, KeyRow
  <2>9. References'
    BY <1>1, <2>6, <2>7, <2>8 DEF Create, References, Live
  <2> QED
    BY <1>0, <1>1, <2>3, <2>9 DEF Create, Holds
<1>2. ASSUME NEW r \in Request, NEW u \in User, NEW o \in Org, Set(r, u, o)
      PROVE  Shapes' /\ References' /\ Holds'
  <2>1. [at |-> "set", actor |-> u, org |-> o, role |-> "none"] \in Handler
    BY DEF Handler
  <2>2. Shapes' /\ References'
    BY <1>0, <1>2, <2>1 DEF Set, Shapes, References, Live
  <2>3. Holds'
    BY <1>0, <1>2, TenancyAssumption DEF Set, Shapes, Holds
  <2> QED
    BY <2>2, <2>3
<1>3. ASSUME NEW r \in Request, NEW u \in User, NEW o \in Org, WithHeader(r, u, o)
      PROVE  Shapes' /\ References' /\ Holds'
  <2>1. request' \in [Request -> Handler] /\ Holds'
    BY <1>0, <1>3, TenantEffect DEF WithHeader
  <2> QED
    BY <1>0, <1>3, <2>1 DEF WithHeader, Shapes, References, Live
<1>4. ASSUME NEW r \in Request, NEW u \in User, GetActiveOrg(r, u)
      PROVE  Shapes' /\ References' /\ Holds'
  <2>1. active[u] \in Org
    BY <1>0, <1>4 DEF GetActiveOrg, Shapes
  <2>2. [at |-> "member", actor |-> u, org |-> active[u], role |-> "none"] \in Handler
    BY <2>1 DEF Handler
  <2>3. Shapes' /\ References'
    BY <1>0, <1>4, <2>2 DEF GetActiveOrg, Shapes, References, Live
  <2>4. Holds'
    BY <1>0, <1>4, <2>1, TenancyAssumption DEF GetActiveOrg, Shapes, Holds
  <2> QED
    BY <2>3, <2>4
<1>5. ASSUME NEW r \in Request, NEW k \in Key, NEW o \in Org, Validate(r, k, o)
      PROVE  Shapes' /\ References' /\ Holds'
  <2>1. [at |-> "member", actor |-> k, org |-> o, role |-> "none"] \in Handler
    BY DEF Handler
  <2>2. Shapes' /\ References'
    BY <1>0, <1>5, <2>1 DEF Validate, Shapes, References, Live
  <2>3. Holds'
    BY <1>0, <1>5, TenancyAssumption DEF Validate, Shapes, Holds
  <2> QED
    BY <2>2, <2>3
<1>6. ASSUME NEW r \in Request, NEW o \in Org, NEW u \in User, NEW role \in Text,
             AddMember(r, o, u, role)
      PROVE  Shapes' /\ References' /\ Holds'
  <2>1. /\ members' \in [Org -> [User -> Role \cup {"none"}]]
        /\ orgs'[o] # "live" => members' = members
        /\ \A p \in Org, v \in User : p # o \/ v # u => members'[p][v] = members[p][v]
    BY <1>0, <1>6, UpsertEffect, TextIsRole DEF AddMember
  <2>2. request' \in [Request -> Handler] /\ stale' \subseteq Request /\ Holds'
    BY <1>0, <1>6, DoneEffect DEF AddMember
  <2>3. Shapes'
    BY <1>0, <1>6, <2>1, <2>2 DEF AddMember, Shapes
  <2>4. References'
    BY <1>0, <1>6, <2>1 DEF AddMember, References, Live
  <2> QED
    BY <2>2, <2>3, <2>4
<1>7. ASSUME NEW r \in Request, NEW o \in Org, NEW u \in User, NEW role \in Text,
             UpdateMember(r, o, u, role)
      PROVE  Shapes' /\ References' /\ Holds'
  <2>1. members' = members
    BY <1>7, UpdateNothing DEF UpdateMember
  <2>2. request' \in [Request -> Handler] /\ stale' \subseteq Request /\ Holds'
    BY <1>0, <1>7, DoneEffect DEF UpdateMember
  <2> QED
    BY <1>0, <1>7, <2>1, <2>2 DEF UpdateMember, Shapes, References, Live
<1>8. ASSUME NEW r \in Request, NEW o \in Org, NEW u \in User, RemoveMember(r, o, u)
      PROVE  Shapes' /\ References' /\ Holds'
  <2>1. members' = members
    BY <1>8, RemoveNothing DEF RemoveMember
  <2>2. request' \in [Request -> Handler] /\ stale' \subseteq Request /\ Holds'
    BY <1>0, <1>8, DoneEffect DEF RemoveMember
  <2>3. removed' \subseteq Org \X User
    BY <1>8 DEF RemoveMember
  <2> QED
    BY <1>0, <1>8, <2>1, <2>2, <2>3 DEF RemoveMember, Shapes, References, Live
<1>9. ASSUME NEW r \in Request, NEW o \in Org, Delete(r, o)
      PROVE  Shapes' /\ References' /\ Holds'
  <2>1. DeleteOrg(o)
    BY <1>9 DEF Delete
  <2>2. request' \in [Request -> Handler] /\ stale' \subseteq Request /\ Holds'
    BY <1>0, <1>9, DoneEffect DEF Delete
  <2>3. Shapes'
    BY <1>0, <1>9, <2>1, <2>2, DeleteEffect DEF Delete, Shapes
  <2>4. \A p \in Org : Live(p) /\ p # o => orgs'[p] = "live"
    BY <1>0, <2>1, DeleteEffect DEF Live
  <2>5. \A p \in Org, u \in User : members'[p][u] # "none" => orgs'[p] = "live"
    BY <1>0, <2>1, <2>4, DeleteEffect DEF References
  <2>6. \A u \in User : active'[u] # NoOrg => orgs'[active'[u]] = "live"
    <3>1. \A u \in User : active'[u] = IF active[u] = o THEN NoOrg ELSE active[u]
      BY <1>0, <2>1, DeleteEffect
    <3> QED
      BY <1>0, <2>4, <3>1 DEF References, Shapes
  <2>7. \A k \in Key : keys'[k].org # NoOrg => orgs'[keys'[k].org] = "live"
    <3>1. \A k \in Key : keys'[k].org = IF keys[k].org = o THEN NoOrg ELSE keys[k].org
      BY <1>0, <2>1, DeleteEffect
    <3> QED
      BY <1>0, <2>4, <3>1 DEF References, Shapes, KeyRow
  <2>8. References'
    BY <2>5, <2>6, <2>7 DEF References, Live
  <2> QED
    BY <2>2, <2>3, <2>8
<1>10. ASSUME NEW r \in Request, NEW k \in Key, CreateKey(r, k)
       PROVE  Shapes' /\ References' /\ Holds'
  <2>1. request[r].org \in Org
    BY <1>0, <1>10 DEF CreateKey, Handling, Holds
  <2>2. request' \in [Request -> Handler] /\ stale' \subseteq Request /\ Holds'
    BY <1>0, <1>10, DoneEffect DEF CreateKey
  <2>3. keys' \in [Key -> KeyRow]
    BY <1>0, <1>10, <2>1 DEF CreateKey, CreateAPIKey, Shapes, KeyRow
  <2>4. \A j \in Key : keys'[j].org # NoOrg => Live(keys'[j].org)
    BY <1>0, <1>10, <2>1 DEF CreateKey, CreateAPIKey, Shapes, KeyRow, References
  <2>5. Shapes'
    BY <1>0, <1>10, <2>2, <2>3 DEF CreateKey, Shapes
  <2>6. References'
    BY <1>0, <1>10, <2>4 DEF CreateKey, References, Live
  <2> QED
    BY <2>2, <2>5, <2>6
<1>11. ASSUME NEW r \in Request, NEW k \in Key, RevokeKey(r, k)
       PROVE  Shapes' /\ References' /\ Holds'
  <2>1. request' \in [Request -> Handler] /\ stale' \subseteq Request /\ Holds'
    BY <1>0, <1>11, DoneEffect DEF RevokeKey
  <2>2. keys' \in [Key -> KeyRow] /\ \A j \in Key : keys'[j].org = keys[j].org
    BY <1>0, <1>11 DEF RevokeKey, RevokeAPIKey, Shapes, KeyRow
  <2>3. Shapes'
    BY <1>0, <1>11, <2>1, <2>2 DEF RevokeKey, Shapes
  <2>4. References'
    BY <1>0, <1>11, <2>2 DEF RevokeKey, References, Live
  <2> QED
    BY <2>1, <2>3, <2>4
<1>12. ASSUME NEW r \in Request, UpsertActiveOrg(r) PROVE Shapes' /\ References' /\ Holds'
  <2>1. request[r].org \in Org /\ request[r].actor \in User
    BY <1>0, <1>12 DEF UpsertActiveOrg, Holds
  <2>2. request' \in [Request -> Handler] /\ stale' \subseteq Request /\ Holds'
    BY <1>0, <1>12, DoneEffect DEF UpsertActiveOrg
  <2>3. /\ active' \in [User -> Org \cup {NoOrg}]
        /\ \A u \in User : active'[u] # NoOrg => Live(active'[u])
    BY <1>0, <1>12, <2>1 DEF UpsertActiveOrg, Shapes, References
  <2>4. Shapes'
    BY <1>0, <1>12, <2>2, <2>3 DEF UpsertActiveOrg, Shapes
  <2>5. References'
    BY <1>0, <1>12, <2>3 DEF UpsertActiveOrg, References, Live
  <2> QED
    BY <2>2, <2>4, <2>5
<1>13. ASSUME NEW r \in Request, IsMember(r) PROVE Shapes' /\ References' /\ Holds'
  <2>1. request[r].org \in Org /\ request[r].actor \in User \cup Key
    BY <1>0, <1>13 DEF IsMember, Holds, Shapes, Handler
  <2>2. request' \in [Request -> Handler] /\ Holds'
    BY <1>0, <1>13, <2>1, TenantEffect DEF IsMember
  <2> QED
    BY <1>0, <1>13, <2>2 DEF IsMember, Shapes, References, Live
<1>14. ASSUME NEW r \in Request, Other(r) PROVE Shapes' /\ References' /\ Holds'
  <2>1. request' \in [Request -> Handler] /\ stale' \subseteq Request /\ Holds'
    BY <1>0, <1>14, DoneEffect DEF Other
  <2> QED
    BY <1>0, <1>14, <2>1 DEF Other, Shapes, References, Live
<1>15. ASSUME NEW k \in Key, Touch(k) \/ ExpireKey(k) PROVE Shapes' /\ References' /\ Holds'
  <2>1. keys' \in [Key -> KeyRow] /\ \A j \in Key : keys'[j].org = keys[j].org
    <3>1. CASE ExpireKey(k)
      BY <1>0, <3>1 DEF ExpireKey, Shapes, KeyRow
    <3>2. CASE Touch(k)
      <4> DEFINE used == keys[k].st # "deleted"
      <4>1. used \in BOOLEAN
        OBVIOUS
      <4>2. keys' = [keys EXCEPT ![k].used = used]
        BY <3>2 DEF Touch, TouchAPIKeyLastUsed
      <4> HIDE DEF used
      <4> QED
        BY <1>0, <4>1, <4>2 DEF Shapes, KeyRow
    <3> QED
      BY <1>15, <3>1, <3>2
  <2>2. Shapes' /\ Holds'
    BY <1>0, <1>15, <2>1 DEF Touch, ExpireKey, Shapes, Holds
  <2>3. References'
    BY <1>0, <1>15, <2>1 DEF Touch, ExpireKey, References, Live
  <2> QED
    BY <2>2, <2>3
<1>16. CASE Crash
  <2>1. Idle \in Handler
    BY DEF Idle, Handler
  <2> QED
    BY <1>0, <1>16, <2>1 DEF Crash, Shapes, References, Holds, Live, Idle
<1>17. CASE UNCHANGED vars
  BY <1>0, <1>17 DEF vars, Shapes, References, Holds, Live
<1> QED
  BY <1>1, <1>2, <1>3, <1>4, <1>5, <1>6, <1>7, <1>8, <1>9, <1>10, <1>11, <1>12,
     <1>13, <1>14, <1>15, <1>16, <1>17 DEF Next

\* The tables and requests keep their types, and what refers to an organization
\* is gone with it.
THEOREM TypeCorrect == Spec => []TypeOK
  BY TypeInit, TypeStep, PTL DEF Spec

-----------------------------------------------------------------------------
(***************************************************************************)
(* The safety of the tenants.  ActiveIsMember is not inductive: between    *)
(* the check of Set and its upsert the request has to know a member, of an *)
(* organization that exists, and that still holds if it is not deleted.    *)
(***************************************************************************)
SetIsMember ==
  \A r \in Request :
    request[r].at = "set" =>
      /\ orgs[request[r].org] # "none"
      /\ Live(request[r].org) => members[request[r].org][request[r].actor] # "none"

Safe == SetIsMember /\ ActiveIsMember /\ OrgHasMember /\ RoleIsCurrent

\* No member is lost, whatever happens to the roles.
Kept == \A o \in Org, u \in User : members[o][u] # "none" => members'[o][u] # "none"

\* The requests that have checked a membership are where they were, or ended.
Waiting ==
  \A q \in Request :
    request'[q].at \in {"set", "handle"} =>
      request'[q] = request[q] /\ (q \in stale => q \in stale')

\* SetIsMember survives a step that loses no member and starts no Set.
LEMMA SetFrame ==
  ASSUME TypeOK, SetIsMember, orgs' = orgs, Kept,
         \A q \in Request : request'[q].at = "set" => request'[q] = request[q]
  PROVE  SetIsMember'
<1> SUFFICES ASSUME NEW r \in Request, request'[r].at = "set"
             PROVE  /\ orgs[request[r].org] # "none"
                    /\ Live(request[r].org) => members'[request[r].org][request[r].actor] # "none"
  BY DEF SetIsMember, Live
<1>1. request[r].at = "set" /\ request[r].org \in Org /\ request[r].actor \in User
  BY DEF TypeOK
<1> QED
  BY <1>1 DEF SetIsMember, Kept

\* OrgHasMember survives a step that loses no member and creates nothing.
LEMMA MemberFrame ==
  ASSUME OrgHasMember, orgs' = orgs, Kept
  PROVE  OrgHasMember'
  BY DEF OrgHasMember, Live, Kept

\* ActiveIsMember survives a step that loses no member.
LEMMA ActiveFrame ==
  ASSUME TypeOK, ActiveIsMember, active' = active, Kept
  PROVE  ActiveIsMember'
  BY DEF ActiveIsMember, Kept, TypeOK

\* Whoever has checked a role keeps it while the members are the same.
LEMMA RoleFrame ==
  ASSUME RoleIsCurrent, members' = members, Waiting
  PROVE  RoleIsCurrent'
  BY DEF RoleIsCurrent, Waiting, GetMemberRole

\* A step that changes neither organizations nor members nor checks anything.
LEMMA Quiet ==
  ASSUME TypeOK, Safe, UNCHANGED <<orgs, members, active>>, Waiting
  PROVE  Safe'
<1>1. Kept
  BY DEF Kept
<1>2. SetIsMember'
  BY <1>1, SetFrame DEF Safe, Waiting
<1>3. OrgHasMember' /\ ActiveIsMember'
  BY <1>1, MemberFrame, ActiveFrame DEF Safe
<1>4. RoleIsCurrent'
  BY RoleFrame DEF Safe
<1> QED
  BY <1>2, <1>3, <1>4 DEF Safe

\* Ending a request leaves the others waiting.
LEMMA DoneWaits ==
  ASSUME TypeOK, NEW r \in Request, NEW o, Done(r, o)
  PROVE  Waiting
<1>1. request'[r].at = "idle" /\ \A q \in Request : q # r => request'[q] = request[q]
  BY DEF Done, TypeOK, Idle
<1>2. \A q \in Request : q # r /\ q \in stale => q \in stale'
  BY DEF Done
<1> QED
  BY <1>1, <1>2 DEF Waiting

\* A change of the members of o excuses whoever handles a request for o.
LEMMA OthersGoOn ==
  ASSUME Shapes, Holds, RoleIsCurrent, Waiting, NEW r \in Request, NEW o \in Org, Done(r, o),
         \A p \in Org : p # o => \A v \in User : members'[p][v] = members[p][v]
  PROVE  RoleIsCurrent'
<1> SUFFICES ASSUME NEW q \in Request, request'[q].at = "handle"
             PROVE  /\ request'[q].role # "none"
                    /\ q \notin stale' =>
                         GetMemberRole(request[q].org, request[q].actor)' = request'[q].role
  BY DEF RoleIsCurrent, GetMemberRole
<1>1. request'[q] = request[q] /\ q # r
  BY DEF Waiting, Done, Shapes, Idle
<1>2. /\ request[q].role # "none" /\ request[q].org \in Org
      /\ q \notin stale => GetMemberRole(request[q].org, request[q].actor) = request[q].role
  BY <1>1 DEF RoleIsCurrent, Holds
<1>3. q \notin stale' => q \notin stale /\ (request[q].org # o \/ members' = members)
  BY <1>1 DEF Done
<1> QED
  BY <1>1, <1>2, <1>3 DEF GetMemberRole

LEMMA SafeInit == Init => Safe
  BY DEF Init, Safe, SetIsMember, ActiveIsMember, OrgHasMember, RoleIsCurrent, Live, Idle

\* Every step keeps the tenants safe.
LEMMA SafeStep == TypeOK /\ Safe /\ [Next]_vars => Safe'
<1> SUFFICES ASSUME TypeOK, Safe, [Next]_vars PROVE Safe'
  OBVIOUS
<1>0. Shapes /\ References /\ Holds
  BY TypeParts
<1>1. ASSUME NEW u \in User, NEW o \in Org, Create(u, o) PROVE Safe'
  <2>1. /\ UpsertMember(o, u, "owner") /\ orgs[o] = "none"
        /\ orgs'[o] = "live" /\ \A p \in Org : p # o => orgs'[p] = orgs[p]
        /\ UNCHANGED <<active, request, stale>>
    BY <1>0, <1>1 DEF Create, CreateOrg, InsertOrg, Shapes
  <2>2. /\ members'[o][u] = "owner"
        /\ \A p \in Org, v \in User : p # o \/ v # u => members'[p][v] = members[p][v]
    BY <1>0, <2>1, UpsertEffect, TextIsRole
  <2>3. Kept
    BY <2>2 DEF Kept
  <2>4. SetIsMember'
    <3> SUFFICES ASSUME NEW r \in Request, request[r].at = "set"
                 PROVE  /\ orgs'[request[r].org] # "none"
                        /\ orgs'[request[r].org] = "live" =>
                             members'[request[r].org][request[r].actor] # "none"
      BY <2>1 DEF SetIsMember, Live
    <3>1. /\ request[r].org \in Org /\ request[r].actor \in User
          /\ orgs[request[r].org] # "none"
          /\ Live(request[r].org) => members[request[r].org][request[r].actor] # "none"
      BY <1>0 DEF Holds, Safe, SetIsMember
    <3> QED
      BY <2>1, <2>3, <3>1 DEF Kept, Live
  <2>5. ActiveIsMember'
    BY <2>1, <2>3, ActiveFrame DEF Safe
  <2>6. OrgHasMember'
    <3> SUFFICES ASSUME NEW p \in Org, orgs'[p] = "live"
                 PROVE  \E v \in User : members'[p][v] # "none"
      BY DEF OrgHasMember, Live
    <3>1. CASE p = o
      BY <2>2, <3>1
    <3>2. CASE p # o
      BY <2>1, <2>3, <3>2 DEF Safe, OrgHasMember, Live, Kept
    <3> QED
      BY <3>1, <3>2
  <2>7. RoleIsCurrent'
    <3> SUFFICES ASSUME NEW r \in Request, request[r].at = "handle"
                 PROVE  /\ request[r].role # "none"
                        /\ r \notin stale =>
                             GetMemberRole(request[r].org, request[r].actor)' = request[r].role
      BY <2>1 DEF RoleIsCurrent, GetMemberRole
    <3>1. /\ request[r].role # "none" /\ request[r].org \in Org
          /\ r \notin stale => GetMemberRole(request[r].org, request[r].actor) = request[r].role
      BY <1>0 DEF Safe, RoleIsCurrent, Holds
    <3>2. r \notin stale => request[r].actor \in User /\ request[r].org # o
      BY <1>0, <2>1, <3>1 DEF GetMemberRole, References, Live
    <3> QED
      BY <2>1, <2>2, <3>1, <3>2 DEF GetMemberRole
  <2> QED
    BY <2>4, <2>5, <2>6, <2>7 DEF Safe
<1>2. ASSUME NEW r \in Request, NEW u \in User, NEW o \in Org, Set(r, u, o) PROVE Safe'
  <2>1. /\ UNCHANGED <<orgs, members, active, stale>>
        /\ members[o][u] # "none" /\ orgs[o] = "live"
        /\ request'[r].at = "set" /\ request'[r].org = o /\ request'[r].actor = u
        /\ \A q \in Request : q # r => request'[q] = request[q]
    BY <1>0, <1>2 DEF Set, GetMemberRole, References, Live, Shapes
  <2>2. Kept
    BY <2>1 DEF Kept
  <2>3. SetIsMember'
    BY <2>1 DEF Safe, SetIsMember, Live
  <2>4. RoleIsCurrent'
    BY <2>1 DEF Safe, RoleIsCurrent, GetMemberRole
  <2> QED
    BY <2>1, <2>2, <2>3, <2>4, ActiveFrame, MemberFrame DEF Safe
<1>3. ASSUME NEW r \in Request, NEW a \in User \cup Key, NEW o \in Org, Tenant(r, a, o),
             UNCHANGED <<orgs, members, active>>, \A q \in stale : q = r \/ q \in stale'
      PROVE  Safe'
  <2>1. /\ \A q \in Request : q # r => request'[q] = request[q]
        /\ \/ request'[r] = Idle
           \/ /\ request'[r] = [at |-> "handle", actor |-> a, org |-> o,
                                role |-> GetMemberRole(o, a)]
              /\ GetMemberRole(o, a) # "none"
    BY <1>0, <1>3, TenantEffect
  <2>2. Kept
    BY <1>3 DEF Kept
  <2>3. SetIsMember'
    <3>1. request'[r].at # "set"
      BY <2>1 DEF Idle
    <3> QED
      BY <1>3, <2>1, <2>2, <3>1, SetFrame DEF Safe
  <2>4. RoleIsCurrent'
    <3> SUFFICES ASSUME NEW q \in Request, request'[q].at = "handle"
                 PROVE  /\ request'[q].role # "none"
                        /\ q \notin stale' =>
                             GetMemberRole(request'[q].org, request'[q].actor) = request'[q].role
      BY <1>3 DEF RoleIsCurrent, GetMemberRole
    <3>1. CASE q = r
      BY <2>1, <3>1 DEF Idle
    <3>2. CASE q # r
      BY <1>3, <2>1, <3>2 DEF Safe, RoleIsCurrent
    <3> QED
      BY <3>1, <3>2
  <2> QED
    BY <1>3, <2>2, <2>3, <2>4, ActiveFrame, MemberFrame DEF Safe
<1>4. ASSUME NEW r \in Request, NEW u \in User, NEW o \in Org, WithHeader(r, u, o) PROVE Safe'
  BY <1>3, <1>4 DEF WithHeader
<1>5. ASSUME NEW r \in Request, IsMember(r) PROVE Safe'
  <2>1. request[r].org \in Org /\ request[r].actor \in User \cup Key
    BY <1>0, <1>5 DEF IsMember, Holds, Shapes, Handler
  <2> QED
    BY <1>3, <1>5, <2>1 DEF IsMember
<1>6. ASSUME NEW r \in Request, UpsertActiveOrg(r) PROVE Safe'
  <2>1. UNCHANGED <<orgs, members>> /\ request[r].org \in Org /\ request[r].actor \in User
    BY <1>0, <1>6 DEF UpsertActiveOrg, Holds
  <2>2. Waiting
    BY <1>6, DoneWaits DEF UpsertActiveOrg
  <2>3. Kept
    BY <2>1 DEF Kept
  <2>4. SetIsMember' /\ OrgHasMember' /\ RoleIsCurrent'
    BY <2>1, <2>2, <2>3, SetFrame, MemberFrame, RoleFrame DEF Safe, Waiting
  <2>5. ActiveIsMember'
    <3>1. CASE Live(request[r].org)
      <4>1. members[request[r].org][request[r].actor] # "none"
        BY <1>6, <3>1 DEF UpsertActiveOrg, Safe, SetIsMember
      <4>2. active' = [active EXCEPT ![request[r].actor] = request[r].org]
        BY <1>6, <3>1 DEF UpsertActiveOrg
      <4> QED
        BY <1>0, <2>1, <4>1, <4>2 DEF Safe, ActiveIsMember, Shapes
    <3>2. CASE ~ Live(request[r].org)
      BY <1>6, <2>1, <3>2 DEF UpsertActiveOrg, Safe, ActiveIsMember
    <3> QED
      BY <3>1, <3>2
  <2> QED
    BY <2>4, <2>5 DEF Safe
<1>7. ASSUME NEW r \in Request, NEW o \in Org, NEW u \in User, NEW role \in Text,
             AddMember(r, o, u, role)
      PROVE  Safe'
  <2>1. /\ UNCHANGED <<orgs, active>> /\ Done(r, o) /\ UpsertMember(o, u, role)
        /\ role \in Role /\ role # "none"
    BY <1>7, TextIsRole DEF AddMember
  <2>2. /\ orgs'[o] = "live" => members'[o][u] = role
        /\ orgs'[o] # "live" => members' = members
        /\ \A p \in Org, v \in User : p # o \/ v # u => members'[p][v] = members[p][v]
    BY <1>0, <2>1, UpsertEffect
  <2>3. Kept
    BY <2>1, <2>2 DEF Kept
  <2>4. Waiting
    BY <2>1, DoneWaits
  <2>5. RoleIsCurrent'
    <3>1. \A p \in Org : p # o => \A v \in User : members'[p][v] = members[p][v]
      BY <2>2
    <3> QED
      BY <1>0, <2>1, <2>4, <3>1, OthersGoOn DEF Safe
  <2> QED
    BY <2>1, <2>3, <2>4, <2>5, SetFrame, MemberFrame, ActiveFrame DEF Safe, Waiting
<1>8. ASSUME NEW r \in Request, NEW o \in Org, Delete(r, o) PROVE Safe'
  <2>1. DeleteOrg(o) /\ Done(r, o)
    BY <1>8 DEF Delete
  <2>2. /\ orgs'[o] # "live" /\ (orgs[o] # "none" => orgs'[o] # "none")
        /\ \A p \in Org : p # o => orgs'[p] = orgs[p]
        /\ \A p \in Org, u \in User : p # o => members'[p][u] = members[p][u]
        /\ \A u \in User : active'[u] = IF active[u] = o THEN NoOrg ELSE active[u]
    BY <1>0, <2>1, DeleteEffect
  <2>3. Waiting
    BY <2>1, DoneWaits
  <2>4. SetIsMember'
    <3> SUFFICES ASSUME NEW q \in Request, request'[q].at = "set"
                 PROVE  /\ orgs'[request'[q].org] # "none"
                        /\ orgs'[request'[q].org] = "live" =>
                             members'[request'[q].org][request'[q].actor] # "none"
      BY DEF SetIsMember, Live
    <3>1. request'[q] = request[q]
      BY <2>3 DEF Waiting
    <3>2. /\ request[q].org \in Org /\ request[q].actor \in User
          /\ orgs[request[q].org] # "none"
          /\ Live(request[q].org) => members[request[q].org][request[q].actor] # "none"
      BY <1>0, <3>1 DEF Holds, Safe, SetIsMember
    <3> QED
      BY <2>2, <3>1, <3>2 DEF Live
  <2>5. ActiveIsMember'
    BY <1>0, <2>2 DEF Safe, ActiveIsMember, Shapes
  <2>6. OrgHasMember'
    BY <2>2 DEF Safe, OrgHasMember, Live
  <2>7. RoleIsCurrent'
    <3>1. \A p \in Org : p # o => \A v \in User : members'[p][v] = members[p][v]
      BY <2>2
    <3> QED
      BY <1>0, <2>1, <2>3, <3>1, OthersGoOn DEF Safe
  <2> QED
    BY <2>4, <2>5, <2>6, <2>7 DEF Safe
<1>9. ASSUME NEW r \in Request, NEW u \in User, GetActiveOrg(r, u) PROVE Safe'
  BY <1>0, <1>9, Quiet DEF GetActiveOrg, Waiting, Shapes
<1>10. ASSUME NEW r \in Request, NEW k \in Key, NEW o \in Org, Validate(r, k, o) PROVE Safe'
  BY <1>0, <1>10, Quiet DEF Validate, Waiting, Shapes
<1>11. ASSUME NEW r \in Request, NEW o \in Org, NEW u \in User, NEW role \in Text,
              UpdateMember(r, o, u, role)
       PROVE  Safe'
  BY <1>11, UpdateNothing, DoneWaits, Quiet DEF UpdateMember
<1>12. ASSUME NEW r \in Request, NEW o \in Org, NEW u \in User, RemoveMember(r, o, u)
       PROVE  Safe'
  BY <1>12, RemoveNothing, DoneWaits, Quiet DEF RemoveMember
<1>13. ASSUME NEW r \in Request, NEW k \in Key, CreateKey(r, k) \/ RevokeKey(r, k) PROVE Safe'
  BY <1>13, DoneWaits, Quiet DEF CreateKey, RevokeKey
<1>14. ASSUME NEW r \in Request, Other(r) PROVE Safe'
  BY <1>14, DoneWaits, Quiet DEF Other
<1>15. ASSUME NEW k \in Key, Touch(k) \/ ExpireKey(k) PROVE Safe'
  BY <1>15, Quiet DEF Touch, ExpireKey, Waiting
<1>16. CASE Crash
  BY <1>16, Quiet DEF Crash, Waiting, Idle
<1>17. CASE UNCHANGED vars
  BY <1>17, Quiet DEF vars, Waiting
<1> QED
  BY <1>1, <1>2, <1>4, <1>5, <1>6, <1>7, <1>8, <1>9, <1>10, <1>11, <1>12, <1>13,
     <1>14, <1>15, <1>16, <1>17 DEF Next

\* However the requests interleave, an active organization is one of the user's,
\* a live organization has a member, and a handler has a current role.
THEOREM TenancySafe == Spec => [](ActiveIsMember /\ OrgHasMember /\ RoleIsCurrent)
<1>1. Safe => ActiveIsMember /\ OrgHasMember /\ RoleIsCurrent
  BY DEF Safe
<1> QED
  BY <1>1, TypeInit, TypeStep, SafeInit, SafeStep, PTL DEF Spec

\* No sequence of member changes leaves a live organization without anyone.
COROLLARY OrgsKeepMembers == Spec => []OrgHasMember
  BY TenancySafe, PTL

\* A handler has the role its actor has in the organization of the request (of
\* X-Org-ID, or the active one), unless members of that organization changed
\* after the check.
COROLLARY RolesAreCurrent == Spec => []RoleIsCurrent
  BY TenancySafe, PTL

-----------------------------------------------------------------------------
(***************************************************************************)
(* Changes of an organization.  RoleIsCurrent gives the role of a handler  *)
(* that is about to end; what is left is that only AddMember and Delete    *)
(* change an organization, and only the one of their path.                 *)
(***************************************************************************)
Entitled(o) ==
  Changed(o) =>
    \E r \in Request : Handled(r) /\ (request[r].org = o => ~ Lacks(r, o))

LEMMA EntitledStep ==
  TypeOK /\ RoleIsCurrent /\ [Next]_vars => \A o \in Org : Entitled(o)
<1> SUFFICES ASSUME TypeOK, RoleIsCurrent, [Next]_vars, NEW o \in Org PROVE Entitled(o)
  OBVIOUS
<1>0. /\ request \in [Request -> Handler] /\ orgs \in [Org -> {"none", "live", "deleted"}]
      /\ members \in [Org -> [User -> Role \cup {"none"}]]
  BY DEF TypeOK
<1>1. ASSUME UNCHANGED <<orgs, members>> PROVE Entitled(o)
  BY <1>1 DEF Entitled, Changed
\* The handler of r ends, with the role that its route asks for.
<1>2. ASSUME NEW r \in Request, NEW min \in {"admin", "owner"}, Handling(r, min),
             request' = [request EXCEPT ![r] = Idle],
             roleOrder(min) >= roleOrder(MinimumRole(o))
      PROVE  Entitled(o)
  <2>1. Handled(r)
    BY <1>0, <1>2 DEF Handling, Handled, Idle
  <2>2. ASSUME request[r].org = o, r \notin stale PROVE ~ Lacks(r, o)
    <3>1. GetMemberRole(o, request[r].actor) = request[r].role
      BY <1>2, <2>2 DEF Handling, RoleIsCurrent
    <3>2. roleOrder(request[r].role) >= roleOrder(min)
      BY <1>2 DEF Handling, RequireRole
    <3>3. /\ roleOrder(request[r].role) \in Nat /\ roleOrder(min) \in Nat
          /\ roleOrder(MinimumRole(o)) \in Nat
      BY DEF roleOrder, MinimumRole
    <3> QED
      BY <1>2, <3>1, <3>2, <3>3 DEF Lacks
  <2> QED
    BY <2>1, <2>2 DEF Entitled, Lacks
<1>3. ASSUME NEW u \in User, NEW p \in Org, Create(u, p) PROVE Entitled(o)
  <2>1. orgs[p] = "none" /\ orgs' = [orgs EXCEPT ![p] = "live"]
        /\ (members' = members \/ members' = [members EXCEPT ![p][u] = "owner"])
    BY <1>3 DEF Create, CreateOrg, InsertOrg, UpsertMember
  <2> QED
    BY <1>0, <2>1 DEF Entitled, Changed, Live
<1>4. ASSUME NEW r \in Request, NEW p \in Org, NEW u \in User, NEW role \in Text,
             AddMember(r, p, u, role)
      PROVE  Entitled(o)
  <2>1. Handling(r, "admin") /\ orgs' = orgs /\ request' = [request EXCEPT ![r] = Idle]
    BY <1>4 DEF AddMember, Done
  <2>2. CASE Live(o)
    <3>1. MinimumRole(o) = "admin"
      BY <2>1, <2>2 DEF MinimumRole, Live
    <3>2. roleOrder("admin") >= roleOrder(MinimumRole(o))
      BY <3>1 DEF roleOrder
    <3> QED
      BY <1>2, <2>1, <3>2
  <2>3. CASE ~ Live(o)
    BY <2>3 DEF Entitled, Changed
  <2> QED
    BY <2>2, <2>3
<1>5. ASSUME NEW r \in Request, NEW p \in Org, NEW u \in User, NEW role \in Text,
             UpdateMember(r, p, u, role)
      PROVE  Entitled(o)
  BY <1>1, <1>5, TenancyAssumption DEF UpdateMember, UpdateMemberRole, Param
<1>6. ASSUME NEW r \in Request, NEW p \in Org, NEW u \in User, RemoveMember(r, p, u)
      PROVE  Entitled(o)
  BY <1>1, <1>6, TenancyAssumption DEF RemoveMember, DeleteMember, Param
<1>7. ASSUME NEW r \in Request, NEW p \in Org, Delete(r, p) PROVE Entitled(o)
  <2>1. Handling(r, "owner") /\ request' = [request EXCEPT ![r] = Idle]
    BY <1>7 DEF Delete, Done
  <2>2. roleOrder("owner") >= roleOrder(MinimumRole(o))
    BY DEF MinimumRole, roleOrder
  <2> QED
    BY <1>2, <2>1, <2>2
<1> QED
  BY <1>1, <1>3, <1>4, <1>5, <1>6, <1>7
  DEF Next, vars, Set, WithHeader, GetActiveOrg, Validate, CreateKey, RevokeKey, Other,
      UpsertActiveOrg, IsMember, Touch, ExpireKey, Crash

\* The members of an organization are changed, and it is deleted, for an actor who
\* has the role that the route asks for in it, whenever the organization that
\* Tenant checked (X-Org-ID, or the active one) is the one in the path.
THEOREM ChangesEntitled == Spec => ChangesAreEntitled
<1>1. TypeOK /\ RoleIsCurrent /\ [Next]_vars
        => [\A o \in Org : Changed(o) =>
              \E r \in Request : Handled(r) /\ (request[r].org = o => ~ Lacks(r, o))]_vars
  BY EntitledStep DEF Entitled
<1> QED
  BY <1>1, TypeCorrect, RolesAreCurrent, PTL DEF Spec, ChangesAreEntitled

-----------------------------------------------------------------------------
\* What a step may do to one key.
KeyDies(k) ==
  /\ ~ ValidKey(k) /\ ValidKey(k)' => keys[k].st = "none"
  /\ keys[k].st # "revoked" /\ keys'[k].st = "revoked" =>
       \E r \in Request : Handling(r, "any") /\ request[r].org = keys[k].org

\* A key whose state stays as it was.
LEMMA KeySame ==
  ASSUME NEW k, keys'[k].st = keys[k].st
  PROVE  KeyDies(k)
  BY DEF KeyDies, ValidKey, GetAPIKeyByHash

LEMMA KeyStep == TypeOK /\ [Next]_vars => \A k \in Key : KeyDies(k)
<1> SUFFICES ASSUME TypeOK, [Next]_vars, NEW k \in Key PROVE KeyDies(k)
  OBVIOUS
<1>0. keys \in [Key -> KeyRow]
  BY DEF TypeOK
<1>1. ASSUME NEW r \in Request, NEW j \in Key, CreateKey(r, j) PROVE KeyDies(k)
  <2>1. keys[j].st = "none" /\ ((keys'[k].st = "live" /\ k = j) \/ keys'[k] = keys[k])
    BY <1>0, <1>1 DEF CreateKey, CreateAPIKey
  <2> QED
    BY <2>1, KeySame DEF KeyDies
<1>2. ASSUME NEW r \in Request, NEW j \in Key, RevokeKey(r, j) PROVE KeyDies(k)
  <2>1. \/ keys'[k].st = keys[k].st
        \/ keys'[k].st = "revoked" /\ request[r].org = keys[k].org
    BY <1>0, <1>2 DEF RevokeKey, RevokeAPIKey, KeyRow
  <2>2. Handling(r, "any")
    BY <1>2 DEF RevokeKey
  <2> QED
    BY <2>1, <2>2, KeySame DEF KeyDies, ValidKey, GetAPIKeyByHash
<1>3. ASSUME NEW r \in Request, NEW o \in Org, Delete(r, o) PROVE KeyDies(k)
  <2>1. keys'[k].st = "deleted" \/ keys'[k] = keys[k]
    BY <1>3 DEF Delete, DeleteOrg
  <2> QED
    BY <2>1, KeySame DEF KeyDies, ValidKey, GetAPIKeyByHash
<1>4. ASSUME NEW j \in Key, ExpireKey(j) PROVE KeyDies(k)
  <2>1. keys'[k].st = "expired" \/ keys'[k].st = keys[k].st
    BY <1>0, <1>4 DEF ExpireKey, KeyRow
  <2> QED
    BY <2>1, KeySame DEF KeyDies, ValidKey, GetAPIKeyByHash
<1>5. ASSUME NEW j \in Key, Touch(j) PROVE KeyDies(k)
  <2>1. keys'[k].st = keys[k].st
    BY <1>0, <1>5 DEF Touch, TouchAPIKeyLastUsed, KeyRow
  <2> QED
    BY <2>1, KeySame
<1>6. CASE keys' = keys
  BY <1>6, KeySame
<1> QED
  BY <1>1, <1>2, <1>3, <1>4, <1>5, <1>6
  DEF Next, vars, Create, Set, WithHeader, GetActiveOrg, Validate, AddMember, UpdateMember,
      RemoveMember, UpsertActiveOrg, IsMember, Other, Crash

\* A key that is revoked, expired or deleted never works again, and only a
\* request of its own organization revokes it.
THEOREM KeysDie == Spec => KeysOnlyDie
<1>1. TypeOK /\ [Next]_vars =>
        [\A k \in Key :
           /\ ~ ValidKey(k) /\ ValidKey(k)' => keys[k].st = "none"
           /\ keys[k].st # "revoked" /\ keys'[k].st = "revoked" =>
                \E r \in Request : Handling(r, "any") /\ request[r].org = keys[k].org]_vars
  BY KeyStep DEF KeyDies
<1> QED
  BY <1>1, TypeInit, TypeStep, PTL DEF Spec, KeysOnlyDie
=============================================================================
