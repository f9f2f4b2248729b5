--------------------------- MODULE TenancyClaims ---------------------------
(***************************************************************************)
(* What the documentation of the repository claims of access to an         *)
(* organization, beside what the code does.  The steps are those of        *)
(* Tenancy; two history variables observe them.                            *)
(***************************************************************************)
EXTENDS Tenancy

VARIABLES
  unentitled,  \* organizations changed for an actor without the role in them
  refused      \* valid keys refused by Tenant for their own organization

claimVars == <<vars, unentitled, refused>>

ClaimsInit == Init /\ unentitled = {} /\ refused = {}

ClaimsNext ==
  /\ Next
  /\ unentitled' = unentitled \cup
       {o \in Org : Changed(o) /\ \E r \in Request : Handled(r) /\ Lacks(r, o)}
  /\ refused' = refused \cup
       {k \in Key : ValidKey(k) /\ \E r \in Request :
          /\ request[r].actor = k /\ request[r].org = keys[k].org
          /\ IsMember(r) /\ request'[r].at = "idle"}

ClaimsSpec == ClaimsInit /\ [][ClaimsNext]_claimVars

-----------------------------------------------------------------------------
\* What README.md:65 says ("Role-based access control per organization") and
\* README.md:177 and router.go:110 repeat of the deletion ("somente owner"): the
\* members of an organization are changed, and it is deleted, only for an actor
\* who has the role that the route asks for in that organization.  The code
\* compares the role in the organization of X-Org-ID (see ChangesAreEntitled).
RolesHoldPerOrganization == unentitled = {}

\* What README.md:66 says ("Programmatic access with sk_... tokens"): a request
\* with a valid key that names the organization of the key is let through to the
\* routes of the organization.
KeysGiveAccess == refused = {}
=============================================================================
