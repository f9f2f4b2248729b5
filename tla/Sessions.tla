------------------------------ MODULE Sessions ------------------------------
(***************************************************************************)
(* User sessions and password resets: the handlers of                      *)
(* internal/http/handlers/auth.go on the rows of users, refresh_tokens and *)
(* password_reset_tokens.                                                  *)
(*                                                                         *)
(* The handlers open no transaction: each sqlc query is one autocommit     *)
(* statement, and handlers of concurrent HTTP requests interleave between  *)
(* statements.  An action is therefore one statement with the code up to   *)
(* the next one; a handler that needs several keeps its place in request.  *)
(* A request that is refused (4xx before any write) changes nothing and is *)
(* a stuttering step.                                                      *)
(*                                                                         *)
(* Abstractions.  A refresh token is its jti (the stored hash of the token *)
(* always matches the token that carries the jti); a reset token is its    *)
(* row.  Clock time is the nondeterministic action ExpireRefresh or        *)
(* ExpireReset.  A row that is both expired and revoked is kept in the     *)
(* state it reached first: no query tells the difference.  Access tokens   *)
(* are not stored by the code and are not modelled.                        *)
(***************************************************************************)
EXTENDS Naturals, FiniteSets

CONSTANTS User,     \* accounts that can be created
          Token,    \* jtis of refresh tokens (bound: a jti is used once)
          Reset,    \* password reset tokens (bound: a row is created once)
          Request,  \* slots of concurrently running handlers
          NoUser,   \* no user: an unused row or an idle slot
          NoCred,   \* no credential: rotated_from NULL, or none presented
          Faults,   \* "db": a statement may fail; "crash": the server may
          MaxLost   \* bound: no statement fails once so many
                    \* credentials are in lost

ASSUME SessionsAssumption ==
  /\ NoUser \notin User
  /\ NoCred \notin Token \cup Reset
  /\ Token \cap Reset = {}
  /\ Request \cap (Token \cup Reset) = {}
  /\ Faults \subseteq {"db", "crash"}
  /\ MaxLost \in Nat

VARIABLES
  users,          \* the rows of users
  refreshTokens,  \* the rows of refresh_tokens
  resetTokens,    \* the rows of password_reset_tokens
  request         \* where each running handler is, for whom, with what

(***************************************************************************)
(* History variables.  They record what happened and guard no action.      *)
(***************************************************************************)
VARIABLES
  old,         \* tokens, and requests about to issue one, whose credential
               \* check came before the user's latest password change
  cut,         \* those of old that were in flight when, after that change,
               \* all rows of the user were revoked (and what they issue)
  overlapped,  \* credentials two handlers worked on at once: the second came
               \* between the first one's check and its invalidation
  lost,        \* credentials whose invalidation failed unnoticed
  loggedOut,   \* tokens a logout found live
  unrevoked    \* users whose password changed while the revocation that
               \* follows failed, or never ran, and no later one succeeded

db   == <<users, refreshTokens, resetTokens>>
hist == <<old, cut, overlapped, lost, loggedOut, unrevoked>>
vars == <<users, refreshTokens, resetTokens, request,
          old, cut, overlapped, lost, loggedOut, unrevoked>>

-----------------------------------------------------------------------------
RefreshRow == [st   : {"none", "live", "revoked", "expired"},
               user : User \cup {NoUser},
               from : Token \cup {NoCred}]

ResetRow == [st   : {"none", "fresh", "used", "expired"},
             user : User \cup {NoUser},
             uses : 0 .. 2]     \* history: password changes made, up to 2

(***************************************************************************)
(* The place of a handler is the statement it executes next.               *)
(***************************************************************************)
Issuing   == {"revoke", "save"}
Resetting == {"markUsed", "updatePassword"}
Place     == {"idle", "revokeAll"} \cup Issuing \cup Resetting

Handler == [at   : Place,
            user : User \cup {NoUser},
            cred : Token \cup Reset \cup {NoCred}]

NoRefresh == [st |-> "none", user |-> NoUser, from |-> NoCred]
NoReset   == [st |-> "none", user |-> NoUser, uses |-> 0]
Idle      == [at |-> "idle", user |-> NoUser, cred |-> NoCred]

Init ==
  /\ users = {}
  /\ refreshTokens = [t \in Token |-> NoRefresh]
  /\ resetTokens = [x \in Reset |-> NoReset]
  /\ request = [r \in Request |-> Idle]
  /\ old = {} /\ cut = {}
  /\ overlapped = {} /\ lost = {} /\ loggedOut = {}
  /\ unrevoked = {}

-----------------------------------------------------------------------------
(***************************************************************************)
(* The statements.                                                         *)
(***************************************************************************)
\* The INSERT of Signup: the e-mail is unique.
InsertUser(u) == u \notin users /\ users' = users \cup {u}

\* SELECT ... WHERE email = $1: by Login, whose password the hash confirms,
\* and by ForgotPassword.
GetUserByEmail(u) == u \in users

Live(t) == refreshTokens[t].st = "live"

\* mutant: the row is accepted after it was revoked
IsValidEvenRevoked(t) == refreshTokens[t].st \in {"live", "revoked"}

\* pgStore.IsValid: the row exists, is not revoked and has not expired.
IsValid(t) == Live(t)

\* mutant: the UPDATE matches no row
RevokeNothing(t) == UNCHANGED refreshTokens

\* UPDATE ... SET revoked_at = now() WHERE id = $1 AND revoked_at IS NULL.
RevokeToken(t) ==
  refreshTokens' =
    [refreshTokens EXCEPT ![t].st = IF @ = "live" THEN "revoked" ELSE @]

\* The same for every row WHERE user_id = $1.
RevokeAllUserTokens(u) ==
  refreshTokens' =
    [t \in Token |->
       IF refreshTokens[t].user = u /\ Live(t)
         THEN [refreshTokens[t] EXCEPT !.st = "revoked"]
         ELSE refreshTokens[t]]

\* NewRefreshToken draws a jti no row has; which one makes no difference.
FreshToken == LET unused == {t \in Token : refreshTokens[t].st = "none"}
              IN  IF unused = {} THEN {} ELSE {CHOOSE t \in unused : TRUE}

InsertRefreshToken(t, u, from) ==
  /\ refreshTokens[t].st = "none"       \* NewRefreshToken draws a fresh jti
  /\ refreshTokens' =
       [refreshTokens EXCEPT ![t] = [st |-> "live", user |-> u, from |-> from]]

\* mutant: the query loses its condition used_at IS NULL
GetPasswordResetEvenUsed(x) == resetTokens[x].st \in {"fresh", "used"}

\* SELECT ... WHERE token_hash = $1 AND used_at IS NULL, then the check of
\* expires_at in ValidateAndConsume.
GetPasswordResetByHash(x) == resetTokens[x].st = "fresh"

\* UPDATE ... SET used_at = now() WHERE id = $1: whatever used_at holds.
MarkPasswordResetUsed(x) ==
  resetTokens' = [resetTokens EXCEPT ![x].st = "used"]

-----------------------------------------------------------------------------
(***************************************************************************)
(* Handlers in flight.                                                     *)
(***************************************************************************)
IsIdle(r) == request[r].at = "idle"

Goto(r, place) == request' = [request EXCEPT ![r].at = place]
Finish(r)      == request' = [request EXCEPT ![r] = Idle]
Start(r, place, u, cred) ==
  /\ IsIdle(r)
  /\ request' = [request EXCEPT ![r] =
                   [at |-> place, user |-> u, cred |-> cred]]

\* Requests past the check of a credential of u, about to issue a token.
InFlight(u) == {r \in Request : request[r].at \in Issuing /\ request[r].user = u}

\* Some handler has checked c and not yet invalidated it.
Held(c) == \E r \in Request : /\ request[r].at \in {"revoke", "markUsed"}
                              /\ request[r].cred = c

Overlap(c) == overlapped' = IF Held(c) THEN overlapped \cup {c} ELSE overlapped

\* The token or request b descends from a: it is in S if a is.
Inherit(S, a, b) == IF a \in S THEN S \cup {b} ELSE S

DbFails == "db" \in Faults /\ Cardinality(lost) < MaxLost

-----------------------------------------------------------------------------
(***************************************************************************)
(* Signup and Login: create or authenticate the user, then SaveRefresh.    *)
(* A taken e-mail, an unknown one or a wrong password change nothing.      *)
(***************************************************************************)
Signup(r, u) ==
  /\ InsertUser(u)
  /\ Start(r, "save", u, NoCred)
  /\ UNCHANGED <<refreshTokens, resetTokens, hist>>

Login(r, u) ==
  /\ GetUserByEmail(u)
  /\ Start(r, "save", u, NoCred)
  /\ UNCHANGED <<db, hist>>

\* Refresh, up to and including the SELECT of IsValid.
Refresh(r, t) ==
  /\ IsValid(t)
  /\ Start(r, "revoke", refreshTokens[t].user, t)
  /\ Overlap(t)
  /\ old' = Inherit(old, t, r)
  /\ cut' = Inherit(cut, t, r)
  /\ UNCHANGED <<db, lost, loggedOut, unrevoked>>

\* "rotate": Revoke on the token presented; its error is ignored.
RotateRevoke(r) ==
  /\ request[r].at = "revoke"
  /\ \/ RevokeToken(request[r].cred) /\ UNCHANGED lost
     \/ /\ DbFails
        /\ lost' = lost \cup {request[r].cred}
        /\ UNCHANGED refreshTokens
  /\ Goto(r, "save")
  /\ UNCHANGED <<users, resetTokens, old, cut, overlapped, loggedOut, unrevoked>>

\* SaveRefresh, the last statement of Signup, Login and Refresh; if it fails
\* the handler answers 500 and the token is never valid.
SaveRefresh(r) ==
  /\ request[r].at = "save"
  /\ \/ \E t \in FreshToken :
          /\ InsertRefreshToken(t, request[r].user, request[r].cred)
          /\ old' = Inherit(old, r, t) \ {r}
          /\ cut' = Inherit(cut, r, t) \ {r}
     \/ /\ DbFails
        /\ old' = old \ {r}
        /\ cut' = cut \ {r}
        /\ UNCHANGED refreshTokens
  /\ Finish(r)
  /\ UNCHANGED <<users, resetTokens, overlapped, lost, loggedOut, unrevoked>>

(***************************************************************************)
(* Logout: the signature and the expiry of the token are checked, its row  *)
(* is not; Revoke's error is ignored, which leaves everything as it was.   *)
(***************************************************************************)
Logout(t) ==
  /\ refreshTokens[t].st \in {"live", "revoked"}
  /\ RevokeToken(t)
  /\ IF Live(t)
       THEN loggedOut' = loggedOut \cup {t} /\ Overlap(t)
       ELSE UNCHANGED <<loggedOut, overlapped>>
  /\ UNCHANGED <<users, resetTokens, request, old, cut, lost, unrevoked>>

\* RevokeAllForUser succeeds: the rows are revoked, requests in flight are not.
RevokeAllForUser(u) ==
  /\ RevokeAllUserTokens(u)
  /\ cut' = cut \cup (InFlight(u) \cap old)
  /\ unrevoked' = unrevoked \ {u}

\* LogoutAll: with a valid access token of u.
LogoutAll(u) ==
  /\ u \in users
  /\ RevokeAllForUser(u)
  /\ UNCHANGED <<users, resetTokens, request, old, overlapped, lost, loggedOut>>

-----------------------------------------------------------------------------
\* ForgotPassword: CreateResetToken for the user with this e-mail.  Earlier
\* tokens of the user stay valid.
ForgotPassword(u, x) ==
  /\ GetUserByEmail(u)
  /\ resetTokens[x].st = "none"
  /\ resetTokens' = [resetTokens EXCEPT ![x] =
                       [st |-> "fresh", user |-> u, uses |-> 0]]
  /\ UNCHANGED <<users, refreshTokens, request, hist>>

\* ResetPassword, up to the SELECT of ValidateAndConsume.
ResetPassword(r, x) ==
  /\ GetPasswordResetByHash(x)
  /\ Start(r, "markUsed", resetTokens[x].user, x)
  /\ Overlap(x)
  /\ UNCHANGED <<db, old, cut, lost, loggedOut, unrevoked>>

\* The rest of ValidateAndConsume; the error of the UPDATE is ignored.
MarkUsed(r) ==
  /\ request[r].at = "markUsed"
  /\ \/ MarkPasswordResetUsed(request[r].cred) /\ UNCHANGED lost
     \/ /\ DbFails
        /\ lost' = lost \cup {request[r].cred}
        /\ UNCHANGED resetTokens
  /\ Goto(r, "updatePassword")
  /\ UNCHANGED <<users, refreshTokens, old, cut, overlapped, loggedOut, unrevoked>>

\* bcrypt refuses the new password (longer than 72 bytes; the binding only
\* asks for 6 characters): 500, with the reset token already used up.
HashFails(r) ==
  /\ request[r].at = "updatePassword"
  /\ Finish(r)
  /\ UNCHANGED <<db, hist>>

\* What a password change makes old: the user's live rows and the requests
\* that are about to issue a token on an earlier check.
MadeOld(u) == {t \in Token : refreshTokens[t].user = u /\ Live(t)} \cup InFlight(u)

PasswordChanged(r) ==
  LET u == request[r].user
      x == request[r].cred
  IN  /\ old' = old \cup MadeOld(u)
      /\ cut' = cut \ MadeOld(u)
      /\ resetTokens' =
           [resetTokens EXCEPT ![x].uses = IF @ < 2 THEN @ + 1 ELSE @]

\* mutant: the handler returns without revoking the sessions
UpdatePasswordOnly(r) ==
  /\ request[r].at = "updatePassword"
  /\ PasswordChanged(r)
  /\ Finish(r)
  /\ UNCHANGED <<users, refreshTokens, overlapped, lost, loggedOut, unrevoked>>

\* UpdatePassword; if it fails the handler answers 500 and stops.
UpdatePassword(r) ==
  /\ request[r].at = "updatePassword"
  /\ \/ PasswordChanged(r) /\ Goto(r, "revokeAll")
     \/ DbFails /\ Finish(r) /\ UNCHANGED <<old, cut, resetTokens>>
  /\ UNCHANGED <<users, refreshTokens, overlapped, lost, loggedOut, unrevoked>>

\* The last statement of ResetPassword; its error is ignored.
ResetRevokeAll(r) ==
  /\ request[r].at = "revokeAll"
  /\ \/ RevokeAllForUser(request[r].user)
     \/ /\ DbFails
        /\ unrevoked' = unrevoked \cup {request[r].user}
        /\ UNCHANGED <<refreshTokens, cut>>
  /\ Finish(r)
  /\ UNCHANGED <<users, resetTokens, old, overlapped, lost, loggedOut>>

-----------------------------------------------------------------------------
\* Time passes expires_at of a row.
ExpireRefresh(t) ==
  /\ Live(t)
  /\ refreshTokens' = [refreshTokens EXCEPT ![t].st = "expired"]
  /\ UNCHANGED <<users, resetTokens, request, hist>>

ExpireReset(x) ==
  /\ resetTokens[x].st = "fresh"
  /\ resetTokens' = [resetTokens EXCEPT ![x].st = "expired"]
  /\ UNCHANGED <<users, refreshTokens, request, hist>>

\* The process dies between two statements of its handlers: the rows stay.
Crash ==
  /\ "crash" \in Faults
  /\ \E r \in Request : ~ IsIdle(r)
  /\ request' = [r \in Request |-> Idle]
  /\ unrevoked' = unrevoked \cup
       {request[r].user : r \in {q \in Request : request[q].at = "revokeAll"}}
  /\ old' = old \ Request
  /\ cut' = cut \ Request
  /\ UNCHANGED <<db, overlapped, lost, loggedOut>>

-----------------------------------------------------------------------------
\* The next statement of a handler that has started.
Continue(r) ==
  \/ RotateRevoke(r) \/ SaveRefresh(r)
  \/ MarkUsed(r) \/ HashFails(r) \/ UpdatePassword(r) \/ ResetRevokeAll(r)

Next ==
  \/ \E r \in Request, u \in User : Signup(r, u) \/ Login(r, u)
  \/ \E r \in Request, t \in Token : Refresh(r, t)
  \/ \E r \in Request, x \in Reset : ResetPassword(r, x)
  \/ \E r \in Request : Continue(r)
  \/ \E t \in Token : Logout(t) \/ ExpireRefresh(t)
  \/ \E u \in User : LogoutAll(u)
  \/ \E u \in User, x \in Reset : ForgotPassword(u, x)
  \/ \E x \in Reset : ExpireReset(x)
  \/ Crash

Spec == Init /\ [][Next]_vars

\* A handler that has started runs to its end: gin gives each request its
\* goroutine and every statement runs on context.Background().
Fairness == \A r \in Request : WF_vars(Continue(r))
FairSpec == Spec /\ Fairness

-----------------------------------------------------------------------------
\* The variables have their types, a handler holds the kind of credential its
\* next statement needs, and every row and every running handler belongs to a
\* user whose row exists (the foreign keys to users(id) hold although handlers
\* check the user in one statement and write in another).
TypeOK ==
  /\ users \subseteq User
  /\ refreshTokens \in [Token -> RefreshRow]
  /\ resetTokens \in [Reset -> ResetRow]
  /\ request \in [Request -> Handler]
  /\ old \subseteq Token \cup Request
  /\ cut \subseteq Token \cup Request
  /\ overlapped \subseteq Token \cup Reset
  /\ lost \subseteq Token \cup Reset
  /\ loggedOut \subseteq Token
  /\ unrevoked \subseteq User
  /\ \A t \in Token : refreshTokens[t].st # "none" => refreshTokens[t].user \in users
  /\ \A x \in Reset : resetTokens[x].st # "none" => resetTokens[x].user \in users
  /\ \A r \in Request :
       /\ request[r].at # "idle" => request[r].user \in users
       /\ request[r].at = "revoke" => request[r].cred \in Token
       /\ request[r].at = "save" => request[r].cred \in Token \cup {NoCred}
       /\ request[r].at \in Resetting =>
            /\ request[r].cred \in Reset
            /\ resetTokens[request[r].cred].st # "none"

Excused == overlapped \cup lost

\* A refresh token that was rotated is dead: a row with a successor is not
\* live, except where the ignored Revoke of the rotation failed.
RotationConsumes ==
  \A c, t \in Token :
    refreshTokens[c].st # "none" /\ refreshTokens[c].from = t /\ t \notin lost
      => ~ Live(t)

\* The rows issued for t, and the handlers about to save one.
Successors(t) ==
  {c \in Token : refreshTokens[c].from = t}
    \cup {r \in Request : request[r].at = "save" /\ request[r].cred = t}

\* A session does not fork: a token has, or is about to get, two successors
\* only if a second Refresh checked it between the first one's IsValid and
\* Revoke, or its Revoke failed.
ForkNeedsOverlap ==
  \A t \in Token : \A a, b \in Successors(t) : a # b => t \in Excused

\* A session that was logged out while live issues no further token, unless
\* its Logout ran between IsValid and Revoke of a Refresh.
LoggedOutStaysOut ==
  \A c \in Token :
    refreshTokens[c].from \in loggedOut => refreshTokens[c].from \in Excused

\* A reset token changes the password once, unless a second ResetPassword
\* checked it before the first marked it used, or the mark failed.
ResetReuseNeedsOverlap ==
  \A x \in Reset : resetTokens[x].uses >= 2 => x \in Excused

\* Some ResetPassword of u has changed the password and revokes next.
RevocationPending(u) ==
  \E r \in Request : request[r].at = "revokeAll" /\ request[r].user = u

OldSession(t) == Live(t) /\ t \in old

\* After a password change the sessions of the old password are revoked: one
\* lives on only while the revocation is still to come, or was lost with a
\* failed statement or a crash, or it was issued by a request that was in
\* flight during the revocation.
OldSessionsExcused ==
  \A t \in Token :
    OldSession(t) /\ t \notin cut
      => \/ refreshTokens[t].user \in unrevoked
         \/ RevocationPending(refreshTokens[t].user)

\* The revocation does come: such a session ends, unless the revocation is
\* lost.
OldSessionsEnd ==
  \A t \in Token :
    OldSession(t) ~> \/ ~ OldSession(t) \/ t \in cut
                     \/ refreshTokens[t].user \in unrevoked

=============================================================================
