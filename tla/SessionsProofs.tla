--------------------------- MODULE SessionsProofs ---------------------------
(***************************************************************************)
(* Proofs about Sessions, for any sets of users, tokens, reset tokens and  *)
(* requests and with every fault.  Type correctness is inductive by        *)
(* itself; rotation, resets and the end of old sessions each have an       *)
(* inductive invariant of their own that rests on it.                      *)
(***************************************************************************)
EXTENDS Sessions, TLAPS

-----------------------------------------------------------------------------
(***************************************************************************)
(* What each statement does to each field of each row.                     *)
(***************************************************************************)
RefreshTyped == refreshTokens \in [Token -> RefreshRow]
ResetTyped   == resetTokens \in [Reset -> ResetRow]
HandlerTyped == request \in [Request -> Handler]

\* Revoke kills the row it names, if it is live, and touches nothing else.
LEMMA RevokeTokenEffect ==
  ASSUME RefreshTyped, NEW t \in Token, RevokeToken(t)
  PROVE  /\ RefreshTyped'
         /\ \A c \in Token :
              /\ refreshTokens'[c].user = refreshTokens[c].user
              /\ refreshTokens'[c].from = refreshTokens[c].from
              /\ refreshTokens'[c].st =
                   IF c = t /\ refreshTokens[c].st = "live"
                     THEN "revoked" ELSE refreshTokens[c].st
  BY DEF RefreshTyped, RefreshRow, RevokeToken

\* RevokeAllForUser kills the user's live rows and touches nothing else.
LEMMA RevokeAllEffect ==
  ASSUME RefreshTyped, NEW u, RevokeAllUserTokens(u)
  PROVE  /\ RefreshTyped'
         /\ \A c \in Token :
              /\ refreshTokens'[c].user = refreshTokens[c].user
              /\ refreshTokens'[c].from = refreshTokens[c].from
              /\ refreshTokens'[c].st =
                   IF refreshTokens[c].user = u /\ refreshTokens[c].st = "live"
                     THEN "revoked" ELSE refreshTokens[c].st
  BY DEF RefreshTyped, RefreshRow, RevokeAllUserTokens, Live

\* The jti that SaveRefresh draws is one of Token.
LEMMA FreshIsToken == FreshToken \subseteq Token
  BY DEF FreshToken

\* SaveRefresh adds one live row where there was none.
LEMMA InsertEffect ==
  ASSUME RefreshTyped, NEW t \in Token, NEW u \in User,
         NEW from \in Token \cup {NoCred}, InsertRefreshToken(t, u, from)
  PROVE  /\ RefreshTyped'
         /\ refreshTokens[t].st = "none"
         /\ refreshTokens'[t].st = "live"
         /\ refreshTokens'[t].user = u
         /\ refreshTokens'[t].from = from
         /\ \A c \in Token \ {t} : refreshTokens'[c] = refreshTokens[c]
  BY DEF RefreshTyped, RefreshRow, InsertRefreshToken

\* Expiry kills one live row.
LEMMA ExpireRefreshEffect ==
  ASSUME RefreshTyped, NEW t \in Token, ExpireRefresh(t)
  PROVE  /\ RefreshTyped'
         /\ \A c \in Token :
              /\ refreshTokens'[c].user = refreshTokens[c].user
              /\ refreshTokens'[c].from = refreshTokens[c].from
              /\ refreshTokens'[c].st =
                   IF c = t THEN "expired" ELSE refreshTokens[c].st
         /\ refreshTokens[t].st = "live"
         /\ UNCHANGED <<users, resetTokens, request, hist>>
  BY DEF RefreshTyped, RefreshRow, ExpireRefresh, Live

\* The same for a reset token.
LEMMA ExpireResetEffect ==
  ASSUME ResetTyped, NEW x \in Reset, ExpireReset(x)
  PROVE  /\ ResetTyped'
         /\ \A y \in Reset :
              /\ resetTokens'[y].user = resetTokens[y].user
              /\ resetTokens'[y].uses = resetTokens[y].uses
              /\ resetTokens'[y].st = IF y = x THEN "expired" ELSE resetTokens[y].st
         /\ resetTokens[x].st = "fresh"
         /\ UNCHANGED <<users, refreshTokens, request, hist>>
  BY DEF ResetTyped, ResetRow, ExpireReset

\* MarkPasswordResetUsed sets the state of the row it names.
LEMMA MarkEffect ==
  ASSUME ResetTyped, NEW x \in Reset, MarkPasswordResetUsed(x)
  PROVE  /\ ResetTyped'
         /\ \A y \in Reset :
              /\ resetTokens'[y].user = resetTokens[y].user
              /\ resetTokens'[y].uses = resetTokens[y].uses
              /\ resetTokens'[y].st = IF y = x THEN "used" ELSE resetTokens[y].st
  BY DEF ResetTyped, ResetRow, MarkPasswordResetUsed

\* A password change counts one use of the reset token, up to two.
LEMMA ChangedEffect ==
  ASSUME ResetTyped, NEW r \in Request, request[r].cred \in Reset,
         PasswordChanged(r)
  PROVE  /\ ResetTyped'
         /\ \A y \in Reset :
              /\ resetTokens'[y].user = resetTokens[y].user
              /\ resetTokens'[y].st = resetTokens[y].st
              /\ resetTokens'[y].uses =
                   IF y = request[r].cred
                     THEN IF resetTokens[y].uses < 2 THEN resetTokens[y].uses + 1
                                                     ELSE resetTokens[y].uses
                     ELSE resetTokens[y].uses
<1> DEFINE x == request[r].cred
           n == IF resetTokens[x].uses < 2 THEN resetTokens[x].uses + 1
                                           ELSE resetTokens[x].uses
<1>1. resetTokens' = [resetTokens EXCEPT ![x] = [resetTokens[x] EXCEPT !.uses = n]]
  BY DEF PasswordChanged
<1>2. x \in Reset /\ n \in 0 .. 2
  BY DEF ResetTyped, ResetRow
<1> HIDE DEF n
<1>3. [resetTokens[x] EXCEPT !.uses = n] \in ResetRow
  BY <1>2 DEF ResetTyped, ResetRow
<1>4. ResetTyped'
  BY <1>1, <1>2, <1>3 DEF ResetTyped
<1>5. \A y \in Reset :
        /\ resetTokens'[y].user = resetTokens[y].user
        /\ resetTokens'[y].st = resetTokens[y].st
        /\ resetTokens'[y].uses = IF y = x THEN n ELSE resetTokens[y].uses
  BY <1>1, <1>2 DEF ResetTyped, ResetRow
<1> QED
  BY <1>4, <1>5 DEF n

\* A handler moves on: its user and credential stay.
LEMMA GotoEffect ==
  ASSUME HandlerTyped, NEW r \in Request, NEW place \in Place, Goto(r, place)
  PROVE  /\ HandlerTyped'
         /\ \A q \in Request :
              /\ request'[q].user = request[q].user
              /\ request'[q].cred = request[q].cred
              /\ request'[q].at = IF q = r THEN place ELSE request[q].at
  BY DEF HandlerTyped, Handler, Goto

\* A handler ends: the others stay where they are.
LEMMA FinishEffect ==
  ASSUME SessionsAssumption, HandlerTyped, NEW r \in Request, Finish(r)
  PROVE  /\ HandlerTyped'
         /\ request'[r].at = "idle" /\ request'[r].user = NoUser
         /\ request'[r].cred = NoCred
         /\ \A q \in Request \ {r} : request'[q] = request[q]
  BY DEF HandlerTyped, Handler, Finish, Idle, Place

\* A handler starts in an idle slot.
LEMMA StartEffect ==
  ASSUME HandlerTyped, NEW r \in Request, NEW place \in Place, NEW u \in User,
         NEW cred \in Token \cup Reset \cup {NoCred}, Start(r, place, u, cred)
  PROVE  /\ HandlerTyped'
         /\ request[r].at = "idle"
         /\ request'[r].at = place
         /\ request'[r].user = u
         /\ request'[r].cred = cred
         /\ \A q \in Request \ {r} : request'[q] = request[q]
  BY DEF HandlerTyped, Handler, Start, IsIdle

-----------------------------------------------------------------------------
\* Types, credentials and foreign keys survive every step.
LEMMA TypeStep == TypeOK /\ [Next]_vars => TypeOK'
<1> SUFFICES ASSUME TypeOK, [Next]_vars PROVE TypeOK'
  OBVIOUS
<1> USE SessionsAssumption
<1>0. RefreshTyped /\ ResetTyped /\ HandlerTyped
  BY DEF TypeOK, RefreshTyped, ResetTyped, HandlerTyped
<1>1. ASSUME NEW r \in Request, NEW u \in User, Signup(r, u) PROVE TypeOK'
  <2>1. "save" \in Place
    BY DEF Place, Issuing
  <2> QED
    BY <1>0, <1>1, <2>1, StartEffect
    DEF TypeOK, Signup, InsertUser, hist, HandlerTyped, Resetting
<1>2. ASSUME NEW r \in Request, NEW u \in User, Login(r, u) PROVE TypeOK'
  <2>1. "save" \in Place
    BY DEF Place, Issuing
  <2> QED
    BY <1>0, <1>2, <2>1, StartEffect
    DEF TypeOK, Login, GetUserByEmail, db, hist, HandlerTyped, Resetting
<1>3. ASSUME NEW r \in Request, NEW t \in Token, Refresh(r, t) PROVE TypeOK'
  <2>1. "revoke" \in Place /\ refreshTokens[t].user \in users
    BY <1>3 DEF Place, Issuing, TypeOK, Refresh, IsValid, Live
  <2> QED
    BY <1>0, <1>3, <2>1, StartEffect
    DEF TypeOK, Refresh, Overlap, Inherit, db, HandlerTyped, Resetting
<1>4. ASSUME NEW r \in Request, RotateRevoke(r) PROVE TypeOK'
  <2>1. "save" \in Place /\ request[r].cred \in Token
    BY <1>4 DEF Place, Issuing, TypeOK, RotateRevoke
  <2>2. /\ HandlerTyped'
        /\ \A q \in Request :
             /\ request'[q].user = request[q].user
             /\ request'[q].cred = request[q].cred
             /\ request'[q].at = IF q = r THEN "save" ELSE request[q].at
    BY <1>0, <1>4, <2>1, GotoEffect DEF RotateRevoke
  <2>3. /\ RefreshTyped'
        /\ \A c \in Token :
             /\ refreshTokens'[c].user = refreshTokens[c].user
             /\ refreshTokens'[c].st # "none" => refreshTokens[c].st # "none"
    BY <1>0, <1>4, <2>1, RevokeTokenEffect DEF RotateRevoke, RefreshTyped
  <2>4. lost' \subseteq Token \cup Reset
    BY <1>4, <2>1 DEF RotateRevoke, TypeOK
  <2> QED
    BY <1>4, <2>1, <2>2, <2>3, <2>4
    DEF TypeOK, RotateRevoke, HandlerTyped, RefreshTyped, Resetting
<1>5. ASSUME NEW r \in Request, SaveRefresh(r) PROVE TypeOK'
  <2>1. request[r].user \in users /\ request[r].cred \in Token \cup {NoCred}
    BY <1>5 DEF TypeOK, SaveRefresh
  <2>2. /\ RefreshTyped'
        /\ \A c \in Token :
             refreshTokens'[c].st # "none" => refreshTokens'[c].user \in users
    BY <1>0, <1>5, <2>1, FreshIsToken, InsertEffect DEF TypeOK, SaveRefresh, RefreshTyped
  <2>3. old' \subseteq Token \cup Request /\ cut' \subseteq Token \cup Request
    BY <1>5, FreshIsToken DEF TypeOK, SaveRefresh, Inherit
  <2> QED
    BY <1>0, <1>5, <2>2, <2>3, FinishEffect
    DEF TypeOK, SaveRefresh, HandlerTyped, RefreshTyped, Resetting
<1>6. ASSUME NEW r \in Request, NEW x \in Reset, ResetPassword(r, x) PROVE TypeOK'
  <2>1. /\ "markUsed" \in Place
        /\ resetTokens[x].user \in users
        /\ resetTokens[x].st # "none"
    BY <1>6 DEF Place, Resetting, TypeOK, ResetPassword, GetPasswordResetByHash
  <2> QED
    BY <1>0, <1>6, <2>1, StartEffect
    DEF TypeOK, ResetPassword, Overlap, db, HandlerTyped, Resetting
<1>7. ASSUME NEW r \in Request, MarkUsed(r) PROVE TypeOK'
  <2>1. /\ "updatePassword" \in Place
        /\ request[r].cred \in Reset
        /\ resetTokens[request[r].cred].st # "none"
    BY <1>7 DEF Place, Resetting, TypeOK, MarkUsed
  <2>2. /\ HandlerTyped'
        /\ \A q \in Request :
             /\ request'[q].user = request[q].user
             /\ request'[q].cred = request[q].cred
             /\ request'[q].at = IF q = r THEN "updatePassword" ELSE request[q].at
    BY <1>0, <1>7, <2>1, GotoEffect DEF MarkUsed
  <2>3. /\ ResetTyped'
        /\ \A y \in Reset :
             /\ resetTokens'[y].user = resetTokens[y].user
             /\ resetTokens'[y].st # "none" <=> resetTokens[y].st # "none"
    BY <1>0, <1>7, <2>1, MarkEffect DEF MarkUsed, ResetTyped
  <2>4. lost' \subseteq Token \cup Reset
    BY <1>7, <2>1 DEF MarkUsed, TypeOK
  <2> QED
    BY <1>7, <2>1, <2>2, <2>3, <2>4
    DEF TypeOK, MarkUsed, HandlerTyped, ResetTyped, Resetting
<1>8. ASSUME NEW r \in Request, HashFails(r) PROVE TypeOK'
  BY <1>0, <1>8, FinishEffect
  DEF TypeOK, HashFails, db, hist, HandlerTyped, Resetting
<1>9. ASSUME NEW r \in Request, UpdatePassword(r) PROVE TypeOK'
  <2>1. "revokeAll" \in Place /\ request[r].cred \in Reset
    BY <1>9 DEF Place, Resetting, TypeOK, UpdatePassword
  <2>2. CASE PasswordChanged(r) /\ Goto(r, "revokeAll")
    <3>1. old' \subseteq Token \cup Request /\ cut' \subseteq Token \cup Request
      BY <2>2 DEF TypeOK, PasswordChanged, MadeOld, InFlight
    <3> QED
      BY <1>0, <1>9, <2>1, <2>2, <3>1, GotoEffect, ChangedEffect
      DEF TypeOK, UpdatePassword, HandlerTyped, ResetTyped, Resetting
  <2>3. CASE Finish(r) /\ UNCHANGED <<old, cut, resetTokens>>
    BY <1>0, <1>9, <2>3, FinishEffect
    DEF TypeOK, UpdatePassword, HandlerTyped, Resetting
  <2> QED
    BY <1>9, <2>2, <2>3 DEF UpdatePassword
<1>10. ASSUME NEW r \in Request, ResetRevokeAll(r) PROVE TypeOK'
  <2>1. request[r].user \in users
    BY <1>10 DEF TypeOK, ResetRevokeAll
  <2>2. /\ RefreshTyped'
        /\ \A c \in Token :
             /\ refreshTokens'[c].user = refreshTokens[c].user
             /\ refreshTokens'[c].st # "none" => refreshTokens[c].st # "none"
    BY <1>0, <1>10, RevokeAllEffect DEF ResetRevokeAll, RevokeAllForUser, RefreshTyped
  <2>3. cut' \subseteq Token \cup Request /\ unrevoked' \subseteq User
    BY <1>10, <2>1 DEF TypeOK, ResetRevokeAll, RevokeAllForUser, InFlight
  <2> QED
    BY <1>0, <1>10, <2>2, <2>3, FinishEffect
    DEF TypeOK, ResetRevokeAll, HandlerTyped, RefreshTyped, Resetting
<1>11. ASSUME NEW t \in Token, Logout(t) PROVE TypeOK'
  BY <1>0, <1>11, RevokeTokenEffect DEF TypeOK, Logout, Overlap, RefreshTyped
<1>12. ASSUME NEW t \in Token, ExpireRefresh(t) PROVE TypeOK'
  BY <1>0, <1>12, ExpireRefreshEffect DEF TypeOK, hist, RefreshTyped
<1>13. ASSUME NEW u \in User, LogoutAll(u) PROVE TypeOK'
  BY <1>0, <1>13, RevokeAllEffect
  DEF TypeOK, LogoutAll, RevokeAllForUser, InFlight, RefreshTyped
<1>14. ASSUME NEW u \in User, NEW x \in Reset, ForgotPassword(u, x) PROVE TypeOK'
  BY <1>14 DEF TypeOK, ForgotPassword, GetUserByEmail, hist, ResetRow
<1>15. ASSUME NEW x \in Reset, ExpireReset(x) PROVE TypeOK'
  BY <1>0, <1>15, ExpireResetEffect DEF TypeOK, hist, ResetTyped, Resetting
<1>16. CASE Crash
  BY <1>16 DEF TypeOK, Crash, IsIdle, Idle, Handler, Place, Resetting, db
<1>17. CASE UNCHANGED vars
  BY <1>17 DEF TypeOK, vars
<1> QED
  BY <1>1, <1>2, <1>3, <1>4, <1>5, <1>6, <1>7, <1>8, <1>9, <1>10, <1>11, <1>12,
     <1>13, <1>14, <1>15, <1>16, <1>17 DEF Next, Continue

\* Every state has its types: a handler holds the kind of credential that its
\* next statement needs, and rows and handlers belong to existing users.
THEOREM TypeCorrect == Spec => []TypeOK
<1>1. Init => TypeOK
  BY SessionsAssumption
  DEF Init, TypeOK, NoRefresh, NoReset, Idle, RefreshRow, ResetRow, Handler,
      Place, Issuing, Resetting
<1> QED
  BY <1>1, TypeStep, PTL DEF Spec

-----------------------------------------------------------------------------
(***************************************************************************)
(* Rotation.  What makes ForkNeedsOverlap and LoggedOutStaysOut inductive  *)
(* is what holds of a token while a handler still holds it: between the    *)
(* check and the SaveRefresh that gives it a successor.                    *)
(***************************************************************************)
Holds(r, t) == request[r].at \in Issuing /\ request[r].cred = t
Child(c, t) == refreshTokens[c].from = t

\* A token that a row or a handler refers to has a row.
Referenced ==
  /\ \A c \in Token : refreshTokens[c].st = "none" => refreshTokens[c].from = NoCred
  /\ \A c, t \in Token : Child(c, t) => refreshTokens[t].st # "none"
  /\ \A r \in Request, t \in Token : Holds(r, t) => refreshTokens[t].st # "none"
  /\ \A t \in loggedOut : refreshTokens[t].st = "revoked"

\* A token with a successor, or about to get one, is dead.
Consumed ==
  /\ \A c, t \in Token : Child(c, t) /\ t \notin lost => ~ Live(t)
  /\ \A r \in Request, t \in Token :
       Holds(r, t) /\ request[r].at = "save" /\ t \notin lost => ~ Live(t)

\* Two successors, two holders, or one of each: the token is excused; and so
\* is one that was logged out with a successor or a holder.
Single ==
  /\ \A r, q \in Request, t \in Token :
       r # q /\ Holds(r, t) /\ Holds(q, t) => t \in Excused
  /\ \A r \in Request, c, t \in Token :
       Holds(r, t) /\ Child(c, t) => t \in Excused
  /\ \A a, b, t \in Token :
       a # b /\ Child(a, t) /\ Child(b, t) => t \in Excused
  /\ \A c \in Token, t \in loggedOut : Child(c, t) => t \in Excused
  /\ \A r \in Request, t \in loggedOut : Holds(r, t) => t \in Excused

RotationInv == Referenced /\ Consumed /\ Single

\* The invariant survives steps that change no refresh token and no handler
\* that issues one.
LEMMA RotationFrame ==
  ASSUME RotationInv, UNCHANGED <<refreshTokens, loggedOut>>,
         overlapped \subseteq overlapped', lost \subseteq lost',
         \A r \in Request : request'[r].at \in Issuing => request'[r] = request[r]
  PROVE  RotationInv'
  BY DEF RotationInv, Referenced, Consumed, Single, Holds, Child, Live, Excused

\* It survives every step: one case per action, or group of actions alike.
LEMMA RotationStep == TypeOK /\ RotationInv /\ [Next]_vars => RotationInv'
<1> SUFFICES ASSUME TypeOK, RotationInv, [Next]_vars PROVE RotationInv'
  OBVIOUS
<1> USE SessionsAssumption
<1>0. RefreshTyped /\ ResetTyped /\ HandlerTyped
  BY DEF TypeOK, RefreshTyped, ResetTyped, HandlerTyped
<1>1. ASSUME NEW r \in Request, NEW u \in User, Signup(r, u) \/ Login(r, u)
      PROVE  RotationInv'
  <2>1. "save" \in Place
    BY DEF Place, Issuing
  <2>2. /\ UNCHANGED <<refreshTokens, hist>>
        /\ request'[r].cred = NoCred
        /\ \A q \in Request \ {r} : request'[q] = request[q]
    BY <1>0, <1>1, <2>1, StartEffect DEF Signup, InsertUser, Login, GetUserByEmail, db
  <2>3. UNCHANGED <<refreshTokens, overlapped, lost, loggedOut>>
    BY <2>2 DEF hist
  <2>4. \A q \in Request, t \in Token :
          Holds(q, t)' => Holds(q, t) /\ request'[q] = request[q]
    BY <2>2 DEF Holds
  <2>5. Referenced'
    BY <2>3, <2>4 DEF RotationInv, Referenced, Child
  <2>6. Consumed'
    BY <2>3, <2>4 DEF RotationInv, Consumed, Child, Live
  <2>7. Single'
    BY <2>3, <2>4 DEF RotationInv, Single, Child, Excused, TypeOK
  <2> QED
    BY <2>5, <2>6, <2>7 DEF RotationInv
<1>2. ASSUME NEW r \in Request, NEW t \in Token, Refresh(r, t) PROVE RotationInv'
  <2>1. "revoke" \in Place /\ refreshTokens[t].user \in User
    BY <1>2 DEF Place, Issuing, TypeOK, Refresh, IsValid, Live
  <2>2. /\ request[r].at = "idle"
        /\ request'[r].at = "revoke"
        /\ request'[r].cred = t
        /\ \A q \in Request \ {r} : request'[q] = request[q]
    BY <1>0, <1>2, <2>1, StartEffect DEF Refresh
  <2>3. /\ Live(t)
        /\ UNCHANGED <<refreshTokens, lost, loggedOut>>
        /\ overlapped' = IF Held(t) THEN overlapped \cup {t} ELSE overlapped
    BY <1>2 DEF Refresh, IsValid, Overlap, db
  <2>4. Referenced'
    BY <2>2, <2>3 DEF RotationInv, Referenced, Holds, Child, Live
  <2>5. Consumed'
    BY <2>2, <2>3 DEF RotationInv, Consumed, Holds, Child, Live
  <2>6. \A q \in Request : q # r /\ Holds(q, t) => t \in Excused'
    BY <2>3 DEF RotationInv, Consumed, Holds, Held, Issuing, Excused
  <2>7. \A c \in Token : Child(c, t) => t \in Excused'
    BY <2>3 DEF RotationInv, Consumed, Excused
  <2>8. t \notin loggedOut
    BY <2>3 DEF RotationInv, Referenced, Live
  <2>9. Single'
    BY <2>2, <2>3, <2>6, <2>7, <2>8
    DEF RotationInv, Single, Holds, Child, Excused
  <2> QED
    BY <2>4, <2>5, <2>9 DEF RotationInv
<1>3. ASSUME NEW r \in Request, RotateRevoke(r) PROVE RotationInv'
  <2>1. "save" \in Place /\ request[r].cred \in Token
    BY <1>3 DEF Place, Issuing, TypeOK, RotateRevoke
  <2>2. /\ request[r].at = "revoke"
        /\ \A q \in Request :
             /\ request'[q].cred = request[q].cred
             /\ request'[q].at = IF q = r THEN "save" ELSE request[q].at
    BY <1>0, <1>3, <2>1, GotoEffect DEF RotateRevoke
  <2>3. /\ lost \subseteq lost' /\ UNCHANGED <<overlapped, loggedOut>>
        /\ \A c \in Token :
             /\ refreshTokens'[c].from = refreshTokens[c].from
             /\ \/ refreshTokens'[c].st = refreshTokens[c].st
                \/ refreshTokens[c].st = "live" /\ refreshTokens'[c].st = "revoked"
        /\ \/ request[r].cred \in lost'
           \/ refreshTokens'[request[r].cred].st # "live"
    BY <1>0, <1>3, <2>1, RevokeTokenEffect DEF RotateRevoke
  <2>4. \A q \in Request, t \in Token : Holds(q, t)' <=> Holds(q, t)
    BY <2>2 DEF Holds, Issuing
  <2>5. Referenced'
    BY <2>3, <2>4 DEF RotationInv, Referenced, Child, TypeOK
  <2>6. Consumed'
    BY <2>1, <2>2, <2>3, <2>4 DEF RotationInv, Consumed, Holds, Child, Live
  <2>7. Single'
    BY <2>3, <2>4 DEF RotationInv, Single, Child, Excused, TypeOK
  <2> QED
    BY <2>5, <2>6, <2>7 DEF RotationInv
<1>4. ASSUME NEW r \in Request, SaveRefresh(r) PROVE RotationInv'
  <2>1. /\ request[r].at = "save"
        /\ request[r].user \in User
        /\ request[r].cred \in Token \cup {NoCred}
        /\ UNCHANGED <<overlapped, lost, loggedOut>>
    BY <1>4 DEF TypeOK, SaveRefresh
  <2>2. /\ request'[r].at = "idle"
        /\ \A q \in Request \ {r} : request'[q] = request[q]
    BY <1>0, <1>4, FinishEffect DEF SaveRefresh
  <2>3. ASSUME NEW t \in Token,
               InsertRefreshToken(t, request[r].user, request[r].cred)
        PROVE  RotationInv'
    <3>1. /\ refreshTokens[t].st = "none"
          /\ refreshTokens'[t].st = "live"
          /\ refreshTokens'[t].from = request[r].cred
          /\ \A c \in Token \ {t} : refreshTokens'[c] = refreshTokens[c]
      BY <1>0, <2>1, <2>3, InsertEffect
    <3>2. /\ \A c \in Token : ~ Child(c, t)
          /\ \A q \in Request : ~ Holds(q, t)
          /\ t \notin loggedOut
          /\ refreshTokens[t].from = NoCred
          /\ request[r].cred # t
      BY <2>1, <3>1 DEF RotationInv, Referenced, Holds, Issuing
    <3>3. \A c, p \in Token :
            Child(c, p)' => Child(c, p) \/ (c = t /\ p = request[r].cred)
      BY <3>1 DEF Child
    <3>4. \A q \in Request, p \in Token : Holds(q, p)' => Holds(q, p) /\ q # r
      BY <2>2 DEF Holds, Issuing
    <3>5. \A p \in Token : p = request[r].cred => Holds(r, p)
      BY <2>1 DEF Holds, Issuing
    <3>6. \A p \in Token : p # t => (Live(p)' <=> Live(p))
      BY <3>1 DEF Live
    <3>7. Referenced'
      BY <2>1, <3>1, <3>2, <3>3, <3>4, <3>5
      DEF RotationInv, Referenced, TypeOK
    <3>8. Consumed'
      BY <2>1, <2>2, <3>2, <3>3, <3>4, <3>5, <3>6
      DEF RotationInv, Consumed, Holds
    <3>9. Single'
      BY <2>1, <3>2, <3>3, <3>4, <3>5 DEF RotationInv, Single, Excused, TypeOK
    <3> QED
      BY <3>7, <3>8, <3>9 DEF RotationInv
  <2>4. CASE UNCHANGED refreshTokens
    BY <2>1, <2>2, <2>4, RotationFrame DEF Issuing
  <2> QED
    BY <1>4, <2>3, <2>4, FreshIsToken DEF SaveRefresh
<1>5. ASSUME NEW t \in Token, Logout(t) PROVE RotationInv'
  <2>1. /\ UNCHANGED <<request, lost>>
        /\ \A c \in Token :
             /\ refreshTokens'[c].from = refreshTokens[c].from
             /\ refreshTokens'[c].st =
                  IF c = t /\ refreshTokens[c].st = "live"
                    THEN "revoked" ELSE refreshTokens[c].st
    BY <1>0, <1>5, RevokeTokenEffect DEF Logout
  <2>2. /\ \A q \in Request, p \in Token : Holds(q, p)' <=> Holds(q, p)
        /\ \A c, p \in Token : Child(c, p)' <=> Child(c, p)
        /\ \A p \in Token : Live(p)' => Live(p)
    BY <2>1 DEF Holds, Child, Live
  <2>3. Consumed'
    BY <2>1, <2>2 DEF RotationInv, Consumed
  <2>4. CASE Live(t)
    <3>1. /\ loggedOut' = loggedOut \cup {t}
          /\ overlapped' = IF Held(t) THEN overlapped \cup {t} ELSE overlapped
      BY <1>5, <2>4 DEF Logout, Overlap
    <3>2. \A q \in Request : Holds(q, t) => t \in Excused'
      BY <2>1, <2>4, <3>1 DEF RotationInv, Consumed, Holds, Held, Issuing, Excused
    <3>3. \A c \in Token : Child(c, t) => t \in Excused'
      BY <2>1, <2>4 DEF RotationInv, Consumed, Excused
    <3>4. Referenced'
      BY <2>1, <2>2, <2>4, <3>1 DEF RotationInv, Referenced, Live, TypeOK
    <3>5. Single'
      BY <2>1, <2>2, <3>1, <3>2, <3>3 DEF RotationInv, Single, Excused, TypeOK
    <3> QED
      BY <2>3, <3>4, <3>5 DEF RotationInv
  <2>5. CASE ~ Live(t)
    <3>1. UNCHANGED <<loggedOut, overlapped>>
      BY <1>5, <2>5 DEF Logout
    <3>2. Referenced'
      BY <2>1, <2>2, <2>5, <3>1 DEF RotationInv, Referenced, Live, TypeOK
    <3>3. Single'
      BY <2>1, <2>2, <3>1 DEF RotationInv, Single, Excused, TypeOK
    <3> QED
      BY <2>3, <3>2, <3>3 DEF RotationInv
  <2> QED
    BY <2>4, <2>5
<1>6. ASSUME \/ \E u \in User : LogoutAll(u)
             \/ \E t \in Token : ExpireRefresh(t)
             \/ \E r \in Request : ResetRevokeAll(r)
      PROVE  RotationInv'
  <2>1. /\ \A c \in Token :
             /\ refreshTokens'[c].from = refreshTokens[c].from
             /\ \/ refreshTokens'[c].st = refreshTokens[c].st
                \/ /\ refreshTokens[c].st = "live"
                   /\ refreshTokens'[c].st \in {"revoked", "expired"}
        /\ UNCHANGED <<overlapped, lost, loggedOut>>
    BY <1>0, <1>6, RevokeAllEffect, ExpireRefreshEffect
    DEF LogoutAll, ResetRevokeAll, RevokeAllForUser, hist
  <2>2. \A q \in Request : request'[q].at \in Issuing => request'[q] = request[q]
    BY <1>0, <1>6, FinishEffect, ExpireRefreshEffect
    DEF LogoutAll, ResetRevokeAll, Issuing
  <2>3. /\ \A q \in Request, p \in Token : Holds(q, p)' => Holds(q, p)
        /\ \A c, p \in Token : Child(c, p)' <=> Child(c, p)
        /\ \A p \in Token : Live(p)' => Live(p)
    BY <2>1, <2>2 DEF Holds, Child, Live
  <2>4. Referenced'
    BY <2>1, <2>3 DEF RotationInv, Referenced, Live, TypeOK
  <2>5. Consumed'
    BY <2>1, <2>2, <2>3 DEF RotationInv, Consumed, Holds
  <2>6. Single'
    BY <2>1, <2>3 DEF RotationInv, Single, Excused, TypeOK
  <2> QED
    BY <2>4, <2>5, <2>6 DEF RotationInv
<1>7. ASSUME NEW r \in Request, NEW x \in Reset, ResetPassword(r, x)
      PROVE  RotationInv'
  <2>1. "markUsed" \in Place /\ resetTokens[x].user \in User
    BY <1>7 DEF Place, Resetting, TypeOK, ResetPassword, GetPasswordResetByHash
  <2>2. \A q \in Request : request'[q].at \in Issuing => request'[q] = request[q]
    BY <1>0, <1>7, <2>1, StartEffect DEF ResetPassword, Issuing
  <2> QED
    BY <1>7, <2>2, RotationFrame DEF ResetPassword, Overlap, db
<1>8. ASSUME NEW r \in Request, MarkUsed(r) \/ UpdatePassword(r) \/ HashFails(r)
      PROVE  RotationInv'
  <2>1. "updatePassword" \in Place /\ "revokeAll" \in Place
    BY DEF Place, Resetting
  <2>2. \A q \in Request \ {r} : request'[q] = request[q]
    BY <1>0, <1>8 DEF MarkUsed, UpdatePassword, HashFails, Goto, Finish, HandlerTyped
  <2>3. request'[r].at \notin Issuing
    BY <1>0, <1>8, <2>1, GotoEffect, FinishEffect
    DEF MarkUsed, UpdatePassword, HashFails, Issuing
  <2>4. UNCHANGED <<refreshTokens, loggedOut, overlapped>> /\ lost \subseteq lost'
    BY <1>8 DEF MarkUsed, UpdatePassword, HashFails, db, hist
  <2> QED
    BY <2>2, <2>3, <2>4, RotationFrame
<1>9. ASSUME \/ \E u \in User, x \in Reset : ForgotPassword(u, x)
             \/ \E x \in Reset : ExpireReset(x)
             \/ Crash
             \/ UNCHANGED vars
      PROVE  RotationInv'
  <2>1. \A q \in Request : request'[q].at \in Issuing => request'[q] = request[q]
    BY <1>9 DEF ForgotPassword, GetUserByEmail, ExpireReset, Crash, vars, Idle, Issuing
  <2> QED
    BY <1>9, <2>1, RotationFrame
    DEF ForgotPassword, GetUserByEmail, ExpireReset, Crash, vars, db, hist
<1> QED
  BY <1>1, <1>2, <1>3, <1>4, <1>5, <1>6, <1>7, <1>8, <1>9 DEF Next, Continue

\* Rotation never leaves a rotated token alive, never forks a session and
\* never continues one that was logged out, but for the two cases that the
\* history variables record: handlers that overlap on a token, and a Revoke
\* whose error the handler ignored.
THEOREM RotationSafe ==
  Spec => [](RotationConsumes /\ ForkNeedsOverlap /\ LoggedOutStaysOut)
<1>1. Init => RotationInv
  BY SessionsAssumption
  DEF Init, RotationInv, Referenced, Consumed, Single, Holds, Child, Live,
      NoRefresh, Idle, Issuing
<1>2. TypeOK /\ RotationInv
        => RotationConsumes /\ ForkNeedsOverlap /\ LoggedOutStaysOut
  <2> SUFFICES ASSUME TypeOK, RotationInv
               PROVE  RotationConsumes /\ ForkNeedsOverlap /\ LoggedOutStaysOut
    OBVIOUS
  <2>1. RotationConsumes /\ LoggedOutStaysOut
    BY DEF TypeOK, RotationInv, Consumed, Single, Child, RotationConsumes, LoggedOutStaysOut
  <2>2. ASSUME NEW t \in Token, NEW a \in Successors(t), NEW b \in Successors(t), a # b
        PROVE  t \in Excused
    BY <2>2 DEF RotationInv, Single, Child, Holds, Issuing, Successors
  <2> QED
    BY <2>1, <2>2 DEF ForkNeedsOverlap
<1> QED
  BY <1>1, <1>2, TypeCorrect, RotationStep, PTL DEF Spec

\* A refresh token that was rotated is dead, but for a Revoke that failed.
COROLLARY RotatedIsDead == Spec => []RotationConsumes
  BY RotationSafe, PTL

\* A session that was logged out issues no further token, but for a Logout
\* that ran between IsValid and Revoke of a Refresh.
COROLLARY LoggedOutIsOver == Spec => []LoggedOutStaysOut
  BY RotationSafe, PTL

-----------------------------------------------------------------------------
(***************************************************************************)
(* Password resets.  The same argument: a reset token that changed the     *)
(* password, or is about to, can no longer be found by the SELECT.         *)
(***************************************************************************)
Applies(r, x) == request[r].at \in Resetting /\ request[r].cred = x

ResetConsumed ==
  /\ \A x \in Reset : resetTokens[x].st = "none" => resetTokens[x].uses = 0
  /\ \A x \in Reset : resetTokens[x].uses > 0 /\ x \notin lost => resetTokens[x].st # "fresh"
  /\ \A r \in Request, x \in Reset :
       Applies(r, x) /\ request[r].at = "updatePassword" /\ x \notin lost
         => resetTokens[x].st # "fresh"

ResetSingle ==
  /\ \A r, q \in Request, x \in Reset :
       r # q /\ Applies(r, x) /\ Applies(q, x) => x \in Excused
  /\ \A r \in Request, x \in Reset :
       Applies(r, x) /\ resetTokens[x].uses > 0 => x \in Excused
  /\ \A x \in Reset : resetTokens[x].uses > 1 => x \in Excused

ResetInv == ResetConsumed /\ ResetSingle

\* The invariant survives steps that change no reset token and no handler that
\* applies one.
LEMMA ResetFrame ==
  ASSUME ResetInv, UNCHANGED resetTokens,
         overlapped \subseteq overlapped', lost \subseteq lost',
         \A r \in Request : request'[r].at \in Resetting => request'[r] = request[r]
  PROVE  ResetInv'
  BY DEF ResetInv, ResetConsumed, ResetSingle, Applies, Excused

\* It survives every step.
LEMMA ResetStep == TypeOK /\ ResetInv /\ [Next]_vars => ResetInv'
<1> SUFFICES ASSUME TypeOK, ResetInv, [Next]_vars PROVE ResetInv'
  OBVIOUS
<1> USE SessionsAssumption
<1>0. RefreshTyped /\ ResetTyped /\ HandlerTyped
  BY DEF TypeOK, RefreshTyped, ResetTyped, HandlerTyped
<1>1. ASSUME NEW r \in Request, NEW x \in Reset, ResetPassword(r, x) PROVE ResetInv'
  <2>1. "markUsed" \in Place /\ resetTokens[x].user \in User
    BY <1>1 DEF Place, Resetting, TypeOK, ResetPassword, GetPasswordResetByHash
  <2>2. /\ request[r].at = "idle"
        /\ request'[r].at = "markUsed"
        /\ request'[r].cred = x
        /\ \A q \in Request \ {r} : request'[q] = request[q]
    BY <1>0, <1>1, <2>1, StartEffect DEF ResetPassword
  <2>3. /\ resetTokens[x].st = "fresh"
        /\ UNCHANGED <<resetTokens, lost>>
        /\ overlapped' = IF Held(x) THEN overlapped \cup {x} ELSE overlapped
    BY <1>1 DEF ResetPassword, GetPasswordResetByHash, Overlap, db
  <2>4. ResetConsumed'
    BY <2>2, <2>3 DEF ResetInv, ResetConsumed, Applies
  <2>5. \A q \in Request : q # r /\ Applies(q, x) => x \in Excused'
    BY <2>3 DEF ResetInv, ResetConsumed, Applies, Held, Resetting, Excused
  <2>6. resetTokens[x].uses > 0 => x \in Excused'
    BY <2>3 DEF ResetInv, ResetConsumed, Excused
  <2>7. ResetSingle'
    BY <2>2, <2>3, <2>5, <2>6 DEF ResetInv, ResetSingle, Applies, Excused
  <2> QED
    BY <2>4, <2>7 DEF ResetInv
<1>2. ASSUME NEW r \in Request, MarkUsed(r) PROVE ResetInv'
  <2>1. "updatePassword" \in Place /\ request[r].cred \in Reset
        /\ resetTokens[request[r].cred].st # "none"
    BY <1>2 DEF Place, Resetting, TypeOK, MarkUsed
  <2>2. /\ request[r].at = "markUsed"
        /\ \A q \in Request :
             /\ request'[q].cred = request[q].cred
             /\ request'[q].at = IF q = r THEN "updatePassword" ELSE request[q].at
    BY <1>0, <1>2, <2>1, GotoEffect DEF MarkUsed
  <2>3. /\ lost \subseteq lost' /\ UNCHANGED overlapped
        /\ \A y \in Reset :
             /\ resetTokens'[y].uses = resetTokens[y].uses
             /\ \/ resetTokens'[y].st = resetTokens[y].st
                \/ resetTokens[y].st # "none" /\ resetTokens'[y].st = "used"
        /\ \/ request[r].cred \in lost'
           \/ resetTokens'[request[r].cred].st = "used"
    BY <1>0, <1>2, <2>1, MarkEffect DEF MarkUsed
  <2>4. \A q \in Request, y \in Reset : Applies(q, y)' <=> Applies(q, y)
    BY <2>2 DEF Applies, Resetting
  <2>5. ResetConsumed'
    BY <2>1, <2>2, <2>3, <2>4 DEF ResetInv, ResetConsumed, Applies
  <2>6. ResetSingle'
    BY <2>3, <2>4 DEF ResetInv, ResetSingle, Excused
  <2> QED
    BY <2>5, <2>6 DEF ResetInv
<1>3. ASSUME NEW r \in Request, UpdatePassword(r) PROVE ResetInv'
  <2>1. /\ "revokeAll" \in Place /\ request[r].cred \in Reset
        /\ resetTokens[request[r].cred].st # "none"
        /\ request[r].at = "updatePassword"
        /\ UNCHANGED <<lost, overlapped>>
    BY <1>3 DEF Place, Resetting, TypeOK, UpdatePassword
  <2>2. CASE PasswordChanged(r) /\ Goto(r, "revokeAll")
    <3>0. PICK x \in Reset : x = request[r].cred
      BY <2>1
    <3>1. /\ request'[r].at = "revokeAll"
          /\ \A q \in Request :
               /\ request'[q].cred = request[q].cred
               /\ q # r => request'[q].at = request[q].at
      BY <1>0, <2>1, <2>2, GotoEffect
    <3>2. \A q \in Request, y \in Reset : Applies(q, y)' => Applies(q, y) /\ q # r
      BY <3>1 DEF Applies, Resetting
    <3>3. \A y \in Reset :
            /\ resetTokens'[y].st = resetTokens[y].st
            /\ y # x => resetTokens'[y].uses = resetTokens[y].uses
            /\ resetTokens[y].uses = 0 => resetTokens'[y].uses \in {0, 1}
      BY <1>0, <2>1, <2>2, <3>0, ChangedEffect
    <3>4. Applies(r, x)
      BY <2>1, <3>0 DEF Applies, Resetting
    <3>5. x \notin lost => resetTokens[x].st # "fresh"
      BY <2>1, <3>4 DEF ResetInv, ResetConsumed
    <3>6. resetTokens[x].uses > 0 => x \in Excused
      BY <2>1, <3>4 DEF ResetInv, ResetSingle
    <3>7. \A y \in Reset : resetTokens[y].uses \in 0 .. 2 /\ resetTokens'[y].uses \in 0 .. 2
      BY <1>0, <2>1, <2>2, ChangedEffect DEF ResetTyped, ResetRow
    <3>8. ResetConsumed'
      <4>1. \A y \in Reset : resetTokens'[y].st = "none" => resetTokens'[y].uses = 0
        BY <2>1, <3>0, <3>3 DEF ResetInv, ResetConsumed
      <4>2. \A y \in Reset : resetTokens'[y].uses > 0 /\ y \notin lost'
                            => resetTokens'[y].st # "fresh"
        BY <2>1, <3>3, <3>5 DEF ResetInv, ResetConsumed
      <4>3. \A q \in Request, y \in Reset :
              /\ Applies(q, y)'
              /\ request'[q].at = "updatePassword"
              /\ y \notin lost'
              => resetTokens'[y].st # "fresh"
        BY <2>1, <3>1, <3>2, <3>3 DEF ResetInv, ResetConsumed
      <4> QED
        BY <4>1, <4>2, <4>3 DEF ResetConsumed
    <3>9. ResetSingle'
      <4>1. \A q \in Request : Applies(q, x)' => x \in Excused
        <5> SUFFICES ASSUME NEW q \in Request, Applies(q, x)' PROVE x \in Excused
          OBVIOUS
        <5>1. q # r /\ Applies(q, x)
          BY <2>1, <3>2
        <5> QED
          BY <2>1, <3>4, <5>1 DEF ResetInv, ResetSingle
      <4>2. \A y \in Reset : y \in Excused' <=> y \in Excused
        BY <2>1 DEF Excused
      <4>3. \A q, p \in Request, y \in Reset :
              q # p /\ Applies(q, y)' /\ Applies(p, y)' => y \in Excused'
        BY <3>2, <4>2 DEF ResetInv, ResetSingle
      <4>4. \A q \in Request, y \in Reset :
              Applies(q, y)' /\ resetTokens'[y].uses > 0 => y \in Excused'
        BY <3>2, <3>3, <4>1, <4>2 DEF ResetInv, ResetSingle
      <4>5. \A y \in Reset : resetTokens'[y].uses > 1 => y \in Excused'
        BY <3>3, <3>6, <3>7, <4>2 DEF ResetInv, ResetSingle
      <4> QED
        BY <4>3, <4>4, <4>5 DEF ResetSingle
    <3> QED
      BY <3>8, <3>9 DEF ResetInv
  <2>3. CASE Finish(r) /\ UNCHANGED <<old, cut, resetTokens>>
    BY <1>0, <2>1, <2>3, FinishEffect, ResetFrame DEF Resetting
  <2> QED
    BY <1>3, <2>2, <2>3 DEF UpdatePassword
<1>4. ASSUME NEW u \in User, NEW x \in Reset, ForgotPassword(u, x) PROVE ResetInv'
  <2>1. /\ resetTokens[x].st = "none"
        /\ resetTokens'[x].uses = 0
        /\ resetTokens'[x].st = "fresh"
        /\ \A y \in Reset \ {x} : resetTokens'[y] = resetTokens[y]
        /\ UNCHANGED <<request, overlapped, lost>>
    BY <1>0, <1>4 DEF ForgotPassword, GetUserByEmail, ResetTyped, hist
  <2>2. \A q \in Request, y \in Reset : Applies(q, y)' <=> Applies(q, y)
    BY <2>1 DEF Applies
  <2>3. \A q \in Request : ~ Applies(q, x)
    BY <2>1 DEF Applies, TypeOK
  <2>4. ResetConsumed'
    BY <2>1, <2>2, <2>3 DEF ResetInv, ResetConsumed
  <2>5. ResetSingle'
    BY <2>1, <2>2, <2>3 DEF ResetInv, ResetSingle, Excused
  <2> QED
    BY <2>4, <2>5 DEF ResetInv
<1>5. ASSUME NEW x \in Reset, ExpireReset(x) PROVE ResetInv'
  <2>1. /\ \A y \in Reset :
             /\ resetTokens'[y].uses = resetTokens[y].uses
             /\ resetTokens'[y].st =
                  IF y = x THEN "expired" ELSE resetTokens[y].st
        /\ UNCHANGED <<request, overlapped, lost>>
    BY <1>0, <1>5, ExpireResetEffect DEF hist
  <2> QED
    BY <2>1 DEF ResetInv, ResetConsumed, ResetSingle, Applies, Excused
<1>6. ASSUME NEW r \in Request,
             \/ \E u \in User : Signup(r, u) \/ Login(r, u)
             \/ \E t \in Token : Refresh(r, t)
      PROVE  ResetInv'
  <2>1. "save" \in Place /\ "revoke" \in Place
    BY DEF Place, Issuing
  <2>2. \A t \in Token : Refresh(r, t) => refreshTokens[t].user \in User
    BY DEF TypeOK, Refresh, IsValid, Live
  <2>3. \A q \in Request : request'[q].at \in Resetting => request'[q] = request[q]
    BY <1>0, <1>6, <2>1, <2>2, StartEffect
    DEF Signup, InsertUser, Login, GetUserByEmail, Refresh, Resetting
  <2>4. UNCHANGED <<resetTokens, lost>> /\ overlapped \subseteq overlapped'
    BY <1>6 DEF Signup, InsertUser, Login, GetUserByEmail, Refresh, Overlap, db, hist
  <2> QED
    BY <2>3, <2>4, ResetFrame
<1>7. ASSUME NEW r \in Request,
             RotateRevoke(r) \/ SaveRefresh(r) \/ HashFails(r) \/ ResetRevokeAll(r)
      PROVE  ResetInv'
  <2>1. \A q \in Request \ {r} : request'[q] = request[q]
    BY <1>0, <1>7
    DEF RotateRevoke, SaveRefresh, HashFails, ResetRevokeAll, Goto, Finish,
        HandlerTyped
  <2>2. "save" \in Place
    BY DEF Place, Issuing
  <2>3. request'[r].at \notin Resetting
    BY <1>0, <1>7, <2>2, GotoEffect, FinishEffect
    DEF RotateRevoke, SaveRefresh, HashFails, ResetRevokeAll, Resetting
  <2>4. UNCHANGED <<resetTokens, overlapped>> /\ lost \subseteq lost'
    BY <1>7 DEF RotateRevoke, SaveRefresh, HashFails, ResetRevokeAll, db, hist
  <2> QED
    BY <2>1, <2>3, <2>4, ResetFrame
<1>8. ASSUME \/ \E t \in Token : Logout(t) \/ ExpireRefresh(t)
             \/ \E u \in User : LogoutAll(u)
             \/ Crash
             \/ UNCHANGED vars
      PROVE  ResetInv'
  <2>1. \A q \in Request : request'[q].at \in Resetting => request'[q] = request[q]
    BY <1>8 DEF Logout, ExpireRefresh, LogoutAll, Crash, vars, Idle, Resetting
  <2>2. /\ UNCHANGED <<resetTokens, lost>>
        /\ overlapped \subseteq overlapped'
    BY <1>8 DEF Logout, Overlap, ExpireRefresh, LogoutAll, Crash, vars, db, hist
  <2> QED
    BY <2>1, <2>2, ResetFrame
<1> QED
  BY <1>1, <1>2, <1>3, <1>4, <1>5, <1>6, <1>7, <1>8 DEF Next, Continue

\* A reset token changes the password at most once, but for resets that
\* overlap on it and a MarkPasswordResetUsed whose error was ignored.
THEOREM ResetSafe == Spec => []ResetReuseNeedsOverlap
<1>1. Init => ResetInv
  BY SessionsAssumption
  DEF Init, ResetInv, ResetConsumed, ResetSingle, Applies, NoReset, Idle, Resetting
<1>2. TypeOK /\ ResetInv => ResetReuseNeedsOverlap
  BY DEF TypeOK, ResetRow, ResetInv, ResetSingle, ResetReuseNeedsOverlap
<1> QED
  BY <1>1, <1>2, TypeCorrect, ResetStep, PTL DEF Spec

-----------------------------------------------------------------------------
(***************************************************************************)
(* Sessions of an old password.  OldSessionsExcused is about rows; it is   *)
(* inductive together with the same claim about the requests in flight     *)
(* that will become rows.                                                  *)
(***************************************************************************)
Pardoned(u) == u \in unrevoked \/ RevocationPending(u)

OldInv ==
  /\ \A t \in Token : t \in old => refreshTokens[t].st # "none"
  /\ \A r \in Request : r \in old => request[r].at \in Issuing
  /\ \A t \in Token : Live(t) /\ t \in old \ cut => Pardoned(refreshTokens[t].user)
  /\ \A r \in Request : r \in old \ cut => Pardoned(request[r].user)

\* The invariant survives steps after which there are fewer live rows and
\* requests in flight, and no fewer pardons.
LEMMA OldFrame ==
  ASSUME OldInv, old' \subseteq old, cut \cap old' \subseteq cut',
         \A t \in Token : /\ refreshTokens'[t].user = refreshTokens[t].user
                          /\ Live(t)' => Live(t)
                          /\ refreshTokens'[t].st = "none" => refreshTokens[t].st = "none",
         \A r \in Request : r \in old' =>
            /\ request'[r].at \in Issuing
            /\ request'[r].user = request[r].user,
         \A u \in User \cup {NoUser} : Pardoned(u) => Pardoned(u)',
         RefreshTyped, HandlerTyped
  PROVE  OldInv'
<1>1. /\ \A t \in Token : refreshTokens[t].user \in User \cup {NoUser}
      /\ \A r \in Request : request[r].user \in User \cup {NoUser}
  BY DEF RefreshTyped, RefreshRow, HandlerTyped, Handler
<1> QED
  BY <1>1 DEF OldInv

\* Pardons survive while no revocation succeeds and no handler leaves its own.
LEMMA PardonFrame ==
  ASSUME unrevoked \subseteq unrevoked',
         \A r \in Request : request[r].at = "revokeAll" =>
            \/ request'[r].at = "revokeAll" /\ request'[r].user = request[r].user
            \/ request[r].user \in unrevoked'
  PROVE  \A u \in User \cup {NoUser} : Pardoned(u) => Pardoned(u)'
  BY DEF Pardoned, RevocationPending

\* It survives every step.
LEMMA OldStep == TypeOK /\ OldInv /\ [Next]_vars => OldInv'
<1> SUFFICES ASSUME TypeOK, OldInv, [Next]_vars PROVE OldInv'
  OBVIOUS
<1> USE SessionsAssumption
<1>0. RefreshTyped /\ ResetTyped /\ HandlerTyped
  BY DEF TypeOK, RefreshTyped, ResetTyped, HandlerTyped
<1>1. ASSUME NEW r \in Request, NEW u \in User, Signup(r, u) \/ Login(r, u)
      PROVE  OldInv'
  <2>1. "save" \in Place
    BY DEF Place, Issuing
  <2>2. /\ UNCHANGED <<refreshTokens, old, cut, unrevoked>>
        /\ request[r].at = "idle"
        /\ \A q \in Request \ {r} : request'[q] = request[q]
    BY <1>0, <1>1, <2>1, StartEffect DEF Signup, InsertUser, Login, GetUserByEmail, db, hist
  <2>3. r \notin old
    BY <2>2 DEF OldInv, Issuing
  <2>4. \A v \in User \cup {NoUser} : Pardoned(v) => Pardoned(v)'
    BY <2>2, PardonFrame
  <2> QED
    BY <1>0, <2>2, <2>3, <2>4, OldFrame DEF OldInv, Live
<1>2. ASSUME NEW r \in Request, NEW t \in Token, Refresh(r, t) PROVE OldInv'
  <2>1. "revoke" \in Place /\ refreshTokens[t].user \in User
    BY <1>2 DEF Place, Issuing, TypeOK, Refresh, IsValid, Live
  <2>2. /\ request[r].at = "idle"
        /\ request'[r].at = "revoke"
        /\ request'[r].user = refreshTokens[t].user
        /\ \A q \in Request \ {r} : request'[q] = request[q]
    BY <1>0, <1>2, <2>1, StartEffect DEF Refresh
  <2>3. /\ Live(t)
        /\ UNCHANGED <<refreshTokens, unrevoked>>
        /\ old' = IF t \in old THEN old \cup {r} ELSE old
        /\ cut' = IF t \in cut THEN cut \cup {r} ELSE cut
    BY <1>2 DEF Refresh, IsValid, Inherit, db
  <2>4. r \notin old
    BY <2>2 DEF OldInv, Issuing
  <2>5. \A v \in User \cup {NoUser} : Pardoned(v) => Pardoned(v)'
    BY <2>2, <2>3, PardonFrame
  <2>6. \A c \in Token : refreshTokens[c].user \in User \cup {NoUser}
    BY <1>0 DEF RefreshTyped, RefreshRow
  <2>7. \A q \in Request : request[q].user \in User \cup {NoUser}
    BY <1>0 DEF HandlerTyped, Handler
  <2>8. r \in (old \ cut)' => Pardoned(refreshTokens[t].user)'
    BY <2>1, <2>3, <2>4, <2>5 DEF OldInv
  <2> QED
    BY <2>2, <2>3, <2>5, <2>6, <2>7, <2>8 DEF OldInv, Live, Issuing
<1>3. ASSUME NEW r \in Request, RotateRevoke(r) PROVE OldInv'
  <2>1. "save" \in Place /\ request[r].cred \in Token
    BY <1>3 DEF Place, Issuing, TypeOK, RotateRevoke
  <2>2. /\ request[r].at = "revoke"
        /\ \A q \in Request :
             /\ request'[q].user = request[q].user
             /\ request'[q].at = IF q = r THEN "save" ELSE request[q].at
    BY <1>0, <1>3, <2>1, GotoEffect DEF RotateRevoke
  <2>3. /\ UNCHANGED <<old, cut, unrevoked>>
        /\ \A c \in Token :
             /\ refreshTokens'[c].user = refreshTokens[c].user
             /\ \/ refreshTokens'[c].st = refreshTokens[c].st
                \/ refreshTokens[c].st = "live" /\ refreshTokens'[c].st = "revoked"
    BY <1>0, <1>3, <2>1, RevokeTokenEffect DEF RotateRevoke
  <2>4. \A v \in User \cup {NoUser} : Pardoned(v) => Pardoned(v)'
    BY <2>2, <2>3, PardonFrame
  <2>5. \A q \in Request : q \in old => request'[q].at \in Issuing
    BY <2>2 DEF OldInv, Issuing
  <2> QED
    BY <1>0, <2>2, <2>3, <2>4, <2>5, OldFrame DEF Live
<1>4. ASSUME NEW r \in Request, SaveRefresh(r) PROVE OldInv'
  <2>1. /\ request[r].at = "save"
        /\ request[r].user \in User
        /\ request[r].cred \in Token \cup {NoCred}
        /\ UNCHANGED unrevoked
    BY <1>4 DEF TypeOK, SaveRefresh
  <2>2. \A q \in Request \ {r} : request'[q] = request[q]
    BY <1>0, <1>4, FinishEffect DEF SaveRefresh
  <2>3. \A v \in User \cup {NoUser} : Pardoned(v) => Pardoned(v)'
    BY <2>1, <2>2, PardonFrame
  <2>4. ASSUME NEW t \in Token,
               InsertRefreshToken(t, request[r].user, request[r].cred),
               old' = Inherit(old, r, t) \ {r}, cut' = Inherit(cut, r, t) \ {r}
        PROVE  OldInv'
    <3>1. /\ refreshTokens[t].st = "none"
          /\ refreshTokens'[t].st = "live"
          /\ refreshTokens'[t].user = request[r].user
          /\ \A c \in Token \ {t} : refreshTokens'[c] = refreshTokens[c]
      BY <1>0, <2>1, <2>4, InsertEffect
    <3>2. t \notin old
      BY <3>1 DEF OldInv
    <3>3. /\ \A c \in Token : refreshTokens[c].user \in User \cup {NoUser}
          /\ \A q \in Request : request[q].user \in User \cup {NoUser}
      BY <1>0 DEF RefreshTyped, RefreshRow, HandlerTyped, Handler
    <3>4. t # r /\ \A c \in Token : c # r /\ \A q \in Request : q # t
      OBVIOUS
    <3>5. /\ \A c \in Token \ {t} :
               (c \in old' <=> c \in old) /\ (c \in cut' <=> c \in cut)
          /\ \A q \in Request \ {r} :
               (q \in old' <=> q \in old) /\ (q \in cut' <=> q \in cut)
          /\ r \notin old'
          /\ t \in old' => r \in old
          /\ t \in old' \ cut' => r \in old \ cut
      BY <2>4, <3>2, <3>4 DEF Inherit
    <3>6. PICK u \in User : u = request[r].user
      BY <2>1
    <3>7. t \in old' \ cut' => Pardoned(u)'
      BY <2>3, <3>5, <3>6 DEF OldInv
    <3> QED
      BY <2>2, <2>3, <3>1, <3>3, <3>5, <3>6, <3>7 DEF OldInv, Live
  <2>5. CASE UNCHANGED refreshTokens /\ old' = old \ {r} /\ cut' = cut \ {r}
    BY <1>0, <2>2, <2>3, <2>5, OldFrame DEF OldInv, Live
  <2> QED
    BY <1>4, <2>4, <2>5, FreshIsToken DEF SaveRefresh
<1>5. ASSUME NEW t \in Token, Logout(t) \/ ExpireRefresh(t) PROVE OldInv'
  <2>1. /\ UNCHANGED <<request, old, cut, unrevoked>>
        /\ \A c \in Token :
             /\ refreshTokens'[c].user = refreshTokens[c].user
             /\ \/ refreshTokens'[c].st = refreshTokens[c].st
                \/ refreshTokens'[c].st \in {"revoked", "expired"}
    BY <1>0, <1>5, RevokeTokenEffect, ExpireRefreshEffect DEF Logout, hist
  <2>2. \A v \in User \cup {NoUser} : Pardoned(v) => Pardoned(v)'
    BY <2>1, PardonFrame
  <2> QED
    BY <1>0, <2>1, <2>2, OldFrame DEF OldInv, Live
<1>6. ASSUME NEW u \in User, RevokeAllForUser(u), UNCHANGED old,
             \A q \in Request : q \in old => request'[q] = request[q],
             \A q \in Request : request[q].at = "revokeAll" /\ request[q].user # u
                                  => request'[q] = request[q]
      PROVE  OldInv'
  <2>1. /\ cut' = cut \cup (InFlight(u) \cap old)
        /\ unrevoked' = unrevoked \ {u}
        /\ \A c \in Token :
             /\ refreshTokens'[c].user = refreshTokens[c].user
             /\ refreshTokens'[c].st =
                  IF refreshTokens[c].user = u /\ refreshTokens[c].st = "live"
                    THEN "revoked" ELSE refreshTokens[c].st
    BY <1>0, <1>6, RevokeAllEffect DEF RevokeAllForUser
  <2>2. \A v \in User \cup {NoUser} : v # u /\ Pardoned(v) => Pardoned(v)'
    BY <1>6, <2>1 DEF Pardoned, RevocationPending
  <2>3. /\ \A c \in Token : refreshTokens[c].user \in User \cup {NoUser}
        /\ \A q \in Request : request[q].user \in User \cup {NoUser}
    BY <1>0 DEF RefreshTyped, RefreshRow, HandlerTyped, Handler
  <2>4. \A c \in Token : Live(c)' => Live(c) /\ refreshTokens[c].user # u
    BY <2>1 DEF Live
  <2>5. \A q \in Request : q \in old \ cut' => request[q].user # u
    BY <2>1 DEF OldInv, InFlight
  <2> QED
    BY <1>6, <2>1, <2>2, <2>3, <2>4, <2>5 DEF OldInv
<1>7. ASSUME NEW u \in User, LogoutAll(u) PROVE OldInv'
  BY <1>6, <1>7 DEF LogoutAll
<1>8. ASSUME NEW r \in Request, ResetRevokeAll(r) PROVE OldInv'
  <2>1. /\ request[r].user \in User
        /\ r \notin old
        /\ UNCHANGED old
        /\ \A q \in Request \ {r} : request'[q] = request[q]
    BY <1>0, <1>8, FinishEffect DEF ResetRevokeAll, TypeOK, OldInv, Issuing
  <2>2. CASE RevokeAllForUser(request[r].user)
    BY <1>6, <2>1, <2>2
  <2>3. CASE /\ unrevoked' = unrevoked \cup {request[r].user}
             /\ UNCHANGED <<refreshTokens, cut>>
    <3>1. \A v \in User \cup {NoUser} : Pardoned(v) => Pardoned(v)'
      BY <2>1, <2>3, PardonFrame
    <3> QED
      BY <1>0, <2>1, <2>3, <3>1, OldFrame DEF OldInv, Live
  <2> QED
    BY <1>8, <2>2, <2>3 DEF ResetRevokeAll
<1>9. ASSUME NEW r \in Request, UpdatePassword(r) PROVE OldInv'
  <2>1. /\ request[r].at = "updatePassword"
        /\ r \notin old
        /\ UNCHANGED <<refreshTokens, unrevoked>>
        /\ "revokeAll" \in Place
    BY <1>9 DEF UpdatePassword, OldInv, Issuing, Place
  <2>2. CASE PasswordChanged(r) /\ Goto(r, "revokeAll")
    <3>1. /\ request'[r].at = "revokeAll"
          /\ \A q \in Request :
               /\ request'[q].user = request[q].user
               /\ q # r => request'[q].at = request[q].at
      BY <1>0, <2>1, <2>2, GotoEffect
    <3>2. PICK u : u = request[r].user
      OBVIOUS
    <3>3. old' = old \cup MadeOld(u) /\ cut' = cut \ MadeOld(u)
      BY <2>2, <3>2 DEF PasswordChanged
    <3>4. Pardoned(u)'
      BY <3>1, <3>2 DEF Pardoned, RevocationPending
    <3>5. \A v \in User \cup {NoUser} : Pardoned(v) => Pardoned(v)'
      BY <2>1, <3>1, PardonFrame
    <3>6. \A t \in Token : t \in MadeOld(u) => Live(t) /\ refreshTokens[t].user = u
      BY DEF MadeOld, InFlight
    <3>7. \A q \in Request :
            q \in MadeOld(u) => request[q].at \in Issuing /\ request[q].user = u
      BY DEF MadeOld, InFlight
    <3>8. /\ \A c \in Token : refreshTokens[c].user \in User \cup {NoUser}
          /\ \A q \in Request : request[q].user \in User \cup {NoUser}
      BY <1>0 DEF RefreshTyped, RefreshRow, HandlerTyped, Handler
    <3>9. \A q \in Request : q \in old' => q # r /\ request[q].at \in Issuing
      BY <2>1, <3>3, <3>7 DEF OldInv, Issuing
    <3> QED
      BY <2>1, <3>1, <3>3, <3>4, <3>5, <3>6, <3>7, <3>8, <3>9 DEF OldInv, Live
  <2>3. CASE Finish(r) /\ UNCHANGED <<old, cut, resetTokens>>
    <3>1. \A q \in Request \ {r} : request'[q] = request[q]
      BY <1>0, <2>3, FinishEffect
    <3>2. \A v \in User \cup {NoUser} : Pardoned(v) => Pardoned(v)'
      BY <2>1, <3>1, PardonFrame
    <3> QED
      BY <1>0, <2>1, <2>3, <3>1, <3>2, OldFrame DEF OldInv, Live
  <2> QED
    BY <1>9, <2>2, <2>3 DEF UpdatePassword
<1>10. ASSUME NEW r \in Request,
              \/ \E x \in Reset : ResetPassword(r, x)
              \/ MarkUsed(r) \/ HashFails(r)
       PROVE  OldInv'
  <2>1. \A q \in Request \ {r} : request'[q] = request[q]
    BY <1>0, <1>10 DEF ResetPassword, MarkUsed, HashFails, Start, Goto, Finish,
                       HandlerTyped
  <2>2. request[r].at \notin Issuing \cup {"revokeAll"}
    BY <1>10 DEF ResetPassword, MarkUsed, HashFails, Start, IsIdle, Issuing
  <2>3. UNCHANGED <<refreshTokens, old, cut, unrevoked>>
    BY <1>10 DEF ResetPassword, MarkUsed, HashFails, db, hist
  <2>4. \A v \in User \cup {NoUser} : Pardoned(v) => Pardoned(v)'
    BY <2>1, <2>2, <2>3, PardonFrame
  <2>5. r \notin old
    BY <2>2 DEF OldInv
  <2> QED
    BY <1>0, <2>1, <2>3, <2>4, <2>5, OldFrame DEF OldInv, Live
<1>11. CASE Crash
  <2>1. /\ old' = old \ Request /\ cut' = cut \ Request
        /\ UNCHANGED refreshTokens
        /\ unrevoked \subseteq unrevoked'
        /\ \A q \in Request : request[q].at = "revokeAll" => request[q].user \in unrevoked'
    BY <1>11 DEF Crash, db
  <2>2. \A v \in User \cup {NoUser} : Pardoned(v) => Pardoned(v)'
    BY <2>1, PardonFrame
  <2> QED
    BY <1>0, <2>1, <2>2, OldFrame DEF Live
<1>12. ASSUME \/ \E u \in User, x \in Reset : ForgotPassword(u, x)
              \/ \E x \in Reset : ExpireReset(x)
              \/ UNCHANGED vars
       PROVE  OldInv'
  <2>1. UNCHANGED <<refreshTokens, request, old, cut, unrevoked>>
    BY <1>12 DEF ForgotPassword, GetUserByEmail, ExpireReset, vars, hist
  <2> QED
    BY <2>1 DEF OldInv, Live, Pardoned, RevocationPending
<1> QED
  BY <1>1, <1>2, <1>3, <1>4, <1>5, <1>7, <1>8, <1>9, <1>10, <1>11, <1>12
  DEF Next, Continue

\* After a password change no session of the old password lives on, except
\* while the revocation is still to come, after it was lost to a failed
\* statement or a crash, or when it was in flight during the revocation.
THEOREM OldSessionsSafe == Spec => []OldSessionsExcused
<1>1. Init => OldInv
  BY SessionsAssumption DEF Init, OldInv
<1>2. OldInv => OldSessionsExcused
  BY DEF OldInv, OldSessionsExcused, OldSession, Pardoned
<1> QED
  BY <1>1, <1>2, TypeCorrect, OldStep, PTL DEF Spec
=============================================================================
