------------------------------ MODULE Sessions ------------------------------
(***************************************************************************)
(* Sign-in, refresh and sign-out: services/auth.py over user_sessions, and *)
(* the access epoch and denylist in Redis (core/token_denylist.py).        *)
(*                                                                         *)
(* A request is served by a worker in one or more database transactions.   *)
(* Where a transaction holds a lock that another may wait for, it takes    *)
(* several steps here: an UPDATE sees the rows committed when it started   *)
(* and waits for those another transaction has changed.                    *)
(***************************************************************************)
EXTENDS Naturals, FiniteSets

CONSTANTS Users, Sessions, Workers,
          None,
          Events       \* bound: sign-outs, resets, pre-auth tokens, accounts
                       \* switched on or off, expiries, Redis going away,
                       \* workers dying, all together

ASSUME SessionsAssumption ==
  /\ None \notin Sessions /\ None \notin Users
  /\ Events \in Nat

VARIABLES
  user,      \* users: active, the number of the current password
  row,       \* user_sessions, with what the row's access token carries
  job,       \* what each worker is doing
  preauth,   \* pre-auth tokens handed out: <<user, password that was checked>>
  epoch,     \* Redis: access epoch per user
  denied,    \* Redis: denylisted access tokens, named by their session
  redis,     \* is Redis reachable
  closed,    \* history: families that a committed revocation ended
  outrun,    \* history: families a refresh took past a revocation
  cut,       \* history: access tokens minted before a successful bump
  budget     \* what is left of Events

vars == <<user, row, job, preauth, epoch, denied, redis, closed, outrun, cut,
          budget>>

-----------------------------------------------------------------------------
Rows == [issued : BOOLEAN, rotated : BOOLEAN, revoked : BOOLEAN,
         expired : BOOLEAN, user : Users \union {None},
         family : Sessions \union {None}, password : Nat, stamp : Nat,
         second : BOOLEAN]

NoRow == [issued |-> FALSE, rotated |-> FALSE, revoked |-> FALSE,
          expired |-> FALSE, user |-> None, family |-> None, password |-> 0,
          stamp |-> 0, second |-> FALSE]

Revocations == {"reuse_detected", "user_inactive", "logout", "logout_all",
                "password_reset"}

Ops == {"none", "login", "login_mfa", "refresh"} \union Revocations

Stages == {"idle", "opened", "looked", "rotated",
           "revoke", "snapshot", "holding", "bumped"}

Jobs == [op : Ops, stage : Stages, user : Users \union {None},
         at : Sessions \union {None},   \* the session presented
         new : Sessions \union {None},  \* the row inserted and not committed
         password : Nat, stamp : Nat,
         seen : SUBSET Sessions,        \* rows of the UPDATE's snapshot
         late : SUBSET Sessions]        \* history: families refreshed since

Idle == [op |-> "none", stage |-> "idle", user |-> None, at |-> None,
         new |-> None, password |-> 0, stamp |-> 0, seen |-> {}, late |-> {}]

Init ==
  /\ user = [u \in Users |-> [active |-> TRUE, password |-> 0]]
  /\ row = [s \in Sessions |-> NoRow]
  /\ job = [w \in Workers |-> Idle]
  /\ preauth = {}
  /\ epoch = [u \in Users |-> 0]
  /\ denied = {} /\ redis = TRUE
  /\ closed = {} /\ outrun = {} /\ cut = {}
  /\ budget = Events

-----------------------------------------------------------------------------
(* What requests ask of a row, a token and a lock. *)

Usable(s) ==
  row[s].issued /\ ~row[s].rotated /\ ~row[s].revoked /\ ~row[s].expired

(* Mutant: a token one epoch behind passes. *)
AcceptedOneBehind(s) ==
  /\ row[s].issued
  /\ redis => s \notin denied /\ row[s].stamp + 1 >= epoch[row[s].user]
  /\ user[row[s].user].active

(* An access token passes get_current_principal; with Redis away both checks *)
(* fail open. *)
Accepted(s) ==
  /\ row[s].issued
  /\ redis => s \notin denied /\ row[s].stamp >= epoch[row[s].user]
  /\ user[row[s].user].active

(* get_user_access_epoch, read when a token is minted. *)
AccessEpoch(u) == IF redis THEN epoch[u] ELSE 0

Fresh(s) == ~row[s].issued /\ \A w \in Workers : job[w].new # s

(* Mutant: the reset does not hold the user's row. *)
UserHeldByLogin(u) == \E w \in Workers : job[w].user = u /\ job[w].op = "login"

(* login and confirm_password_reset hold the user's row until they commit. *)
UserHeld(u) == \E w \in Workers :
  job[w].user = u /\ job[w].op \in {"login", "password_reset"}

RowHeld(s) == \E w \in Workers :
  \/ job[w].stage = "rotated" /\ job[w].at = s
  \/ job[w].stage \in {"holding", "bumped"} /\ s \in job[w].seen

IsIdle(w) == job[w].stage = "idle"

Event == budget > 0 /\ budget' = budget - 1

-----------------------------------------------------------------------------
(* Sign-in. *)

Opening(w, op, u, s, p) ==
  job' = [job EXCEPT ![w] = [Idle EXCEPT !.op = op, !.stage = "opened",
            !.user = u, !.new = s, !.password = p, !.stamp = AccessEpoch(u)]]

(* login of an account without a second factor: the user's row stays locked. *)
LogIn(w, u, s) ==
  /\ IsIdle(w) /\ Fresh(s) /\ ~UserHeld(u) /\ user[u].active
  /\ Opening(w, "login", u, s, user[u].password)
  /\ UNCHANGED <<user, row, preauth, epoch, denied, redis, closed, outrun, cut, budget>>

(* login of an account with one: no session yet, but a signed proof that the *)
(* password was right. *)
AskSecondFactor(u) ==
  /\ ~UserHeld(u) /\ user[u].active /\ Event
  /\ preauth' = preauth \union {<<u, user[u].password>>}
  /\ UNCHANGED <<user, row, job, epoch, denied, redis, closed, outrun, cut>>

(* login_mfa after the code was verified: reads the user, locks nothing. *)
LogInSecond(w, u, p, s) ==
  /\ IsIdle(w) /\ Fresh(s) /\ <<u, p>> \in preauth /\ user[u].active
  /\ Opening(w, "login_mfa", u, s, p)
  /\ UNCHANGED <<user, row, preauth, epoch, denied, redis, closed, outrun, cut, budget>>

(* The row _issue_session inserted becomes visible. *)
NewRow(w, family) ==
  [NoRow EXCEPT !.issued = TRUE, !.user = job[w].user, !.family = family,
     !.password = job[w].password, !.stamp = job[w].stamp,
     !.second = job[w].op = "login_mfa"]

OpenCommits(w) ==
  /\ job[w].stage = "opened"
  /\ row' = [row EXCEPT ![job[w].new] = NewRow(w, job[w].new)]
  /\ job' = [job EXCEPT ![w] = Idle]
  /\ UNCHANGED <<user, preauth, epoch, denied, redis, closed, outrun, cut, budget>>

-----------------------------------------------------------------------------
(* refresh.  Any token ever handed out may be presented: a client whose      *)
(* answer was lost presents the old one again. *)

RefreshLooksUp(w, s) ==
  /\ IsIdle(w) /\ Usable(s)
  /\ job' = [job EXCEPT ![w] = [Idle EXCEPT !.op = "refresh", !.stage = "looked",
                                  !.user = row[s].user, !.at = s]]
  /\ UNCHANGED <<user, row, preauth, epoch, denied, redis, closed, outrun, cut, budget>>

RefreshFindsReuse(w, s) ==
  /\ IsIdle(w) /\ row[s].issued /\ row[s].rotated
  /\ job' = [job EXCEPT ![w] = [Idle EXCEPT !.op = "reuse_detected", !.stage = "revoke",
                                  !.user = row[s].user, !.at = s]]
  /\ UNCHANGED <<user, row, preauth, epoch, denied, redis, closed, outrun, cut, budget>>

(* Mutant: an UPDATE that asks nothing again. *)
RefreshRotatesAnyway(w, s) ==
  LET old == row[job[w].at] IN
  /\ job[w].stage = "looked" /\ ~RowHeld(job[w].at)
  /\ user[job[w].user].active /\ Fresh(s)
  /\ job' = [job EXCEPT ![w] = [job[w] EXCEPT !.stage = "rotated", !.new = s,
               !.password = old.password, !.stamp = AccessEpoch(job[w].user)]]
  /\ UNCHANGED <<user, row, preauth, epoch, denied, redis, closed, outrun, cut, budget>>

(* UPDATE .. WHERE rotated_at IS NULL AND revoked_at IS NULL, then the       *)
(* successor's row and its access token, not yet committed. *)
RefreshRotates(w, s) ==
  LET old == row[job[w].at] IN
  /\ job[w].stage = "looked" /\ ~RowHeld(job[w].at) /\ Usable(job[w].at)
  /\ user[job[w].user].active /\ Fresh(s)
  /\ job' = [job EXCEPT ![w] = [job[w] EXCEPT !.stage = "rotated", !.new = s,
               !.password = old.password, !.stamp = AccessEpoch(job[w].user)]]
  /\ UNCHANGED <<user, row, preauth, epoch, denied, redis, closed, outrun, cut, budget>>

(* The conditional UPDATE found nothing: not treated as theft. *)
RefreshLoses(w) ==
  /\ job[w].stage = "looked" /\ ~RowHeld(job[w].at) /\ ~Usable(job[w].at)
  /\ job' = [job EXCEPT ![w] = Idle]
  /\ UNCHANGED <<user, row, preauth, epoch, denied, redis, closed, outrun, cut, budget>>

(* The rotation is rolled back and the family dies instead. *)
RefreshOfInactive(w) ==
  /\ job[w].stage = "looked" /\ ~RowHeld(job[w].at) /\ Usable(job[w].at)
  /\ ~user[job[w].user].active
  /\ job' = [job EXCEPT ![w] = [job[w] EXCEPT !.op = "user_inactive", !.stage = "revoke"]]
  /\ UNCHANGED <<user, row, preauth, epoch, denied, redis, closed, outrun, cut, budget>>

RefreshCommits(w) ==
  /\ job[w].stage = "rotated"
  /\ row' = [row EXCEPT ![job[w].at] = [row[job[w].at] EXCEPT !.rotated = TRUE],
                        ![job[w].new] = [NewRow(w, row[job[w].at].family)
                                           EXCEPT !.second = row[job[w].at].second]]
  /\ job' = [v \in Workers |->
               IF v = w THEN Idle
               ELSE IF job[v].stage = "snapshot" /\ job[w].at \in job[v].seen
               THEN [job[v] EXCEPT !.late = job[v].late \union {row[job[w].at].family}]
               ELSE job[v]]
  /\ UNCHANGED <<user, preauth, epoch, denied, redis, closed, outrun, cut, budget>>

-----------------------------------------------------------------------------
(* Revocation: one UPDATE over a family or over all sessions of a user. *)

(* logout: the caller's own access token is denylisted before anything else. *)
LogOut(w, s, op) ==
  /\ IsIdle(w) /\ Accepted(s) /\ op \in {"logout", "logout_all"} /\ Event
  /\ denied' = IF redis THEN denied \union {s} ELSE denied
  /\ job' = [job EXCEPT ![w] = [Idle EXCEPT !.op = op, !.stage = "revoke",
                                  !.user = row[s].user, !.at = s]]
  /\ UNCHANGED <<user, row, preauth, epoch, redis, closed, outrun, cut>>

(* confirm_password_reset up to UPDATE users: the user's row is locked, the  *)
(* new password shows at the commit. *)
ResetPassword(w, u) ==
  /\ IsIdle(w) /\ ~UserHeld(u) /\ Event
  /\ job' = [job EXCEPT ![w] = [Idle EXCEPT !.op = "password_reset", !.stage = "revoke",
                                  !.user = u]]
  /\ UNCHANGED <<user, row, preauth, epoch, denied, redis, closed, outrun, cut>>

(* WHERE family_id = :fid, or WHERE user_id = :uid, AND revoked_at IS NULL. *)
Matching(w) ==
  {s \in Sessions :
     /\ row[s].issued /\ ~row[s].revoked
     /\ IF job[w].op \in {"logout_all", "password_reset"}
          THEN row[s].user = job[w].user
          ELSE row[s].family = row[job[w].at].family}

StatementStarts(w) ==
  /\ job[w].stage = "revoke"
  /\ job' = [job EXCEPT ![w] = [job[w] EXCEPT !.stage = "snapshot",
                                  !.seen = Matching(w)]]
  /\ UNCHANGED <<user, row, preauth, epoch, denied, redis, closed, outrun, cut, budget>>

(* It waits for rows others hold, asks again whether they match, and holds   *)
(* them; rows committed since its snapshot it does not see. *)
StatementEnds(w) ==
  /\ job[w].stage = "snapshot"
  /\ \A s \in job[w].seen : ~RowHeld(s)
  /\ job' = [job EXCEPT ![w] = [job[w] EXCEPT !.stage = "holding",
                                  !.seen = {s \in job[w].seen : ~row[s].revoked}]]
  /\ UNCHANGED <<user, row, preauth, epoch, denied, redis, closed, outrun, cut, budget>>

(* INCR in Redis, after the UPDATE and before the commit. *)
BumpEpoch(w) ==
  LET u == job[w].user IN
  /\ job[w].stage = "holding" /\ job[w].op = "logout_all"
  /\ job' = [job EXCEPT ![w] = [job[w] EXCEPT !.stage = "bumped"]]
  /\ IF redis
       THEN /\ epoch' = [epoch EXCEPT ![u] = epoch[u] + 1]
            /\ cut' = cut \union
                 {s \in Sessions : row[s].issued /\ row[s].user = u} \union
                 {s \in Sessions : \E v \in Workers : job[v].new = s /\ job[v].user = u}
       ELSE UNCHANGED <<epoch, cut>>
  /\ UNCHANGED <<user, row, preauth, denied, redis, closed, outrun, budget>>

RevocationCommits(w) ==
  LET u == job[w].user
      families == {row[s].family : s \in job[w].seen} IN
  /\ job[w].stage = IF job[w].op = "logout_all" THEN "bumped" ELSE "holding"
  /\ row' = [s \in Sessions |->
               IF s \in job[w].seen THEN [row[s] EXCEPT !.revoked = TRUE] ELSE row[s]]
  /\ user' = IF job[w].op = "password_reset"
               THEN [user EXCEPT ![u] = [user[u] EXCEPT !.password = user[u].password + 1]]
               ELSE user
  /\ closed' = closed \union (families \ job[w].late)
  /\ outrun' = outrun \union (job[w].late \intersect families)
  /\ job' = [job EXCEPT ![w] = Idle]
  /\ UNCHANGED <<preauth, epoch, denied, redis, cut, budget>>

-----------------------------------------------------------------------------
(* The rest of the world. *)

(* PATCH /users/{id} is_active: no session is touched. *)
SetActive(u) ==
  /\ ~UserHeld(u) /\ Event
  /\ user' = [user EXCEPT ![u] = [user[u] EXCEPT !.active = ~user[u].active]]
  /\ UNCHANGED <<row, job, preauth, epoch, denied, redis, closed, outrun, cut>>

(* expires_at passes.  The UPDATE of a refresh has settled that question for *)
(* the row it holds. *)
Expires(s) ==
  /\ Usable(s) /\ ~RowHeld(s) /\ Event
  /\ row' = [row EXCEPT ![s] = [row[s] EXCEPT !.expired = TRUE]]
  /\ UNCHANGED <<user, job, preauth, epoch, denied, redis, closed, outrun, cut>>

RedisGoesAway ==
  /\ redis /\ Event
  /\ redis' = FALSE
  /\ UNCHANGED <<user, row, job, preauth, epoch, denied, closed, outrun, cut>>

RedisReturns ==
  /\ ~redis /\ redis' = TRUE
  /\ UNCHANGED <<user, row, job, preauth, epoch, denied, closed, outrun, cut, budget>>

(* The transaction is rolled back; what went to Redis stays.  A token that   *)
(* was not handed out is not counted. *)
WorkerDies(w) ==
  /\ ~IsIdle(w) /\ Event
  /\ job' = [job EXCEPT ![w] = Idle]
  /\ cut' = cut \ {job[w].new}
  /\ UNCHANGED <<user, row, preauth, epoch, denied, redis, closed, outrun>>

Next ==
  \/ \E w \in Workers, u \in Users, s \in Sessions : LogIn(w, u, s)
  \/ \E u \in Users : AskSecondFactor(u)
  \/ \E w \in Workers, pair \in preauth, s \in Sessions :
       LogInSecond(w, pair[1], pair[2], s)
  \/ \E w \in Workers, s \in Sessions :
       \/ RefreshLooksUp(w, s) \/ RefreshFindsReuse(w, s) \/ RefreshRotates(w, s)
  \/ \E w \in Workers, s \in Sessions, op \in Revocations : LogOut(w, s, op)
  \/ \E w \in Workers :
       \/ OpenCommits(w) \/ RefreshLoses(w) \/ RefreshOfInactive(w)
       \/ RefreshCommits(w) \/ StatementStarts(w) \/ StatementEnds(w)
       \/ BumpEpoch(w) \/ RevocationCommits(w) \/ WorkerDies(w)
  \/ \E w \in Workers, u \in Users : ResetPassword(w, u)
  \/ \E u \in Users : SetActive(u)
  \/ \E s \in Sessions : Expires(s)
  \/ RedisGoesAway
  \/ RedisReturns

Spec == Init /\ [][Next]_vars

-----------------------------------------------------------------------------
(* Types of the tables, the tokens and the requests in progress; an issued   *)
(* row names its user and its family. *)
TypeOK ==
  /\ user \in [Users -> [active : BOOLEAN, password : Nat]]
  /\ row \in [Sessions -> Rows]
  /\ \A s \in Sessions : row[s].issued => row[s].user \in Users /\ row[s].family \in Sessions
  /\ job \in [Workers -> Jobs]
  /\ preauth \subseteq Users \X Nat
  /\ epoch \in [Users -> Nat]
  /\ denied \subseteq Sessions /\ redis \in BOOLEAN
  /\ closed \subseteq Sessions /\ outrun \subseteq Sessions /\ cut \subseteq Sessions
  /\ budget \in Nat

(* "Concurrent use of the same token yields exactly one new pair": however   *)
(* requests overlap, a family has one row that was not exchanged.  The       *)
(* conditional UPDATE of refresh. *)
OneSuccessor ==
  \A s, t \in Sessions :
    /\ row[s].issued /\ ~row[s].rotated
    /\ row[t].issued /\ ~row[t].rotated
    /\ row[s].family = row[t].family
    => s = t

(* A family that a sign-out, a reset or detected reuse ended has no usable   *)
(* refresh token from then on, whatever requests were half way through it;   *)
(* the one exception are families a refresh took past the UPDATE. *)
ClosedStaysClosed == \A s \in Sessions : Usable(s) => row[s].family \notin closed

(* "A password change must invalidate every existing session": a session     *)
(* opened with an older password is of no use, unless a refresh outran the   *)
(* reset or it was opened by a second factor, which locks nothing.           *)
(* confirm_password_reset against login. *)
PasswordChangeEndsSessions ==
  \A s \in Sessions :
    Usable(s) /\ ~row[s].second /\ row[s].password # user[row[s].user].password
    => row[s].family \in outrun

(* logout(all_devices): no access token minted before the epoch went up is   *)
(* accepted while Redis answers, sign-ins and refreshes in flight included. *)
EndedAccessStaysEnded == redis => \A s \in cut : ~Accepted(s)

(* The refresh tokens keep the promise of RotationPromise. *)
Promise == INSTANCE RotationPromise WITH
  Tokens <- Sessions,
  good <- {s \in Sessions : Usable(s)},
  spent <- {s \in Sessions : row[s].issued /\ ~Usable(s)},
  familyOf <- [s \in Sessions |-> IF row[s].issued THEN row[s].family ELSE s]

PromiseKept == Promise!PromiseSpec

(* No session comes back: not from a sign-out, a reset, detected reuse or an *)
(* exchange, whatever requests were half way. *)
SessionsEnd ==
  /\ TypeOK
  /\ OneSuccessor
  /\ ClosedStaysClosed
  /\ PasswordChangeEndsSessions
=============================================================================
