------------------------------ MODULE Accounts ------------------------------
(***************************************************************************)
(* How accounts come about and prove who they are: sign-up, invites,       *)
(* lockout, second factor and password-reset links (services/auth.py,      *)
(* mfa.py, users.py).  Sessions is about what happens after.               *)
(*                                                                         *)
(* login, enroll, confirm and disable hold the user's row from their first *)
(* read to their commit: one action each.  Invites, the second step of a   *)
(* sign-in and the use of a reset link read before they lock.              *)
(***************************************************************************)
EXTENDS Naturals, FiniteSets

CONSTANTS Emails, Invites, Resets, Workers,
          None,
          MaxAttempts,   \* login_max_failed_attempts
          CodeCount,     \* BACKUP_CODE_COUNT
          MaxBatches,    \* bound: enrolments confirmed per account
          Events         \* bound: what users and time do, all together: wrong
                         \* passwords, lockouts that run out, enrolments, codes,
                         \* invites, links, switches, expiries, dead workers

ASSUME AccountsAssumption ==
  /\ MaxAttempts \in Nat \ {0} /\ CodeCount \in Nat \ {0}
  /\ MaxBatches \in Nat /\ Events \in Nat
  /\ None \notin Emails \union Invites \union Resets

VARIABLES
  account,   \* users
  code,      \* mfa_backup_codes: per account, batch and number
  invite,    \* public_tokens of purpose user_invite, and their outbox event
  reset,     \* password_reset_tokens
  preauth,   \* accounts that hold a pre-auth token
  job,       \* what each worker is doing
  misses,    \* history: wrong passwords looked at since the last right one
  reopened,  \* history: lockouts that ran out since
  budget     \* what is left of Events

vars == <<account, code, invite, reset, preauth, job, misses, reopened, budget>>

-----------------------------------------------------------------------------
Batches == 1 .. MaxBatches
Codes == Batches \X (1 .. CodeCount)

Account == [exists : BOOLEAN, active : BOOLEAN, password : Nat, attempts : Nat,
            locked : BOOLEAN, secret : BOOLEAN, enabled : BOOLEAN, batch : Nat,
            invite : Invites \union {None}]

NoAccount == [exists |-> FALSE, active |-> FALSE, password |-> 0, attempts |-> 0,
              locked |-> FALSE, secret |-> FALSE, enabled |-> FALSE, batch |-> 0,
              invite |-> None]

Code == [state : {"none", "unused", "used"}, admitted : Nat]

Invite == [stage : {"none", "token", "told"}, email : Emails \union {None},
           uses : Nat, dead : BOOLEAN]

Reset == [stage : {"none", "live", "used", "expired"},
          email : Emails \union {None}, asked : Nat, late : BOOLEAN, sets : Nat]

Jobs == [stage : {"idle", "inviting", "telling", "accepting", "candidate",
                  "verified", "consumed", "setting", "voided"},
         email : Emails \union {None}, invite : Invites \union {None},
         reset : Resets \union {None}, code : Codes \union {None},
         seen : SUBSET Resets]

Idle == [stage |-> "idle", email |-> None, invite |-> None, reset |-> None,
         code |-> None, seen |-> {}]

Init ==
  /\ account = [e \in Emails |-> NoAccount]
  /\ code = [e \in Emails |-> [c \in Codes |-> [state |-> "none", admitted |-> 0]]]
  /\ invite = [i \in Invites |-> [stage |-> "none", email |-> None, uses |-> 0, dead |-> FALSE]]
  /\ reset = [t \in Resets |-> [stage |-> "none", email |-> None, asked |-> 0,
                                late |-> FALSE, sets |-> 0]]
  /\ preauth = {}
  /\ job = [w \in Workers |-> Idle]
  /\ misses = [e \in Emails |-> 0] /\ reopened = [e \in Emails |-> 0]
  /\ budget = Events

-----------------------------------------------------------------------------
Event == budget > 0 /\ budget' = budget - 1

IsIdle(w) == job[w].stage = "idle"

Becomes(w, new) == job' = [job EXCEPT ![w] = new]

(* The user's row: a reset holds it from UPDATE users to its commit. *)
UserHeld(e) == \E w \in Workers :
  job[w].email = e /\ job[w].stage \in {"setting", "voided"}

NewAccount(from) ==
  [NoAccount EXCEPT !.exists = TRUE, !.active = TRUE, !.invite = from]

-----------------------------------------------------------------------------
(* Accounts come about. *)

(* signup and create_user: the unique index on the email decides. *)
Provision(e) ==
  /\ ~account[e].exists
  /\ account' = [account EXCEPT ![e] = NewAccount(None)]
  /\ UNCHANGED <<code, invite, reset, preauth, job, misses, reopened, budget>>

(* create_invite: the address is asked for first .. *)
InviteChecks(w, e, i) ==
  /\ IsIdle(w) /\ ~account[e].exists /\ Event
  /\ invite[i].stage = "none" /\ \A v \in Workers : job[v].invite # i
  /\ Becomes(w, [Idle EXCEPT !.stage = "inviting", !.email = e, !.invite = i])
  /\ UNCHANGED <<account, code, invite, reset, preauth, misses, reopened>>

(* .. then issue_public_token commits the token .. *)
InviteIssues(w) ==
  /\ job[w].stage = "inviting"
  /\ invite' = [invite EXCEPT ![job[w].invite] =
                  [stage |-> "token", email |-> job[w].email, uses |-> 0, dead |-> FALSE]]
  /\ Becomes(w, [job[w] EXCEPT !.stage = "telling"])
  /\ UNCHANGED <<account, code, reset, preauth, misses, reopened, budget>>

(* .. and a second transaction writes the event that carries it. *)
InviteTells(w) ==
  /\ job[w].stage = "telling"
  /\ invite' = [invite EXCEPT ![job[w].invite] =
                  [invite[job[w].invite] EXCEPT !.stage = "told"]]
  /\ Becomes(w, Idle)
  /\ UNCHANGED <<account, code, reset, preauth, misses, reopened, budget>>

(* _validate_invite_row. *)
InviteValid(i) == invite[i].stage # "none" /\ ~invite[i].dead /\ invite[i].uses < 1

(* accept_invite: a look without a lock, at the token and at its event. *)
AcceptLooks(w, i) ==
  /\ IsIdle(w) /\ InviteValid(i) /\ invite[i].stage = "told"
  /\ Becomes(w, [Idle EXCEPT !.stage = "accepting", !.email = invite[i].email, !.invite = i])
  /\ UNCHANGED <<account, code, invite, reset, preauth, misses, reopened, budget>>

(* The token's row is locked and validated again, the user inserted, the use *)
(* counted: one transaction.  The session it opens is Sessions' business. *)
AcceptCommits(w) ==
  LET i == job[w].invite
      e == job[w].email IN
  /\ job[w].stage = "accepting" /\ InviteValid(i) /\ ~account[e].exists
  /\ account' = [account EXCEPT ![e] = NewAccount(i)]
  /\ invite' = [invite EXCEPT ![i] = [invite[i] EXCEPT !.uses = invite[i].uses + 1]]
  /\ Becomes(w, Idle)
  /\ UNCHANGED <<code, reset, preauth, misses, reopened, budget>>

(* Used meanwhile, expired meanwhile, or the address is taken: rolled back. *)
AcceptFails(w) ==
  /\ job[w].stage = "accepting"
  /\ ~InviteValid(job[w].invite) \/ account[job[w].email].exists
  /\ Becomes(w, Idle)
  /\ UNCHANGED <<account, code, invite, reset, preauth, misses, reopened, budget>>

InviteExpires(i) ==
  /\ InviteValid(i) /\ Event
  /\ invite' = [invite EXCEPT ![i] = [invite[i] EXCEPT !.dead = TRUE]]
  /\ UNCHANGED <<account, code, reset, preauth, job, misses, reopened>>

-----------------------------------------------------------------------------
(* login, with the user's row locked. *)

MayTry(e) == account[e].exists /\ ~account[e].locked /\ ~UserHeld(e)

(* Mutant: an account that was locked out starts to count from one again. *)
LoginFailsAfresh(e) ==
  LET a == account[e]
      attempts == IF a.attempts >= MaxAttempts THEN 1 ELSE a.attempts + 1 IN
  /\ MayTry(e) /\ Event
  /\ account' = [account EXCEPT ![e] =
       [a EXCEPT !.attempts = attempts, !.locked = attempts >= MaxAttempts]]
  /\ misses' = [misses EXCEPT ![e] = misses[e] + 1]
  /\ UNCHANGED <<code, invite, reset, preauth, job, reopened>>

(* A wrong password, or an account that is switched off. *)
LoginFails(e) ==
  LET a == account[e]
      attempts == a.attempts + 1 IN
  /\ MayTry(e) /\ Event
  /\ account' = [account EXCEPT ![e] =
       [a EXCEPT !.attempts = attempts, !.locked = attempts >= MaxAttempts]]
  /\ misses' = [misses EXCEPT ![e] = misses[e] + 1]
  /\ UNCHANGED <<code, invite, reset, preauth, job, reopened>>

LoginSucceeds(e) ==
  /\ MayTry(e) /\ account[e].active
  /\ account' = [account EXCEPT ![e] = [account[e] EXCEPT !.attempts = 0]]
  /\ misses' = [misses EXCEPT ![e] = 0] /\ reopened' = [reopened EXCEPT ![e] = 0]
  /\ preauth' = IF account[e].enabled THEN preauth \union {e} ELSE preauth
  /\ UNCHANGED <<code, invite, reset, job, budget>>

(* locked_until passes; the count of failures is not touched. *)
LockRunsOut(e) ==
  /\ account[e].locked /\ Event
  /\ account' = [account EXCEPT ![e] = [account[e] EXCEPT !.locked = FALSE]]
  /\ reopened' = [reopened EXCEPT ![e] = reopened[e] + 1]
  /\ UNCHANGED <<code, invite, reset, preauth, job, misses>>

(* PATCH /users/{id} is_active. *)
SetActive(e) ==
  /\ account[e].exists /\ ~UserHeld(e) /\ Event
  /\ account' = [account EXCEPT ![e] = [account[e] EXCEPT !.active = ~account[e].active]]
  /\ UNCHANGED <<code, invite, reset, preauth, job, misses, reopened>>

-----------------------------------------------------------------------------
(* The second factor. *)

Enroll(e) ==
  /\ account[e].exists /\ ~account[e].enabled /\ ~UserHeld(e) /\ ~account[e].secret
  /\ account' = [account EXCEPT ![e] = [account[e] EXCEPT !.secret = TRUE]]
  /\ UNCHANGED <<code, invite, reset, preauth, job, misses, reopened, budget>>

(* DELETE of what there is, INSERT of a whole batch. *)
Confirm(e) ==
  LET b == account[e].batch + 1 IN
  /\ account[e].secret /\ ~account[e].enabled /\ ~UserHeld(e) /\ b \in Batches /\ Event
  /\ account' = [account EXCEPT ![e] = [account[e] EXCEPT !.enabled = TRUE, !.batch = b]]
  /\ code' = [code EXCEPT ![e] = [c \in Codes |->
                [code[e][c] EXCEPT !.state = IF c[1] = b THEN "unused" ELSE "none"]]]
  /\ UNCHANGED <<invite, reset, preauth, job, misses, reopened>>

Disable(e) ==
  /\ account[e].exists /\ account[e].secret /\ ~UserHeld(e)
  /\ account' = [account EXCEPT ![e] = [account[e] EXCEPT !.secret = FALSE, !.enabled = FALSE]]
  /\ code' = [code EXCEPT ![e] = [c \in Codes |-> [code[e][c] EXCEPT !.state = "none"]]]
  /\ UNCHANGED <<invite, reset, preauth, job, misses, reopened, budget>>

(* verify_second_factor, which locks nothing: the codes not used yet. *)
FactorLooks(w, e, c) ==
  /\ IsIdle(w) /\ e \in preauth /\ account[e].enabled
  /\ code[e][c].state = "unused" /\ Event
  /\ Becomes(w, [Idle EXCEPT !.stage = "candidate", !.email = e, !.code = c])
  /\ UNCHANGED <<account, code, invite, reset, preauth, misses, reopened>>

(* Mutant: the code that was found is the code that is used. *)
FactorClaimsBlindly(w) ==
  LET e == job[w].email
      c == job[w].code IN
  /\ job[w].stage = "candidate"
  /\ code' = [code EXCEPT ![e] = [code[e] EXCEPT ![c] =
                [state |-> "used", admitted |-> code[e][c].admitted + 1]]]
  /\ Becomes(w, [job[w] EXCEPT !.stage = "verified"])
  /\ UNCHANGED <<account, invite, reset, preauth, misses, reopened, budget>>

(* UPDATE .. WHERE id = :id AND used_at IS NULL, committed at once. *)
FactorClaims(w) ==
  LET e == job[w].email
      c == job[w].code IN
  /\ job[w].stage = "candidate" /\ code[e][c].state = "unused"
  /\ code' = [code EXCEPT ![e] = [code[e] EXCEPT ![c] =
                [state |-> "used", admitted |-> code[e][c].admitted + 1]]]
  /\ Becomes(w, [job[w] EXCEPT !.stage = "verified"])
  /\ UNCHANGED <<account, invite, reset, preauth, misses, reopened, budget>>

(* Claimed by another request, or gone with the enrolment it belonged to. *)
FactorLoses(w) ==
  /\ job[w].stage = "candidate" /\ code[job[w].email][job[w].code].state # "unused"
  /\ Becomes(w, Idle)
  /\ UNCHANGED <<account, code, invite, reset, preauth, misses, reopened, budget>>

(* A TOTP code: nothing is written. *)
FactorByTotp(w, e) ==
  /\ IsIdle(w) /\ e \in preauth /\ account[e].enabled /\ Event
  /\ Becomes(w, [Idle EXCEPT !.stage = "verified", !.email = e])
  /\ UNCHANGED <<account, code, invite, reset, preauth, misses, reopened>>

(* The second transaction of login_mfa: a session (Sessions!LogInSecond), or *)
(* none if the account was switched off; the code is spent in either case. *)
FactorDone(w) ==
  /\ job[w].stage = "verified"
  /\ Becomes(w, Idle)
  /\ UNCHANGED <<account, code, invite, reset, preauth, misses, reopened, budget>>

-----------------------------------------------------------------------------
(* Reset links. *)

(* request_password_reset: the user is read, the token inserted. *)
RequestReset(e, t) ==
  /\ account[e].exists /\ account[e].active /\ reset[t].stage = "none" /\ Event
  /\ reset' = [reset EXCEPT ![t] =
       [stage |-> "live", email |-> e, asked |-> account[e].password, sets |-> 0,
        late |-> \E w \in Workers : job[w].email = e /\ job[w].stage = "voided"]]
  /\ UNCHANGED <<account, code, invite, preauth, job, misses, reopened>>

ResetExpires(t) ==
  /\ reset[t].stage = "live" /\ \A w \in Workers : job[w].reset # t /\ t \notin job[w].seen
  /\ Event
  /\ reset' = [reset EXCEPT ![t] = [reset[t] EXCEPT !.stage = "expired"]]
  /\ UNCHANGED <<account, code, invite, preauth, job, misses, reopened>>

ResetHeld(t) == \E w \in Workers : job[w].reset = t \/ t \in job[w].seen

(* confirm_password_reset: UPDATE .. WHERE used_at IS NULL takes the token .. *)
ConfirmConsumes(w, t) ==
  /\ IsIdle(w) /\ reset[t].stage = "live" /\ ~ResetHeld(t)
  /\ Becomes(w, [Idle EXCEPT !.stage = "consumed", !.email = reset[t].email, !.reset = t])
  /\ UNCHANGED <<account, code, invite, reset, preauth, misses, reopened, budget>>

(* .. UPDATE users takes the user's row .. *)
ConfirmSets(w) ==
  /\ job[w].stage = "consumed" /\ ~UserHeld(job[w].email)
  /\ Becomes(w, [job[w] EXCEPT !.stage = "setting"])
  /\ UNCHANGED <<account, code, invite, reset, preauth, misses, reopened, budget>>

(* Mutant: only the token that was used is looked at. *)
NoOthers(w) == {}

Others(w) == {t \in Resets \ {job[w].reset} :
                reset[t].stage = "live" /\ reset[t].email = job[w].email}

(* .. and the other outstanding tokens are voided: one that another request  *)
(* has consumed has to be waited for. *)
ConfirmVoids(w) ==
  /\ job[w].stage = "setting" /\ \A t \in Others(w) : ~ResetHeld(t)
  /\ Becomes(w, [job[w] EXCEPT !.stage = "voided", !.seen = Others(w)])
  /\ UNCHANGED <<account, code, invite, reset, preauth, misses, reopened, budget>>

ConfirmCommits(w) ==
  LET e == job[w].email IN
  /\ job[w].stage = "voided"
  /\ account' = [account EXCEPT ![e] = [account[e] EXCEPT !.password = account[e].password + 1]]
  /\ reset' = [t \in Resets |->
       IF t = job[w].reset
         THEN [reset[t] EXCEPT !.stage = "used", !.sets = reset[t].sets + 1]
       ELSE IF t \in job[w].seen THEN [reset[t] EXCEPT !.stage = "used"]
       ELSE reset[t]]
  /\ Becomes(w, Idle)
  /\ UNCHANGED <<code, invite, preauth, misses, reopened, budget>>

(* Two links of one account at once: each request waits for the row the      *)
(* other holds, and PostgreSQL rolls one of them back. *)
Deadlocked(w, v) ==
  /\ job[w].stage = "consumed" /\ job[v].stage = "setting"
  /\ job[w].email = job[v].email /\ job[w].reset \in Others(v)

DeadlockBroken(victim) ==
  /\ \E w \in Workers : Deadlocked(w, victim) \/ Deadlocked(victim, w)
  /\ Becomes(victim, Idle)
  /\ UNCHANGED <<account, code, invite, reset, preauth, misses, reopened, budget>>

-----------------------------------------------------------------------------
WorkerDies(w) ==
  /\ ~IsIdle(w) /\ Event
  /\ Becomes(w, Idle)
  /\ UNCHANGED <<account, code, invite, reset, preauth, misses, reopened>>

Next ==
  \/ \E e \in Emails :
       \/ Provision(e) \/ LoginFails(e) \/ LoginSucceeds(e) \/ LockRunsOut(e)
       \/ SetActive(e) \/ Enroll(e) \/ Confirm(e) \/ Disable(e)
  \/ \E w \in Workers, e \in Emails, i \in Invites : InviteChecks(w, e, i)
  \/ \E w \in Workers, i \in Invites : AcceptLooks(w, i)
  \/ \E i \in Invites : InviteExpires(i)
  \/ \E w \in Workers, e \in Emails, c \in Codes : FactorLooks(w, e, c)
  \/ \E w \in Workers, e \in Emails : FactorByTotp(w, e)
  \/ \E e \in Emails, t \in Resets : RequestReset(e, t)
  \/ \E t \in Resets : ResetExpires(t)
  \/ \E w \in Workers, t \in Resets : ConfirmConsumes(w, t)
  \/ \E w \in Workers :
       \/ InviteIssues(w) \/ InviteTells(w) \/ AcceptCommits(w) \/ AcceptFails(w)
       \/ FactorClaims(w) \/ FactorLoses(w) \/ FactorDone(w)
       \/ ConfirmSets(w) \/ ConfirmVoids(w) \/ ConfirmCommits(w)
       \/ DeadlockBroken(w) \/ WorkerDies(w)

Spec == Init /\ [][Next]_vars

-----------------------------------------------------------------------------
(* Types of the tables and of the requests in progress. *)
TypeOK ==
  /\ account \in [Emails -> Account]
  /\ code \in [Emails -> [Codes -> Code]]
  /\ invite \in [Invites -> Invite]
  /\ reset \in [Resets -> Reset]
  /\ preauth \subseteq Emails
  /\ job \in [Workers -> Jobs]
  /\ misses \in [Emails -> Nat] /\ reopened \in [Emails -> Nat]
  /\ budget \in Nat

(* A lockout that ran out buys one more guess, not a fresh series: of wrong  *)
(* passwords in a row at most MaxAttempts are looked at, and one for every   *)
(* lockout since.  login's count, which locked_until does not reset. *)
GuessesBounded == \A e \in Emails : misses[e] <= MaxAttempts + reopened[e]

(* "The same code can never be redeemed twice, including under concurrent    *)
(* requests": nor after the second factor was taken off and put on again.    *)
(* verify_second_factor's conditional UPDATE. *)
CodeAdmitsOnce == \A e \in Emails, c \in Codes : code[e][c].admitted <= 1

(* "confirm always produces exactly one fresh, complete batch": an account   *)
(* has one whole batch of codes while its second factor is on, otherwise     *)
(* none, whatever sign-ins were looking at.  confirm, disable. *)
OneBatch ==
  \A e \in Emails :
    {c \in Codes : code[e][c].state # "none"} =
      IF account[e].enabled THEN {account[e].batch} \X (1 .. CodeCount) ELSE {}

(* An invite is used up exactly when the account it made exists: it is not   *)
(* lost to an address that was taken, and makes no second account.           *)
(* accept_invite's one transaction. *)
InviteSpentOnAccount ==
  \A i \in Invites :
    /\ invite[i].uses <= 1
    /\ invite[i].uses = 1 <=> \E e \in Emails : account[e].invite = i

(* A reset link changes the password at most once, and one asked for before  *)
(* a change no longer works after it, except one inserted after the UPDATE   *)
(* that voided the others.  confirm_password_reset. *)
OldLinksDie ==
  \A t \in Resets :
    /\ reset[t].sets <= 1
    /\ reset[t].stage = "live" /\ ~reset[t].late
         => reset[t].asked = account[reset[t].email].password

(* What the tables say of an account, its codes, invites and links agrees    *)
(* between any two requests: auth.py, mfa.py. *)
AccountsConsistent ==
  /\ TypeOK
  /\ OneBatch
  /\ InviteSpentOnAccount
  /\ OldLinksDie
=============================================================================
