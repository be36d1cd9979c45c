----------------------------- MODULE SessionsProofs -----------------------------
(***************************************************************************)
(* What Sessions keeps for every number of users, sessions and requests at *)
(* once: what was ended stays ended, in the database and in Redis, and     *)
(* rotation implements RotationPromise.                                    *)
(***************************************************************************)
EXTENDS Sessions, TLAPS

UserWide == {"logout_all", "password_reset"}

UserHolders == {"login", "password_reset"}

Revoking == {"snapshot", "holding", "bumped"}

(* What a request works on, by its stage.                                    *)
JobTyped(j) ==
  /\ j \in Jobs
  /\ IF j.stage = "idle" THEN j.op = "none" ELSE j.user \in Users
  /\ IF j.stage \in {"opened", "rotated"} THEN j.new \in Sessions ELSE j.new = None
  /\ j.stage = "opened" => j.op \in {"login", "login_mfa"}
  /\ j.stage \in {"looked", "rotated"} => j.op = "refresh" /\ j.at \in Sessions
  /\ j.stage \in {"revoke"} \union Revoking =>
       j.op \in Revocations /\ (j.op \in UserWide \/ j.at \in Sessions)

HeldRows(j) ==
  {s \in Sessions : \/ j.stage = "rotated" /\ j.at = s
                    \/ j.stage \in {"holding", "bumped"} /\ s \in j.seen}

(* What it relies on in the tables: the row it exchanges can be exchanged    *)
(* until it commits, the row it inserts is its own, ..                       *)
JobRows(j) ==
  /\ j.stage \in {"looked", "rotated"} => row[j.at].issued /\ row[j.at].user = j.user
  /\ j.stage \in {"revoke"} \union Revoking /\ j.op \notin UserWide => row[j.at].issued
  /\ j.stage \in {"opened", "rotated"} => ~row[j.new].issued
  /\ j.stage = "rotated" => Usable(j.at) /\ j.password = row[j.at].password
  /\ j.stage \in Revoking => \A s \in j.seen : row[s].issued
  /\ j.stage \in {"holding", "bumped"} => \A s \in j.seen : ~row[s].revoked

(* .. its token is not from the future and its password is current, ..       *)
JobStamped(j) ==
  /\ j.stage \in {"opened", "rotated"} => j.stamp <= epoch[j.user]
  /\ j.stage = "opened" /\ j.op = "login" => j.password = user[j.user].password

(* .. what it is about to revoke is all there is of those families, but for  *)
(* those a refresh took past it, ..                                          *)
JobCovers(j) ==
  j.stage \in Revoking =>
    \A x \in j.seen, s \in Sessions :
      Usable(s) /\ row[s].family = row[x].family => s \in j.seen \/ row[s].family \in j.late

(* .. and a reset has all of the user's, but for second factors and families *)
(* that outran it or an earlier revocation.                                  *)
JobResets(j) ==
  j.stage \in Revoking /\ j.op = "password_reset" =>
    \A s \in Sessions :
      Usable(s) /\ row[s].user = j.user /\ ~row[s].second =>
        \/ s \in j.seen
        \/ row[s].family \in outrun
        \/ /\ row[s].family \in j.late
           /\ \E x \in j.seen : ~row[x].revoked /\ row[x].family = row[s].family

JobOk(j) == JobTyped(j) /\ JobRows(j) /\ JobStamped(j) /\ JobCovers(j) /\ JobResets(j)

(* No two requests hold a row, insert the same one or hold the same user.    *)
Apart(j, k) ==
  /\ HeldRows(j) \intersect HeldRows(k) = {}
  /\ j.new # None => j.new # k.new
  /\ j.op \in UserHolders /\ k.op \in UserHolders => j.user # k.user

JobsOk == /\ \A w \in Workers : JobOk(job[w])
          /\ \A w \in Workers : \A v \in Workers \ {w} : Apart(job[w], job[v])

RowsOk ==
  /\ \A s \in Sessions : row[s].issued =>
       /\ row[row[s].family].issued
       /\ row[s].stamp <= epoch[row[s].user]
  /\ \A s, t \in Sessions :
       row[s].issued /\ row[t].issued /\ row[s].family = row[t].family
         => row[s].user = row[t].user
  /\ \A f \in closed : row[f].issued

(* Every access token cut off is, or will be when it is handed out, one      *)
(* epoch behind at least.                                                    *)
CutOk ==
  \A s \in cut :
    \/ row[s].issued /\ row[s].stamp < epoch[row[s].user]
    \/ \E w \in Workers : job[w].new = s /\ job[w].stamp < epoch[job[w].user]

IInv == /\ TypeOK
        /\ JobsOk
        /\ RowsOk
        /\ CutOk
        /\ OneSuccessor
        /\ ClosedStaysClosed
        /\ PasswordChangeEndsSessions

USE SessionsAssumption

-----------------------------------------------------------------------------
LEMMA IdleOk ==
  /\ JobTyped(Idle) /\ JobOk(Idle) /\ HeldRows(Idle) = {}
  /\ Idle.new = None /\ Idle.op = "none" /\ Idle.stage = "idle"
  BY DEF JobTyped, JobOk, JobRows, JobStamped, JobCovers, JobResets, HeldRows, Idle, Jobs,
         Ops, Stages, Revoking, Revocations

LEMMA InitEstablishes == Init => IInv
<1> SUFFICES ASSUME Init  PROVE  IInv
  OBVIOUS
<1>1. NoRow \in Rows /\ ~NoRow.issued
  BY DEF NoRow, Rows
<1>2. Idle \in Jobs
  BY IdleOk DEF JobTyped
<1>3. TypeOK
  BY <1>1, <1>2 DEF Init, TypeOK
<1>4. JobsOk
  BY IdleOk DEF Init, JobsOk, Apart, UserHolders
<1>5. RowsOk /\ CutOk /\ OneSuccessor /\ ClosedStaysClosed /\ PasswordChangeEndsSessions
  BY <1>1 DEF Init, RowsOk, CutOk, OneSuccessor, ClosedStaysClosed,
              PasswordChangeEndsSessions, Usable
<1> QED
  BY <1>3, <1>4, <1>5 DEF IInv

(* The model's locks in terms of HeldRows and UserHolders.                   *)
LEMMA Locks ==
  /\ \A s \in Sessions : RowHeld(s) <=> \E w \in Workers : s \in HeldRows(job[w])
  /\ \A u : UserHeld(u) <=> \E w \in Workers : job[w].user = u /\ job[w].op \in UserHolders
  BY DEF RowHeld, UserHeld, HeldRows, UserHolders

LEMMA EpochIsPast ==
  ASSUME IInv, NEW u \in Users
  PROVE  AccessEpoch(u) \in Nat /\ AccessEpoch(u) <= epoch[u]
<1>1. epoch[u] \in Nat
  BY DEF IInv, TypeOK
<1> QED
  BY <1>1 DEF AccessEpoch

-----------------------------------------------------------------------------
(* The steps of a request that change no row. *)

LEMMA JobStep ==
  ASSUME IInv, UNCHANGED <<user, row, epoch, closed, outrun>>,
         NEW w \in Workers, NEW new, job' = [job EXCEPT ![w] = new], JobOk(new),
         \A v \in Workers \ {w} : Apart(new, job[v]),
         preauth' \subseteq Users \X Nat, denied' \subseteq Sessions, redis' \in BOOLEAN,
         budget' \in Nat, cut' \subseteq cut, job[w].new \notin cut'
  PROVE  IInv'
<1>1. /\ job' \in [Workers -> Jobs]
      /\ job'[w] = new /\ \A v \in Workers \ {w} : job'[v] = job[v]
  BY DEF IInv, TypeOK, JobOk, JobTyped
<1>2. TypeOK'
  BY <1>1 DEF IInv, TypeOK
<1>3. JobsOk'
  <2>1. ASSUME NEW v \in Workers  PROVE JobOk(job[v])'
    <3>1. JobOk(job'[v])
      BY <1>1 DEF IInv, JobsOk
    <3> QED
      BY <3>1 DEF JobOk, JobRows, JobStamped, JobCovers, JobResets, Usable
  <2>2. \A v \in Workers \ {w} : Apart(job[v], new)
    BY DEF Apart
  <2>3. \A v \in Workers : \A x \in Workers \ {v} : Apart(job'[v], job'[x])
    BY <1>1, <2>2 DEF IInv, JobsOk
  <2> QED
    BY <2>1, <2>3 DEF JobsOk
<1>4. RowsOk'
  BY DEF IInv, RowsOk
<1>5. CutOk'
  BY <1>1 DEF IInv, CutOk
<1>6. OneSuccessor' /\ ClosedStaysClosed' /\ PasswordChangeEndsSessions'
  BY DEF IInv, OneSuccessor, ClosedStaysClosed, PasswordChangeEndsSessions, Usable
<1> QED
  BY <1>2, <1>3, <1>4, <1>5, <1>6 DEF IInv

(* A request that holds nothing and inserts nothing is apart from all.       *)
LEMMA NothingHeld ==
  ASSUME NEW j, NEW k, JobTyped(j), j.stage \in {"idle", "looked", "revoke", "snapshot"},
         j.op \notin UserHolders
  PROVE  Apart(j, k)
  BY DEF Apart, HeldRows, JobTyped

LEMMA LogInKeeps ==
  ASSUME IInv, NEW w \in Workers, NEW u \in Users, NEW s \in Sessions, LogIn(w, u, s)
  PROVE  IInv'
<1> DEFINE new == [Idle EXCEPT !.op = "login", !.stage = "opened",
                     !.user = u, !.new = s, !.password = user[u].password,
                     !.stamp = AccessEpoch(u)]
<1>1. /\ job' = [job EXCEPT ![w] = new] /\ Fresh(s) /\ ~UserHeld(u) /\ IsIdle(w)
      /\ UNCHANGED <<user, row, epoch, closed, outrun>>
      /\ UNCHANGED <<preauth, denied, redis, budget, cut>>
  BY DEF LogIn, Opening
<1>2. /\ new.op = "login" /\ new.stage = "opened" /\ new.user = u /\ new.new = s
      /\ new.password = user[u].password /\ new.stamp = AccessEpoch(u)
      /\ new.seen = {} /\ new.late = {} /\ new.at = None
  BY DEF Idle
<1>3. new \in Jobs
  BY EpochIsPast DEF Idle, Jobs, Ops, Stages, Revocations, IInv, TypeOK
<1> HIDE DEF new
<1>4. JobOk(new)
  BY <1>1, <1>2, <1>3, EpochIsPast DEF JobOk, JobTyped, JobRows, JobStamped, JobCovers,
     JobResets, Revoking, Fresh
<1>5. ASSUME NEW v \in Workers \ {w}  PROVE Apart(new, job[v])
  BY <1>1, <1>2, Locks DEF Apart, HeldRows, Fresh
<1>6. job[w].new \notin cut
  BY <1>1 DEF IsIdle, IInv, TypeOK, JobsOk, JobOk, JobTyped
<1> QED
  BY <1>1, <1>4, <1>5, <1>6, JobStep DEF IInv, TypeOK

LEMMA LogInSecondKeeps ==
  ASSUME IInv, NEW w \in Workers, NEW pair \in preauth, NEW s \in Sessions,
         LogInSecond(w, pair[1], pair[2], s)
  PROVE  IInv'
<1> DEFINE u == pair[1]
           new == [Idle EXCEPT !.op = "login_mfa", !.stage = "opened",
                     !.user = u, !.new = s, !.password = pair[2], !.stamp = AccessEpoch(u)]
<1>1. /\ job' = [job EXCEPT ![w] = new] /\ Fresh(s) /\ IsIdle(w)
      /\ UNCHANGED <<user, row, epoch, closed, outrun>>
      /\ UNCHANGED <<preauth, denied, redis, budget, cut>>
  BY DEF LogInSecond, Opening
<1>2. u \in Users /\ pair[2] \in Nat
  BY DEF IInv, TypeOK
<1>3. /\ new.op = "login_mfa" /\ new.stage = "opened" /\ new.user = u /\ new.new = s
      /\ new.stamp = AccessEpoch(u) /\ new.seen = {} /\ new.late = {} /\ new.at = None
  BY DEF Idle
<1>4. new \in Jobs
  BY <1>2, EpochIsPast DEF Idle, Jobs, Ops, Stages, Revocations
<1> HIDE DEF new, u
<1>5. JobOk(new)
  BY <1>1, <1>2, <1>3, <1>4, EpochIsPast DEF JobOk, JobTyped, JobRows, JobStamped,
     JobCovers, JobResets, Revoking, Fresh
<1>6. ASSUME NEW v \in Workers \ {w}  PROVE Apart(new, job[v])
  BY <1>1, <1>3 DEF Apart, HeldRows, Fresh, UserHolders
<1>7. job[w].new \notin cut
  BY <1>1 DEF IsIdle, IInv, TypeOK, JobsOk, JobOk, JobTyped
<1> QED
  BY <1>1, <1>5, <1>6, <1>7, JobStep DEF IInv, TypeOK

(* A request that has only found out what to do.                             *)
LEMMA AskedKeeps ==
  ASSUME IInv, NEW w \in Workers, NEW new, job' = [job EXCEPT ![w] = new],
         UNCHANGED <<user, row, epoch, closed, outrun, preauth, redis, cut>>,
         denied' \subseteq Sessions, budget' \in Nat, job[w].new = None,
         new \in Jobs, new.user \in Users, new.new = None,
         \/ new.stage = "looked" /\ new.op = "refresh"
         \/ new.stage = "revoke" /\ new.op \in Revocations \ {"password_reset"},
         new.at \in Sessions, row[new.at].issued, row[new.at].user = new.user
  PROVE  IInv'
<1>1. JobTyped(new) /\ new.op \notin UserHolders
  BY DEF JobTyped, Revocations, UserHolders, Revoking
<1>2. JobOk(new)
  BY <1>1 DEF JobOk, JobRows, JobStamped, JobCovers, JobResets, Revoking
<1>3. \A v \in Workers \ {w} : Apart(new, job[v])
  BY <1>1, NothingHeld
<1>4. job[w].new \notin cut
  BY DEF IInv, TypeOK
<1> QED
  BY <1>2, <1>3, <1>4, JobStep DEF IInv, TypeOK

LEMMA RefreshLooksUpKeeps ==
  ASSUME IInv, NEW w \in Workers, NEW s \in Sessions, RefreshLooksUp(w, s)
  PROVE  IInv'
<1> DEFINE new == [Idle EXCEPT !.op = "refresh", !.stage = "looked",
                                  !.user = row[s].user, !.at = s]
<1>1. /\ job' = [job EXCEPT ![w] = new] /\ IsIdle(w) /\ row[s].issued
      /\ UNCHANGED <<user, row, epoch, closed, outrun, preauth, redis, cut>>
      /\ UNCHANGED <<denied, budget>>
  BY DEF RefreshLooksUp, Usable
<1>2. new \in Jobs /\ new.user = row[s].user /\ new.user \in Users /\ new.new = None
      /\ new.stage = "looked" /\ new.op = "refresh" /\ new.at = s
  BY <1>1 DEF Idle, Jobs, Ops, Stages, Revocations, IInv, TypeOK
<1> HIDE DEF new
<1>3. job[w].new = None
  BY <1>1 DEF IsIdle, IInv, JobsOk, JobOk, JobTyped
<1>4. denied' \subseteq Sessions /\ budget' \in Nat
  BY <1>1 DEF IInv, TypeOK
<1> QED
  BY <1>1, <1>2, <1>3, <1>4, AskedKeeps

LEMMA RefreshFindsReuseKeeps ==
  ASSUME IInv, NEW w \in Workers, NEW s \in Sessions, RefreshFindsReuse(w, s)
  PROVE  IInv'
<1> DEFINE new == [Idle EXCEPT !.op = "reuse_detected", !.stage = "revoke",
                                  !.user = row[s].user, !.at = s]
<1>1. /\ job' = [job EXCEPT ![w] = new] /\ IsIdle(w) /\ row[s].issued
      /\ UNCHANGED <<user, row, epoch, closed, outrun, preauth, redis, cut>>
      /\ UNCHANGED <<denied, budget>>
  BY DEF RefreshFindsReuse
<1>2. new \in Jobs /\ new.user = row[s].user /\ new.user \in Users /\ new.new = None
      /\ new.stage = "revoke" /\ new.op \in Revocations \ {"password_reset"} /\ new.at = s
  BY <1>1 DEF Idle, Jobs, Ops, Stages, Revocations, IInv, TypeOK
<1> HIDE DEF new
<1>3. job[w].new = None
  BY <1>1 DEF IsIdle, IInv, JobsOk, JobOk, JobTyped
<1>4. denied' \subseteq Sessions /\ budget' \in Nat
  BY <1>1 DEF IInv, TypeOK
<1> QED
  BY <1>1, <1>2, <1>3, <1>4, AskedKeeps

LEMMA LogOutKeeps ==
  ASSUME IInv, NEW w \in Workers, NEW s \in Sessions, NEW op \in Revocations,
         LogOut(w, s, op)
  PROVE  IInv'
<1> DEFINE new == [Idle EXCEPT !.op = op, !.stage = "revoke",
                                  !.user = row[s].user, !.at = s]
<1>1. /\ job' = [job EXCEPT ![w] = new] /\ IsIdle(w) /\ row[s].issued
      /\ op \in {"logout", "logout_all"}
      /\ UNCHANGED <<user, row, epoch, closed, outrun, preauth, redis, cut>>
  BY DEF LogOut, Accepted
<1>2. new \in Jobs /\ new.user = row[s].user /\ new.user \in Users /\ new.new = None
      /\ new.stage = "revoke" /\ new.op \in Revocations \ {"password_reset"} /\ new.at = s
  BY <1>1 DEF Idle, Jobs, Ops, Stages, Revocations, IInv, TypeOK
<1> HIDE DEF new
<1>3. job[w].new = None
  BY <1>1 DEF IsIdle, IInv, JobsOk, JobOk, JobTyped
<1>4. denied' \subseteq Sessions /\ budget' \in Nat
  BY DEF IInv, TypeOK, LogOut, Event
<1> QED
  BY <1>1, <1>2, <1>3, <1>4, AskedKeeps

LEMMA RefreshOfInactiveKeeps ==
  ASSUME IInv, NEW w \in Workers, RefreshOfInactive(w)
  PROVE  IInv'
<1> DEFINE new == [job[w] EXCEPT !.op = "user_inactive", !.stage = "revoke"]
<1>1. /\ job' = [job EXCEPT ![w] = new] /\ job[w].stage = "looked"
      /\ UNCHANGED <<user, row, epoch, closed, outrun, preauth, redis, cut>>
      /\ UNCHANGED <<denied, budget>>
  BY DEF RefreshOfInactive
<1>2. /\ job[w] \in Jobs /\ job[w].new = None /\ job[w].at \in Sessions
      /\ job[w].user \in Users
      /\ row[job[w].at].issued /\ row[job[w].at].user = job[w].user
  BY <1>1 DEF IInv, JobsOk, JobOk, JobTyped, JobRows
<1>3. new \in Jobs /\ new.user = job[w].user /\ new.new = None
      /\ new.stage = "revoke" /\ new.op \in Revocations \ {"password_reset"}
      /\ new.at = job[w].at
  BY <1>2 DEF Jobs, Ops, Stages, Revocations
<1> HIDE DEF new
<1>4. denied' \subseteq Sessions /\ budget' \in Nat
  BY <1>1 DEF IInv, TypeOK
<1> QED
  BY <1>1, <1>2, <1>3, <1>4, AskedKeeps

LEMMA RefreshRotatesKeeps ==
  ASSUME IInv, NEW w \in Workers, NEW s \in Sessions, RefreshRotates(w, s)
  PROVE  IInv'
<1> DEFINE new == [job[w] EXCEPT !.stage = "rotated", !.new = s,
               !.password = row[job[w].at].password, !.stamp = AccessEpoch(job[w].user)]
<1>1. /\ job' = [job EXCEPT ![w] = new] /\ job[w].stage = "looked"
      /\ Fresh(s) /\ ~RowHeld(job[w].at) /\ Usable(job[w].at)
      /\ UNCHANGED <<user, row, epoch, closed, outrun>>
      /\ UNCHANGED <<preauth, denied, redis, budget, cut>>
  BY DEF RefreshRotates
<1>2. /\ job[w] \in Jobs /\ job[w].new = None /\ job[w].at \in Sessions
      /\ job[w].user \in Users /\ job[w].op = "refresh"
      /\ row[job[w].at].issued /\ row[job[w].at].user = job[w].user
  BY <1>1 DEF IInv, JobsOk, JobOk, JobTyped, JobRows
<1>3. row[job[w].at].password \in Nat
  BY <1>2 DEF IInv, TypeOK, Rows
<1>4. /\ new \in Jobs /\ new.user = job[w].user /\ new.new = s /\ new.stage = "rotated"
      /\ new.op = "refresh" /\ new.at = job[w].at /\ new.stamp = AccessEpoch(job[w].user)
      /\ new.password = row[new.at].password
  BY <1>2, <1>3, EpochIsPast DEF Jobs, Ops, Stages, Revocations
<1> HIDE DEF new
<1>5. JobOk(new)
  BY <1>1, <1>2, <1>4, EpochIsPast DEF JobOk, JobTyped, JobRows, JobStamped, JobCovers,
     JobResets, Revoking, Fresh
<1>6. ASSUME NEW v \in Workers \ {w}  PROVE Apart(new, job[v])
  BY <1>1, <1>2, <1>4, Locks DEF Apart, HeldRows, Fresh, UserHolders
<1>7. job[w].new \notin cut
  BY <1>2 DEF IInv, TypeOK
<1> QED
  BY <1>1, <1>5, <1>6, <1>7, JobStep DEF IInv, TypeOK

(* A request ends and leaves nothing behind.                                 *)
LEMMA EndsKeeps ==
  ASSUME IInv, NEW w \in Workers, job' = [job EXCEPT ![w] = Idle],
         UNCHANGED <<user, row, epoch, closed, outrun, preauth, denied, redis>>,
         budget' \in Nat, cut' = cut \ {job[w].new}
  PROVE  IInv'
<1>1. \A v \in Workers \ {w} : Apart(Idle, job[v])
  BY IdleOk, NothingHeld DEF UserHolders
<1> QED
  BY <1>1, IdleOk, JobStep DEF IInv, TypeOK

LEMMA RefreshLosesKeeps ==
  ASSUME IInv, NEW w \in Workers, RefreshLoses(w)
  PROVE  IInv'
<1>1. /\ job' = [job EXCEPT ![w] = Idle] /\ job[w].stage = "looked"
      /\ UNCHANGED <<user, row, epoch, closed, outrun, preauth, denied, redis>>
      /\ UNCHANGED <<cut, budget>>
  BY DEF RefreshLoses
<1>2. job[w].new \notin cut
  BY <1>1 DEF IInv, TypeOK, JobsOk, JobOk, JobTyped
<1>3. budget' \in Nat
  BY <1>1 DEF IInv, TypeOK
<1> QED
  BY <1>1, <1>2, <1>3, EndsKeeps

LEMMA WorkerDiesKeeps ==
  ASSUME IInv, NEW w \in Workers, WorkerDies(w)
  PROVE  IInv'
<1>1. budget' \in Nat
  BY DEF WorkerDies, Event, IInv, TypeOK
<1> QED
  BY <1>1, EndsKeeps DEF WorkerDies

LEMMA ResetPasswordKeeps ==
  ASSUME IInv, NEW w \in Workers, NEW u \in Users, ResetPassword(w, u)
  PROVE  IInv'
<1> DEFINE new == [Idle EXCEPT !.op = "password_reset", !.stage = "revoke", !.user = u]
<1>1. /\ job' = [job EXCEPT ![w] = new] /\ IsIdle(w) /\ ~UserHeld(u)
      /\ UNCHANGED <<user, row, epoch, closed, outrun>>
      /\ UNCHANGED <<preauth, denied, redis, cut>>
  BY DEF ResetPassword
<1>2. /\ new \in Jobs /\ new.user = u /\ new.new = None /\ new.stage = "revoke"
      /\ new.op = "password_reset" /\ new.seen = {}
  BY DEF Idle, Jobs, Ops, Stages, Revocations
<1> HIDE DEF new
<1>3. JobOk(new)
  BY <1>2 DEF JobOk, JobTyped, JobRows, JobStamped, JobCovers, JobResets, Revoking,
     UserWide, Revocations
<1>4. ASSUME NEW v \in Workers \ {w}  PROVE Apart(new, job[v])
  BY <1>1, <1>2, Locks DEF Apart, HeldRows
<1>5. job[w].new \notin cut
  BY <1>1 DEF IsIdle, IInv, TypeOK, JobsOk, JobOk, JobTyped
<1>6. budget' \in Nat
  BY DEF IInv, TypeOK, ResetPassword, Event
<1> QED
  BY <1>1, <1>3, <1>4, <1>5, <1>6, JobStep DEF IInv, TypeOK

LEMMA StatementStartsKeeps ==
  ASSUME IInv, NEW w \in Workers, StatementStarts(w)
  PROVE  IInv'
<1> DEFINE old == job[w]
           new == [old EXCEPT !.stage = "snapshot", !.seen = Matching(w)]
<1>1. /\ job' = [job EXCEPT ![w] = new] /\ old.stage = "revoke"
      /\ UNCHANGED <<user, row, epoch, closed, outrun>>
      /\ UNCHANGED <<preauth, denied, redis, budget, cut>>
  BY DEF StatementStarts
<1>2. JobOk(old) /\ old \in Jobs /\ old.new = None /\ old.user \in Users
  BY <1>1 DEF IInv, JobsOk, JobOk, JobTyped
<1>3. Matching(w) \subseteq Sessions
  BY DEF Matching
<1>4. /\ new \in Jobs /\ new.user = old.user /\ new.new = None /\ new.op = old.op
      /\ new.at = old.at /\ new.stage = "snapshot" /\ new.seen = Matching(w)
  BY <1>2, <1>3 DEF Jobs, Stages
<1> HIDE DEF new
<1>5. JobTyped(new) /\ JobRows(new) /\ JobStamped(new)
  BY <1>1, <1>2, <1>4 DEF JobOk, JobTyped, JobRows, JobStamped, Revoking, Matching
<1>6. ASSUME NEW x \in new.seen, NEW s \in Sessions, Usable(s),
             row[s].family = row[x].family
      PROVE  s \in new.seen
  <2>1. row[s].issued /\ row[x].issued /\ x \in Sessions /\ ~row[s].revoked
    BY <1>4, <1>6 DEF Matching, Usable
  <2>2. row[s].user = row[x].user
    BY <1>6, <2>1 DEF IInv, RowsOk
  <2> QED
    BY <1>4, <1>6, <2>1, <2>2 DEF Matching
<1>7. ASSUME new.op = "password_reset", NEW s \in Sessions, Usable(s),
             row[s].user = new.user
      PROVE  s \in new.seen
  BY <1>4, <1>7 DEF Matching, Usable
<1>8. JobOk(new)
  BY <1>5, <1>6, <1>7 DEF JobOk, JobCovers, JobResets
<1>9. ASSUME NEW v \in Workers \ {w}  PROVE Apart(new, job[v])
  <2>1. Apart(old, job[v])
    BY DEF IInv, JobsOk
  <2> QED
    BY <1>4, <2>1 DEF Apart, HeldRows
<1>10. job[w].new \notin cut
  BY <1>2 DEF IInv, TypeOK
<1> HIDE DEF old
<1> QED
  BY <1>1, <1>8, <1>9, <1>10, JobStep DEF IInv, TypeOK

LEMMA StatementEndsKeeps ==
  ASSUME IInv, NEW w \in Workers, StatementEnds(w)
  PROVE  IInv'
<1> DEFINE old == job[w]
           kept == {s \in old.seen : ~row[s].revoked}
           new == [old EXCEPT !.stage = "holding", !.seen = kept]
<1>1. /\ job' = [job EXCEPT ![w] = new] /\ old.stage = "snapshot"
      /\ \A s \in old.seen : ~RowHeld(s)
      /\ UNCHANGED <<user, row, epoch, closed, outrun>>
      /\ UNCHANGED <<preauth, denied, redis, budget, cut>>
  BY DEF StatementEnds
<1>2. JobOk(old) /\ old \in Jobs /\ old.new = None /\ old.user \in Users
      /\ old.seen \subseteq Sessions
  BY <1>1 DEF IInv, JobsOk, JobOk, JobTyped, Jobs
<1>3. /\ new \in Jobs /\ new.user = old.user /\ new.new = None /\ new.op = old.op
      /\ new.at = old.at /\ new.stage = "holding" /\ new.seen = kept /\ new.late = old.late
  BY <1>2 DEF Jobs, Stages
<1> HIDE DEF new
<1>4. JobTyped(new) /\ JobRows(new) /\ JobStamped(new)
  BY <1>1, <1>2, <1>3 DEF JobOk, JobTyped, JobRows, JobStamped, Revoking
<1>5. JobCovers(new)
  BY <1>1, <1>2, <1>3 DEF JobOk, JobCovers, Usable, Revoking
<1>6. JobResets(new)
  BY <1>1, <1>2, <1>3 DEF JobOk, JobResets, Usable, Revoking
<1>7. ASSUME NEW v \in Workers \ {w}  PROVE Apart(new, job[v])
  <2>1. Apart(old, job[v])
    BY DEF IInv, JobsOk
  <2>2. HeldRows(new) \intersect HeldRows(job[v]) = {}
    BY <1>1, <1>2, <1>3, Locks DEF HeldRows
  <2> QED
    BY <1>3, <2>1, <2>2 DEF Apart
<1>8. job[w].new \notin cut
  BY <1>2 DEF IInv, TypeOK
<1>9. JobOk(new)
  BY <1>4, <1>5, <1>6 DEF JobOk
<1> HIDE DEF old
<1> QED
  BY <1>1, <1>7, <1>8, <1>9, JobStep DEF IInv, TypeOK

-----------------------------------------------------------------------------
(* The epoch goes up in Redis; no row changes.                               *)

LEMMA BumpEpochKeeps ==
  ASSUME IInv, NEW w \in Workers, BumpEpoch(w)
  PROVE  IInv'
<1> DEFINE old == job[w]
           u == old.user
           new == [old EXCEPT !.stage = "bumped"]
<1>1. /\ job' = [job EXCEPT ![w] = new] /\ old.stage = "holding" /\ old.op = "logout_all"
      /\ UNCHANGED <<user, row, closed, outrun>>
      /\ UNCHANGED <<preauth, denied, redis, budget>>
  BY DEF BumpEpoch
<1>2. JobOk(old) /\ old \in Jobs /\ old.new = None /\ u \in Users
  BY <1>1 DEF IInv, JobsOk, JobOk, JobTyped
<1>3. /\ new \in Jobs /\ new.user = u /\ new.new = None /\ new.op = "logout_all"
      /\ new.at = old.at /\ new.stage = "bumped" /\ new.seen = old.seen
      /\ new.late = old.late
  BY <1>1, <1>2 DEF Jobs, Stages
<1> HIDE DEF new
<1>4. /\ epoch' \in [Users -> Nat]
      /\ \A x \in Users : epoch[x] \in Nat /\ epoch'[x] \in Nat /\ epoch[x] <= epoch'[x]
      /\ cut' \subseteq Sessions
  BY <1>2 DEF BumpEpoch, IInv, TypeOK
<1>5. \A v \in Workers : job[v].stamp \in Nat
  BY DEF IInv, TypeOK, Jobs
<1>6. \A s \in Sessions : row[s].stamp \in Nat
  BY DEF IInv, TypeOK, Rows
<1>7. job' \in [Workers -> Jobs] /\ job'[w] = new /\ \A v \in Workers \ {w} : job'[v] = job[v]
  BY <1>1, <1>3 DEF IInv, TypeOK
<1>8. TypeOK'
  BY <1>1, <1>4, <1>7 DEF IInv, TypeOK
<1>9. JobsOk'
  <2>1. ASSUME NEW v \in Workers, v # w  PROVE JobOk(job[v])'
    <3>1. JobOk(job[v]) /\ job'[v] = job[v]
      BY <1>7, <2>1 DEF IInv, JobsOk
    <3>2. JobStamped(job[v])'
      BY <1>1, <1>4, <1>5, <3>1 DEF JobOk, JobStamped, JobTyped
    <3> QED
      BY <1>1, <3>1, <3>2 DEF JobOk, JobRows, JobCovers, JobResets, Usable
  <2>2. JobOk(job[w])'
    <3>1. JobTyped(new)
      BY <1>1, <1>2, <1>3 DEF JobOk, JobTyped, Revoking
    <3>2. JobRows(new) /\ JobStamped(new) /\ JobCovers(new) /\ JobResets(new)
      BY <1>1, <1>2, <1>3 DEF JobOk, JobRows, JobStamped, JobCovers, JobResets, Revoking
    <3>3. JobStamped(job[w])'
      BY <1>3, <1>7 DEF JobStamped
    <3>4. (JobTyped(job[w]) /\ JobRows(job[w]) /\ JobCovers(job[w]) /\ JobResets(job[w]))'
      BY <1>1, <1>7, <3>1, <3>2 DEF JobTyped, JobRows, JobCovers, JobResets, Usable
    <3> QED
      BY <3>3, <3>4 DEF JobOk
  <2>3. ASSUME NEW v \in Workers \ {w}  PROVE Apart(new, job[v]) /\ Apart(job[v], new)
    <3>1. Apart(old, job[v])
      BY DEF IInv, JobsOk
    <3> QED
      BY <1>1, <1>3, <3>1 DEF Apart, HeldRows
  <2>4. \A v \in Workers : \A x \in Workers \ {v} : Apart(job'[v], job'[x])
    BY <1>7, <2>3 DEF IInv, JobsOk
  <2> QED
    BY <2>1, <2>2, <2>4 DEF JobsOk
<1>10. RowsOk'
  <2>1. ASSUME NEW s \in Sessions, row[s].issued  PROVE row[s].stamp <= epoch'[row[s].user]
    BY <1>4, <1>6, <2>1 DEF IInv, TypeOK, RowsOk
  <2> QED
    BY <1>1, <2>1 DEF IInv, RowsOk
<1>11. CutOk'
  <2>1. ASSUME NEW s \in cut
        PROVE  \/ row[s].issued /\ row[s].stamp < epoch'[row[s].user]
               \/ \E v \in Workers : job'[v].new = s /\ job'[v].stamp < epoch'[job'[v].user]
    <3>1. s \in Sessions
      BY DEF IInv, TypeOK
    <3>2. CASE row[s].issued /\ row[s].stamp < epoch[row[s].user]
      BY <1>4, <1>6, <3>1, <3>2 DEF IInv, TypeOK
    <3>3. CASE \E v \in Workers : job[v].new = s /\ job[v].stamp < epoch[job[v].user]
      <4>1. PICK v \in Workers : job[v].new = s /\ job[v].stamp < epoch[job[v].user]
        BY <3>3
      <4>2. v # w /\ job'[v] = job[v]
        BY <1>2, <1>7, <3>1, <4>1
      <4>3. job[v].user \in Users
        BY <3>1, <4>1 DEF IInv, JobsOk, JobOk, JobTyped
      <4>4. job[v].stamp < epoch'[job[v].user]
        BY <1>4, <1>5, <4>1, <4>3
      <4> QED
        BY <4>1, <4>2, <4>4
    <3> QED
      BY <3>2, <3>3 DEF IInv, CutOk
  <2>2. CASE ~redis
    BY <1>1, <2>1, <2>2 DEF BumpEpoch, CutOk
  <2>3. CASE redis
    <3>1. epoch'[u] = epoch[u] + 1
      BY <1>2, <2>3 DEF BumpEpoch, IInv, TypeOK
    <3>2. cut' = cut \union
                 {s \in Sessions : row[s].issued /\ row[s].user = u} \union
                 {s \in Sessions : \E v \in Workers : job[v].new = s /\ job[v].user = u}
      BY <2>3 DEF BumpEpoch
    <3>3. ASSUME NEW s \in Sessions, row[s].issued, row[s].user = u
          PROVE  row[s].stamp < epoch'[row[s].user]
      BY <1>2, <1>4, <1>6, <3>1, <3>3 DEF IInv, RowsOk
    <3>4. ASSUME NEW s \in Sessions, NEW v \in Workers, job[v].new = s, job[v].user = u
          PROVE  job'[v].new = s /\ job'[v].stamp < epoch'[job'[v].user]
      <4>1. v # w /\ job'[v] = job[v]
        BY <1>2, <1>7, <3>4
      <4>2. job[v].stamp <= epoch[u]
        BY <3>4 DEF IInv, JobsOk, JobOk, JobTyped, JobStamped
      <4> QED
        BY <1>2, <1>4, <1>5, <3>1, <3>4, <4>1, <4>2
    <3> QED
      BY <1>1, <2>1, <3>2, <3>3, <3>4 DEF CutOk
  <2> QED
    BY <2>2, <2>3
<1>12. OneSuccessor' /\ ClosedStaysClosed' /\ PasswordChangeEndsSessions'
  BY <1>1 DEF IInv, OneSuccessor, ClosedStaysClosed, PasswordChangeEndsSessions, Usable
<1> QED
  BY <1>8, <1>9, <1>10, <1>11, <1>12 DEF IInv

-----------------------------------------------------------------------------
(* A sign-in commits.                                                        *)

LEMMA OpenCommitsKeeps ==
  ASSUME IInv, NEW w \in Workers, OpenCommits(w)
  PROVE  IInv'
<1> DEFINE old == job[w]
           n == old.new
           born == NewRow(w, n)
<1>1. /\ old.stage = "opened" /\ row' = [row EXCEPT ![n] = born]
      /\ job' = [job EXCEPT ![w] = Idle]
      /\ UNCHANGED <<user, epoch, closed, outrun, cut>>
      /\ UNCHANGED <<preauth, denied, redis, budget>>
  BY DEF OpenCommits
<1>2. JobOk(old) /\ old \in Jobs /\ n \in Sessions /\ ~row[n].issued /\ old.user \in Users
      /\ old.op \in {"login", "login_mfa"}
  BY <1>1 DEF IInv, JobsOk, JobOk, JobTyped, JobRows
<1>3. /\ born \in Rows /\ born.issued /\ ~born.rotated /\ ~born.revoked /\ ~born.expired
      /\ born.user = old.user /\ born.family = n /\ born.stamp = old.stamp
      /\ born.password = old.password /\ born.second = (old.op = "login_mfa")
  BY <1>2 DEF NewRow, NoRow, Rows, Jobs
<1> HIDE DEF born
<1>4. /\ row' \in [Sessions -> Rows] /\ row'[n] = born
      /\ \A s \in Sessions \ {n} : row'[s] = row[s]
  BY <1>1, <1>2, <1>3 DEF IInv, TypeOK
<1>5. job' \in [Workers -> Jobs] /\ job'[w] = Idle /\ \A v \in Workers \ {w} : job'[v] = job[v]
  BY <1>1, IdleOk DEF IInv, TypeOK, JobTyped
<1>6. \A s \in Sessions : row[s].issued => row[s].family # n /\ s # n
  BY <1>2 DEF IInv, RowsOk
<1>7. TypeOK'
  BY <1>1, <1>2, <1>3, <1>4, <1>5 DEF IInv, TypeOK
<1>8. JobsOk'
  <2>1. ASSUME NEW v \in Workers, v # w  PROVE JobOk(job[v])'
    <3>1. JobOk(job[v]) /\ job'[v] = job[v] /\ Apart(job[v], old) /\ Apart(old, job[v])
      BY <1>5, <2>1 DEF IInv, JobsOk
    <3>2. job[v].new # n
      BY <1>2, <3>1 DEF Apart
    <3>3. JobTyped(job[v])'
      BY <3>1 DEF JobOk, JobTyped
    <3>4. job[v] \in Jobs
      BY <3>1 DEF JobOk, JobTyped
    <3>5. JobRows(job[v])'
      BY <1>2, <1>4, <3>1, <3>2, <3>4 DEF JobOk, JobTyped, JobRows, Usable, Jobs, Revoking
    <3>6. JobStamped(job[v])'
      BY <1>1, <3>1 DEF JobOk, JobStamped
    <3>7. JobCovers(job[v])'
      <4>1. SUFFICES ASSUME job[v].stage \in Revoking, NEW x \in job[v].seen, NEW s \in Sessions,
                            Usable(s)', row'[s].family = row'[x].family
                     PROVE  s \in job[v].seen \/ row'[s].family \in job[v].late
        BY <3>1 DEF JobCovers
      <4>2. x \in Sessions /\ row[x].issued /\ x # n
        BY <1>2, <3>1, <3>4, <4>1 DEF JobOk, JobRows, Jobs
      <4>3. s # n
        BY <1>3, <1>4, <1>6, <4>1, <4>2
      <4> QED
        BY <1>4, <3>1, <4>1, <4>2, <4>3 DEF JobOk, JobCovers, Usable
    <3>8. JobResets(job[v])'
      <4>1. SUFFICES ASSUME job[v].stage \in Revoking, job[v].op = "password_reset",
                            NEW s \in Sessions, Usable(s)', row'[s].user = job[v].user,
                            ~row'[s].second
                     PROVE  \/ s \in job[v].seen
                            \/ row'[s].family \in outrun'
                            \/ /\ row'[s].family \in job[v].late
                               /\ \E x \in job[v].seen :
                                     ~row'[x].revoked /\ row'[x].family = row'[s].family
        BY <3>1 DEF JobResets
      <4>2. s # n
        BY <1>2, <1>3, <1>4, <3>1, <4>1 DEF Apart, UserHolders
      <4>3. Usable(s) /\ row[s].user = job[v].user /\ ~row[s].second /\ row'[s] = row[s]
        BY <1>4, <4>1, <4>2 DEF Usable
      <4>4. \A x \in job[v].seen : x \in Sessions /\ x # n
        BY <1>2, <3>1, <3>4, <4>1 DEF JobOk, JobRows, Jobs
      <4> QED
        BY <1>1, <1>4, <3>1, <4>1, <4>3, <4>4 DEF JobOk, JobResets
    <3> QED
      BY <3>3, <3>5, <3>6, <3>7, <3>8 DEF JobOk
  <2>2. JobOk(job[w])'
    BY <1>5, IdleOk DEF JobOk, JobTyped, JobRows, JobStamped, JobCovers, JobResets, Revoking
  <2>3. \A v \in Workers \ {w} : Apart(Idle, job[v]) /\ Apart(job[v], Idle)
    BY IdleOk DEF Apart, UserHolders, IInv, TypeOK, JobsOk, JobOk, JobTyped
  <2>4. \A v \in Workers : \A x \in Workers \ {v} : Apart(job'[v], job'[x])
    BY <1>5, <2>3 DEF IInv, JobsOk
  <2> QED
    BY <2>1, <2>2, <2>4 DEF JobsOk
<1>9. RowsOk'
  <2>1. old.stamp <= epoch[old.user]
    BY <1>1, <1>2 DEF JobOk, JobStamped
  <2>2. ASSUME NEW s \in Sessions, row'[s].issued
        PROVE  row'[row'[s].family].issued /\ row'[s].stamp <= epoch'[row'[s].user]
    <3>1. CASE s = n
      BY <1>1, <1>3, <1>4, <2>1, <3>1
    <3>2. CASE s # n
      <4>1. row'[s] = row[s] /\ row[s].issued /\ row[s].family # n /\ row[s].family \in Sessions
        BY <1>4, <1>6, <2>2, <3>2 DEF IInv, TypeOK
      <4> QED
        BY <1>1, <1>4, <4>1 DEF IInv, RowsOk
    <3> QED
      BY <3>1, <3>2
  <2>3. ASSUME NEW s \in Sessions, NEW t \in Sessions, row'[s].issued, row'[t].issued,
               row'[s].family = row'[t].family
        PROVE  row'[s].user = row'[t].user
    BY <1>3, <1>4, <1>6, <2>3 DEF IInv, RowsOk
  <2>4. \A f \in closed' : row'[f].issued
    BY <1>1, <1>2, <1>3, <1>4 DEF IInv, RowsOk, TypeOK
  <2> QED
    BY <2>2, <2>3, <2>4 DEF RowsOk
<1>10. CutOk'
  <2>1. SUFFICES ASSUME NEW s \in cut
                 PROVE  \/ row'[s].issued /\ row'[s].stamp < epoch'[row'[s].user]
                        \/ \E v \in Workers : job'[v].new = s /\ job'[v].stamp < epoch'[job'[v].user]
    BY <1>1 DEF CutOk
  <2>2. s \in Sessions
    BY DEF IInv, TypeOK
  <2>3. CASE row[s].issued /\ row[s].stamp < epoch[row[s].user]
    BY <1>1, <1>4, <1>6, <2>2, <2>3
  <2>4. CASE \E v \in Workers : job[v].new = s /\ job[v].stamp < epoch[job[v].user]
    <3>1. PICK v \in Workers : job[v].new = s /\ job[v].stamp < epoch[job[v].user]
      BY <2>4
    <3> QED
      BY <1>1, <1>3, <1>4, <1>5, <3>1
  <2> QED
    BY <2>3, <2>4 DEF IInv, CutOk
<1>11. OneSuccessor'
  BY <1>3, <1>4, <1>6 DEF IInv, OneSuccessor
<1>12. ClosedStaysClosed'
  BY <1>1, <1>2, <1>3, <1>4 DEF IInv, ClosedStaysClosed, RowsOk, Usable
<1>13. PasswordChangeEndsSessions'
  <2>1. SUFFICES ASSUME NEW s \in Sessions, Usable(s)', ~row'[s].second,
                        row'[s].password # user[row'[s].user].password
                 PROVE  row'[s].family \in outrun
    BY <1>1 DEF PasswordChangeEndsSessions
  <2>2. s # n
    BY <1>1, <1>2, <1>3, <1>4, <2>1 DEF JobOk, JobStamped
  <2> QED
    BY <1>4, <2>1, <2>2 DEF IInv, PasswordChangeEndsSessions, Usable
<1> QED
  BY <1>7, <1>8, <1>9, <1>10, <1>11, <1>12, <1>13 DEF IInv

-----------------------------------------------------------------------------
(* A refresh commits: one row is exchanged for another of its family.  What  *)
(* the step does, once for the invariant and once for the refinement.        *)

LEMMA ExchangeStep ==
  ASSUME IInv, NEW w \in Workers, RefreshCommits(w)
  PROVE  /\ job[w].at \in Sessions /\ job[w].new \in Sessions /\ job[w].at # job[w].new
         /\ Usable(job[w].at) /\ ~row[job[w].new].issued
         /\ row' \in [Sessions -> Rows]
         /\ row'[job[w].at] = [row[job[w].at] EXCEPT !.rotated = TRUE]
         /\ \A s \in Sessions \ {job[w].at, job[w].new} : row'[s] = row[s]
         /\ LET born == row'[job[w].new] IN
              /\ born.issued /\ ~born.rotated /\ ~born.revoked /\ ~born.expired
              /\ born.user = row[job[w].at].user /\ born.family = row[job[w].at].family
              /\ born.second = row[job[w].at].second
              /\ born.password = row[job[w].at].password /\ born.stamp = job[w].stamp
<1> DEFINE old == job[w]
           a == old.at
           n == old.new
           born == [NewRow(w, row[a].family) EXCEPT !.second = row[a].second]
<1>1. /\ old.stage = "rotated"
      /\ row' = [row EXCEPT ![a] = [row[a] EXCEPT !.rotated = TRUE], ![n] = born]
  BY DEF RefreshCommits
<1>2. JobOk(old) /\ old \in Jobs
  BY DEF IInv, JobsOk, JobOk, JobTyped
<1>3. /\ a \in Sessions /\ n \in Sessions /\ Usable(a) /\ ~row[n].issued
      /\ old.user = row[a].user /\ old.password = row[a].password /\ old.op = "refresh"
  BY <1>1, <1>2 DEF JobOk, JobTyped, JobRows
<1>4. a # n /\ row[a].issued /\ row[a] \in Rows /\ row \in [Sessions -> Rows]
  BY <1>3 DEF Usable, IInv, TypeOK
<1>5. /\ born \in Rows /\ born.issued /\ ~born.rotated /\ ~born.revoked /\ ~born.expired
      /\ born.user = old.user /\ born.family = row[a].family /\ born.stamp = old.stamp
      /\ born.password = old.password /\ born.second = row[a].second
  <2> DEFINE plain == NewRow(w, row[a].family)
  <2>1. row[a].family \in Sessions \union {None} /\ row[a].second \in BOOLEAN
    BY <1>4 DEF Rows
  <2>2. /\ plain \in Rows /\ plain.issued /\ ~plain.rotated /\ ~plain.revoked
        /\ ~plain.expired /\ plain.user = old.user /\ plain.family = row[a].family
        /\ plain.stamp = old.stamp /\ plain.password = old.password
    BY <1>2, <2>1 DEF NewRow, NoRow, Rows, Jobs
  <2>3. born = [plain EXCEPT !.second = row[a].second]
    OBVIOUS
  <2> HIDE DEF plain, born
  <2> QED
    BY <2>1, <2>2, <2>3 DEF Rows
<1>6. [row[a] EXCEPT !.rotated = TRUE] \in Rows
  BY <1>4 DEF Rows
<1> HIDE DEF born
<1>7. row' \in [Sessions -> Rows] /\ row'[n] = born
      /\ row'[a] = [row[a] EXCEPT !.rotated = TRUE]
      /\ \A s \in Sessions \ {a, n} : row'[s] = row[s]
  BY <1>1, <1>3, <1>4, <1>5, <1>6
<1> QED
  BY <1>3, <1>4, <1>5, <1>7

LEMMA RefreshCommitsKeeps ==
  ASSUME IInv, NEW w \in Workers, RefreshCommits(w)
  PROVE  IInv'
<1> DEFINE old == job[w]
           a == old.at
           n == old.new
           fam == row[a].family
<1>1. /\ old.stage = "rotated"
      /\ job' = [v \in Workers |->
               IF v = w THEN Idle
               ELSE IF job[v].stage = "snapshot" /\ a \in job[v].seen
               THEN [job[v] EXCEPT !.late = job[v].late \union {fam}]
               ELSE job[v]]
      /\ UNCHANGED <<user, epoch, closed, outrun, cut>>
      /\ UNCHANGED <<preauth, denied, redis, budget>>
  BY DEF RefreshCommits
<1>2. JobOk(old) /\ old \in Jobs /\ old.user = row[a].user /\ old.user \in Users
  BY <1>1 DEF IInv, JobsOk, JobOk, JobTyped, JobRows
<1>3. /\ a \in Sessions /\ n \in Sessions /\ a # n
      /\ row[a].issued /\ ~row[a].rotated /\ ~row[a].revoked /\ ~row[a].expired
      /\ ~row[n].issued /\ fam \in Sessions
      /\ row' \in [Sessions -> Rows]
      /\ \A s \in Sessions \ {a, n} : row'[s] = row[s]
  BY ExchangeStep DEF Usable, IInv, TypeOK
<1>4. /\ row'[a].issued /\ row'[a].rotated /\ ~row'[a].revoked
      /\ row'[a].user = row[a].user /\ row'[a].family = fam /\ row'[a].stamp = row[a].stamp
      /\ row'[a].revoked = row[a].revoked
  <2>1. row'[a] = [row[a] EXCEPT !.rotated = TRUE]
    BY ExchangeStep
  <2>2. row[a] \in Rows
    BY <1>3 DEF IInv, TypeOK
  <2> QED
    BY <1>3, <2>1, <2>2 DEF Rows
<1>5. /\ row'[n].issued /\ ~row'[n].revoked /\ row'[n].user = row[a].user
      /\ row'[n].family = fam /\ row'[n].second = row[a].second
      /\ row'[n].password = row[a].password /\ row'[n].stamp = old.stamp
  BY ExchangeStep
<1>6. ASSUME NEW s \in Sessions, row[s].issued
      PROVE  /\ row[s].family \in Sessions /\ row[s].family # n /\ s # n
             /\ row'[s].issued /\ row'[s].family = row[s].family /\ row'[s].user = row[s].user
             /\ row'[s].stamp = row[s].stamp /\ row'[s].revoked = row[s].revoked
  <2>1. row[s].family \in Sessions /\ row[row[s].family].issued
    BY <1>6 DEF IInv, RowsOk, TypeOK
  <2>2. s # n /\ row[s].family # n
    BY <1>3, <1>6, <2>1
  <2>3. CASE s = a
    BY <1>3, <1>4, <2>1, <2>2, <2>3
  <2>4. CASE s # a
    <3>1. row'[s] = row[s]
      BY <1>3, <2>2, <2>4
    <3> QED
      BY <1>6, <2>1, <2>2, <3>1
  <2> QED
    BY <2>3, <2>4
<1>7. ASSUME NEW s \in Sessions, Usable(s)'
      PROVE  \/ s = n
             \/ s # n /\ s # a /\ Usable(s) /\ row'[s] = row[s]
  BY <1>3, <1>4, <1>7 DEF Usable
<1>8. ASSUME NEW v \in Workers, v # w
      PROVE  /\ job[v] \in Jobs /\ job'[v] \in Jobs
             /\ job'[v].op = job[v].op /\ job'[v].stage = job[v].stage
             /\ job'[v].user = job[v].user /\ job'[v].at = job[v].at
             /\ job'[v].new = job[v].new /\ job'[v].password = job[v].password
             /\ job'[v].stamp = job[v].stamp /\ job'[v].seen = job[v].seen
             /\ job[v].late \subseteq job'[v].late
             /\ job[v].stage = "snapshot" /\ a \in job[v].seen => fam \in job'[v].late
  <2>1. job[v] \in Jobs
    BY DEF IInv, TypeOK
  <2> DEFINE told == [job[v] EXCEPT !.late = job[v].late \union {fam}]
  <2>2. /\ told \in Jobs /\ told.op = job[v].op /\ told.stage = job[v].stage
        /\ told.user = job[v].user /\ told.at = job[v].at /\ told.new = job[v].new
        /\ told.password = job[v].password /\ told.stamp = job[v].stamp
        /\ told.seen = job[v].seen /\ told.late = job[v].late \union {fam}
    BY <1>3, <2>1 DEF Jobs
  <2>3. job'[v] = IF job[v].stage = "snapshot" /\ a \in job[v].seen THEN told ELSE job[v]
    BY <1>1, <1>8
  <2> HIDE DEF told
  <2> QED
    BY <2>1, <2>2, <2>3
<1>9. job'[w] = Idle
  BY <1>1
<1>10. TypeOK'
  <2>1. job' \in [Workers -> Jobs]
    <3>1. \A v \in Workers : job'[v] \in Jobs
      BY <1>8, <1>9, IdleOk DEF JobTyped
    <3> QED
      BY <1>1, <3>1
  <2>2. \A s \in Sessions : row'[s].issued => row'[s].user \in Users /\ row'[s].family \in Sessions
    BY <1>2, <1>3, <1>4, <1>5 DEF IInv, TypeOK
  <2> QED
    BY <1>1, <1>3, <2>1, <2>2 DEF IInv, TypeOK
<1>11. JobsOk'
  <2>1. ASSUME NEW v \in Workers, v # w  PROVE JobOk(job[v])'
    <3>1. JobOk(job[v]) /\ Apart(job[v], old) /\ Apart(old, job[v])
      BY <2>1 DEF IInv, JobsOk
    <3>2. job[v].new # n /\ ~(a \in HeldRows(job[v]))
      BY <1>1, <1>3, <3>1 DEF Apart, HeldRows
    <3>3. JobTyped(job'[v])
      BY <1>8, <2>1, <3>1 DEF JobOk, JobTyped
    <3>4. JobRows(job[v])'
      BY <1>3, <1>6, <1>8, <2>1, <3>1, <3>2 DEF JobOk, JobTyped, JobRows, Usable, Jobs, Revoking,
         HeldRows
    <3>5. JobStamped(job[v])'
      BY <1>1, <1>8, <2>1, <3>1 DEF JobOk, JobStamped
    <3>6. job[v].stage \in Revoking /\ a \in job[v].seen => fam \in job'[v].late
      BY <1>3, <1>8, <2>1, <3>2 DEF HeldRows, Revoking
    <3>7. JobCovers(job[v])'
      <4>1. SUFFICES ASSUME job[v].stage \in Revoking, NEW x \in job[v].seen, NEW s \in Sessions,
                            Usable(s)', row'[s].family = row'[x].family
                     PROVE  s \in job[v].seen \/ row'[s].family \in job'[v].late
        BY <1>8, <2>1 DEF JobCovers
      <4>2. x \in Sessions /\ row[x].issued
        BY <1>8, <2>1, <3>1, <4>1 DEF JobOk, JobRows, Jobs
      <4>3. row'[x].family = row[x].family
        BY <1>6, <4>2
      <4>4. CASE s = n
        <5>1. Usable(a) /\ row[a].family = row[x].family
          BY <1>3, <1>5, <4>1, <4>3, <4>4 DEF Usable
        <5>2. a \in job[v].seen \/ fam \in job[v].late
          BY <1>3, <3>1, <4>1, <5>1 DEF JobOk, JobCovers
        <5> QED
          BY <1>5, <1>8, <2>1, <3>6, <4>1, <4>4, <5>2
      <4>5. CASE s # n
        <5>1. Usable(s) /\ row'[s] = row[s]
          BY <1>7, <4>1, <4>5
        <5>2. s \in job[v].seen \/ row[s].family \in job[v].late
          BY <3>1, <4>1, <4>3, <5>1 DEF JobOk, JobCovers
        <5> QED
          BY <1>8, <2>1, <5>1, <5>2
      <4> QED
        BY <4>4, <4>5
    <3>8. JobResets(job[v])'
      <4>1. SUFFICES ASSUME job[v].stage \in Revoking, job[v].op = "password_reset",
                            NEW s \in Sessions, Usable(s)', row'[s].user = job[v].user,
                            ~row'[s].second
                     PROVE  \/ s \in job[v].seen
                            \/ row'[s].family \in outrun
                            \/ /\ row'[s].family \in job'[v].late
                               /\ \E x \in job[v].seen :
                                     ~row'[x].revoked /\ row'[x].family = row'[s].family
        BY <1>1, <1>8, <2>1 DEF JobResets
      <4>2. ASSUME NEW x \in job[v].seen
            PROVE  x \in Sessions /\ row'[x].family = row[x].family /\ row'[x].revoked = row[x].revoked
        BY <1>6, <1>8, <2>1, <3>1, <4>1 DEF JobOk, JobRows, Jobs
      <4>3. ASSUME NEW t \in Sessions, Usable(t), row[t].user = job[v].user, ~row[t].second
            PROVE  \/ t \in job[v].seen
                   \/ row[t].family \in outrun
                   \/ /\ row[t].family \in job'[v].late
                      /\ \E x \in job[v].seen :
                            ~row'[x].revoked /\ row'[x].family = row[t].family
        <5>1. \/ t \in job[v].seen
              \/ row[t].family \in outrun
              \/ /\ row[t].family \in job[v].late
                 /\ \E x \in job[v].seen : ~row[x].revoked /\ row[x].family = row[t].family
          BY <3>1, <4>1, <4>3 DEF JobOk, JobResets
        <5> QED
          BY <1>8, <2>1, <4>2, <5>1
      <4>4. CASE s = n
        <5>1. Usable(a) /\ row[a].user = job[v].user /\ ~row[a].second
          BY <1>3, <1>5, <4>1, <4>4 DEF Usable
        <5>2. CASE a \in job[v].seen
          BY <1>3, <1>5, <3>6, <4>1, <4>2, <4>4, <5>2
        <5>3. CASE a \notin job[v].seen
          BY <1>3, <1>5, <4>3, <4>4, <5>1, <5>3
        <5> QED
          BY <5>2, <5>3
      <4>5. CASE s # n
        BY <1>7, <4>1, <4>3, <4>5
      <4> QED
        BY <4>4, <4>5
    <3> QED
      BY <3>3, <3>4, <3>5, <3>7, <3>8 DEF JobOk, JobTyped
  <2>2. JobOk(job[w])'
    BY <1>9, IdleOk DEF JobOk, JobTyped, JobRows, JobStamped, JobCovers, JobResets, Revoking
  <2>3. ASSUME NEW v \in Workers, v # w
        PROVE  /\ HeldRows(job'[v]) = HeldRows(job[v]) /\ job'[v].new = job[v].new
               /\ job'[v].op = job[v].op /\ job'[v].user = job[v].user
    BY <1>8, <2>3 DEF HeldRows
  <2>4. ASSUME NEW v \in Workers, NEW x \in Workers \ {v}
        PROVE  Apart(job'[v], job'[x])
    <3>1. Apart(job[v], job[x])
      BY DEF IInv, JobsOk
    <3>2. job[v].new = None \/ job[v].new \in Sessions
      BY DEF IInv, TypeOK, Jobs
    <3>3. CASE v = w
      BY <1>9, <3>3, IdleOk DEF Apart, UserHolders
    <3>4. CASE x = w
      BY <1>9, <3>4, <2>3, <3>1, IdleOk DEF Apart, UserHolders
    <3>5. CASE v # w /\ x # w
      BY <2>3, <3>1, <3>5 DEF Apart
    <3> QED
      BY <3>3, <3>4, <3>5
  <2> QED
    BY <2>1, <2>2, <2>4 DEF JobsOk
<1>12. RowsOk'
  <2>1. old.stamp <= epoch[old.user]
    BY <1>1, <1>2 DEF JobOk, JobStamped
  <2>2. ASSUME NEW s \in Sessions, row'[s].issued
        PROVE  row'[row'[s].family].issued /\ row'[s].stamp <= epoch'[row'[s].user]
    <3>1. CASE s = n
      <4>1. row[fam].issued
        BY <1>3 DEF IInv, RowsOk
      <4> QED
        BY <1>1, <1>2, <1>3, <1>5, <1>6, <2>1, <3>1, <4>1
    <3>2. CASE s # n
      <4>1. row[s].issued
        BY <1>3, <2>2, <3>2
      <4>2. row[row[s].family].issued /\ row[s].stamp <= epoch[row[s].user]
        BY <4>1 DEF IInv, RowsOk
      <4> QED
        BY <1>1, <1>6, <4>1, <4>2
    <3> QED
      BY <3>1, <3>2
  <2>3. ASSUME NEW s \in Sessions, row'[s].issued
        PROVE  \E t \in Sessions : /\ row[t].issued /\ row'[s].family = row[t].family
                                   /\ row'[s].user = row[t].user
    <3>1. CASE s = n
      BY <1>3, <1>5, <3>1
    <3>2. CASE s # n
      BY <1>3, <1>6, <2>3, <3>2
    <3> QED
      BY <3>1, <3>2
  <2>4. ASSUME NEW s \in Sessions, NEW t \in Sessions, row'[s].issued, row'[t].issued,
               row'[s].family = row'[t].family
        PROVE  row'[s].user = row'[t].user
    BY <2>3, <2>4 DEF IInv, RowsOk
  <2>5. \A f \in closed' : row'[f].issued
    BY <1>1, <1>6 DEF IInv, RowsOk, TypeOK
  <2> QED
    BY <2>2, <2>4, <2>5 DEF RowsOk
<1>13. CutOk'
  <2>1. SUFFICES ASSUME NEW s \in cut
                 PROVE  \/ row'[s].issued /\ row'[s].stamp < epoch'[row'[s].user]
                        \/ \E v \in Workers : job'[v].new = s /\ job'[v].stamp < epoch'[job'[v].user]
    BY <1>1 DEF CutOk
  <2>2. s \in Sessions
    BY DEF IInv, TypeOK
  <2>3. CASE row[s].issued /\ row[s].stamp < epoch[row[s].user]
    BY <1>1, <1>6, <2>2, <2>3
  <2>4. CASE \E v \in Workers : job[v].new = s /\ job[v].stamp < epoch[job[v].user]
    <3>1. PICK v \in Workers : job[v].new = s /\ job[v].stamp < epoch[job[v].user]
      BY <2>4
    <3>2. CASE v = w
      BY <1>1, <1>2, <1>5, <3>1, <3>2
    <3>3. CASE v # w
      BY <1>1, <1>8, <3>1, <3>3
    <3> QED
      BY <3>2, <3>3
  <2> QED
    BY <2>3, <2>4 DEF IInv, CutOk
<1>14. OneSuccessor'
  <2>1. ASSUME NEW s \in Sessions, row'[s].issued, ~row'[s].rotated, s # n
        PROVE  /\ row[s].issued /\ ~row[s].rotated /\ row'[s].family = row[s].family /\ s # a
    BY <1>3, <1>4, <2>1
  <2>2. ASSUME NEW s \in Sessions, row'[s].issued, ~row'[s].rotated, row'[s].family = fam
        PROVE  s = n
    <3>1. SUFFICES ASSUME s # n PROVE FALSE
      OBVIOUS
    <3>2. row[s].issued /\ ~row[s].rotated /\ row[s].family = fam /\ s # a
      BY <2>1, <2>2, <3>1
    <3> QED
      BY <1>3, <3>2 DEF IInv, OneSuccessor
  <2>3. ASSUME NEW s \in Sessions, NEW t \in Sessions,
               row'[s].issued, ~row'[s].rotated, row'[t].issued, ~row'[t].rotated,
               row'[s].family = row'[t].family
        PROVE  s = t
    <3>1. CASE row'[s].family = fam
      BY <2>2, <2>3, <3>1
    <3>2. CASE row'[s].family # fam
      <4>1. s # n /\ t # n
        BY <1>5, <2>3, <3>2
      <4>2. /\ row[s].issued /\ ~row[s].rotated /\ row[t].issued /\ ~row[t].rotated
            /\ row[s].family = row[t].family
        BY <2>1, <2>3, <4>1
      <4> QED
        BY <4>2 DEF IInv, OneSuccessor
    <3> QED
      BY <3>1, <3>2
  <2> QED
    BY <2>3 DEF OneSuccessor
<1>15. ClosedStaysClosed'
  <2>1. ASSUME NEW s \in Sessions, Usable(s)'  PROVE row'[s].family \notin closed
    <3>1. Usable(a)
      BY <1>3 DEF Usable
    <3> QED
      BY <1>3, <1>5, <1>7, <2>1, <3>1 DEF IInv, ClosedStaysClosed
  <2> QED
    BY <1>1, <2>1 DEF ClosedStaysClosed
<1>16. PasswordChangeEndsSessions'
  <2>1. SUFFICES ASSUME NEW s \in Sessions, Usable(s)', ~row'[s].second,
                        row'[s].password # user[row'[s].user].password
                 PROVE  row'[s].family \in outrun
    BY <1>1 DEF PasswordChangeEndsSessions
  <2>2. CASE s = n
    <3>1. Usable(a)
      BY <1>3 DEF Usable
    <3> QED
      BY <1>3, <1>5, <2>1, <2>2, <3>1 DEF IInv, PasswordChangeEndsSessions
  <2>3. CASE s # n
    BY <1>7, <2>1, <2>3 DEF IInv, PasswordChangeEndsSessions
  <2> QED
    BY <2>2, <2>3
<1> QED
  BY <1>10, <1>11, <1>12, <1>13, <1>14, <1>15, <1>16 DEF IInv

-----------------------------------------------------------------------------
(* A revocation commits.                                                     *)

LEMMA RevokedRows ==
  ASSUME IInv, NEW w \in Workers, RevocationCommits(w)
  PROVE  /\ job[w].stage \in {"holding", "bumped"} /\ job[w].op \in Revocations
         /\ JobOk(job[w]) /\ job[w] \in Jobs /\ job[w].user \in Users
         /\ job[w].seen \subseteq Sessions /\ job[w].new = None
         /\ row' \in [Sessions -> Rows]
         /\ \A s \in Sessions :
              /\ row'[s].issued = row[s].issued /\ row'[s].rotated = row[s].rotated
              /\ row'[s].expired = row[s].expired /\ row'[s].user = row[s].user
              /\ row'[s].family = row[s].family /\ row'[s].password = row[s].password
              /\ row'[s].stamp = row[s].stamp /\ row'[s].second = row[s].second
              /\ s \in job[w].seen => row'[s].revoked
              /\ s \notin job[w].seen => row'[s] = row[s]
<1> DEFINE old == job[w]
<1>1. /\ old.stage \in {"holding", "bumped"}
      /\ row' = [s \in Sessions |->
               IF s \in old.seen THEN [row[s] EXCEPT !.revoked = TRUE] ELSE row[s]]
  BY DEF RevocationCommits
<1>2. JobOk(old) /\ old \in Jobs /\ old.user \in Users /\ old.op \in Revocations
      /\ old.new = None
  BY <1>1 DEF IInv, JobsOk, JobOk, JobTyped, Revoking
<1>3. old.seen \subseteq Sessions
  BY <1>2 DEF Jobs
<1>4. ASSUME NEW s \in Sessions
      PROVE  /\ row'[s] \in Rows
             /\ row'[s].issued = row[s].issued /\ row'[s].rotated = row[s].rotated
             /\ row'[s].expired = row[s].expired /\ row'[s].user = row[s].user
             /\ row'[s].family = row[s].family /\ row'[s].password = row[s].password
             /\ row'[s].stamp = row[s].stamp /\ row'[s].second = row[s].second
             /\ s \in old.seen => row'[s].revoked
             /\ s \notin old.seen => row'[s] = row[s]
  <2>1. row[s] \in Rows
    BY DEF IInv, TypeOK
  <2> DEFINE ended == [row[s] EXCEPT !.revoked = TRUE]
  <2>2. /\ ended \in Rows
        /\ ended.issued = row[s].issued /\ ended.rotated = row[s].rotated
        /\ ended.expired = row[s].expired /\ ended.user = row[s].user
        /\ ended.family = row[s].family /\ ended.password = row[s].password
        /\ ended.stamp = row[s].stamp /\ ended.second = row[s].second
        /\ ended.revoked
    BY <2>1 DEF Rows
  <2>3. row'[s] = IF s \in old.seen THEN ended ELSE row[s]
    BY <1>1
  <2> HIDE DEF ended
  <2> QED
    BY <2>1, <2>2, <2>3
<1>5. row' \in [Sessions -> Rows]
  <2>1. DOMAIN row' = Sessions /\ row' = [s \in Sessions |-> row'[s]]
    BY <1>1
  <2> QED
    BY <1>4, <2>1
<1> QED
  BY <1>1, <1>2, <1>3, <1>4, <1>5

LEMMA RevocationCommitsKeeps ==
  ASSUME IInv, NEW w \in Workers, RevocationCommits(w)
  PROVE  IInv'
<1> DEFINE old == job[w]
           u == old.user
           families == {row[s].family : s \in old.seen}
<1>1. /\ closed' = closed \union (families \ old.late)
      /\ outrun' = outrun \union (old.late \intersect families)
      /\ job' = [job EXCEPT ![w] = Idle]
      /\ UNCHANGED <<epoch, cut>>
      /\ UNCHANGED <<preauth, denied, redis, budget>>
  BY DEF RevocationCommits
<1>2. /\ old.stage \in {"holding", "bumped"} /\ old.op \in Revocations
      /\ JobOk(old) /\ old \in Jobs /\ u \in Users /\ old.seen \subseteq Sessions
      /\ old.new = None
  BY RevokedRows
<1>3. row' \in [Sessions -> Rows]
  BY RevokedRows
<1>4. \A s \in Sessions :
        /\ row'[s].issued = row[s].issued /\ row'[s].rotated = row[s].rotated
        /\ row'[s].expired = row[s].expired /\ row'[s].user = row[s].user
        /\ row'[s].family = row[s].family /\ row'[s].password = row[s].password
        /\ row'[s].stamp = row[s].stamp /\ row'[s].second = row[s].second
        /\ s \in old.seen => row'[s].revoked
        /\ s \notin old.seen => row'[s] = row[s]
  BY RevokedRows
<1>5. \A s \in old.seen : row[s].issued /\ row[s].family \in Sessions
  BY <1>2 DEF JobOk, JobRows, Revoking, IInv, TypeOK
<1>6. job' \in [Workers -> Jobs] /\ job'[w] = Idle /\ \A v \in Workers \ {w} : job'[v] = job[v]
  BY <1>1, IdleOk DEF IInv, TypeOK, JobTyped
<1>7. /\ user' \in [Users -> [active : BOOLEAN, password : Nat]]
      /\ \A x \in Users : x # u \/ old.op # "password_reset" => user'[x] = user[x]
  <2>1. user[u] \in [active : BOOLEAN, password : Nat]
    BY <1>2 DEF IInv, TypeOK
  <2>2. [user[u] EXCEPT !.password = user[u].password + 1] \in [active : BOOLEAN, password : Nat]
    BY <2>1
  <2>3. user' = IF old.op = "password_reset"
                  THEN [user EXCEPT ![u] = [user[u] EXCEPT !.password = user[u].password + 1]]
                  ELSE user
    BY DEF RevocationCommits
  <2> QED
    BY <1>2, <2>2, <2>3 DEF IInv, TypeOK
<1>8. ASSUME NEW s \in Sessions, Usable(s)'
      PROVE  Usable(s) /\ s \notin old.seen /\ row'[s] = row[s]
  BY <1>4, <1>8 DEF Usable
<1>9. TypeOK'
  <2>1. closed' \subseteq Sessions /\ outrun' \subseteq Sessions
    BY <1>1, <1>2, <1>5 DEF IInv, TypeOK
  <2>2. \A s \in Sessions : row'[s].issued => row'[s].user \in Users /\ row'[s].family \in Sessions
    BY <1>4 DEF IInv, TypeOK
  <2> QED
    BY <1>1, <1>3, <1>6, <1>7, <2>1, <2>2 DEF IInv, TypeOK
<1>10. JobsOk'
  <2>1. ASSUME NEW v \in Workers, v # w  PROVE JobOk(job[v])'
    <3>1. JobOk(job[v]) /\ job'[v] = job[v] /\ Apart(job[v], old) /\ Apart(old, job[v])
          /\ job[v] \in Jobs
      BY <1>6, <2>1 DEF IInv, JobsOk, JobOk, JobTyped
    <3>2. JobTyped(job[v])'
      BY <3>1 DEF JobOk, JobTyped
    <3>3. \A s \in HeldRows(job[v]) : s \in Sessions /\ s \notin old.seen
      BY <1>2, <3>1 DEF Apart, HeldRows
    <3>4. JobRows(job[v])'
      <4>1. job[v].stage \in Revoking => job[v].seen \subseteq Sessions
        BY <3>1 DEF Jobs
      <4>2. job[v].stage = "rotated" => job[v].at \in HeldRows(job[v])
        BY <3>1 DEF JobOk, JobTyped, HeldRows
      <4>3. job[v].stage \in {"holding", "bumped"} => job[v].seen \subseteq HeldRows(job[v])
        BY <4>1 DEF HeldRows, Revoking
      <4> QED
        BY <1>4, <3>1, <3>3, <4>1, <4>2, <4>3
           DEF JobOk, JobTyped, JobRows, Usable, Revoking
    <3>5. JobStamped(job[v])'
      <4>1. job[v].stage = "opened" /\ job[v].op = "login" /\ old.op = "password_reset"
              => job[v].user # u
        BY <3>1 DEF Apart, UserHolders
      <4>2. job[v].stage = "opened" => job[v].user \in Users
        BY <3>1 DEF JobOk, JobTyped
      <4> QED
        BY <1>1, <1>7, <3>1, <4>1, <4>2 DEF JobOk, JobStamped
    <3>6. JobCovers(job[v])'
      <4>1. job[v].stage \in Revoking => job[v].seen \subseteq Sessions
        BY <3>1 DEF Jobs
      <4> QED
        BY <1>4, <1>8, <3>1, <4>1 DEF JobOk, JobCovers
    <3>7. JobResets(job[v])'
      <4>1. SUFFICES ASSUME job[v].stage \in Revoking, job[v].op = "password_reset",
                            NEW s \in Sessions, Usable(s)', row'[s].user = job[v].user,
                            ~row'[s].second
                     PROVE  \/ s \in job[v].seen
                            \/ row'[s].family \in outrun'
                            \/ /\ row'[s].family \in job[v].late
                               /\ \E x \in job[v].seen :
                                     ~row'[x].revoked /\ row'[x].family = row'[s].family
        BY <3>1 DEF JobResets
      <4>2. Usable(s) /\ s \notin old.seen /\ row'[s] = row[s]
        BY <1>8, <4>1
      <4>3. CASE s \in job[v].seen \/ row[s].family \in outrun
        BY <1>1, <4>2, <4>3
      <4>4. CASE /\ row[s].family \in job[v].late
                 /\ \E x \in job[v].seen : ~row[x].revoked /\ row[x].family = row[s].family
        <5>1. PICK x \in job[v].seen : ~row[x].revoked /\ row[x].family = row[s].family
          BY <4>4
        <5>2. x \in Sessions
          BY <3>1 DEF Jobs
        <5>3. CASE x \in old.seen
          <6>1. s \in old.seen \/ row[s].family \in old.late
            BY <1>2, <4>2, <5>1, <5>3 DEF JobOk, JobCovers, Revoking
          <6>2. row[s].family \in families
            BY <5>1, <5>3
          <6> QED
            BY <1>1, <4>2, <6>1, <6>2
        <5>4. CASE x \notin old.seen
          BY <1>4, <4>2, <4>4, <5>1, <5>2, <5>4
        <5> QED
          BY <5>3, <5>4
      <4> QED
        BY <3>1, <4>1, <4>2, <4>3, <4>4 DEF JobOk, JobResets
    <3> QED
      BY <3>2, <3>4, <3>5, <3>6, <3>7 DEF JobOk
  <2>2. JobOk(job[w])'
    BY <1>6, IdleOk DEF JobOk, JobTyped, JobRows, JobStamped, JobCovers, JobResets, Revoking
  <2>3. \A v \in Workers \ {w} : Apart(Idle, job[v]) /\ Apart(job[v], Idle)
    BY IdleOk DEF Apart, UserHolders, IInv, TypeOK, JobsOk, JobOk, JobTyped
  <2>4. \A v \in Workers : \A x \in Workers \ {v} : Apart(job'[v], job'[x])
    BY <1>6, <2>3 DEF IInv, JobsOk
  <2> QED
    BY <2>1, <2>2, <2>4 DEF JobsOk
<1>11. RowsOk'
  <2>1. \A f \in closed' : f \in Sessions /\ row[f].issued
    BY <1>1, <1>2, <1>5 DEF IInv, RowsOk, TypeOK
  <2>2. ASSUME NEW s \in Sessions, row'[s].issued
        PROVE  row'[row'[s].family].issued /\ row'[s].stamp <= epoch'[row'[s].user]
    <3>1. row[s].issued /\ row[s].family \in Sessions
      BY <1>4, <2>2 DEF IInv, TypeOK
    <3> QED
      BY <1>1, <1>4, <3>1 DEF IInv, RowsOk
  <2> QED
    BY <1>4, <2>1, <2>2 DEF IInv, RowsOk
<1>12. CutOk'
  <2>1. SUFFICES ASSUME NEW s \in cut
                 PROVE  \/ row'[s].issued /\ row'[s].stamp < epoch'[row'[s].user]
                        \/ \E v \in Workers : job'[v].new = s /\ job'[v].stamp < epoch'[job'[v].user]
    BY <1>1 DEF CutOk
  <2>2. s \in Sessions
    BY DEF IInv, TypeOK
  <2>3. CASE row[s].issued /\ row[s].stamp < epoch[row[s].user]
    BY <1>1, <1>4, <2>2, <2>3
  <2>4. CASE \E v \in Workers : job[v].new = s /\ job[v].stamp < epoch[job[v].user]
    <3>1. PICK v \in Workers : job[v].new = s /\ job[v].stamp < epoch[job[v].user]
      BY <2>4
    <3>2. v # w
      BY <1>2, <2>2, <3>1
    <3> QED
      BY <1>1, <1>6, <3>1, <3>2
  <2> QED
    BY <2>3, <2>4 DEF IInv, CutOk
<1>13. OneSuccessor'
  BY <1>4 DEF IInv, OneSuccessor
<1>14. ClosedStaysClosed'
  <2>1. SUFFICES ASSUME NEW s \in Sessions, Usable(s)', row'[s].family \in closed'
                 PROVE  FALSE
    BY DEF ClosedStaysClosed
  <2>2. Usable(s) /\ s \notin old.seen /\ row'[s] = row[s]
    BY <1>8, <2>1
  <2>3. row[s].family \in families /\ row[s].family \notin old.late
    BY <1>1, <2>1, <2>2 DEF IInv, ClosedStaysClosed
  <2>4. PICK x \in old.seen : row[x].family = row[s].family
    BY <2>3
  <2> QED
    BY <1>2, <2>2, <2>3, <2>4 DEF JobOk, JobCovers, Revoking
<1>15. PasswordChangeEndsSessions'
  <2>1. SUFFICES ASSUME NEW s \in Sessions, Usable(s)', ~row'[s].second,
                        row'[s].password # user'[row'[s].user].password
                 PROVE  row'[s].family \in outrun'
    BY DEF PasswordChangeEndsSessions
  <2>2. Usable(s) /\ s \notin old.seen /\ row'[s] = row[s] /\ row[s].user \in Users
    BY <1>8, <2>1 DEF Usable, IInv, TypeOK
  <2>3. CASE row[s].user # u \/ old.op # "password_reset"
    BY <1>1, <1>7, <2>1, <2>2, <2>3 DEF IInv, PasswordChangeEndsSessions
  <2>4. CASE row[s].user = u /\ old.op = "password_reset"
    <3>1. \/ row[s].family \in outrun
          \/ /\ row[s].family \in old.late
             /\ \E x \in old.seen : row[x].family = row[s].family
      BY <1>2, <2>1, <2>2, <2>4 DEF JobOk, JobResets, Revoking
    <3>2. (\E x \in old.seen : row[x].family = row[s].family) => row[s].family \in families
      OBVIOUS
    <3> QED
      BY <1>1, <2>2, <3>1, <3>2
  <2> QED
    BY <2>3, <2>4
<1> QED
  BY <1>9, <1>10, <1>11, <1>12, <1>13, <1>14, <1>15 DEF IInv

-----------------------------------------------------------------------------
(* The rest of the world.                                                    *)

LEMMA SetActiveKeeps ==
  ASSUME IInv, NEW u \in Users, SetActive(u)
  PROVE  IInv'
<1>1. /\ user' = [user EXCEPT ![u] = [user[u] EXCEPT !.active = ~user[u].active]]
      /\ UNCHANGED <<row, job, preauth, epoch, denied, redis, closed, outrun, cut>>
      /\ budget' \in Nat
  BY DEF SetActive, Event, IInv, TypeOK
<1>2. /\ user' \in [Users -> [active : BOOLEAN, password : Nat]]
      /\ \A x \in Users : user'[x].password = user[x].password
  <2>1. user[u] \in [active : BOOLEAN, password : Nat] /\ DOMAIN user = Users
    BY DEF IInv, TypeOK
  <2> DEFINE turned == [user[u] EXCEPT !.active = ~user[u].active]
  <2>2. turned \in [active : BOOLEAN, password : Nat] /\ turned.password = user[u].password
    BY <2>1
  <2>3. user' = [user EXCEPT ![u] = turned]
    BY <1>1
  <2> HIDE DEF turned
  <2> QED
    BY <2>1, <2>2, <2>3 DEF IInv, TypeOK
<1>3. TypeOK'
  BY <1>1, <1>2 DEF IInv, TypeOK
<1>4. JobsOk'
  <2>1. ASSUME NEW v \in Workers  PROVE JobOk(job[v])'
    <3>1. JobOk(job[v]) /\ job'[v] = job[v]
      BY <1>1 DEF IInv, JobsOk
    <3>2. JobStamped(job[v])'
      BY <1>1, <1>2, <3>1 DEF JobOk, JobStamped, JobTyped
    <3> QED
      BY <1>1, <3>1, <3>2 DEF JobOk, JobTyped, JobRows, JobCovers, JobResets, Usable
  <2> QED
    BY <1>1, <2>1 DEF IInv, JobsOk, Apart, HeldRows
<1>5. RowsOk' /\ CutOk' /\ OneSuccessor' /\ ClosedStaysClosed'
  BY <1>1 DEF IInv, RowsOk, CutOk, OneSuccessor, ClosedStaysClosed, Usable
<1>6. PasswordChangeEndsSessions'
  <2>1. \A s \in Sessions : row[s].issued => row[s].user \in Users
    BY DEF IInv, TypeOK
  <2> QED
    BY <1>1, <1>2, <2>1 DEF IInv, PasswordChangeEndsSessions, Usable
<1> QED
  BY <1>3, <1>4, <1>5, <1>6 DEF IInv

LEMMA ExpiresKeeps ==
  ASSUME IInv, NEW e \in Sessions, Expires(e)
  PROVE  IInv'
<1>1. /\ row' = [row EXCEPT ![e] = [row[e] EXCEPT !.expired = TRUE]]
      /\ Usable(e) /\ ~RowHeld(e) /\ budget' \in Nat
      /\ UNCHANGED <<user, job, preauth, epoch, denied, redis, closed, outrun, cut>>
  BY DEF Expires, Event, IInv, TypeOK
<1>2. /\ row' \in [Sessions -> Rows]
      /\ \A s \in Sessions :
           /\ row'[s].issued = row[s].issued /\ row'[s].rotated = row[s].rotated
           /\ row'[s].revoked = row[s].revoked /\ row'[s].user = row[s].user
           /\ row'[s].family = row[s].family /\ row'[s].password = row[s].password
           /\ row'[s].stamp = row[s].stamp /\ row'[s].second = row[s].second
           /\ s = e => row'[s].expired
           /\ s # e => row'[s] = row[s]
  <2>1. row[e] \in Rows
    BY DEF IInv, TypeOK
  <2> DEFINE gone == [row[e] EXCEPT !.expired = TRUE]
  <2>2. /\ gone \in Rows
        /\ gone.issued = row[e].issued /\ gone.rotated = row[e].rotated
        /\ gone.revoked = row[e].revoked /\ gone.user = row[e].user
        /\ gone.family = row[e].family /\ gone.password = row[e].password
        /\ gone.stamp = row[e].stamp /\ gone.second = row[e].second
        /\ gone.expired
    BY <2>1 DEF Rows
  <2>3. row' = [row EXCEPT ![e] = gone]
    BY <1>1
  <2> HIDE DEF gone
  <2> QED
    BY <2>2, <2>3 DEF IInv, TypeOK
<1>3. ASSUME NEW s \in Sessions, Usable(s)'
      PROVE  Usable(s) /\ row'[s] = row[s]
  BY <1>2, <1>3 DEF Usable
<1>4. TypeOK'
  <2>1. \A s \in Sessions : row'[s].issued => row'[s].user \in Users /\ row'[s].family \in Sessions
    BY <1>2 DEF IInv, TypeOK
  <2> QED
    BY <1>1, <1>2, <2>1 DEF IInv, TypeOK
<1>5. JobsOk'
  <2>1. ASSUME NEW v \in Workers  PROVE JobOk(job[v])'
    <3>1. JobOk(job[v]) /\ job'[v] = job[v] /\ job[v] \in Jobs
      BY <1>1 DEF IInv, JobsOk, JobOk, JobTyped
    <3>2. job[v].stage = "rotated" => job[v].at \in Sessions /\ job[v].at # e
      BY <1>1, <3>1, Locks DEF HeldRows, JobOk, JobTyped
    <3>3. job[v].seen \subseteq Sessions
      BY <3>1 DEF Jobs
    <3>4. JobTyped(job[v])' /\ JobStamped(job[v])'
      BY <1>1, <3>1 DEF JobOk, JobTyped, JobStamped
    <3>5. JobRows(job[v])'
      BY <1>2, <3>1, <3>2, <3>3 DEF JobOk, JobTyped, JobRows, Usable, Revoking
    <3>6. JobCovers(job[v])'
      BY <1>2, <1>3, <3>1, <3>3 DEF JobOk, JobCovers
    <3>7. JobResets(job[v])'
      <4>1. SUFFICES ASSUME job[v].stage \in Revoking, job[v].op = "password_reset",
                            NEW s \in Sessions, Usable(s)', row'[s].user = job[v].user,
                            ~row'[s].second
                     PROVE  \/ s \in job[v].seen
                            \/ row'[s].family \in outrun
                            \/ /\ row'[s].family \in job[v].late
                               /\ \E x \in job[v].seen :
                                     ~row'[x].revoked /\ row'[x].family = row'[s].family
        BY <1>1, <3>1 DEF JobResets
      <4>2. Usable(s) /\ row'[s] = row[s]
        BY <1>3, <4>1
      <4>3. \A x \in job[v].seen : row'[x].revoked = row[x].revoked /\ row'[x].family = row[x].family
        BY <1>2, <3>3
      <4> QED
        BY <3>1, <4>1, <4>2, <4>3 DEF JobOk, JobResets
    <3> QED
      BY <3>4, <3>5, <3>6, <3>7 DEF JobOk
  <2> QED
    BY <1>1, <2>1 DEF IInv, JobsOk, Apart, HeldRows
<1>6. RowsOk'
  <2>1. ASSUME NEW s \in Sessions, row'[s].issued
        PROVE  row'[row'[s].family].issued /\ row'[s].stamp <= epoch'[row'[s].user]
    <3>1. row[s].issued /\ row[s].family \in Sessions
      BY <1>2, <2>1 DEF IInv, TypeOK
    <3> QED
      BY <1>1, <1>2, <3>1 DEF IInv, RowsOk
  <2>2. \A f \in closed : f \in Sessions /\ row[f].issued
    BY DEF IInv, RowsOk, TypeOK
  <2> QED
    BY <1>1, <1>2, <2>1, <2>2 DEF IInv, RowsOk
<1>7. CutOk'
  <2>1. \A s \in cut : s \in Sessions
    BY DEF IInv, TypeOK
  <2> QED
    BY <1>1, <1>2, <2>1 DEF IInv, CutOk
<1>8. OneSuccessor'
  BY <1>2 DEF IInv, OneSuccessor
<1>9. ClosedStaysClosed' /\ PasswordChangeEndsSessions'
  BY <1>1, <1>3 DEF IInv, ClosedStaysClosed, PasswordChangeEndsSessions
<1> QED
  BY <1>4, <1>5, <1>6, <1>7, <1>8, <1>9 DEF IInv

(* Steps that leave rows, users, requests and epochs alone.                  *)
LEMMA NothingChanges ==
  ASSUME IInv, UNCHANGED <<user, row, job, epoch, closed, outrun, cut>>,
         preauth' \subseteq Users \X Nat, denied' \subseteq Sessions, redis' \in BOOLEAN,
         budget' \in Nat
  PROVE  IInv'
<1>1. TypeOK'
  BY DEF IInv, TypeOK
<1>2. JobsOk'
  BY DEF IInv, JobsOk, JobOk, JobTyped, JobRows, JobStamped, JobCovers, JobResets, Usable,
         Apart, HeldRows
<1>3. RowsOk' /\ CutOk' /\ OneSuccessor'
  BY DEF IInv, RowsOk, CutOk, OneSuccessor
<1>4. ClosedStaysClosed' /\ PasswordChangeEndsSessions'
  BY DEF IInv, ClosedStaysClosed, PasswordChangeEndsSessions, Usable
<1> QED
  BY <1>1, <1>2, <1>3, <1>4 DEF IInv

LEMMA AskSecondFactorKeeps ==
  ASSUME IInv, NEW u \in Users, AskSecondFactor(u)
  PROVE  IInv'
<1>1. user[u].password \in Nat
  BY DEF IInv, TypeOK
<1>2. /\ UNCHANGED <<user, row, job, epoch, closed, outrun, cut>>
      /\ UNCHANGED <<denied, redis>> /\ budget' \in Nat
      /\ preauth' = preauth \union {<<u, user[u].password>>}
  BY DEF AskSecondFactor, Event, IInv, TypeOK
<1> QED
  BY <1>1, <1>2, NothingChanges DEF IInv, TypeOK

LEMMA RedisKeeps ==
  ASSUME IInv, RedisGoesAway \/ RedisReturns
  PROVE  IInv'
<1>1. /\ UNCHANGED <<user, row, job, epoch, closed, outrun, cut>>
      /\ UNCHANGED <<preauth, denied>> /\ budget' \in Nat
  BY DEF RedisGoesAway, RedisReturns, Event, IInv, TypeOK
<1>2. redis' \in BOOLEAN
  BY DEF RedisGoesAway, RedisReturns
<1> QED
  BY <1>1, <1>2, NothingChanges DEF IInv, TypeOK

-----------------------------------------------------------------------------
LEMMA NextKeeps == IInv /\ [Next]_vars => IInv'
<1> SUFFICES ASSUME IInv, [Next]_vars  PROVE IInv'
  OBVIOUS
<1>1. CASE UNCHANGED vars
  BY <1>1, NothingChanges DEF vars, IInv, TypeOK
<1>2. ASSUME NEW w \in Workers, NEW u \in Users, NEW s \in Sessions, LogIn(w, u, s)
      PROVE  IInv'
  BY <1>2, LogInKeeps
<1>3. ASSUME NEW u \in Users, AskSecondFactor(u) \/ SetActive(u)  PROVE IInv'
  BY <1>3, AskSecondFactorKeeps, SetActiveKeeps
<1>4. ASSUME NEW w \in Workers, NEW pair \in preauth, NEW s \in Sessions,
             LogInSecond(w, pair[1], pair[2], s)
      PROVE  IInv'
  BY <1>4, LogInSecondKeeps
<1>5. ASSUME NEW w \in Workers, NEW s \in Sessions,
             RefreshLooksUp(w, s) \/ RefreshFindsReuse(w, s) \/ RefreshRotates(w, s)
      PROVE  IInv'
  BY <1>5, RefreshLooksUpKeeps, RefreshFindsReuseKeeps, RefreshRotatesKeeps
<1>6. ASSUME NEW w \in Workers, NEW s \in Sessions, NEW op \in Revocations, LogOut(w, s, op)
      PROVE  IInv'
  BY <1>6, LogOutKeeps
<1>7. ASSUME NEW w \in Workers,
             \/ OpenCommits(w) \/ RefreshLoses(w) \/ RefreshOfInactive(w)
             \/ RefreshCommits(w) \/ StatementStarts(w) \/ StatementEnds(w)
             \/ BumpEpoch(w) \/ RevocationCommits(w) \/ WorkerDies(w)
      PROVE  IInv'
  BY <1>7, OpenCommitsKeeps, RefreshLosesKeeps, RefreshOfInactiveKeeps, RefreshCommitsKeeps,
     StatementStartsKeeps, StatementEndsKeeps, BumpEpochKeeps, RevocationCommitsKeeps,
     WorkerDiesKeeps
<1>8. ASSUME NEW w \in Workers, NEW u \in Users, ResetPassword(w, u)  PROVE IInv'
  BY <1>8, ResetPasswordKeeps
<1>9. ASSUME NEW s \in Sessions, Expires(s)  PROVE IInv'
  BY <1>9, ExpiresKeeps
<1>10. ASSUME RedisGoesAway \/ RedisReturns  PROVE IInv'
  BY <1>10, RedisKeeps
<1> QED
  BY <1>1, <1>2, <1>3, <1>4, <1>5, <1>6, <1>7, <1>8, <1>9, <1>10 DEF Next

LEMMA Invariance == Spec => []IInv
  BY InitEstablishes, NextKeeps, PTL DEF Spec

(* Sessions that were signed out, reset or found reused do not come back,    *)
(* and a token has one successor: services/auth.py, for any number of users  *)
(* and of requests in flight.                                                *)
THEOREM SessionsStayEnded == Spec => []SessionsEnd
<1>1. IInv => SessionsEnd
  BY DEF IInv, SessionsEnd
<1> QED
  BY <1>1, Invariance, PTL

(* No access token minted before a sign-out everywhere is accepted while     *)
(* Redis answers: get_current_principal against bump_user_access_epoch.      *)
THEOREM CutTokensRefused == Spec => []EndedAccessStaysEnded
<1>1. IInv => EndedAccessStaysEnded
  <2> SUFFICES ASSUME IInv, redis, NEW s \in cut, Accepted(s)  PROVE FALSE
    BY DEF EndedAccessStaysEnded
  <2>1. s \in Sessions /\ row[s].issued
    BY DEF Accepted, IInv, TypeOK
  <2>2. row[s].stamp \in Nat /\ row[s].user \in Users /\ epoch[row[s].user] \in Nat
    BY <2>1 DEF IInv, TypeOK, Rows
  <2>3. \A w \in Workers : job[w].new # s
    BY <2>1 DEF IInv, JobsOk, JobOk, JobTyped, JobRows
  <2>4. row[s].stamp < epoch[row[s].user]
    BY <2>3 DEF IInv, CutOk
  <2> QED
    BY <2>2, <2>4 DEF Accepted
<1> QED
  BY <1>1, Invariance, PTL

-----------------------------------------------------------------------------
(* Rotation implements RotationPromise.                                      *)

GoodNow == {s \in Sessions : Usable(s)}

SpentNow == {s \in Sessions : row[s].issued /\ ~Usable(s)}

FamilyNow == [s \in Sessions |-> IF row[s].issued THEN row[s].family ELSE s]

LEMMA PromiseStutters ==
  ASSUME UNCHANGED row
  PROVE  UNCHANGED <<GoodNow, SpentNow, FamilyNow>>
  BY DEF GoodNow, SpentNow, FamilyNow, Usable

LEMMA SignInOpens ==
  ASSUME IInv, NEW w \in Workers, OpenCommits(w)
  PROVE  \E t \in Sessions : Promise!Open(t)
<1>1. PICK n \in Sessions : n = job[w].new /\ ~row[n].issued
  BY DEF OpenCommits, IInv, JobsOk, JobOk, JobTyped, JobRows
<1> DEFINE born == NewRow(w, n)
<1>2. born.issued /\ ~born.rotated /\ ~born.revoked /\ ~born.expired /\ born.family = n
  BY DEF NewRow, NoRow
<1>3. row' = [row EXCEPT ![n] = born]
  BY <1>1 DEF OpenCommits
<1> HIDE DEF born
<1>4. row'[n] = born /\ \A s \in Sessions \ {n} : row'[s] = row[s]
  BY <1>1, <1>3 DEF IInv, TypeOK
<1>5. n \notin GoodNow \union SpentNow
  BY <1>1 DEF GoodNow, SpentNow, Usable
<1>6. GoodNow' = GoodNow \union {n}
  BY <1>1, <1>2, <1>4 DEF GoodNow, Usable
<1>7. SpentNow' = SpentNow
  BY <1>1, <1>2, <1>4 DEF SpentNow, Usable
<1>8. FamilyNow' = [FamilyNow EXCEPT ![n] = n]
  BY <1>1, <1>2, <1>4 DEF FamilyNow
<1> QED
  BY <1>5, <1>6, <1>7, <1>8
     DEF Promise!Open, Promise!Unborn, GoodNow, SpentNow, FamilyNow

LEMMA RefreshExchanges ==
  ASSUME IInv, NEW w \in Workers, RefreshCommits(w)
  PROVE  \E t, next \in Sessions : Promise!Exchange(t, next)
<1>0. PICK a \in Sessions, n \in Sessions : a = job[w].at /\ n = job[w].new
  BY ExchangeStep
<1>1. /\ a # n /\ Usable(a) /\ ~row[n].issued
      /\ row[a] \in Rows
      /\ row'[a] = [row[a] EXCEPT !.rotated = TRUE]
      /\ \A s \in Sessions \ {a, n} : row'[s] = row[s]
      /\ row'[n].issued /\ ~row'[n].rotated /\ ~row'[n].revoked /\ ~row'[n].expired
      /\ row'[n].family = row[a].family
  BY <1>0, ExchangeStep DEF IInv, TypeOK
<1>2. row'[a].issued /\ row'[a].rotated /\ row'[a].family = row[a].family /\ row[a].issued
  BY <1>1 DEF Rows, Usable
<1>3. a \in GoodNow /\ n \notin GoodNow \union SpentNow
  BY <1>1 DEF GoodNow, SpentNow, Usable
<1>4. GoodNow' = (GoodNow \ {a}) \union {n}
  BY <1>1, <1>2 DEF GoodNow, Usable
<1>5. SpentNow' = SpentNow \union {a}
  BY <1>1, <1>2 DEF SpentNow, Usable
<1>6. FamilyNow' = [FamilyNow EXCEPT ![n] = FamilyNow[a]]
  BY <1>1, <1>2 DEF FamilyNow
<1> QED
  BY <1>3, <1>4, <1>5, <1>6
     DEF Promise!Exchange, Promise!Unborn, GoodNow, SpentNow, FamilyNow

LEMMA RevocationEnds ==
  ASSUME IInv, NEW w \in Workers, RevocationCommits(w)
  PROVE  \E T \in SUBSET GoodNow : Promise!End(T)
<1> DEFINE T == GoodNow \intersect job[w].seen
<1>1. \A s \in job[w].seen : row[s].issued /\ s \in Sessions
  BY RevokedRows DEF JobOk, JobRows, Revoking
<1>2. \A s \in Sessions :
        /\ row'[s].issued = row[s].issued /\ row'[s].family = row[s].family
        /\ s \in job[w].seen => row'[s].revoked
        /\ s \notin job[w].seen => row'[s] = row[s]
  BY RevokedRows
<1>3. GoodNow' = GoodNow \ T
  BY <1>2 DEF GoodNow, Usable
<1>4. SpentNow' = SpentNow \union T
  BY <1>1, <1>2 DEF GoodNow, SpentNow, Usable
<1>5. FamilyNow' = FamilyNow
  BY <1>2 DEF FamilyNow
<1> QED
  BY <1>3, <1>4, <1>5 DEF Promise!End, GoodNow, SpentNow, FamilyNow

LEMMA ExpiryEnds ==
  ASSUME IInv, NEW e \in Sessions, Expires(e)
  PROVE  \E T \in SUBSET GoodNow : Promise!End(T)
<1>1. row[e] \in Rows /\ Usable(e) /\ row' = [row EXCEPT ![e] = [row[e] EXCEPT !.expired = TRUE]]
      /\ DOMAIN row = Sessions
  BY DEF Expires, IInv, TypeOK
<1>2. /\ row'[e].issued = row[e].issued /\ row'[e].family = row[e].family /\ row'[e].expired
      /\ \A s \in Sessions \ {e} : row'[s] = row[s]
  BY <1>1 DEF Rows
<1>3. {e} \in SUBSET GoodNow
  BY <1>1 DEF GoodNow
<1>4. GoodNow' = GoodNow \ {e}
  BY <1>2 DEF GoodNow, Usable
<1>5. SpentNow' = SpentNow \union {e}
  BY <1>1, <1>2 DEF SpentNow, Usable
<1>6. FamilyNow' = FamilyNow
  BY <1>2 DEF FamilyNow
<1> QED
  BY <1>3, <1>4, <1>5, <1>6 DEF Promise!End, GoodNow, SpentNow, FamilyNow

LEMMA StepsKeepPromise ==
  ASSUME IInv, [Next]_vars
  PROVE  [Promise!PromiseNext]_(Promise!promised)
<1>1. CASE UNCHANGED row
  BY <1>1, PromiseStutters DEF Promise!promised, GoodNow, SpentNow, FamilyNow
<1>2. ASSUME NEW w \in Workers, OpenCommits(w)  PROVE Promise!PromiseNext
  BY <1>2, SignInOpens DEF Promise!PromiseNext
<1>3. ASSUME NEW w \in Workers, RefreshCommits(w)  PROVE Promise!PromiseNext
  BY <1>3, RefreshExchanges DEF Promise!PromiseNext
<1>4. ASSUME NEW w \in Workers, RevocationCommits(w)  PROVE Promise!PromiseNext
  BY <1>4, RevocationEnds DEF Promise!PromiseNext, GoodNow
<1>5. ASSUME NEW e \in Sessions, Expires(e)  PROVE Promise!PromiseNext
  BY <1>5, ExpiryEnds DEF Promise!PromiseNext, GoodNow
<1>6. \/ UNCHANGED row
      \/ \E w \in Workers : OpenCommits(w) \/ RefreshCommits(w) \/ RevocationCommits(w)
      \/ \E e \in Sessions : Expires(e)
  BY DEF Next, vars, LogIn, AskSecondFactor, LogInSecond, RefreshLooksUp, RefreshFindsReuse,
         RefreshRotates, LogOut, RefreshLoses, RefreshOfInactive, StatementStarts,
         StatementEnds, BumpEpoch, WorkerDies, ResetPassword, SetActive, RedisGoesAway,
         RedisReturns
<1> QED
  BY <1>1, <1>2, <1>3, <1>4, <1>5, <1>6

(* Whoever holds a refresh token sees RotationPromise: one successor for     *)
(* each exchange, and what was exchanged, revoked or expired never good      *)
(* again.                                                                    *)
THEOREM RotationKeepsPromise == Spec => PromiseKept
<1>1. Init => Promise!PromiseInit
  <2> SUFFICES ASSUME Init  PROVE Promise!PromiseInit
    OBVIOUS
  <2>1. \A s \in Sessions : ~row[s].issued
    BY DEF Init, NoRow
  <2> QED
    BY <2>1 DEF Promise!PromiseInit, Usable
<1>2. IInv /\ [Next]_vars => [Promise!PromiseNext]_(Promise!promised)
  BY StepsKeepPromise
<1> QED
  BY <1>1, <1>2, Invariance, PTL DEF Spec, PromiseKept, Promise!PromiseSpec
=============================================================================
