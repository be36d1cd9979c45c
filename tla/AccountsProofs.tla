----------------------------- MODULE AccountsProofs -----------------------------
(***************************************************************************)
(* What Accounts keeps for every number of accounts, invites, links and    *)
(* requests at once: guesses are counted, codes admit once, an invite is   *)
(* spent on the account it made, and old reset links die.                  *)
(***************************************************************************)
EXTENDS Accounts, TLAPS

(* The count of failures is the count of misses, and an account that is not  *)
(* locked has a guess left for every lockout that ran out.                   *)
Guesses ==
  \A e \in Emails :
    LET a == account[e] IN
    /\ misses[e] = a.attempts /\ a.attempts <= MaxAttempts + reopened[e]
    /\ ~a.locked => a.attempts < MaxAttempts + reopened[e]
    /\ ~a.exists => a = NoAccount

(* A code that may still be used has admitted nobody, one of a batch to come *)
(* does not exist, and there are codes of the batch that is in force only.   *)
CodesSound ==
  \A e \in Emails :
    /\ account[e].enabled => account[e].batch \in Batches
    /\ \A c \in Codes :
         LET k == code[e][c] IN
         /\ k.admitted <= 1
         /\ k.state = "unused" => k.admitted = 0
         /\ c[1] > account[e].batch => k.admitted = 0
         /\ k.state # "none" <=> account[e].enabled /\ c[1] = account[e].batch

InvitesSound ==
  \A i \in Invites :
    /\ invite[i].uses <= 1
    /\ IF invite[i].stage = "none" THEN invite[i].uses = 0 ELSE invite[i].email \in Emails
    /\ invite[i].uses = 1 <=> \E e \in Emails : account[e].invite = i

Resetting == {"consumed", "setting", "voided"}

(* What a request works on.                                                  *)
JobTyped(j) ==
  /\ j \in Jobs
  /\ j.stage \in {"inviting", "telling", "accepting"}
       => j.email \in Emails /\ j.invite \in Invites
  /\ j.stage = "candidate" => j.email \in Emails /\ j.code \in Codes
  /\ j.stage \in Resetting => j.email \in Emails /\ j.reset \in Resets /\ j.invite = None
  /\ j.stage \notin Resetting => j.reset = None
  /\ j.stage # "voided" => j.seen = {}

Holds(j) == {t \in Resets : j.reset = t \/ t \in j.seen}

(* A request that is about to issue an invite is alone with it; one that     *)
(* resets a password holds live links of its account, and once it has voided *)
(* them all later ones are late.                                             *)
InvitersAlone ==
  \A w \in Workers :
    /\ job[w].stage = "inviting" =>
         /\ invite[job[w].invite].stage = "none"
         /\ \A v \in Workers \ {w} : job[v].invite # job[w].invite
    /\ job[w].stage \in {"telling", "accepting"} => invite[job[w].invite].stage # "none"

LinksHeld ==
  \A w \in Workers :
    /\ \A t \in Holds(job[w]) : reset[t].stage = "live" /\ reset[t].email = job[w].email
    /\ job[w].stage = "voided" =>
         \A t \in Resets : reset[t].stage = "live" /\ reset[t].email = job[w].email
                             => t \in Holds(job[w]) \/ reset[t].late

HoldersApart ==
  \A w \in Workers : \A v \in Workers \ {w} :
    /\ Holds(job[w]) \intersect Holds(job[v]) = {}
    /\ job[w].stage \in {"setting", "voided"} /\ job[v].stage \in {"setting", "voided"}
         => job[w].email # job[v].email

JobsSound == /\ \A w \in Workers : JobTyped(job[w])
             /\ InvitersAlone
             /\ LinksHeld
             /\ HoldersApart

LinksSound ==
  \A t \in Resets :
    /\ reset[t].sets <= 1
    /\ reset[t].stage \in {"none", "live"} => reset[t].sets = 0
    /\ reset[t].stage = "live" =>
         /\ reset[t].email \in Emails /\ account[reset[t].email].exists
         /\ reset[t].late \/ reset[t].asked = account[reset[t].email].password

IInv == /\ TypeOK
        /\ Guesses
        /\ CodesSound
        /\ InvitesSound
        /\ JobsSound
        /\ LinksSound

USE AccountsAssumption

-----------------------------------------------------------------------------
LEMMA IdleTyped == JobTyped(Idle) /\ Idle.stage = "idle" /\ Holds(Idle) = {}
                   /\ Idle.invite = None
  BY DEF JobTyped, Idle, Jobs, Resetting, Holds

LEMMA InitEstablishes == Init => IInv
<1> SUFFICES ASSUME Init  PROVE  IInv
  OBVIOUS
<1>1. NoAccount \in Account
  BY DEF NoAccount, Account
<1>2. TypeOK
  BY <1>1, IdleTyped DEF Init, TypeOK, Code, Invite, Reset, JobTyped
<1>3. Guesses
  BY DEF Init, Guesses, NoAccount
<1>4. CodesSound
  BY DEF Init, CodesSound, NoAccount
<1>5. InvitesSound
  BY DEF Init, InvitesSound, NoAccount
<1>6. JobsSound
  BY IdleTyped DEF Init, JobsSound, InvitersAlone, LinksHeld, HoldersApart
<1>7. LinksSound
  BY DEF Init, LinksSound
<1> QED
  BY <1>2, <1>3, <1>4, <1>5, <1>6, <1>7 DEF IInv

(* The tables an action leaves alone keep their part of the invariant.       *)
LEMMA AccountsAlone ==
  ASSUME IInv, UNCHANGED <<account, misses, reopened>>
  PROVE  Guesses'
  BY DEF IInv, Guesses

LEMMA CodesAlone ==
  ASSUME IInv, UNCHANGED <<account, code>>
  PROVE  CodesSound'
  BY DEF IInv, CodesSound

LEMMA InvitesAlone ==
  ASSUME IInv, UNCHANGED invite,
         \A e \in Emails : account'[e].invite = account[e].invite
  PROVE  InvitesSound'
  BY DEF IInv, InvitesSound

LEMMA LinksAlone ==
  ASSUME IInv, UNCHANGED reset,
         \A e \in Emails : /\ account'[e].password = account[e].password
                           /\ account[e].exists => account'[e].exists
  PROVE  LinksSound'
<1> SUFFICES ASSUME NEW t \in Resets
             PROVE  /\ reset[t].sets <= 1
                    /\ reset[t].stage \in {"none", "live"} => reset[t].sets = 0
                    /\ reset[t].stage = "live" =>
                         /\ reset[t].email \in Emails /\ account'[reset[t].email].exists
                         /\ reset[t].late
                              \/ reset[t].asked = account'[reset[t].email].password
  BY DEF LinksSound
<1>1. reset[t].sets <= 1 /\ (reset[t].stage \in {"none", "live"} => reset[t].sets = 0)
  BY DEF IInv, LinksSound
<1>2. ASSUME reset[t].stage = "live"
      PROVE  /\ reset[t].email \in Emails /\ account[reset[t].email].exists
             /\ reset[t].late \/ reset[t].asked = account[reset[t].email].password
  BY <1>2 DEF IInv, LinksSound
<1>3. ASSUME reset[t].stage = "live"
      PROVE  /\ reset[t].email \in Emails /\ account'[reset[t].email].exists
             /\ reset[t].late \/ reset[t].asked = account'[reset[t].email].password
  <2>1. PICK e \in Emails : e = reset[t].email /\ account[e].exists
    BY <1>2, <1>3
  <2>2. account'[e].password = account[e].password
    OBVIOUS
  <2>3. account'[e].exists
    BY <2>1
  <2> QED
    BY <1>2, <1>3, <2>1, <2>2, <2>3
<1> QED
  BY <1>1, <1>3

LEMMA JobsAlone ==
  ASSUME IInv, UNCHANGED <<job, invite, reset>>
  PROVE  JobsSound'
  BY DEF IInv, JobsSound, InvitersAlone, LinksHeld, HoldersApart

(* A request that lets go of what it had.                                    *)
LEMMA JobEnds ==
  ASSUME IInv, UNCHANGED <<invite, reset>>, NEW w \in Workers, Becomes(w, Idle)
  PROVE  JobsSound' /\ job' \in [Workers -> Jobs]
<1>1. /\ job' \in [Workers -> Jobs]
      /\ job'[w] = Idle /\ \A v \in Workers \ {w} : job'[v] = job[v]
  BY IdleTyped DEF Becomes, IInv, TypeOK, JobTyped
<1>2. \A v \in Workers : JobTyped(job'[v])
  BY <1>1, IdleTyped DEF IInv, JobsSound
<1>3. InvitersAlone'
  <2>1. \A v \in Workers : job[v].stage = "inviting" => job[v].invite # None
    BY DEF IInv, JobsSound, JobTyped
  <2> QED
    BY <1>1, <2>1, IdleTyped DEF IInv, JobsSound, InvitersAlone
<1>4. LinksHeld'
  BY <1>1, IdleTyped DEF IInv, JobsSound, LinksHeld
<1>5. HoldersApart'
  BY <1>1, IdleTyped DEF IInv, JobsSound, HoldersApart
<1> QED
  BY <1>1, <1>2, <1>3, <1>4, <1>5 DEF JobsSound, JobTyped

(* A request that goes on without a link or an invite of its own.            *)
LEMMA JobWithoutHolds ==
  ASSUME IInv, UNCHANGED <<invite, reset>>, NEW w \in Workers, NEW new \in Jobs,
         Becomes(w, new), JobTyped(new), new.stage # "inviting",
         new.stage \notin Resetting,
         \A v \in Workers \ {w} : job[v].stage = "inviting" => new.invite # job[v].invite,
         new.stage \in {"telling", "accepting"} => invite[new.invite].stage # "none"
  PROVE  JobsSound' /\ job' \in [Workers -> Jobs]
<1>1. /\ job' \in [Workers -> Jobs]
      /\ job'[w] = new /\ \A v \in Workers \ {w} : job'[v] = job[v]
  BY DEF Becomes, IInv, TypeOK
<1>2. \A v \in Workers : JobTyped(job'[v])
  BY <1>1 DEF IInv, JobsSound
<1>3. Holds(new) = {} /\ new.stage # "voided" /\ new.stage # "setting"
  BY DEF Holds, JobTyped, Resetting
<1>4. InvitersAlone'
  BY <1>1 DEF IInv, JobsSound, InvitersAlone
<1>5. LinksHeld'
  BY <1>1, <1>3 DEF IInv, JobsSound, LinksHeld
<1>6. HoldersApart'
  BY <1>1, <1>3 DEF IInv, JobsSound, HoldersApart
<1> QED
  BY <1>1, <1>2, <1>4, <1>5, <1>6 DEF JobsSound

-----------------------------------------------------------------------------
(* Accounts come about. *)

LEMMA NewAccountIs ==
  ASSUME NEW from \in Invites \union {None}
  PROVE  LET a == NewAccount(from) IN
         /\ a \in Account
         /\ a.exists /\ ~a.locked /\ ~a.enabled
         /\ a.password = 0 /\ a.attempts = 0 /\ a.batch = 0 /\ a.invite = from
  BY DEF NewAccount, NoAccount, Account

LEMMA ProvisionKeeps ==
  ASSUME IInv, NEW e \in Emails, Provision(e)
  PROVE  IInv'
<1>1. NewAccount(None) \in Account
  BY NewAccountIs
<1>2. account[e] = NoAccount
  BY DEF Provision, IInv, Guesses
<1>3. /\ account' \in [Emails -> Account]
      /\ account'[e] = NewAccount(None)
      /\ \A d \in Emails \ {e} : account'[d] = account[d]
  BY <1>1 DEF Provision, IInv, TypeOK
<1>4. TypeOK'
  BY <1>3 DEF Provision, IInv, TypeOK
<1>5. Guesses'
  <2>1. misses[e] = 0 /\ reopened[e] \in Nat /\ UNCHANGED <<misses, reopened>>
    BY <1>2 DEF Provision, IInv, TypeOK, Guesses, NoAccount
  <2>2. /\ account'[e].attempts = 0 /\ account'[e].exists
        /\ 0 <= MaxAttempts + reopened[e] /\ 0 < MaxAttempts + reopened[e]
    BY <1>3, <2>1, NewAccountIs
  <2> QED
    BY <1>3, <2>1, <2>2 DEF IInv, Guesses
<1>6. CodesSound'
  BY <1>2, <1>3, NewAccountIs DEF Provision, IInv, CodesSound, NoAccount
<1>7. \A d \in Emails : /\ account'[d].invite = account[d].invite
                        /\ account'[d].password = account[d].password
                        /\ account[d].exists => account'[d].exists
  BY <1>2, <1>3, NewAccountIs DEF NoAccount
<1>8. InvitesSound' /\ LinksSound' /\ JobsSound'
  BY <1>7, InvitesAlone, LinksAlone, JobsAlone DEF Provision
<1> QED
  BY <1>4, <1>5, <1>6, <1>8 DEF IInv

LEMMA InviteChecksKeeps ==
  ASSUME IInv, NEW w \in Workers, NEW e \in Emails, NEW i \in Invites, InviteChecks(w, e, i)
  PROVE  IInv'
<1> DEFINE new == [Idle EXCEPT !.stage = "inviting", !.email = e, !.invite = i]
<1>1. /\ new \in Jobs
      /\ new.stage = "inviting" /\ new.email = e /\ new.invite = i
      /\ new.reset = None /\ new.seen = {}
  BY DEF Idle, Jobs
<1>a. UNCHANGED <<invite, reset>> /\ invite[i].stage = "none"
      /\ \A v \in Workers : job[v].invite # i
  BY DEF InviteChecks
<1>b. job' = [job EXCEPT ![w] = new]
  BY DEF InviteChecks, Becomes
<1> HIDE DEF new
<1>2. JobTyped(new) /\ new \in Jobs /\ Holds(new) = {}
  BY <1>1 DEF JobTyped, Resetting, Holds
<1>3. /\ job' \in [Workers -> Jobs]
      /\ job'[w] = new /\ \A v \in Workers \ {w} : job'[v] = job[v]
  BY <1>2, <1>b DEF IInv, TypeOK
<1>4. TypeOK'
  BY <1>3 DEF InviteChecks, Event, IInv, TypeOK
<1>5. JobsSound'
  <2>1. \A v \in Workers : JobTyped(job'[v])
    BY <1>2, <1>3 DEF IInv, JobsSound
  <2>2. InvitersAlone'
    BY <1>1, <1>3, <1>a DEF IInv, JobsSound, InvitersAlone
  <2>3. LinksHeld'
    BY <1>1, <1>2, <1>3, <1>a DEF IInv, JobsSound, LinksHeld
  <2>4. HoldersApart'
    BY <1>1, <1>2, <1>3 DEF IInv, JobsSound, HoldersApart
  <2> QED
    BY <2>1, <2>2, <2>3, <2>4 DEF JobsSound
<1>6. Guesses' /\ CodesSound' /\ InvitesSound' /\ LinksSound'
  BY AccountsAlone, CodesAlone, InvitesAlone, LinksAlone DEF InviteChecks
<1> QED
  BY <1>4, <1>5, <1>6 DEF IInv

LEMMA InviteIssuesKeeps ==
  ASSUME IInv, NEW w \in Workers, InviteIssues(w)
  PROVE  IInv'
<1> DEFINE i == job[w].invite
           new == [job[w] EXCEPT !.stage = "telling"]
<1>1. i \in Invites /\ job[w].email \in Emails /\ JobTyped(job[w])
      /\ job[w].reset = None /\ job[w].seen = {}
      /\ invite[i].stage = "none"
      /\ \A v \in Workers \ {w} : job[v].invite # i
  BY DEF InviteIssues, IInv, JobsSound, JobTyped, InvitersAlone, Resetting
<1>2. JobTyped(new) /\ new \in Jobs /\ Holds(new) = {} /\ new.stage = "telling"
  BY <1>1 DEF JobTyped, Jobs, Resetting, Holds
<1>a. /\ job' = [job EXCEPT ![w] = new] /\ UNCHANGED reset
      /\ invite' = [invite EXCEPT ![i] =
            [stage |-> "token", email |-> job[w].email, uses |-> 0, dead |-> FALSE]]
  BY DEF InviteIssues, Becomes
<1>b. new.invite = i
  BY <1>1 DEF JobTyped, Jobs
<1> HIDE DEF new
<1>3. /\ job' \in [Workers -> Jobs]
      /\ job'[w] = new /\ \A v \in Workers \ {w} : job'[v] = job[v]
  BY <1>2, <1>a DEF IInv, TypeOK
<1>4. /\ invite' \in [Invites -> Invite]
      /\ invite'[i] = [stage |-> "token", email |-> job[w].email, uses |-> 0, dead |-> FALSE]
      /\ \A k \in Invites \ {i} : invite'[k] = invite[k]
  BY <1>1, <1>a DEF IInv, TypeOK, Invite
<1>5. TypeOK'
  BY <1>3, <1>4 DEF InviteIssues, IInv, TypeOK
<1>6. InvitesSound'
  <2>1. invite[i].uses = 0
    BY <1>1 DEF IInv, InvitesSound
  <2> QED
    BY <1>1, <1>4, <2>1 DEF InviteIssues, IInv, InvitesSound
<1>7. JobsSound'
  <2>1. \A v \in Workers : JobTyped(job'[v])
    BY <1>2, <1>3 DEF IInv, JobsSound
  <2>2. InvitersAlone'
    <3>1. \A v \in Workers \ {w} : job[v].stage \in {"inviting", "telling", "accepting"}
                                    => job[v].invite \in Invites \ {i}
      BY <1>1 DEF IInv, JobsSound, JobTyped
    <3> QED
      BY <1>1, <1>2, <1>3, <1>4, <1>b, <3>1 DEF IInv, JobsSound, InvitersAlone
  <2>3. LinksHeld'
    BY <1>2, <1>3, <1>a DEF IInv, JobsSound, LinksHeld
  <2>4. HoldersApart'
    BY <1>2, <1>3 DEF IInv, JobsSound, HoldersApart
  <2> QED
    BY <2>1, <2>2, <2>3, <2>4 DEF JobsSound
<1>8. Guesses' /\ CodesSound' /\ LinksSound'
  BY AccountsAlone, CodesAlone, LinksAlone DEF InviteIssues
<1> QED
  BY <1>5, <1>6, <1>7, <1>8 DEF IInv

(* An invite whose stage is not "none" may change, and no job with it.       *)
LEMMA InviteChanges ==
  ASSUME IInv, NEW i \in Invites, NEW new \in Invite,
         invite[i].stage # "none" /\ new.stage # "none",
         invite' = [invite EXCEPT ![i] = new], UNCHANGED reset
  PROVE  /\ invite' \in [Invites -> Invite]
         /\ UNCHANGED job => JobsSound'
         /\ \A w \in Workers : Becomes(w, Idle) => JobsSound'
         /\ new.uses = invite[i].uses /\ new.email = invite[i].email
              /\ (\A e \in Emails : account'[e].invite = account[e].invite)
              => InvitesSound'
<1>1. /\ invite' \in [Invites -> Invite]
      /\ invite'[i] = new /\ \A k \in Invites \ {i} : invite'[k] = invite[k]
  BY DEF IInv, TypeOK
<1>2. \A w \in Workers :
        /\ job[w].stage = "inviting" => job[w].invite \in Invites \ {i}
        /\ job[w].stage \in {"inviting", "telling", "accepting"} => job[w].invite \in Invites
  BY DEF IInv, JobsSound, JobTyped, InvitersAlone
<1>3. ASSUME UNCHANGED job  PROVE JobsSound'
  BY <1>1, <1>2, <1>3 DEF IInv, JobsSound, InvitersAlone, LinksHeld, HoldersApart
<1>4. ASSUME NEW w \in Workers, Becomes(w, Idle)  PROVE JobsSound'
  <2>1. job'[w] = Idle /\ \A v \in Workers \ {w} : job'[v] = job[v]
    BY <1>4 DEF Becomes, IInv, TypeOK
  <2>2. \A v \in Workers : JobTyped(job'[v])
    BY <2>1, IdleTyped DEF IInv, JobsSound
  <2>3. InvitersAlone'
    BY <1>1, <1>2, <2>1, IdleTyped DEF IInv, JobsSound, InvitersAlone
  <2>4. LinksHeld'
    BY <2>1, IdleTyped DEF IInv, JobsSound, LinksHeld
  <2>5. HoldersApart'
    BY <2>1, IdleTyped DEF IInv, JobsSound, HoldersApart
  <2> QED
    BY <2>2, <2>3, <2>4, <2>5 DEF JobsSound
<1>5. ASSUME new.uses = invite[i].uses, new.email = invite[i].email,
             \A e \in Emails : account'[e].invite = account[e].invite
      PROVE  InvitesSound'
  BY <1>1, <1>5 DEF IInv, InvitesSound
<1> QED
  BY <1>1, <1>3, <1>4, <1>5

LEMMA IdleJobs ==
  ASSUME IInv, NEW w \in Workers, Becomes(w, Idle)
  PROVE  job' \in [Workers -> Jobs]
  BY IdleTyped DEF Becomes, IInv, TypeOK, JobTyped

LEMMA InviteTellsKeeps ==
  ASSUME IInv, NEW w \in Workers, InviteTells(w)
  PROVE  IInv'
<1> DEFINE i == job[w].invite
           new == [invite[i] EXCEPT !.stage = "told"]
<1>1. i \in Invites /\ invite[i].stage # "none"
  BY DEF InviteTells, IInv, JobsSound, JobTyped, InvitersAlone
<1>2. new \in Invite /\ new.stage = "told" /\ new.uses = invite[i].uses
      /\ new.email = invite[i].email
  <2>1. invite[i] \in Invite
    BY <1>1 DEF IInv, TypeOK
  <2> QED
    BY <2>1 DEF Invite
<1>3. InvitesSound' /\ JobsSound' /\ invite' \in [Invites -> Invite]
  BY <1>1, <1>2, InviteChanges DEF InviteTells
<1>4. TypeOK'
  BY <1>3, IdleJobs DEF InviteTells, IInv, TypeOK
<1>5. Guesses' /\ CodesSound' /\ LinksSound'
  BY AccountsAlone, CodesAlone, LinksAlone DEF InviteTells
<1> QED
  BY <1>3, <1>4, <1>5 DEF IInv

(* The steps that change nothing but one request.                            *)
LEMMA OnlyJobsKeeps ==
  ASSUME IInv, UNCHANGED <<account, code, invite, reset, preauth, misses, reopened>>,
         budget' \in Nat, JobsSound', job' \in [Workers -> Jobs]
  PROVE  IInv'
<1>1. Guesses' /\ CodesSound' /\ InvitesSound' /\ LinksSound'
  BY AccountsAlone, CodesAlone, InvitesAlone, LinksAlone
<1> QED
  BY <1>1 DEF IInv, TypeOK

LEMMA RequestEndsKeeps ==
  ASSUME IInv, NEW w \in Workers,
         AcceptFails(w) \/ FactorLoses(w) \/ FactorDone(w) \/ DeadlockBroken(w) \/ WorkerDies(w)
  PROVE  IInv'
<1>1. /\ Becomes(w, Idle)
      /\ UNCHANGED <<account, code, invite, reset, preauth, misses, reopened>>
      /\ budget' \in Nat
  BY DEF AcceptFails, FactorLoses, FactorDone, DeadlockBroken, WorkerDies, Event, IInv, TypeOK
<1> QED
  BY <1>1, JobEnds, OnlyJobsKeeps

LEMMA AcceptLooksKeeps ==
  ASSUME IInv, NEW w \in Workers, NEW i \in Invites, AcceptLooks(w, i)
  PROVE  IInv'
<1> DEFINE new == [Idle EXCEPT !.stage = "accepting", !.email = invite[i].email, !.invite = i]
<1>1. invite[i].stage = "told" /\ invite[i].email \in Emails
  BY DEF AcceptLooks, IInv, InvitesSound
<1>2. /\ new \in Jobs /\ new.stage = "accepting" /\ new.email = invite[i].email
      /\ new.invite = i /\ new.reset = None /\ new.seen = {}
  BY <1>1 DEF Idle, Jobs
<1>3. Becomes(w, new) /\ UNCHANGED <<invite, reset>>
  BY DEF AcceptLooks
<1> HIDE DEF new
<1>4. JobTyped(new)
  BY <1>1, <1>2 DEF JobTyped, Resetting
<1>5. \A v \in Workers \ {w} : job[v].stage = "inviting" => new.invite # job[v].invite
  BY <1>1, <1>2 DEF IInv, JobsSound, InvitersAlone
<1>6. new.stage # "inviting" /\ new.stage \notin Resetting
  BY <1>2 DEF Resetting
<1>7. JobsSound' /\ job' \in [Workers -> Jobs]
  BY <1>1, <1>2, <1>3, <1>4, <1>5, <1>6, JobWithoutHolds
<1> QED
  BY <1>7, OnlyJobsKeeps DEF AcceptLooks, IInv, TypeOK

LEMMA AcceptCommitsKeeps ==
  ASSUME IInv, NEW w \in Workers, AcceptCommits(w)
  PROVE  IInv'
<1> DEFINE i == job[w].invite
           e == job[w].email
           used == [invite[i] EXCEPT !.uses = invite[i].uses + 1]
<1>1. i \in Invites /\ e \in Emails /\ InviteValid(i) /\ ~account[e].exists
  BY DEF AcceptCommits, IInv, JobsSound, JobTyped
<1>2. account[e] = NoAccount
  BY <1>1 DEF IInv, Guesses
<1>3. /\ account' \in [Emails -> Account]
      /\ account'[e] = NewAccount(i)
      /\ \A d \in Emails \ {e} : account'[d] = account[d]
  BY <1>1, NewAccountIs DEF AcceptCommits, IInv, TypeOK
<1>4. invite[i].uses = 0 /\ invite[i].stage # "none" /\ invite[i] \in Invite
  BY <1>1 DEF InviteValid, IInv, TypeOK, Invite
<1>5. used \in Invite /\ used.uses = 1 /\ used.stage = invite[i].stage
      /\ used.email = invite[i].email
  BY <1>4 DEF Invite
<1>6. /\ invite' = [invite EXCEPT ![i] = used] /\ Becomes(w, Idle) /\ UNCHANGED reset
      /\ UNCHANGED <<code, preauth, misses, reopened, budget>>
  BY DEF AcceptCommits
<1> HIDE DEF used
<1>7. JobsSound' /\ invite' \in [Invites -> Invite]
  BY <1>1, <1>4, <1>5, <1>6, InviteChanges
<1>8. TypeOK'
  BY <1>3, <1>6, <1>7, IdleJobs DEF IInv, TypeOK
<1>9. Guesses'
  <2>1. misses[e] = 0 /\ reopened[e] \in Nat
    BY <1>1, <1>2 DEF IInv, TypeOK, Guesses, NoAccount
  <2>2. /\ account'[e].attempts = 0 /\ account'[e].exists
        /\ 0 <= MaxAttempts + reopened[e] /\ 0 < MaxAttempts + reopened[e]
    BY <1>1, <1>3, <2>1, NewAccountIs
  <2> QED
    BY <1>1, <1>3, <1>6, <2>1, <2>2 DEF IInv, Guesses
<1>10. CodesSound'
  <2>1. ~account'[e].enabled /\ account'[e].batch = account[e].batch
        /\ ~account[e].enabled
    BY <1>1, <1>2, <1>3, NewAccountIs DEF NoAccount
  <2> QED
    BY <1>1, <1>3, <1>6, <2>1 DEF IInv, CodesSound
<1>11. InvitesSound'
  <2>1. /\ invite'[i].uses = 1 /\ invite'[i].stage # "none"
        /\ invite'[i].email = invite[i].email
        /\ \A k \in Invites \ {i} : invite'[k] = invite[k]
    BY <1>1, <1>4, <1>5, <1>6 DEF IInv, TypeOK
  <2>2. account[e].invite = None /\ account'[e].invite = i
    BY <1>1, <1>2, <1>3, NewAccountIs DEF NoAccount
  <2>3. \A k \in Invites \ {i} : (\E d \in Emails : account'[d].invite = k)
                                <=> (\E d \in Emails : account[d].invite = k)
    BY <1>1, <1>3, <2>2
  <2>4. \E d \in Emails : account'[d].invite = i
    BY <1>1, <2>2
  <2>5. invite[i].email \in Emails
    BY <1>1, <1>4 DEF IInv, InvitesSound
  <2> QED
    BY <1>1, <2>1, <2>3, <2>4, <2>5 DEF IInv, InvitesSound
<1>12. LinksSound'
  <2>1. account'[e].password = account[e].password /\ account'[e].exists
    BY <1>1, <1>2, <1>3, NewAccountIs DEF NoAccount
  <2> QED
    BY <1>3, <1>6, <2>1, LinksAlone
<1> QED
  BY <1>7, <1>8, <1>9, <1>10, <1>11, <1>12 DEF IInv

LEMMA InviteExpiresKeeps ==
  ASSUME IInv, NEW i \in Invites, InviteExpires(i)
  PROVE  IInv'
<1> DEFINE new == [invite[i] EXCEPT !.dead = TRUE]
<1>1. invite[i] \in Invite /\ invite[i].stage # "none"
  BY DEF InviteExpires, InviteValid, IInv, TypeOK
<1>2. new \in Invite /\ new.stage = invite[i].stage /\ new.uses = invite[i].uses
      /\ new.email = invite[i].email
  BY <1>1 DEF Invite
<1>3. InvitesSound' /\ JobsSound' /\ invite' \in [Invites -> Invite]
  BY <1>1, <1>2, InviteChanges DEF InviteExpires
<1>4. Guesses' /\ CodesSound' /\ LinksSound'
  BY AccountsAlone, CodesAlone, LinksAlone DEF InviteExpires
<1> QED
  BY <1>3, <1>4 DEF InviteExpires, Event, IInv, TypeOK

-----------------------------------------------------------------------------
(* login. *)

(* A row of users that keeps its password and its invite.                    *)
LEMMA AccountChanges ==
  ASSUME IInv, NEW e \in Emails, NEW a \in Account,
         account' = [account EXCEPT ![e] = a], UNCHANGED <<invite, reset, job>>,
         a.password = account[e].password, a.invite = account[e].invite,
         account[e].exists => a.exists
  PROVE  /\ account' \in [Emails -> Account]
         /\ account'[e] = a /\ \A d \in Emails \ {e} : account'[d] = account[d]
         /\ InvitesSound' /\ LinksSound' /\ JobsSound'
<1>1. /\ account' \in [Emails -> Account]
      /\ account'[e] = a /\ \A d \in Emails \ {e} : account'[d] = account[d]
  BY DEF IInv, TypeOK
<1> QED
  BY <1>1, InvitesAlone, LinksAlone, JobsAlone

LEMMA LoginFailsKeeps ==
  ASSUME IInv, NEW e \in Emails, LoginFails(e)
  PROVE  IInv'
<1> DEFINE old == account[e]
           attempts == old.attempts + 1
           locked == attempts >= MaxAttempts
           a == [old EXCEPT !.attempts = attempts, !.locked = locked]
<1>1. old \in Account /\ old.exists /\ ~old.locked /\ misses[e] \in Nat /\ reopened[e] \in Nat
  BY DEF LoginFails, MayTry, IInv, TypeOK
<1>a. attempts \in Nat /\ locked \in BOOLEAN /\ (~locked => attempts < MaxAttempts)
  BY <1>1 DEF Account
<1>b. account' = [account EXCEPT ![e] = a]
  BY DEF LoginFails
<1> HIDE DEF locked
<1>2. /\ a \in Account /\ a.password = old.password /\ a.invite = old.invite
      /\ a.attempts = attempts /\ a.locked = locked
      /\ a.exists /\ a.enabled = old.enabled /\ a.batch = old.batch
  BY <1>1, <1>a DEF Account
<1> HIDE DEF a
<1>4. /\ account' \in [Emails -> Account]
      /\ account'[e] = a /\ \A d \in Emails \ {e} : account'[d] = account[d]
      /\ InvitesSound' /\ LinksSound' /\ JobsSound'
  BY <1>2, <1>b, AccountChanges DEF LoginFails
<1>5. /\ misses' = [misses EXCEPT ![e] = misses[e] + 1] /\ UNCHANGED <<code, reopened>>
  BY DEF LoginFails
<1>6. TypeOK'
  BY <1>1, <1>4, <1>5 DEF LoginFails, Event, IInv, TypeOK
<1>7. Guesses'
  <2>1. /\ misses'[e] = attempts /\ \A d \in Emails \ {e} : misses'[d] = misses[d]
    BY <1>5 DEF IInv, TypeOK, Guesses
  <2>2. old.attempts \in Nat /\ old.attempts < MaxAttempts + reopened[e]
    BY <1>1 DEF IInv, Guesses, Account
  <2>3. attempts <= MaxAttempts + reopened[e]
    BY <1>1, <2>2
  <2>4. ~a.locked => attempts < MaxAttempts + reopened[e]
    BY <1>1, <1>2, <1>a
  <2> QED
    BY <1>2, <1>4, <1>5, <2>1, <2>3, <2>4 DEF IInv, Guesses
<1>8. CodesSound'
  BY <1>2, <1>4, <1>5 DEF IInv, CodesSound
<1> QED
  BY <1>4, <1>6, <1>7, <1>8 DEF IInv

LEMMA LoginSucceedsKeeps ==
  ASSUME IInv, NEW e \in Emails, LoginSucceeds(e)
  PROVE  IInv'
<1> DEFINE old == account[e]
           a == [old EXCEPT !.attempts = 0]
<1>1. old \in Account /\ old.exists
  BY DEF LoginSucceeds, MayTry, IInv, TypeOK
<1>2. /\ a \in Account /\ a.password = old.password /\ a.invite = old.invite
      /\ a.attempts = 0 /\ a.exists /\ a.enabled = old.enabled /\ a.batch = old.batch
  BY <1>1 DEF Account
<1>3. account' = [account EXCEPT ![e] = a]
  BY DEF LoginSucceeds
<1> HIDE DEF a
<1>4. /\ account' \in [Emails -> Account]
      /\ account'[e] = a /\ \A d \in Emails \ {e} : account'[d] = account[d]
      /\ InvitesSound' /\ LinksSound' /\ JobsSound'
  BY <1>2, <1>3, AccountChanges DEF LoginSucceeds
<1>5. /\ misses' = [misses EXCEPT ![e] = 0] /\ reopened' = [reopened EXCEPT ![e] = 0]
      /\ UNCHANGED code
  BY DEF LoginSucceeds
<1>6. TypeOK'
  BY <1>4, <1>5 DEF LoginSucceeds, IInv, TypeOK
<1>7. Guesses'
  BY <1>2, <1>4, <1>5 DEF IInv, TypeOK, Guesses
<1>8. CodesSound'
  BY <1>2, <1>4, <1>5 DEF IInv, CodesSound
<1> QED
  BY <1>4, <1>6, <1>7, <1>8 DEF IInv

LEMMA LockRunsOutKeeps ==
  ASSUME IInv, NEW e \in Emails, LockRunsOut(e)
  PROVE  IInv'
<1> DEFINE old == account[e]
           a == [old EXCEPT !.locked = FALSE]
<1>1. old \in Account /\ old.locked
  BY DEF LockRunsOut, IInv, TypeOK
<1>2. old.exists
  BY <1>1 DEF IInv, Guesses, NoAccount
<1>3. /\ a \in Account /\ a.password = old.password /\ a.invite = old.invite
      /\ a.attempts = old.attempts /\ a.exists /\ ~a.locked
      /\ a.enabled = old.enabled /\ a.batch = old.batch
  BY <1>1, <1>2 DEF Account
<1>4. account' = [account EXCEPT ![e] = a]
  BY DEF LockRunsOut
<1> HIDE DEF a
<1>5. /\ account' \in [Emails -> Account]
      /\ account'[e] = a /\ \A d \in Emails \ {e} : account'[d] = account[d]
      /\ InvitesSound' /\ LinksSound' /\ JobsSound'
  BY <1>3, <1>4, AccountChanges DEF LockRunsOut
<1>6. reopened' = [reopened EXCEPT ![e] = reopened[e] + 1] /\ UNCHANGED <<code, misses>>
  BY DEF LockRunsOut
<1>7. TypeOK'
  BY <1>5, <1>6 DEF LockRunsOut, Event, IInv, TypeOK
<1>8. Guesses'
  <2>1. /\ old.attempts \in Nat /\ reopened[e] \in Nat
        /\ old.attempts <= MaxAttempts + reopened[e] /\ misses[e] = old.attempts
    BY <1>1 DEF IInv, TypeOK, Guesses, Account
  <2>2. /\ reopened'[e] = reopened[e] + 1
        /\ \A d \in Emails \ {e} : reopened'[d] = reopened[d]
    BY <1>6 DEF IInv, TypeOK
  <2>3. old.attempts < MaxAttempts + (reopened[e] + 1)
    BY <2>1
  <2>4. old.attempts <= MaxAttempts + (reopened[e] + 1)
    BY <2>1
  <2> QED
    BY <1>3, <1>5, <1>6, <2>1, <2>2, <2>3, <2>4 DEF IInv, Guesses
<1>9. CodesSound'
  BY <1>3, <1>5, <1>6 DEF IInv, CodesSound
<1> QED
  BY <1>5, <1>7, <1>8, <1>9 DEF IInv

(* Switching an account and enrolling it touch no count and no code.         *)
LEMMA SwitchKeeps ==
  ASSUME IInv, NEW e \in Emails, SetActive(e) \/ Enroll(e)
  PROVE  IInv'
<1> DEFINE old == account[e]
<1>1. old \in Account /\ old.exists
  BY DEF SetActive, Enroll, IInv, TypeOK
<1>2. PICK a \in Account :
        /\ account' = [account EXCEPT ![e] = a]
        /\ a.password = old.password /\ a.invite = old.invite
        /\ a.attempts = old.attempts /\ a.exists /\ a.locked = old.locked
        /\ a.enabled = old.enabled /\ a.batch = old.batch
  <2>1. CASE SetActive(e)
    <3> DEFINE a == [old EXCEPT !.active = ~old.active]
    <3>1. /\ a \in Account /\ a.password = old.password /\ a.invite = old.invite
          /\ a.attempts = old.attempts /\ a.exists /\ a.locked = old.locked
          /\ a.enabled = old.enabled /\ a.batch = old.batch
      BY <1>1 DEF Account
    <3>2. account' = [account EXCEPT ![e] = a]
      BY <2>1 DEF SetActive
    <3> HIDE DEF a
    <3> QED
      BY <3>1, <3>2
  <2>2. CASE Enroll(e)
    <3> DEFINE a == [old EXCEPT !.secret = TRUE]
    <3>1. /\ a \in Account /\ a.password = old.password /\ a.invite = old.invite
          /\ a.attempts = old.attempts /\ a.exists /\ a.locked = old.locked
          /\ a.enabled = old.enabled /\ a.batch = old.batch
      BY <1>1 DEF Account
    <3>2. account' = [account EXCEPT ![e] = a]
      BY <2>2 DEF Enroll
    <3> HIDE DEF a
    <3> QED
      BY <3>1, <3>2
  <2> QED
    BY <2>1, <2>2
<1>3. /\ UNCHANGED <<code, invite, reset, preauth, job, misses, reopened>>
      /\ budget' \in Nat
  BY DEF SetActive, Enroll, Event, IInv, TypeOK
<1>4. /\ account' \in [Emails -> Account]
      /\ account'[e] = a /\ \A d \in Emails \ {e} : account'[d] = account[d]
      /\ InvitesSound' /\ LinksSound' /\ JobsSound'
  BY <1>2, <1>3, AccountChanges
<1>5. TypeOK'
  BY <1>3, <1>4 DEF IInv, TypeOK
<1>6. Guesses'
  BY <1>2, <1>3, <1>4 DEF IInv, Guesses
<1>7. CodesSound'
  BY <1>2, <1>3, <1>4 DEF IInv, CodesSound
<1> QED
  BY <1>4, <1>5, <1>6, <1>7 DEF IInv

-----------------------------------------------------------------------------
(* The second factor. *)

LEMMA ConfirmKeeps ==
  ASSUME IInv, NEW e \in Emails, Confirm(e)
  PROVE  IInv'
<1> DEFINE old == account[e]
           b == old.batch + 1
           a == [old EXCEPT !.enabled = TRUE, !.batch = b]
           codes == [c \in Codes |->
                       [code[e][c] EXCEPT !.state = IF c[1] = b THEN "unused" ELSE "none"]]
<1>1. old \in Account /\ b \in Batches /\ old.secret /\ old.batch \in Nat /\ ~old.enabled
  BY DEF Confirm, IInv, TypeOK, Account
<1>2. old.exists
  BY <1>1 DEF IInv, Guesses, NoAccount
<1>a. b \in Nat /\ b > old.batch
  BY <1>1
<1>b. /\ account' = [account EXCEPT ![e] = a] /\ code' = [code EXCEPT ![e] = codes]
      /\ UNCHANGED <<invite, reset, preauth, job, misses, reopened>> /\ budget' \in Nat
  BY DEF Confirm, Event, IInv, TypeOK
<1> HIDE DEF b
<1>3. /\ a \in Account /\ a.password = old.password /\ a.invite = old.invite
      /\ a.attempts = old.attempts /\ a.exists /\ a.locked = old.locked
      /\ a.enabled /\ a.batch = b
  BY <1>1, <1>2, <1>a DEF Account
<1>4. /\ codes \in [Codes -> Code]
      /\ \A c \in Codes : /\ codes[c].admitted = code[e][c].admitted
                          /\ codes[c].state = IF c[1] = b THEN "unused" ELSE "none"
  <2>1. \A c \in Codes : code[e][c] \in Code
    BY DEF IInv, TypeOK
  <2> QED
    BY <2>1 DEF Code
<1> HIDE DEF a, codes
<1>6. /\ account' \in [Emails -> Account]
      /\ account'[e] = a /\ \A d \in Emails \ {e} : account'[d] = account[d]
      /\ InvitesSound' /\ LinksSound' /\ JobsSound'
  BY <1>3, <1>b, AccountChanges
<1>7. /\ code' \in [Emails -> [Codes -> Code]]
      /\ code'[e] = codes /\ \A d \in Emails \ {e} : code'[d] = code[d]
  BY <1>4, <1>b DEF IInv, TypeOK
<1>8. TypeOK'
  BY <1>6, <1>7, <1>b DEF IInv, TypeOK
<1>9. Guesses'
  BY <1>3, <1>6, <1>b DEF IInv, Guesses
<1>10. CodesSound'
  <2>1. \A c \in Codes : c[1] = b => codes[c].admitted = 0
    BY <1>1, <1>4, <1>a DEF IInv, CodesSound
  <2>2. \A c \in Codes : c[1] > b => codes[c].admitted = 0
    <3> SUFFICES ASSUME NEW c \in Codes, c[1] > b  PROVE codes[c].admitted = 0
      OBVIOUS
    <3>1. c[1] \in Nat
      BY DEF Codes, Batches
    <3>2. c[1] > old.batch
      BY <1>1, <1>a, <3>1
    <3> QED
      BY <1>4, <3>2 DEF IInv, CodesSound
  <2>3. \A c \in Codes : codes[c].admitted <= 1
    BY <1>4 DEF IInv, CodesSound
  <2>4. \A c \in Codes : codes[c].state # "none" <=> c[1] = b
    BY <1>4
  <2> QED
    BY <1>1, <1>3, <1>4, <1>6, <1>7, <2>1, <2>2, <2>3, <2>4 DEF IInv, CodesSound
<1> QED
  BY <1>6, <1>8, <1>9, <1>10 DEF IInv

LEMMA DisableKeeps ==
  ASSUME IInv, NEW e \in Emails, Disable(e)
  PROVE  IInv'
<1> DEFINE old == account[e]
           a == [old EXCEPT !.secret = FALSE, !.enabled = FALSE]
           codes == [c \in Codes |-> [code[e][c] EXCEPT !.state = "none"]]
<1>1. old \in Account /\ old.exists
  BY DEF Disable, IInv, TypeOK
<1>2. /\ a \in Account /\ a.password = old.password /\ a.invite = old.invite
      /\ a.attempts = old.attempts /\ a.exists /\ a.locked = old.locked
      /\ ~a.enabled /\ a.batch = old.batch
  BY <1>1 DEF Account
<1>3. /\ codes \in [Codes -> Code]
      /\ \A c \in Codes : codes[c].admitted = code[e][c].admitted /\ codes[c].state = "none"
  BY DEF IInv, TypeOK, Code
<1>4. account' = [account EXCEPT ![e] = a] /\ code' = [code EXCEPT ![e] = codes]
  BY DEF Disable
<1> HIDE DEF a, codes
<1>5. /\ account' \in [Emails -> Account]
      /\ account'[e] = a /\ \A d \in Emails \ {e} : account'[d] = account[d]
      /\ InvitesSound' /\ LinksSound' /\ JobsSound'
  BY <1>2, <1>4, AccountChanges DEF Disable
<1>6. /\ code' \in [Emails -> [Codes -> Code]]
      /\ code'[e] = codes /\ \A d \in Emails \ {e} : code'[d] = code[d]
  BY <1>3, <1>4 DEF IInv, TypeOK
<1>7. TypeOK'
  BY <1>5, <1>6 DEF Disable, IInv, TypeOK
<1>8. Guesses'
  BY <1>2, <1>5 DEF Disable, IInv, Guesses
<1>9. CodesSound'
  BY <1>2, <1>3, <1>5, <1>6 DEF IInv, CodesSound
<1> QED
  BY <1>5, <1>7, <1>8, <1>9 DEF IInv

LEMMA FactorLooksKeeps ==
  ASSUME IInv, NEW w \in Workers, NEW e \in Emails, NEW c \in Codes, FactorLooks(w, e, c)
  PROVE  IInv'
<1> DEFINE new == [Idle EXCEPT !.stage = "candidate", !.email = e, !.code = c]
<1>1. /\ new \in Jobs /\ new.stage = "candidate" /\ new.email = e /\ new.code = c
      /\ new.invite = None /\ new.reset = None /\ new.seen = {}
  BY DEF Idle, Jobs
<1>2. /\ Becomes(w, new) /\ UNCHANGED <<account, code, invite, reset, preauth, misses, reopened>>
      /\ budget' \in Nat
  BY DEF FactorLooks, Event, IInv, TypeOK
<1> HIDE DEF new
<1>3. JobTyped(new) /\ new.stage \notin Resetting
  BY <1>1 DEF JobTyped, Resetting
<1>4. \A v \in Workers \ {w} : job[v].stage = "inviting" => new.invite # job[v].invite
  BY <1>1 DEF IInv, JobsSound, JobTyped
<1>5. JobsSound' /\ job' \in [Workers -> Jobs]
  BY <1>1, <1>2, <1>3, <1>4, JobWithoutHolds
<1> QED
  BY <1>2, <1>5, OnlyJobsKeeps

LEMMA FactorByTotpKeeps ==
  ASSUME IInv, NEW w \in Workers, NEW e \in Emails, FactorByTotp(w, e)
  PROVE  IInv'
<1> DEFINE new == [Idle EXCEPT !.stage = "verified", !.email = e]
<1>1. /\ new \in Jobs /\ new.stage = "verified" /\ new.email = e
      /\ new.invite = None /\ new.reset = None /\ new.seen = {}
  BY DEF Idle, Jobs
<1>2. /\ Becomes(w, new) /\ UNCHANGED <<account, code, invite, reset, preauth, misses, reopened>>
      /\ budget' \in Nat
  BY DEF FactorByTotp, Event, IInv, TypeOK
<1> HIDE DEF new
<1>3. JobTyped(new) /\ new.stage \notin Resetting
  BY <1>1 DEF JobTyped, Resetting
<1>4. \A v \in Workers \ {w} : job[v].stage = "inviting" => new.invite # job[v].invite
  BY <1>1 DEF IInv, JobsSound, JobTyped
<1>5. JobsSound' /\ job' \in [Workers -> Jobs]
  BY <1>1, <1>2, <1>3, <1>4, JobWithoutHolds
<1> QED
  BY <1>2, <1>5, OnlyJobsKeeps

LEMMA FactorClaimsKeeps ==
  ASSUME IInv, NEW w \in Workers, FactorClaims(w)
  PROVE  IInv'
<1> DEFINE e == job[w].email
           c == job[w].code
           new == [job[w] EXCEPT !.stage = "verified"]
           spent == [state |-> "used", admitted |-> code[e][c].admitted + 1]
<1>1. /\ e \in Emails /\ c \in Codes /\ JobTyped(job[w]) /\ job[w].stage = "candidate"
      /\ code[e][c].state = "unused"
  BY DEF FactorClaims, IInv, JobsSound, JobTyped
<1>2. job[w].reset = None /\ job[w].seen = {} /\ job[w] \in Jobs
  BY <1>1 DEF JobTyped, Resetting
<1>3. /\ new \in Jobs /\ new.stage = "verified" /\ new.reset = None /\ new.seen = {}
      /\ new.invite = job[w].invite
  BY <1>2 DEF Jobs
<1>4. Becomes(w, new) /\ code' = [code EXCEPT ![e] = [code[e] EXCEPT ![c] = spent]]
  BY DEF FactorClaims
<1>5. code[e][c].admitted = 0
  BY <1>1 DEF IInv, CodesSound
<1>6. spent \in Code /\ spent.admitted = 1 /\ spent.state = "used"
  BY <1>5 DEF Code
<1> HIDE DEF new, spent
<1>7. JobTyped(new) /\ new.stage \notin Resetting
  BY <1>3 DEF JobTyped, Resetting
<1>8. \A v \in Workers \ {w} : job[v].stage = "inviting" => new.invite # job[v].invite
  BY <1>3 DEF IInv, JobsSound, InvitersAlone
<1>9. JobsSound' /\ job' \in [Workers -> Jobs]
  BY <1>3, <1>4, <1>7, <1>8, JobWithoutHolds DEF FactorClaims
<1>10. /\ code' \in [Emails -> [Codes -> Code]]
       /\ code'[e][c] = spent /\ \A k \in Codes \ {c} : code'[e][k] = code[e][k]
       /\ \A d \in Emails \ {e} : code'[d] = code[d]
  BY <1>1, <1>4, <1>6 DEF IInv, TypeOK
<1>11. TypeOK'
  BY <1>9, <1>10 DEF FactorClaims, IInv, TypeOK
<1>12. CodesSound'
  <2>1. account[e].enabled /\ c[1] = account[e].batch /\ UNCHANGED account
    BY <1>1 DEF FactorClaims, IInv, CodesSound
  <2>2. ~(c[1] > account[e].batch)
    <3>1. c[1] \in Nat
      BY <1>1 DEF Codes, Batches
    <3> QED
      BY <2>1, <3>1
  <2> QED
    BY <1>1, <1>6, <1>10, <2>1, <2>2 DEF IInv, CodesSound
<1>13. Guesses' /\ InvitesSound' /\ LinksSound'
  BY AccountsAlone, InvitesAlone, LinksAlone DEF FactorClaims
<1> QED
  BY <1>9, <1>11, <1>12, <1>13 DEF IInv

-----------------------------------------------------------------------------
(* Reset links. *)

LEMMA RequestResetKeeps ==
  ASSUME IInv, NEW e \in Emails, NEW t \in Resets, RequestReset(e, t)
  PROVE  IInv'
<1> DEFINE late == \E w \in Workers : job[w].email = e /\ job[w].stage = "voided"
           new == [stage |-> "live", email |-> e, asked |-> account[e].password, sets |-> 0,
                   late |-> late]
<1>1. reset[t].stage = "none" /\ account[e].password \in Nat /\ account[e].exists
  BY DEF RequestReset, IInv, TypeOK, Account
<1>2. /\ new \in Reset /\ new.stage = "live" /\ new.email = e /\ new.sets = 0
      /\ new.asked = account[e].password /\ new.late = late
  BY <1>1 DEF Reset
<1>3. /\ reset' = [reset EXCEPT ![t] = new]
      /\ UNCHANGED <<account, code, invite, preauth, job, misses, reopened>>
      /\ budget' \in Nat
  BY DEF RequestReset, Event, IInv, TypeOK
<1>4. \A w \in Workers : job[w].email = e /\ job[w].stage = "voided" => late
  OBVIOUS
<1> HIDE DEF new, late
<1>5. /\ reset' \in [Resets -> Reset] /\ reset'[t] = new
      /\ \A s \in Resets \ {t} : reset'[s] = reset[s]
  BY <1>2, <1>3 DEF IInv, TypeOK
<1>6. TypeOK'
  BY <1>3, <1>5 DEF IInv, TypeOK
<1>7. LinksSound'
  BY <1>1, <1>2, <1>3, <1>5 DEF IInv, LinksSound
<1>8. JobsSound'
  <2>1. \A w \in Workers : t \notin Holds(job[w])
    BY <1>1 DEF IInv, JobsSound, LinksHeld
  <2>2. \A w \in Workers : Holds(job[w]) \subseteq Resets
    BY DEF Holds
  <2>3. LinksHeld'
    BY <1>2, <1>3, <1>4, <1>5, <2>1, <2>2 DEF IInv, JobsSound, LinksHeld
  <2>4. (\A w \in Workers : JobTyped(job[w]))' /\ InvitersAlone' /\ HoldersApart'
    BY <1>3 DEF IInv, JobsSound, InvitersAlone, HoldersApart
  <2> QED
    BY <2>3, <2>4 DEF JobsSound
<1>9. Guesses' /\ CodesSound' /\ InvitesSound'
  BY <1>3, AccountsAlone, CodesAlone, InvitesAlone
<1> QED
  BY <1>6, <1>7, <1>8, <1>9 DEF IInv

LEMMA ResetExpiresKeeps ==
  ASSUME IInv, NEW t \in Resets, ResetExpires(t)
  PROVE  IInv'
<1> DEFINE new == [reset[t] EXCEPT !.stage = "expired"]
<1>1. reset[t] \in Reset /\ reset[t].sets = 0 /\ \A w \in Workers : t \notin Holds(job[w])
  BY DEF ResetExpires, IInv, TypeOK, LinksSound, Holds
<1>2. new \in Reset /\ new.stage = "expired" /\ new.sets = 0
  BY <1>1 DEF Reset
<1>3. /\ reset' = [reset EXCEPT ![t] = new]
      /\ UNCHANGED <<account, code, invite, preauth, job, misses, reopened>>
      /\ budget' \in Nat
  BY DEF ResetExpires, Event, IInv, TypeOK
<1> HIDE DEF new
<1>4. /\ reset' \in [Resets -> Reset] /\ reset'[t] = new
      /\ \A s \in Resets \ {t} : reset'[s] = reset[s]
  BY <1>2, <1>3 DEF IInv, TypeOK
<1>5. TypeOK'
  BY <1>3, <1>4 DEF IInv, TypeOK
<1>6. LinksSound'
  BY <1>2, <1>3, <1>4 DEF IInv, LinksSound
<1>7. JobsSound'
  <2>1. \A w \in Workers : Holds(job[w]) \subseteq Resets
    BY DEF Holds
  <2>2. LinksHeld'
    BY <1>1, <1>2, <1>3, <1>4, <2>1 DEF IInv, JobsSound, LinksHeld
  <2>3. (\A w \in Workers : JobTyped(job[w]))' /\ InvitersAlone' /\ HoldersApart'
    BY <1>3 DEF IInv, JobsSound, InvitersAlone, HoldersApart
  <2> QED
    BY <2>2, <2>3 DEF JobsSound
<1>8. Guesses' /\ CodesSound' /\ InvitesSound'
  BY <1>3, AccountsAlone, CodesAlone, InvitesAlone
<1> QED
  BY <1>5, <1>6, <1>7, <1>8 DEF IInv

(* A request that goes on with links of an account.                          *)
LEMMA JobWithLinks ==
  ASSUME IInv, UNCHANGED <<invite, reset>>, NEW w \in Workers, NEW new \in Jobs,
         Becomes(w, new), JobTyped(new), new.stage \in Resetting, new.invite = None,
         \A t \in Holds(new) : reset[t].stage = "live" /\ reset[t].email = new.email,
         new.stage = "voided" =>
           \A t \in Resets : reset[t].stage = "live" /\ reset[t].email = new.email
                               => t \in Holds(new) \/ reset[t].late,
         \A v \in Workers \ {w} :
           /\ Holds(new) \intersect Holds(job[v]) = {}
           /\ new.stage \in {"setting", "voided"} /\ job[v].stage \in {"setting", "voided"}
                => new.email # job[v].email
  PROVE  JobsSound' /\ job' \in [Workers -> Jobs]
<1>1. /\ job' \in [Workers -> Jobs]
      /\ job'[w] = new /\ \A v \in Workers \ {w} : job'[v] = job[v]
  BY DEF Becomes, IInv, TypeOK
<1>2. \A v \in Workers : JobTyped(job'[v])
  BY <1>1 DEF IInv, JobsSound
<1>3. InvitersAlone'
  <2>1. \A v \in Workers : job[v].stage = "inviting" => job[v].invite # None
    BY DEF IInv, JobsSound, JobTyped
  <2>2. new.stage \notin {"inviting", "telling", "accepting"}
    BY DEF Resetting
  <2> QED
    BY <1>1, <2>1, <2>2 DEF IInv, JobsSound, InvitersAlone
<1>4. LinksHeld'
  BY <1>1 DEF IInv, JobsSound, LinksHeld
<1>5. HoldersApart'
  BY <1>1 DEF IInv, JobsSound, HoldersApart
<1> QED
  BY <1>1, <1>2, <1>3, <1>4, <1>5 DEF JobsSound

LEMMA ConfirmConsumesKeeps ==
  ASSUME IInv, NEW w \in Workers, NEW t \in Resets, ConfirmConsumes(w, t)
  PROVE  IInv'
<1> DEFINE new == [Idle EXCEPT !.stage = "consumed", !.email = reset[t].email, !.reset = t]
<1>1. /\ reset[t].stage = "live" /\ reset[t].email \in Emails
      /\ \A v \in Workers : t \notin Holds(job[v])
  BY DEF ConfirmConsumes, ResetHeld, Holds, IInv, LinksSound
<1>2. /\ new \in Jobs /\ new.stage = "consumed" /\ new.email = reset[t].email
      /\ new.invite = None /\ new.reset = t /\ new.seen = {}
  BY <1>1 DEF Idle, Jobs
<1>3. /\ Becomes(w, new) /\ UNCHANGED <<account, code, invite, reset, preauth, misses, reopened>>
      /\ budget' \in Nat
  BY DEF ConfirmConsumes, IInv, TypeOK
<1> HIDE DEF new
<1>4. JobTyped(new) /\ new.stage \in Resetting /\ Holds(new) = {t}
  BY <1>1, <1>2 DEF JobTyped, Resetting, Holds
<1>5. JobsSound' /\ job' \in [Workers -> Jobs]
  BY <1>1, <1>2, <1>3, <1>4, JobWithLinks
<1> QED
  BY <1>3, <1>5, OnlyJobsKeeps

LEMMA ConfirmSetsKeeps ==
  ASSUME IInv, NEW w \in Workers, ConfirmSets(w)
  PROVE  IInv'
<1> DEFINE old == job[w]
           new == [old EXCEPT !.stage = "setting"]
<1>1. /\ JobTyped(old) /\ old \in Jobs /\ old.stage = "consumed" /\ old.seen = {}
      /\ old.email \in Emails /\ old.reset \in Resets /\ old.invite = None
      /\ \A v \in Workers : ~(job[v].email = old.email /\ job[v].stage \in {"setting", "voided"})
  BY DEF ConfirmSets, UserHeld, IInv, JobsSound, JobTyped, Resetting
<1>2. /\ new \in Jobs /\ new.stage = "setting" /\ new.email = old.email
      /\ new.invite = None /\ new.reset = old.reset /\ new.seen = {}
  BY <1>1 DEF Jobs
<1>3. /\ Becomes(w, new) /\ UNCHANGED <<account, code, invite, reset, preauth, misses, reopened>>
      /\ budget' \in Nat
  BY DEF ConfirmSets, IInv, TypeOK
<1> HIDE DEF new
<1>4. JobTyped(new) /\ new.stage \in Resetting /\ Holds(new) = Holds(old)
  BY <1>1, <1>2 DEF JobTyped, Resetting, Holds
<1>5. /\ \A t \in Holds(new) : reset[t].stage = "live" /\ reset[t].email = new.email
      /\ \A v \in Workers \ {w} :
           Holds(new) \intersect Holds(job[v]) = {}
  BY <1>2, <1>4 DEF IInv, JobsSound, LinksHeld, HoldersApart
<1>6. JobsSound' /\ job' \in [Workers -> Jobs]
  BY <1>1, <1>2, <1>3, <1>4, <1>5, JobWithLinks
<1> QED
  BY <1>3, <1>6, OnlyJobsKeeps

LEMMA ConfirmVoidsKeeps ==
  ASSUME IInv, NEW w \in Workers, ConfirmVoids(w)
  PROVE  IInv'
<1> DEFINE old == job[w]
           others == Others(w)
           new == [old EXCEPT !.stage = "voided", !.seen = others]
<1>1. /\ JobTyped(old) /\ old \in Jobs /\ old.stage = "setting" /\ old.seen = {}
      /\ old.email \in Emails /\ old.reset \in Resets /\ old.invite = None
  BY DEF ConfirmVoids, IInv, JobsSound, JobTyped, Resetting
<1>2. /\ others \subseteq Resets
      /\ \A t \in Resets : t \in others <=>
           t # old.reset /\ reset[t].stage = "live" /\ reset[t].email = old.email
      /\ \A t \in others : \A v \in Workers : t \notin Holds(job[v])
  BY DEF ConfirmVoids, Others, ResetHeld, Holds
<1> HIDE DEF others
<1>3. /\ new \in Jobs /\ new.stage = "voided" /\ new.email = old.email
      /\ new.invite = None /\ new.reset = old.reset /\ new.seen = others
  BY <1>1, <1>2 DEF Jobs
<1>4. /\ Becomes(w, new) /\ UNCHANGED <<account, code, invite, reset, preauth, misses, reopened>>
      /\ budget' \in Nat
  BY DEF ConfirmVoids, IInv, TypeOK, others
<1> HIDE DEF new
<1>5. JobTyped(new) /\ new.stage \in Resetting
  BY <1>1, <1>3 DEF JobTyped, Resetting
<1>6. Holds(new) = Holds(old) \union others /\ old.reset \in Holds(old)
  BY <1>1, <1>2, <1>3 DEF Holds
<1>7. \A t \in Holds(new) : reset[t].stage = "live" /\ reset[t].email = new.email
  BY <1>2, <1>3, <1>6 DEF IInv, JobsSound, LinksHeld
<1>8. \A t \in Resets : reset[t].stage = "live" /\ reset[t].email = new.email => t \in Holds(new)
  BY <1>2, <1>3, <1>6
<1>9. \A v \in Workers \ {w} :
        /\ Holds(new) \intersect Holds(job[v]) = {}
        /\ job[v].stage \in {"setting", "voided"} => new.email # job[v].email
  BY <1>1, <1>2, <1>3, <1>6 DEF IInv, JobsSound, HoldersApart
<1>10. JobsSound' /\ job' \in [Workers -> Jobs]
  BY <1>3, <1>4, <1>5, <1>7, <1>8, <1>9, JobWithLinks
<1> QED
  BY <1>4, <1>10, OnlyJobsKeeps

LEMMA SpentLink ==
  ASSUME NEW r \in Reset, NEW q, q = [r EXCEPT !.stage = "used", !.sets = 1]
  PROVE  q \in Reset /\ q.stage = "used" /\ q.sets = 1
  BY DEF Reset

LEMMA ConfirmCommitsKeeps ==
  ASSUME IInv, NEW w \in Workers, ConfirmCommits(w)
  PROVE  IInv'
<1> DEFINE e == job[w].email
           t0 == job[w].reset
           old == account[e]
           a == [old EXCEPT !.password = old.password + 1]
<1>1. /\ e \in Emails /\ t0 \in Resets /\ job[w].stage = "voided" /\ JobTyped(job[w])
      /\ old \in Account
  BY DEF ConfirmCommits, IInv, TypeOK, JobsSound, JobTyped, Resetting
<1>2. /\ a \in Account /\ a.invite = old.invite /\ a.attempts = old.attempts
      /\ a.exists = old.exists /\ a.locked = old.locked
      /\ a.enabled = old.enabled /\ a.batch = old.batch
  BY <1>1 DEF Account
<1>3. account' = [account EXCEPT ![e] = a]
  BY DEF ConfirmCommits
<1> HIDE DEF a
<1>4. /\ account' \in [Emails -> Account]
      /\ account'[e] = a /\ \A d \in Emails \ {e} : account'[d] = account[d]
  BY <1>1, <1>2, <1>3 DEF IInv, TypeOK
<1>5. /\ UNCHANGED <<code, invite, preauth, misses, reopened, budget>>
      /\ job' \in [Workers -> Jobs]
      /\ job'[w] = Idle /\ \A v \in Workers \ {w} : job'[v] = job[v]
  BY IdleTyped DEF ConfirmCommits, Becomes, IInv, TypeOK, JobTyped
<1>6. t0 \in Holds(job[w]) /\ reset[t0].stage = "live"
      /\ \A t \in Holds(job[w]) : t = t0 \/ t \in job[w].seen
  BY <1>1 DEF Holds, IInv, JobsSound, LinksHeld
<1>7. /\ reset' \in [Resets -> Reset]
      /\ \A t \in Resets \ Holds(job[w]) : reset'[t] = reset[t]
      /\ \A t \in Holds(job[w]) : reset'[t].stage = "used" /\ reset'[t].sets <= 1
  <2>1. \A t \in Resets : reset[t] \in Reset
    BY DEF IInv, TypeOK
  <2>2. \A t \in Holds(job[w]) : reset[t].sets = 0
    BY <1>1 DEF Holds, IInv, JobsSound, LinksHeld, LinksSound
  <2>3. ASSUME NEW t \in Resets
        PROVE  /\ reset'[t] \in Reset
               /\ t \notin Holds(job[w]) => reset'[t] = reset[t]
               /\ t \in Holds(job[w]) => reset'[t].stage = "used" /\ reset'[t].sets <= 1
    <3>1. CASE t = t0
      <4>1. reset'[t] = [reset[t] EXCEPT !.stage = "used", !.sets = 1]
        <5>1. reset'[t] = [reset[t] EXCEPT !.stage = "used", !.sets = reset[t].sets + 1]
          BY <3>1 DEF ConfirmCommits
        <5>2. reset[t].sets + 1 = 1
          BY <1>6, <2>2, <3>1
        <5> QED
          BY <5>1, <5>2
      <4>2. reset[t] \in Reset
        BY <2>1
      <4>3. reset'[t] \in Reset /\ reset'[t].stage = "used" /\ reset'[t].sets = 1
        BY <4>1, <4>2, SpentLink, Zenon
      <4> QED
        BY <1>6, <3>1, <4>3
    <3>2. CASE t # t0 /\ t \in job[w].seen
      <4>1. reset'[t] = [reset[t] EXCEPT !.stage = "used"] /\ t \in Holds(job[w])
        BY <3>2 DEF ConfirmCommits, Holds
      <4> QED
        BY <2>1, <2>2, <4>1 DEF Reset
    <3>3. CASE t # t0 /\ t \notin job[w].seen
      BY <1>6, <2>1, <3>3 DEF ConfirmCommits
    <3> QED
      BY <3>1, <3>2, <3>3
  <2>4. reset' = [t \in Resets |-> reset'[t]]
    BY DEF ConfirmCommits
  <2> QED
    BY <2>3, <2>4 DEF Holds
<1>8. TypeOK'
  BY <1>4, <1>5, <1>7 DEF IInv, TypeOK
<1>9. Guesses'
  <2>1. old.exists
    BY <1>1, <1>6 DEF IInv, JobsSound, LinksHeld, LinksSound
  <2> QED
    BY <1>1, <1>2, <1>4, <1>5, <2>1 DEF IInv, Guesses
<1>10. CodesSound'
  BY <1>1, <1>2, <1>4, <1>5 DEF IInv, CodesSound
<1>11. InvitesSound'
  BY <1>2, <1>4, <1>5, InvitesAlone
<1>12. LinksSound'
  <2> SUFFICES ASSUME NEW t \in Resets
               PROVE  /\ reset'[t].sets <= 1
                      /\ reset'[t].stage \in {"none", "live"} => reset'[t].sets = 0
                      /\ reset'[t].stage = "live" =>
                           /\ reset'[t].email \in Emails
                           /\ account'[reset'[t].email].exists
                           /\ reset'[t].late
                                \/ reset'[t].asked = account'[reset'[t].email].password
    BY DEF LinksSound
  <2>1. CASE t \in Holds(job[w])
    BY <1>7, <2>1
  <2>2. CASE t \notin Holds(job[w])
    <3>1. reset'[t] = reset[t]
      BY <1>7, <2>2
    <3>2. reset[t].stage = "live" => reset[t].email # e \/ reset[t].late
      BY <1>1, <2>2 DEF IInv, JobsSound, LinksHeld
    <3> QED
      BY <1>2, <1>4, <3>1, <3>2 DEF IInv, LinksSound
  <2> QED
    BY <2>1, <2>2
<1>13. JobsSound'
  <2>1. \A v \in Workers : JobTyped(job'[v])
    BY <1>5, IdleTyped DEF IInv, JobsSound
  <2>2. InvitersAlone'
    <3>1. \A v \in Workers : job[v].stage = "inviting" => job[v].invite # None
      BY DEF IInv, JobsSound, JobTyped
    <3> QED
      BY <1>5, <3>1, IdleTyped DEF IInv, JobsSound, InvitersAlone
  <2>3. LinksHeld'
    <3> SUFFICES ASSUME NEW v \in Workers \ {w}
                 PROVE  /\ \A t \in Holds(job[v]) : /\ reset'[t].stage = "live"
                                                    /\ reset'[t].email = job[v].email
                        /\ job[v].stage = "voided" =>
                             \A t \in Resets :
                               reset'[t].stage = "live" /\ reset'[t].email = job[v].email
                                 => t \in Holds(job[v]) \/ reset'[t].late
      BY <1>5, IdleTyped DEF LinksHeld
    <3>1. Holds(job[v]) \subseteq Resets \ Holds(job[w])
      BY DEF Holds, IInv, JobsSound, HoldersApart
    <3>2. \A t \in Resets : reset'[t].stage = "live" => reset'[t] = reset[t]
      BY <1>7
    <3> QED
      BY <1>7, <3>1, <3>2 DEF IInv, JobsSound, LinksHeld
  <2>4. HoldersApart'
    BY <1>5, IdleTyped DEF IInv, JobsSound, HoldersApart
  <2> QED
    BY <2>1, <2>2, <2>3, <2>4 DEF JobsSound
<1> QED
  BY <1>8, <1>9, <1>10, <1>11, <1>12, <1>13 DEF IInv

-----------------------------------------------------------------------------
LEMMA NextKeeps == IInv /\ [Next]_vars => IInv'
<1> SUFFICES ASSUME IInv, [Next]_vars  PROVE  IInv'
  OBVIOUS
<1>1. ASSUME NEW e \in Emails,
             Provision(e) \/ LoginFails(e) \/ LoginSucceeds(e) \/ LockRunsOut(e)
               \/ SetActive(e) \/ Enroll(e) \/ Confirm(e) \/ Disable(e)
      PROVE  IInv'
  BY <1>1, ProvisionKeeps, LoginFailsKeeps, LoginSucceedsKeeps, LockRunsOutKeeps,
     SwitchKeeps, ConfirmKeeps, DisableKeeps
<1>2. ASSUME NEW w \in Workers, NEW e \in Emails, NEW i \in Invites, InviteChecks(w, e, i)
      PROVE  IInv'
  BY <1>2, InviteChecksKeeps
<1>3. ASSUME NEW w \in Workers, NEW i \in Invites, AcceptLooks(w, i)  PROVE  IInv'
  BY <1>3, AcceptLooksKeeps
<1>4. ASSUME NEW i \in Invites, InviteExpires(i)  PROVE  IInv'
  BY <1>4, InviteExpiresKeeps
<1>5. ASSUME NEW w \in Workers, NEW e \in Emails, NEW c \in Codes, FactorLooks(w, e, c)
      PROVE  IInv'
  BY <1>5, FactorLooksKeeps
<1>6. ASSUME NEW w \in Workers, NEW e \in Emails, FactorByTotp(w, e)  PROVE  IInv'
  BY <1>6, FactorByTotpKeeps
<1>7. ASSUME NEW e \in Emails, NEW t \in Resets, RequestReset(e, t)  PROVE  IInv'
  BY <1>7, RequestResetKeeps
<1>8. ASSUME NEW t \in Resets, ResetExpires(t)  PROVE  IInv'
  BY <1>8, ResetExpiresKeeps
<1>9. ASSUME NEW w \in Workers, NEW t \in Resets, ConfirmConsumes(w, t)  PROVE  IInv'
  BY <1>9, ConfirmConsumesKeeps
<1>10. ASSUME NEW w \in Workers,
              InviteIssues(w) \/ InviteTells(w) \/ AcceptCommits(w) \/ FactorClaims(w)
       PROVE  IInv'
  BY <1>10, InviteIssuesKeeps, InviteTellsKeeps, AcceptCommitsKeeps, FactorClaimsKeeps
<1>11. ASSUME NEW w \in Workers, ConfirmSets(w) \/ ConfirmVoids(w) \/ ConfirmCommits(w)
       PROVE  IInv'
  BY <1>11, ConfirmSetsKeeps, ConfirmVoidsKeeps, ConfirmCommitsKeeps
<1>12. ASSUME NEW w \in Workers,
              AcceptFails(w) \/ FactorLoses(w) \/ FactorDone(w) \/ DeadlockBroken(w)
                \/ WorkerDies(w)
       PROVE  IInv'
  BY <1>12, RequestEndsKeeps
<1>13. CASE UNCHANGED vars
  <2>1. UNCHANGED <<account, code, invite, reset, preauth, job, misses, reopened, budget>>
    BY <1>13 DEF vars
  <2>2. JobsSound'
    BY <2>1, JobsAlone
  <2> QED
    BY <2>1, <2>2, OnlyJobsKeeps DEF IInv, TypeOK
<1> QED
  BY <1>1, <1>2, <1>3, <1>4, <1>5, <1>6, <1>7, <1>8, <1>9, <1>10, <1>11, <1>12, <1>13
  DEF Next

LEMMA Invariance == Spec => []IInv
<1> QED
  BY InitEstablishes, NextKeeps, PTL DEF Spec

(* A lockout that ran out buys one more guess: the count login keeps is the  *)
(* count of misses, and it passes its limit only by a lockout.  auth.login. *)
THEOREM LockoutCounts == Spec => []GuessesBounded
<1>1. IInv => GuessesBounded
  <2> SUFFICES ASSUME IInv, NEW e \in Emails  PROVE misses[e] <= MaxAttempts + reopened[e]
    BY DEF GuessesBounded
  <2> QED
    BY DEF IInv, Guesses
<1> QED
  BY <1>1, Invariance, PTL

(* A backup code lets nobody in twice, whatever requests compare it at once  *)
(* and however often the second factor is taken off and put on again: a code *)
(* that may be used was never used.  mfa.verify_second_factor. *)
THEOREM CodesAdmitOnce == Spec => []CodeAdmitsOnce
<1>1. IInv => CodeAdmitsOnce
  BY DEF IInv, CodesSound, CodeAdmitsOnce
<1> QED
  BY <1>1, Invariance, PTL

(* An account has one whole batch of codes or none, an invite is spent on    *)
(* the account it made, and a reset link asked for before a change of the    *)
(* password is dead after it: auth.py, mfa.py, for any number of requests. *)
THEOREM AccountsAgree == Spec => []AccountsConsistent
<1>1. IInv => OneBatch
  <2> SUFFICES ASSUME IInv, NEW e \in Emails
               PROVE  {c \in Codes : code[e][c].state # "none"} =
                        IF account[e].enabled
                          THEN {account[e].batch} \X (1 .. CodeCount) ELSE {}
    BY DEF OneBatch
  <2>1. \A c \in Codes : code[e][c].state # "none"
                         <=> account[e].enabled /\ c[1] = account[e].batch
    BY DEF IInv, CodesSound
  <2>2. CASE account[e].enabled
    <3>1. account[e].batch \in Batches
      BY <2>2 DEF IInv, CodesSound
    <3>2. {c \in Codes : c[1] = account[e].batch} = {account[e].batch} \X (1 .. CodeCount)
      BY <3>1 DEF Codes
    <3> QED
      BY <2>1, <2>2, <3>2
  <2>3. CASE ~account[e].enabled
    BY <2>1, <2>3
  <2> QED
    BY <2>2, <2>3
<1>2. IInv => InviteSpentOnAccount
  BY DEF IInv, InvitesSound, InviteSpentOnAccount
<1>3. IInv => OldLinksDie
  BY DEF IInv, LinksSound, OldLinksDie
<1>4. IInv => AccountsConsistent
  BY <1>1, <1>2, <1>3 DEF IInv, AccountsConsistent
<1> QED
  BY <1>4, Invariance, PTL
=============================================================================
