------------------------------ MODULE DispatchQueue ------------------------------
(***************************************************************************)
(* Work orders on their way through a shop: statuses and assignments       *)
(* (services/jobs.py), cached scores and the ranking of technicians        *)
(* (services/dispatch.py), the technicians' positions (services/users.py)  *)
(* and the limit on their pings (core/rate_limit.py).                      *)
(***************************************************************************)
EXTENDS Integers, FiniteSets, Sequences, Dispatch

CONSTANTS Customers, Jobs, Technicians,
          Handlers,   \* requests that may be under way at once
          Profiles,   \* priority, day due and skills a job may ask for
          Works,      \* what a job's lines come to: class of revenue, parts on hand
          Earlier,    \* completed jobs of each customer before the first state
          Null,
          Limit,      \* location_ping_rate_limit_per_window
          Window,     \* location_ping_rate_limit_window_seconds
          MaxNow,     \* bound on time
          Happenings  \* bound: jobs, edits, scores and pings begun

(* The skills that jobs call for. *)
Skills == UNION {p.skills : p \in Profiles}

ASSUME QueueAssumption ==
  /\ \A p \in Profiles : p.priority \in DOMAIN PriorityBase /\ p.due \in Nat \union {Null}
  /\ IsFiniteSet(Skills)
  /\ Works \subseteq [revenue : RevenueClasses, parts : {"none", "short", "covered"}]
  /\ Earlier \in [Customers -> Nat]
  /\ Limit \in Nat \ {0} /\ Window \in Nat \ {0} /\ MaxNow \in Nat /\ Happenings \in Nat
  /\ IsFiniteSet(Jobs) /\ Null \notin Nat

VARIABLES
  now,
  job,       \* jobs
  active,    \* users.is_active of the technicians
  limiter,   \* Redis: count and time to live of each technician's window
  located,   \* users.location_updated_at
  request,   \* requests between their reads and their write
  pings,     \* history: pings let through, by technician: when, and what Redis did
  left     \* what is left of Happenings

queueVars == <<now, job, active, limiter, located, request, pings, left>>

-----------------------------------------------------------------------------
JobStatus == {"none", "scheduled", "in_progress", "on_hold", "completed", "canceled"}

(* A new job has neither lines nor an estimate. *)
NoLines == [revenue |-> "none", parts |-> "none"]

Work == Works \union {NoLines}

(* What a score was made of. *)
Basis == [priority : DOMAIN PriorityBase, overdue : 0 .. MaxNow, work : Work]

Job == [status : JobStatus, customer : Customers \union {Null},
        tech : Technicians \union {Null}, profile : Profiles \union {Null},
        work : Work, started : 0 .. MaxNow \union {Null},
        score : Int, basis : Basis \union {Null}]

NoJob == [status |-> "none", customer |-> Null, tech |-> Null, profile |-> Null,
          work |-> NoLines, started |-> Null, score |-> 0, basis |-> Null]

(* What becomes of a call of the limiter's script: its answer arrives, or is *)
(* lost after Redis has counted, or Redis does not run it.                   *)
RedisDoes == {"answered", "lost", "down"}

Ping == [at : 0 .. MaxNow, redis : RedisDoes]

Idle == [op |-> "idle"]

(* What a request remembers of what it read. *)
Asked == {Idle} \union [op : {"assign"}, job : Jobs, tech : Technicians \union {Null}]
  \union [op : {"score"}, job : Jobs, priority : DOMAIN PriorityBase, overdue : 0 .. MaxNow]
  \union [op : {"ping"}, tech : Technicians, at : 0 .. MaxNow]

QueueInit ==
  /\ now = 0
  /\ job = [j \in Jobs |-> NoJob]
  /\ active = [t \in Technicians |-> TRUE]
  /\ limiter = [t \in Technicians |-> [count |-> 0, ttl |-> 0]]
  /\ located = [t \in Technicians |-> Null]
  /\ request = [w \in Handlers |-> Idle]
  /\ pings = [t \in Technicians |-> <<>>]
  /\ left = Happenings

-----------------------------------------------------------------------------
Happens == left > 0 /\ left' = left - 1

IsIdle(w) == request[w].op = "idle"

Becomes(w, new) == request' = [request EXCEPT ![w] = new]

Exists(j) == job[j].status # "none"

Trackers == <<now, active, limiter, located, pings>>

-----------------------------------------------------------------------------
(* Work orders. *)

(* _require_assignable_technician *)
Assignable(t) == t \in {Null} \union {tech \in Technicians : active[tech]}

(* jobs.create *)
CreateJob(j, c, p) ==
  /\ ~Exists(j) /\ Happens
  /\ job' = [job EXCEPT ![j] =
       [NoJob EXCEPT !.status = "scheduled", !.customer = c, !.profile = p]]
  /\ UNCHANGED request /\ UNCHANGED Trackers

(* jobs.update of what the scores are made of. *)
UpdateJob(j, p) ==
  /\ Exists(j) /\ job[j].profile # p /\ Happens
  /\ job' = [job EXCEPT ![j] = [job[j] EXCEPT !.profile = p]]
  /\ UNCHANGED request /\ UNCHANGED Trackers

(* Lines are added, parts arrive or run out; Billables and Stock say how. *)
LinesChange(j, work) ==
  /\ Exists(j) /\ job[j].work # work
  /\ job' = [job EXCEPT ![j] = [job[j] EXCEPT !.work = work]]
  /\ UNCHANGED <<request, left>> /\ UNCHANGED Trackers

(* jobs.assign: the technician is looked at .. *)
AssignLooks(w, j, t) ==
  /\ IsIdle(w) /\ Exists(j) /\ job[j].tech # t /\ Assignable(t) /\ Happens
  /\ Becomes(w, [op |-> "assign", job |-> j, tech |-> t])
  /\ UNCHANGED job /\ UNCHANGED Trackers

(* .. and then written, whatever became of them. *)
AssignWrites(w) ==
  /\ request[w].op = "assign" /\ Exists(request[w].job)
  /\ job' = [job EXCEPT ![request[w].job].tech = request[w].tech]
  /\ Becomes(w, Idle)
  /\ UNCHANGED left /\ UNCHANGED Trackers

(* JobSM *)
Transitions ==
  [scheduled |-> {"in_progress", "canceled"},
   in_progress |-> {"on_hold", "completed", "canceled"},
   on_hold |-> {"in_progress", "canceled"}, completed |-> {}, canceled |-> {}, none |-> {}]

(* Mutant: a job starts again whenever it is resumed. *)
StartedNow(j, target) == IF target = "in_progress" THEN now ELSE job[j].started

(* "COALESCE so resuming from on_hold keeps the original start time". *)
Started(j, target) ==
  IF target = "in_progress" /\ job[j].started = Null THEN now ELSE job[j].started

(* set_status: the row is locked before the state machine is asked. *)
SetStatus(j, target) ==
  /\ target \in Transitions[job[j].status]
  /\ job' = [job EXCEPT ![j] =
       [job[j] EXCEPT !.status = target, !.started = Started(j, target)]]
  /\ UNCHANGED <<request, left>> /\ UNCHANGED Trackers

-----------------------------------------------------------------------------
(* Scores. *)

(* _customer_completed_job_count *)
CompletedJobs(c) ==
  Earlier[c] + Cardinality({j \in Jobs : job[j].customer = c /\ job[j].status = "completed"})

Overdue(p) == IF p.due = Null THEN 0 ELSE IF p.due > now THEN 0 ELSE now - p.due

(* recompute_and_cache_score reads the job first .. *)
ScoreLooks(w, j) ==
  /\ IsIdle(w) /\ Exists(j) /\ Happens
  /\ Becomes(w, [op |-> "score", job |-> j, priority |-> job[j].profile.priority,
                 overdue |-> Overdue(job[j].profile)])
  /\ UNCHANGED job /\ UNCHANGED Trackers

(* .. then its lines, its customer's jobs and the stock, and writes. *)
ScoreWrites(w) ==
  LET r == request[w]  row == job[r.job] IN
  /\ r.op = "score" /\ Exists(r.job)
  /\ job' = [job EXCEPT ![r.job] = [row EXCEPT
       !.basis = [priority |-> r.priority, overdue |-> r.overdue, work |-> row.work],
       !.score = JobScore(Urgency(r.priority, r.overdue), row.work.revenue,
                          CompletedJobs(row.customer), row.work.parts)]]
  /\ Becomes(w, Idle)
  /\ UNCHANGED left /\ UNCHANGED Trackers

(* _active_job_count_for_technician *)
ActiveJobs(t) ==
  Cardinality({j \in Jobs : job[j].tech = t /\ job[j].status \in {"scheduled", "in_progress"}})

(* rank_technicians_for_job, for technicians without a home address, at miles *)
(* "unknown", and with the given skills. *)
Rank(j, t, skills) ==
  JobScore(Urgency(job[j].profile.priority, Overdue(job[j].profile)),
           job[j].work.revenue, CompletedJobs(job[j].customer), job[j].work.parts)
    + Distance("unknown") + Fit(job[j].profile.skills, skills) + Workload(ActiveJobs(t))

-----------------------------------------------------------------------------
(* Technicians. *)

(* users.update_profile: jobs stay with whoever is deactivated. *)
SetActive(t) ==
  /\ Happens
  /\ active' = [active EXCEPT ![t] = ~active[t]]
  /\ UNCHANGED <<now, job, limiter, located, request, pings>>

(* Mutant: every ping starts the window afresh. *)
HitAfresh(l) == [count |-> l.count + 1, ttl |-> Window]

(* _LUA_FIXED_WINDOW counts, and starts the window with its first ping, "so   *)
(* the window doesn't keep sliding". *)
Hit(l) == [count |-> l.count + 1, ttl |-> IF l.count = 0 THEN Window ELSE l.ttl]

(* _RedisFixedWindowLimiter.hit *)
LetThrough(count) == count <= Limit

(* POST /users/me/location-ping: without an answer of Redis every ping is let *)
(* through. *)
PingCounts(w, t) ==
  /\ IsIdle(w) /\ active[t] /\ Happens
  /\ \E redis \in RedisDoes :
       /\ limiter' = IF redis = "down" THEN limiter
                     ELSE [limiter EXCEPT ![t] = Hit(limiter[t])]
       /\ \/ /\ redis = "answered" => LetThrough(Hit(limiter[t]).count)
             /\ pings' = [pings EXCEPT ![t] = Append(pings[t], [at |-> now, redis |-> redis])]
             /\ Becomes(w, [op |-> "ping", tech |-> t, at |-> now])
          \/ /\ redis = "answered" /\ ~LetThrough(Hit(limiter[t]).count)
             /\ UNCHANGED <<pings, request>>
  /\ UNCHANGED <<now, job, active, located>>

(* ping_location: the last to write wins; a jump is flagged and kept. *)
PingWrites(w) ==
  /\ request[w].op = "ping"
  /\ located' = [located EXCEPT ![request[w].tech] = request[w].at]
  /\ Becomes(w, Idle)
  /\ UNCHANGED <<now, job, active, limiter, pings, left>>

(* A day of a job, a second of a window. *)
TimePasses ==
  /\ now < MaxNow
  /\ now' = now + 1
  /\ limiter' = [t \in Technicians |->
       IF limiter[t].ttl <= 1 THEN [count |-> 0, ttl |-> 0]
       ELSE [count |-> limiter[t].count, ttl |-> limiter[t].ttl - 1]]
  /\ UNCHANGED <<job, active, located, request, pings, left>>

-----------------------------------------------------------------------------
QueueNext ==
  \/ TimePasses
  \/ \E t \in Technicians : SetActive(t)
  \/ \E j \in Jobs :
       \/ \E c \in Customers, p \in Profiles : CreateJob(j, c, p)
       \/ \E p \in Profiles : UpdateJob(j, p)
       \/ \E work \in Works : LinesChange(j, work)
       \/ \E target \in JobStatus : SetStatus(j, target)
  \/ \E w \in Handlers :
       \/ \E j \in Jobs : ScoreLooks(w, j) \/ \E t \in Technicians \union {Null} : AssignLooks(w, j, t)
       \/ \E t \in Technicians : PingCounts(w, t)
       \/ AssignWrites(w) \/ ScoreWrites(w) \/ PingWrites(w)

QueueSpec == QueueInit /\ [][QueueNext]_queueVars

-----------------------------------------------------------------------------
(* Types of the tables and of what a request remembers. *)
QueueTypeOK ==
  /\ now \in 0 .. MaxNow
  /\ job \in [Jobs -> Job]
  /\ active \in [Technicians -> BOOLEAN]
  /\ limiter \in [Technicians -> [count : Nat, ttl : 0 .. Window]]
  /\ located \in [Technicians -> 0 .. MaxNow \union {Null}]
  /\ request \in [Handlers -> Asked]
  /\ pings \in [Technicians -> Seq(Ping)]
  /\ left \in Nat

(* "A $50 emergency must still outscore a $5,000 non-urgent job", of a loyal *)
(* customer too, whatever was read before a change and what after it, when   *)
(* parts do not decide and the routine job was not overdue.  dispatch.py. *)
UrgentOutranks ==
  \A j, k \in Jobs : job[j].basis # Null /\ job[k].basis # Null =>
    LET urgent == job[j].basis  routine == job[k].basis IN
    /\ urgent.priority = "urgent" /\ routine.priority \in {"low", "normal"}
    /\ routine.overdue = 0 /\ Revenue(routine.work.revenue) <= Revenue("fiveThousand")
    /\ PartsAvailability(urgent.work.parts) >= PartsAvailability(routine.work.parts)
    => job[j].score > job[k].score

(* "A perfectly-matched technician on a low-priority job should not leapfrog *)
(* an urgent job just assigned to a partially-matched one": nor does anybody  *)
(* on a normal one, however busy the other is, while the routine job is not   *)
(* overdue and has no better customer, revenue or parts.  dispatch.py. *)
NoLeapfrog ==
  \A j, k \in Jobs :
    /\ Exists(j) /\ Exists(k)
    /\ job[j].profile.priority = "urgent" /\ job[k].profile.priority \in {"low", "normal"}
    /\ Overdue(job[k].profile) = 0
    /\ Revenue(job[k].work.revenue) <= Revenue(job[j].work.revenue)
    /\ CompletedJobs(job[k].customer) <= CompletedJobs(job[j].customer)
    /\ PartsAvailability(job[k].work.parts) <= PartsAvailability(job[j].work.parts)
    => \A t, u \in Technicians, s1, s2 \in SUBSET Skills : Rank(j, t, s1) > Rank(k, u, s2)

(* The hours a job took are counted from its first start: neither a hold nor *)
(* anything after it moves the time, and what is done was started.  jobs.py. *)
StartKept ==
  [][\A j \in Jobs :
       /\ job[j].started # Null => job'[j].started = job[j].started
       /\ job'[j].status = "completed" => job'[j].started # Null]_queueVars

(* "a fixed window's worst-case ~2x burst at a window boundary": in any span  *)
(* as long as a window Redis lets fewer than twice the limit through; those   *)
(* that pass for want of its answer ("fail-open") come on top.  rate_limit.py. *)
PingsBounded ==
  \A t \in Technicians, start \in 0 .. MaxNow :
    Cardinality({n \in DOMAIN pings[t] :
      pings[t][n].redis = "answered" /\ pings[t][n].at \in start .. (start + Window - 1)})
      < 2 * Limit

(* Nobody is shut out for longer than a window, nor by pings that were       *)
(* refused: whose next ping would be refused has had as many as the limit    *)
(* counted and let through within the last window.  rate_limit.py. *)
ShutOutForCause ==
  \A t \in Technicians : limiter[t].count >= Limit =>
    Cardinality({n \in DOMAIN pings[t] :
      pings[t][n].redis # "down" /\ pings[t][n].at > now - Window}) >= Limit

(* The limiter keeps to what its comments say of every state: rate_limit.py. *)
QueueConsistent ==
  /\ QueueTypeOK
  /\ PingsBounded
  /\ ShutOutForCause
=============================================================================
