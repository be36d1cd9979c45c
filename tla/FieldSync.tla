------------------------------ MODULE FieldSync ------------------------------
(***************************************************************************)
(* A technician's phone and the server: clock-ins, clock-outs and photos   *)
(* are queued on the phone and replayed until the server answers           *)
(* (services/field_app.py, frontend/src/lib/offlineQueue.ts and            *)
(* hooks/useOfflineQueue.ts).                                              *)
(*                                                                         *)
(* Opening the app, coming online and every new action start a replay of   *)
(* their own: several run at once, each over the queue it read.  A request *)
(* the phone has given up may still be carried out.                        *)
(***************************************************************************)
EXTENDS Naturals, FiniteSets, FiniteSetsExt, Sequences

CONSTANTS Actions,  \* idempotency keys, numbered as they are minted
          Replays,  \* replays, and requests, that may be under way at once
          Mishaps   \* bound: requests that fail, apps closed, sign-outs, clock-ins
                    \* made without a key

ASSUME FieldSyncAssumption == Actions \subseteq Nat \ {0} /\ Mishaps \in Nat

VARIABLES
  kind,     \* PendingAction.kind of the actions taken so far
  queue,    \* the phone's pending_actions store
  age,      \* 1: past MAX_QUEUE_AGE_MS, 2: past offline_queue_max_age_seconds
  replay,   \* replayQueue: what is left of the queue it read
  request,  \* requests at the server
  photos,   \* job_attachments, by idempotency key
  entries,  \* job_time_entries of one technician on one job
  effect,   \* history: how often an action changed something on the server
  settled,  \* history: actions the server accepted or the phone purged
  wiped,    \* history: actions still in the store when the technician signed out
  budget    \* what is left of Mishaps

fieldVars == <<kind, queue, age, replay, request, photos, entries, effect, settled, wiped, budget>>

-----------------------------------------------------------------------------
None == 0

Kinds == {"clock_in", "clock_out", "attachment"}

Entry == [key : Actions \union {None}, open : BOOLEAN]

Replay == [stage : {"idle", "next", "waiting"}, todo : SUBSET Actions]

Request == [stage : {"none", "arrived", "checked", "accepted", "refused"},
            action : Actions \union {None}]

NoRequest == [stage |-> "none", action |-> None]

Taken == {a \in Actions : kind[a] # "none"}

FieldInit ==
  /\ kind = [a \in Actions |-> "none"]
  /\ queue = {}
  /\ age = [a \in Actions |-> 0]
  /\ replay = [r \in Replays |-> [stage |-> "idle", todo |-> {}]]
  /\ request = [r \in Replays |-> NoRequest]
  /\ photos = <<>> /\ entries = <<>>
  /\ effect = [a \in Actions |-> 0]
  /\ settled = {} /\ wiped = {}
  /\ budget = Mishaps

-----------------------------------------------------------------------------
(* The phone. *)

Event == budget > 0 /\ budget' = budget - 1

Server == <<request, photos, entries, effect>>

Becomes(r, stage, todo) ==
  replay' = [replay EXCEPT ![r] = [stage |-> stage, todo |-> todo]]

(* enqueueAction. *)
Enqueue(k) ==
  \E a \in Actions \ Taken :
    /\ \A b \in Actions \ Taken : a <= b
    /\ kind' = [kind EXCEPT ![a] = k]
    /\ queue' = queue \union {a}
    /\ UNCHANGED <<age, replay, settled, wiped, budget>> /\ UNCHANGED Server

Stale == {a \in queue : age[a] > 0}

(* Mutant: old actions are not purged. *)
StartUnpurged(r) ==
  /\ replay[r].stage = "idle" /\ request[r] = NoRequest /\ queue # {}
  /\ Becomes(r, "next", queue)
  /\ UNCHANGED <<kind, queue, age, settled, wiped, budget>> /\ UNCHANGED Server

(* replayQueue: purgeStaleQueuedActions, then listQueuedActions. *)
Start(r) ==
  /\ replay[r].stage = "idle" /\ request[r] = NoRequest /\ queue # {}
  /\ queue' = queue \ Stale
  /\ settled' = settled \union Stale
  /\ Becomes(r, IF queue' = {} THEN "idle" ELSE "next", queue')
  /\ UNCHANGED <<kind, age, wiped, budget>> /\ UNCHANGED Server

(* Mutant: the newest action goes first. *)
NewestFirst(r) == Max(replay[r].todo)

FirstLeft(r) == Min(replay[r].todo)

(* sendFieldAction: the oldest first. *)
Send(r) ==
  /\ replay[r].stage = "next"
  /\ Becomes(r, "waiting", replay[r].todo)
  /\ request' = [request EXCEPT ![r] = [stage |-> "arrived", action |-> FirstLeft(r)]]
  /\ UNCHANGED <<kind, queue, age, settled, wiped, budget, photos, entries, effect>>

(* Accepted: removed from the store, and on to the next. *)
SendSucceeds(r) ==
  LET rest == replay[r].todo \ {FirstLeft(r)} IN
  /\ replay[r].stage = "waiting" /\ request[r].stage = "accepted"
  /\ queue' = queue \ {FirstLeft(r)}
  /\ settled' = settled \union {FirstLeft(r)}
  /\ Becomes(r, IF rest = {} THEN "idle" ELSE "next", rest)
  /\ request' = [request EXCEPT ![r] = NoRequest]
  /\ UNCHANGED <<kind, age, wiped, budget, photos, entries, effect>>

(* Refused: put (back) into the store, and this replay stops. *)
SendRefused(r) ==
  /\ replay[r].stage = "waiting" /\ request[r].stage = "refused"
  /\ queue' = queue \union {FirstLeft(r)}
  /\ Becomes(r, "idle", {})
  /\ request' = [request EXCEPT ![r] = NoRequest]
  /\ UNCHANGED <<kind, age, settled, wiped, budget, photos, entries, effect>>

(* No answer: the same, whatever becomes of the request. *)
SendFails(r) ==
  /\ replay[r].stage = "waiting" /\ Event
  /\ queue' = queue \union {FirstLeft(r)}
  /\ Becomes(r, "idle", {})
  /\ UNCHANGED <<kind, age, settled, wiped>> /\ UNCHANGED Server

(* The app is closed: the store stays, and so do requests under way. *)
AppCloses ==
  /\ \E r \in Replays : replay[r].stage # "idle"
  /\ Event
  /\ replay' = [r \in Replays |-> [stage |-> "idle", todo |-> {}]]
  /\ UNCHANGED <<kind, queue, age, settled, wiped>> /\ UNCHANGED Server

(* logout: wipeFieldOfflineData clears the store; replays under way go on    *)
(* with what they had read, and put it back if it is refused.  Signing in    *)
(* again is part of it. *)
SignOut ==
  /\ queue # {} /\ Event
  /\ queue' = {}
  /\ wiped' = wiped \union queue
  /\ UNCHANGED <<kind, age, replay, settled>> /\ UNCHANGED Server

(* Days pass. *)
Ages(a) ==
  /\ a \in Taken /\ age[a] < 2
  /\ age' = [age EXCEPT ![a] = age[a] + 1]
  /\ UNCHANGED <<kind, queue, replay, settled, wiped, budget>> /\ UNCHANGED Server

-----------------------------------------------------------------------------
(* The server. *)

Phone == <<kind, queue, age, replay, settled, wiped>>

Answers(r, stage) ==
  request' = [request EXCEPT ![r] = [request[r] EXCEPT !.stage = stage]]

(* An answer nobody waits for, or a request that never got there. *)
RequestGone(r) ==
  /\ replay[r].stage # "waiting" /\ request[r].stage \in {"arrived", "accepted", "refused"}
  /\ request' = [request EXCEPT ![r] = NoRequest]
  /\ UNCHANGED <<photos, entries, effect, budget>> /\ UNCHANGED Phone

Open == {n \in DOMAIN entries : entries[n].open}

Rows(k) == IF k = "attachment" THEN {photos[n] : n \in DOMAIN photos}
           ELSE {entries[n].key : n \in DOMAIN entries}

Found(a) == a \in Rows(kind[a])

(* check_client_queued_at, then the SELECT by idempotency key. *)
Check(r) ==
  LET a == request[r].action IN
  /\ request[r].stage = "arrived"
  /\ Answers(r, IF age[a] = 2 THEN "refused" ELSE IF Found(a) THEN "accepted" ELSE "checked")
  /\ UNCHANGED <<photos, entries, effect, budget>> /\ UNCHANGED Phone

Took(a) == effect' = [effect EXCEPT ![a] = effect[a] + 1]

(* Mutant: no unique index on the key of an attachment. *)
AttachAgain(r) ==
  LET a == request[r].action IN
  /\ request[r].stage = "checked" /\ kind[a] = "attachment"
  /\ photos' = Append(photos, a) /\ Took(a) /\ Answers(r, "accepted")
  /\ UNCHANGED <<entries, budget>> /\ UNCHANGED Phone

(* add_attachment: the unique index turns a duplicate into the first row. *)
Attach(r) ==
  LET a == request[r].action IN
  /\ request[r].stage = "checked" /\ kind[a] = "attachment"
  /\ IF Found(a) THEN UNCHANGED <<photos, effect>>
                 ELSE photos' = Append(photos, a) /\ Took(a)
  /\ Answers(r, "accepted")
  /\ UNCHANGED <<entries, budget>> /\ UNCHANGED Phone

(* clock_in: two unique indexes, on the key and on the open entry.  Which of *)
(* them a duplicate is reported under is PostgreSQL's choice. *)
ClockIn(r) ==
  LET a == request[r].action IN
  /\ request[r].stage = "checked" /\ kind[a] = "clock_in"
  /\ \/ /\ ~Found(a) /\ Open = {}
        /\ entries' = Append(entries, [key |-> a, open |-> TRUE])
        /\ Took(a) /\ Answers(r, "accepted")
     \/ Found(a) /\ Answers(r, "accepted") /\ UNCHANGED <<entries, effect>>
     \/ Open # {} /\ Answers(r, "refused") /\ UNCHANGED <<entries, effect>>
  /\ UNCHANGED <<photos, budget>> /\ UNCHANGED Phone

(* clock_out: the entry keeps the key it was opened with, if it has one. *)
ClockOut(r) ==
  LET a == request[r].action IN
  /\ request[r].stage = "checked" /\ kind[a] = "clock_out"
  /\ IF Open = {} THEN Answers(r, "refused") /\ UNCHANGED <<entries, effect>>
     ELSE /\ \E n \in Open :
               entries' = [entries EXCEPT ![n] =
                 [key |-> IF entries[n].key = None THEN a ELSE entries[n].key, open |-> FALSE]]
          /\ Took(a) /\ Answers(r, "accepted")
  /\ UNCHANGED <<photos, budget>> /\ UNCHANGED Phone

(* A client that sends no key and no time (an older build). *)
ClockInUnkeyed ==
  /\ Open = {} /\ Event
  /\ entries' = Append(entries, [key |-> None, open |-> TRUE])
  /\ UNCHANGED <<request, photos, effect>> /\ UNCHANGED Phone

-----------------------------------------------------------------------------
FieldNext ==
  \/ \E k \in Kinds : Enqueue(k)
  \/ \E r \in Replays :
       \/ Start(r) \/ Send(r) \/ SendSucceeds(r) \/ SendRefused(r) \/ SendFails(r)
       \/ RequestGone(r) \/ Check(r) \/ Attach(r) \/ ClockIn(r) \/ ClockOut(r)
  \/ \E a \in Actions : Ages(a)
  \/ AppCloses \/ SignOut \/ ClockInUnkeyed

FieldSpec == FieldInit /\ [][FieldNext]_fieldVars

(* The app is opened again and again, what it sends is answered, and time    *)
(* passes. *)
FieldFairness ==
  /\ \A r \in Replays :
       /\ WF_fieldVars(Start(r))
       /\ WF_fieldVars(Send(r) \/ SendSucceeds(r) \/ SendRefused(r))
       /\ WF_fieldVars(RequestGone(r) \/ Check(r) \/ Attach(r) \/ ClockIn(r) \/ ClockOut(r))
  /\ \A a \in Actions : WF_fieldVars(Ages(a))

FieldFairSpec == FieldSpec /\ FieldFairness

-----------------------------------------------------------------------------
(* Types of the store, the tables and the requests. *)
FieldTypeOK ==
  /\ kind \in [Actions -> Kinds \union {"none"}]
  /\ queue \subseteq Taken
  /\ age \in [Actions -> 0 .. 2]
  /\ replay \in [Replays -> Replay]
  /\ request \in [Replays -> Request]
  /\ photos \in Seq(Actions) /\ entries \in Seq(Entry)
  /\ effect \in [Actions -> Nat]
  /\ settled \subseteq Taken /\ wiped \subseteq Taken
  /\ budget \in Nat

(* "returns the already-created row instead of erroring or duplicating": a   *)
(* photo is stored once and a clock-in opens one entry, however often and    *)
(* however late it is sent.  add_attachment, clock_in. *)
RowsOnce == \A a \in Taken : kind[a] # "clock_out" => effect[a] <= 1

(* "actions are replayed strictly in the order they were enqueued": what     *)
(* took effect is preceded by all that was done before it, unless that was   *)
(* purged or wiped, however many replays run.  replayQueue. *)
InOrder ==
  \A a, b \in Taken : a < b /\ effect[b] > 0 => effect[a] > 0 \/ a \in settled \union wiped

(* An action leaves the phone only when the server has accepted it, it is    *)
(* too old or the technician signs out: not with a lost answer, a refusal or *)
(* a closed app.  replayQueue, wipeFieldOfflineData. *)
NothingForgotten == \A a \in Taken : a \in queue \union settled \union wiped

(* Whatever happens to an action, it does not stay in the queue for ever. *)
QueueDrains == \A a \in Actions : a \in queue ~> a \notin queue

(* Nothing a technician did is counted twice, or lost otherwise than by      *)
(* signing out before it was sent: field_app.py, offlineQueue.ts. *)
FieldConsistent ==
  /\ FieldTypeOK
  /\ RowsOnce
  /\ NothingForgotten
=============================================================================
