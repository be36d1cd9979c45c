-------------------------------- MODULE Outbox --------------------------------
(***************************************************************************)
(* The transactional outbox, app/services/outbox.py: business code writes  *)
(* an event beside its own change, and Celery workers running              *)
(* dispatch_pending claim events, send them and record how it went.        *)
(*                                                                         *)
(* A pass is one database transaction that sends mail in its middle: it    *)
(* claims rows with FOR UPDATE SKIP LOCKED, sends them one by one, and     *)
(* commits all results together.  A worker that dies loses the results and *)
(* the locks, but not the mail it has sent.  A pass that finds no row      *)
(* changes nothing and is left out.                                        *)
(*                                                                         *)
(* Events are numbered by created_at, which is the start of the writing    *)
(* transaction: an older event may well be committed after a younger one.  *)
(***************************************************************************)
EXTENDS Naturals, FiniteSets

CONSTANTS
  Events,                 \* the events, numbered by created_at
  Split,                  \* those whose producer commits its change first
  Silent,                 \* those _build_sms and _build_email know nothing of
  Dispatchers,            \* the workers that may run a pass
  MAX_DISPATCH_ATTEMPTS,  \* 5 in the code
  Limit,                  \* dispatch_pending's limit, 100 in the code
  LostAnswers,            \* TRUE iff a transport may fail after sending
  Deaths                  \* bound: how many workers may die

ASSUME EventsAssumption == Events \subseteq Nat /\ Split \subseteq Events
                             /\ Silent \subseteq Events
ASSUME BoundsAssumption == /\ MAX_DISPATCH_ATTEMPTS \in Nat \ {0}
                           /\ Limit \in Nat \ {0}
                           /\ Deaths \in Nat
                           /\ LostAnswers \in BOOLEAN

VARIABLES
  changed,     \* events whose business change is committed
  halfway,     \* producers alive between the change and the event
  row,         \* outbox_events: status and attempts
  pass,        \* the rows a worker has claimed: to do, sent well, failed
  sent,        \* how often the transport really delivered an event
  unrecorded,  \* how many of these deliveries no row will ever tell of
  deaths       \* how many workers have died

vars == <<changed, halfway, row, pass, sent, unrecorded, deaths>>

NoPass == [todo |-> {}, ok |-> {}, failed |-> {}]

Init == /\ changed = {}
        /\ halfway = {}
        /\ row = [e \in Events |-> [status |-> "absent", attempts |-> 0]]
        /\ pass = [d \in Dispatchers |-> NoPass]
        /\ sent = [e \in Events |-> 0]
        /\ unrecorded = [e \in Events |-> 0]
        /\ deaths = 0

-----------------------------------------------------------------------------
(* Producers *)

enqueue(e) == row' = [row EXCEPT ![e].status = "pending"]

\* Most producers: change and event in one transaction.
ProduceTogether(e) ==
  /\ e \notin Split \cup changed
  /\ changed' = changed \cup {e}
  /\ enqueue(e)
  /\ UNCHANGED <<halfway, pass, sent, unrecorded, deaths>>

\* send_invoice, send_estimate: issuing the public token that the mail needs
\* commits, and with it commits "sent" on the invoice.
ChangeFirst(e) ==
  /\ e \in Split \ changed
  /\ changed' = changed \cup {e}
  /\ halfway' = halfway \cup {e}
  /\ UNCHANGED <<row, pass, sent, unrecorded, deaths>>

\* ... and the event is written in the transaction after that.
EventAfterwards(e) ==
  /\ e \in halfway
  /\ halfway' = halfway \ {e}
  /\ enqueue(e)
  /\ UNCHANGED <<changed, pass, sent, unrecorded, deaths>>

ProducerDies(e) ==
  /\ deaths < Deaths
  /\ e \in halfway
  /\ halfway' = halfway \ {e}
  /\ deaths' = deaths + 1
  /\ UNCHANGED <<changed, row, pass, sent, unrecorded>>

-----------------------------------------------------------------------------
(* dispatch_pending *)

Held(d) == pass[d].todo \cup pass[d].ok \cup pass[d].failed

\* Mutant: FOR UPDATE without SKIP LOCKED's exclusion (a plain SELECT).
PendingUnlocked == {e \in Events : row[e].status = "pending"}

\* Mutant: a row the dispatcher gave up on is claimed again.
UnsettledOrDead ==
  {e \in Events : /\ row[e].status \in {"pending", "dead_letter"}
                  /\ \A d \in Dispatchers : e \notin Held(d)}

\* Mutant: a row that failed once is never claimed again.
NeverTried ==
  {e \in Events : /\ row[e] = [status |-> "pending", attempts |-> 0]
                  /\ \A d \in Dispatchers : e \notin Held(d)}

\* WHERE status = 'pending' .. FOR UPDATE SKIP LOCKED
Claimable == {e \in Events : /\ row[e].status = "pending"
                             /\ \A d \in Dispatchers : e \notin Held(d)}

\* ORDER BY created_at LIMIT :limit
Oldest(S) == {e \in S : Cardinality({x \in S : x < e}) < Limit}

Claim(d) ==
  /\ Held(d) = {}
  /\ Claimable # {}
  /\ pass' = [pass EXCEPT ![d].todo = Oldest(Claimable)]
  /\ UNCHANGED <<changed, halfway, row, sent, unrecorded, deaths>>

Current(d, e) == e \in pass[d].todo /\ \A x \in pass[d].todo : e <= x

Succeeded(d, e) ==
  pass' = [pass EXCEPT ![d].todo = @ \ {e}, ![d].ok = @ \cup {e}]

Failed(d, e) ==
  pass' = [pass EXCEPT ![d].todo = @ \ {e}, ![d].failed = @ \cup {e}]

\* _dispatch_one returned True because there is nothing to send.
NothingToSend(d, e) ==
  /\ Current(d, e)
  /\ e \in Silent
  /\ Succeeded(d, e)
  /\ UNCHANGED <<changed, halfway, row, sent, unrecorded, deaths>>

\* _dispatch_one returned True: the mail or the SMS is out.
Deliver(d, e) ==
  /\ Current(d, e)
  /\ e \notin Silent
  /\ sent' = [sent EXCEPT ![e] = @ + 1]
  /\ Succeeded(d, e)
  /\ UNCHANGED <<changed, halfway, row, unrecorded, deaths>>

\* _dispatch_one returned False or raised, and nothing went out.
FailToSend(d, e) ==
  /\ Current(d, e)
  /\ e \notin Silent
  /\ Failed(d, e)
  /\ UNCHANGED <<changed, halfway, row, sent, unrecorded, deaths>>

\* The transport took the mail, but its answer was lost: send_email returned
\* False all the same.
FailAfterSending(d, e) ==
  /\ LostAnswers
  /\ Current(d, e)
  /\ e \notin Silent
  /\ sent' = [sent EXCEPT ![e] = @ + 1]
  /\ unrecorded' = [unrecorded EXCEPT ![e] = @ + 1]
  /\ Failed(d, e)
  /\ UNCHANGED <<changed, halfway, row, deaths>>

\* Mutant: whatever was attempted is marked dispatched.
RecordAllGood(r, good) ==
  [status |-> "dispatched", attempts |-> r.attempts + 1]

\* The two UPDATEs.
Record(r, good) ==
  [status |-> IF good THEN "dispatched"
              ELSE IF r.attempts + 1 >= MAX_DISPATCH_ATTEMPTS
                   THEN "dead_letter" ELSE "pending",
   attempts |-> r.attempts + 1]

\* The commit at the end of the pass.
CommitPass(d) ==
  /\ Held(d) # {}
  /\ pass[d].todo = {}
  /\ row' = [e \in Events |->
               IF e \in Held(d) THEN Record(row[e], e \in pass[d].ok) ELSE row[e]]
  /\ pass' = [pass EXCEPT ![d] = NoPass]
  /\ UNCHANGED <<changed, halfway, sent, unrecorded, deaths>>

\* The worker dies: results and locks are gone, what was sent stays sent.
DispatcherDies(d) ==
  /\ deaths < Deaths
  /\ Held(d) # {}
  /\ deaths' = deaths + 1
  /\ unrecorded' = [e \in Events |->
       IF e \in pass[d].ok \ Silent THEN unrecorded[e] + 1 ELSE unrecorded[e]]
  /\ pass' = [pass EXCEPT ![d] = NoPass]
  /\ UNCHANGED <<changed, halfway, row, sent>>

-----------------------------------------------------------------------------
Produce == \E e \in Events : \/ ProduceTogether(e)
                             \/ ChangeFirst(e)
                             \/ EventAfterwards(e)
                             \/ ProducerDies(e)

Handle(d) == \E e \in Events : \/ NothingToSend(d, e)
                               \/ Deliver(d, e)
                               \/ FailToSend(d, e)
                               \/ FailAfterSending(d, e)

Dispatch == \E d \in Dispatchers : \/ Claim(d)
                                   \/ Handle(d)
                                   \/ CommitPass(d)
                                   \/ DispatcherDies(d)

Next == Produce \/ Dispatch

Spec == Init /\ [][Next]_vars

\* Celery beat starts a pass every minute, and a worker that does not die
\* carries its pass to the end.  Producers owe nothing.
Fairness == \A d \in Dispatchers : /\ WF_vars(Claim(d))
                                   /\ WF_vars(Handle(d))
                                   /\ WF_vars(CommitPass(d))

FairSpec == Spec /\ Fairness

-----------------------------------------------------------------------------
(* Properties *)

Row  == [status : {"absent", "pending", "dispatched", "dead_letter"},
         attempts : Nat]
Pass == [todo : SUBSET Events, ok : SUBSET Events, failed : SUBSET Events]

\* Every row, pass and counter has its type.
TypeOK ==
  /\ changed \subseteq Events
  /\ halfway \subseteq Split
  /\ row \in [Events -> Row]
  /\ pass \in [Dispatchers -> Pass]
  /\ sent \in [Events -> Nat]
  /\ unrecorded \in [Events -> Nat]
  /\ deaths \in Nat

\* dispatch_pending: concurrent dispatchers never work on the same row, and
\* a row that is being worked on is still waiting to be settled.
ClaimsExclusive ==
  /\ \A d \in Dispatchers, e \in Events :
       e \in Held(d) => row[e].status = "pending"
  /\ \A c, d \in Dispatchers : c # d => Held(c) \cap Held(d) = {}

SentWell(e) == \/ row[e].status = "dispatched"
               \/ \E d \in Dispatchers : e \in pass[d].ok

\* Every delivery but one is the fault of a dead worker or of a transport that
\* reported failure: without those an event goes out at most once, a dispatched
\* event did go out, and no dead letter hides a delivery that was recorded.
SendsAccountedFor ==
  \A e \in Events \ Silent :
    sent[e] = unrecorded[e] + (IF SentWell(e) THEN 1 ELSE 0)

\* A row is given up after exactly MAX_DISPATCH_ATTEMPTS recorded failures and
\* waits before that.
AttemptsCapped ==
  \A e \in Events :
    /\ row[e].status = "pending" => row[e].attempts < MAX_DISPATCH_ATTEMPTS
    /\ row[e].status = "dead_letter" => row[e].attempts = MAX_DISPATCH_ATTEMPTS
    /\ row[e].attempts <= MAX_DISPATCH_ATTEMPTS

\* What the outbox promises its producers (OutboxPromise).
Promise == INSTANCE OutboxPromise
             WITH stage <- [e \in Events |-> row[e].status]

PromiseKept == Promise!Spec

\* ... and every event that is written is settled in the end, whichever of its
\* neighbours fail, however passes overlap and however few rows one may claim.
PromiseKeptInTime == Promise!FairSpec

=============================================================================
