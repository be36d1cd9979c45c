# HarborIQ: a TLA+ model of its money, its tokens and its promises

HarborIQ runs a boat yard or marina: a FastAPI application over PostgreSQL,
Celery workers for what happens in the background, Stripe for the money, Redis
for what must be quick, and a web front end that the technicians also use
offline. Its application code is small handlers around single database
transactions, so what is hard about it is what happens *between* transactions:
two workers in an order nobody wrote a test for, an event delivered twice or
late, a worker that dies between two commits, a value that was read without a
lock. That is what these modules model. They are translated from `src/app` and,
for the phone's queue, from `src/frontend/src`, and are meant to be read beside
them.

## Inventory

| part | source | state | operations | what is hard |
|---|---|---|---|---|
| invoices and payments | `services/invoices.py`, `stripe_webhooks.py`, `stripe_billing.py` | `invoices`, `refunds`, `stripe_processed_events`; at Stripe: sessions, charges, refunds | create, send, void, pay page, refund, webhook handlers | Stripe's calls survive a rollback, its events come twice and in any order, one handler commits in its loop |
| transactional outbox | `services/outbox.py`, `tasks/outbox_tasks.py`, `email.py`, `sms.py` | `outbox_events`, the locks of a pass | enqueue; claim, send, record, commit | a pass sends in the middle of its transaction; overlap, death, lost answers, head of line |
| slips and reservations | `services/slip_reservations.py`, `slips.py`, `jobs/slip_storage_billing_sweep.py` | `slip_reservations`, `slips.status`, storage lines | book, confirm, check in and out, cancel, charge a stay, monthly sweep | dates at the boundary, charges checked without a lock, sweeps that repeat or are missed |
| sessions | `services/auth.py`, `core/token_denylist.py` | `user_sessions`; access epochs in Redis | login, refresh, logout, revoke a family or all, password reset | rotation against revocation; two stores without a common commit |
| accounts, MFA, lockout | `services/auth.py`, `mfa.py`, `users.py` | `users`, backup codes, invites, reset links | sign-up, invite, accept, enrol, confirm, disable, verify, reset | a code or link spent once, counters under concurrency, resets that wait for each other |
| jobs and line items | `services/jobs.py`, `invoices.create_invoice` | `jobs`, `job_line_items` | status, assignment, edits, deletion | a line edited, deleted or invoiced twice while an invoice freezes it |
| estimates, public tokens | `services/estimates.py`, `public_tokens.py` | `estimates`, `public_tokens` | draft, send, approve by link, expire, convert | approval, conversion and new links cross; send commits twice |
| inventory, purchasing | `services/inventory.py`, `purchase_orders.py`, `vendors.py` | `inventory_items`, `purchase_orders` and lines | use, reorder point, draft, submit, cancel, receive | order of row locks, the alert that goes with the count, part lines edited afterwards |
| field app, offline queue | `services/field_app.py`, `frontend/src/lib/offlineQueue.ts`, `offlineDb.ts`, `hooks/useOfflineQueue.ts` | IndexedDB queue; `time_entries`, photos | queue, replay, purge, wipe at sign-out; clock in and out, attach | replays that overlap, lost answers, refusals |
| stablecoin payments | `services/crypto_payments.py` | `crypto_payments`, `crypto_processed_events` | intent, confirm, fail, expire | a provider's answer under a lock; late events, two kinds of event for one payment |
| dunning, Connect, subscription | `services/billing.py`, `jobs/dunning_sweep.py`, `stripe_webhooks.py` | `last_reminder_sent_at`, `companies.stripe_*` | sweep; onboarding; three handlers | overlapping sweeps, clicks that overlap, events out of order |
| dispatch, positions | `services/dispatch.py`, `users.py`, `core/rate_limit.py` | cached scores, last position, windows in Redis | score, rank, ping | rounding and caps, scores that outlive what they rest on, a window's boundary |
| messages, texts, portal | `services/messages.py`, `sms_webhooks.py`, `portal.py` | `messages`, portal tokens | text in, post, reply, mark read, invite | order of commit against `created_at`, numbers that change hands |
| trial sign-ups | `services/marketing_leads.py`, `routes/marketing_leads.py` | `marketing_leads` | submit, notify, stamp | the notification runs after the answer |
| CRM and geocoding | `services/customers.py`, `vessels.py`, `jobs.py`, `geocoding.py`, `jobs/geocode_backfill.py` | `customers`, `vessels`, `jobs` | create, edit, delete, look up, backfill | checks without locks, references, a backfill that commits at its end |
| companies, asset tokens, reports, PDF, audit, tenancy, HTTP, front end, migrations | | | | no protocol of their own (see *What is not modelled*) |

How they interact. The services share the database and call one another inside
one transaction; every notification but the sign-ups' goes through
`outbox.enqueue`; invoices bill the lines that jobs, estimates, purchases and
slip storage write; Celery beat starts the dispatcher every minute, the dunning
sweep every hour, the backfill every six and the slip sweep every day, and a task
is acknowledged only when it is done, so a worker that dies has its task run
again; Stripe and the stablecoin processors call back through webhooks, which
record each event once, in the transaction of its effect; Redis keeps epochs and
windows, and whatever asks it goes on without it when it is away.

What makes each part correct, in a line: *invoices*: status and ledgers tell the
same story, nothing is credited or booked twice; *outbox*: every committed event
is told of, every mail is accounted for; *slips*: no day promised twice, every
month charged once; *sessions*: a token is exchanged once and is of no use after
its end; *accounts*: guesses are counted, codes and invites spent once; *lines*:
on one invoice at most, unchanged once frozen; *estimates*: billed as approved,
once; *purchasing*: the shelf equals what came minus what was used; *field app*:
every action takes effect once and in order unless it is given up; *dunning*: one
reminder per cooldown; *dispatch*: emergencies first; *messages*: a reply goes
where the customer last wrote from; *sign-ups*: one a day, announced once; *CRM*:
a job's boat is its customer's, coordinates belong to the address beside them.

## Modules

| module | models | run | proved |
|---|---|---|---|
| `InvoiceLedger` | invoices and their card money | `ledger_safety` | yes |
| `OutboxPromise`, `Outbox` | what the outbox promises; producers and dispatchers | `outbox_promise` | yes, with the refinement |
| `SlipReservations` | bookings, transitions, both storage charges | `slips_safety` | yes |
| `RotationPromise`, `Sessions` | what rotation promises; requests over the tables and Redis | `sessions` | yes, with the refinement |
| `Accounts` | how accounts come about and prove who they are | `accounts` | yes |
| `Billables` | lines, what invoices freeze, estimates and their links | `billables` | yes |
| `Stock` | items, purchase orders, deliveries, part lines | `stock` | yes |
| `FieldSync` | a phone's queue and the server | `field` | yes |
| `Billing` | stablecoin payments, dunning, Connect, the shop's subscription | `billing` | yes |
| `Yard` | customers, boats, work orders, coordinates | `yard` | yes |
| `Dispatch`, `DispatchQueue` | the scoring functions; statuses, scores, ranking, pings | `queue` | yes |
| `Messages`, `Leads`, `FrontDesk` | threads and portal; sign-ups; the two together | `frontdesk` | yes |
| `Sums` | lemmas on sums over finite sets | | |
| `BooksProofs` | theorems of `InvoiceLedger` and `Stock` | | |
| `DeliveryProofs` | theorems of `Outbox`, `FieldSync` and `FrontDesk` | | |
| `MarinaProofs` | theorems of `SlipReservations` and `Yard` | | |
| `OfficeProofs` | theorems of `Billing` and `DispatchQueue` | | |
| `BillablesProofs`, `SessionsProofs`, `AccountsProofs` | theorems of the module of that name | | |
| `MC...` | small constants and symmetry for TLC | | |

"Yes" means every safety property of the passing runs, by a theorem; their
liveness is model-checked. Modules whose theorems share a proof module have
definitions of different names (`SlipInit`, `FieldNext`, `StockSpec`,
`QueueTypeOK`), because that module extends both.

One convention throughout: a request that holds the row it decides on from its
first read to its commit is one action; a request that reads without a lock,
waits for somebody else, or can be overtaken between two statements takes one
step per statement, and its local variables are a record in `job[w]`,
`request[w]`, `replay[r]` or `sweep[w]` of the worker `w`. PostgreSQL is taken at
READ COMMITTED: a statement sees what was committed when it began, waits for a
row another transaction has changed and then looks at it again. A worker may die
at any of its steps, which rolls back what it has not committed.

Operators whose comment begins with *Mutant* are not part of the model: each is
one definition changed the way a plausible bug would change the code, kept
beside the original to see that a property notices.

### InvoiceLedger

Every service call locks its invoice row before it decides, so a transaction is
one action: `CreateInvoice`, `SendInvoice`, `VoidInvoice`, `CryptoIntent`,
`RefundInvoice`, `CheckoutCompleted`. What the code splits is split:
`get_or_create_checkout_url` reads without a lock, calls Stripe and then writes
(`LoadPayPage`, `ShowPayPage`); `reconcile_refund_from_webhook` commits once per
refund of the event's list, and its first commit also commits the dedup row
(`ReconcileOne`, `ReconcileEnd`, `WorkerDies`); a refund made at Stripe survives
the rollback of the transaction that asked for it (`RefundAnswerLost`).
`invoice` is the table with `SUM(refunds.amount)` kept per row; `session` and
`refund` are Stripe's objects; `paidDone` and `backDone` are
`stripe_processed_events`; `transitions` is `InvoiceSM`. A redelivery is the
handler being enabled again; a handler that raises changes nothing, because its
dedup row is rolled back with it. An invoice with a total of zero is left out:
Stripe opens no checkout for it. `Connect` says whether the tenant's events
carry a Connect account, in which case an event for an unknown charge is
acknowledged; otherwise it is refused until there is an invoice for it.

### Outbox and OutboxPromise

A pass of `dispatch_pending` is one transaction that sends mail in its middle:
`Claim` (`FOR UPDATE SKIP LOCKED`, oldest first, up to `Limit`), then for each
row in order `NothingToSend`, `Deliver`, `FailToSend` or `FailAfterSending` (the
transport took the mail and its answer was lost), then `CommitPass`.
`DispatcherDies` releases the claims and forgets the results; `unrecorded`
counts the deliveries no row will tell of. Producers write change and event
together or, like `send_invoice` and `send_estimate`, commit the change first
(`ChangeFirst`, `EventAfterwards`, `ProducerDies`). Events are numbered by
`created_at`, the start of the writing transaction, so they may be committed in
any order. `OutboxPromise` knows stages and a count of deliveries: an event is
sent only while it is pending, is dispatched only if it was sent, is never sent
after it was settled, and is settled in the end.

### SlipReservations

A booking holds the slip's advisory lock over availability check and insert:
`Create`. `_transition` holds the reservation's row: `Transition`. The two
charges hold nothing: `CheckStayCharge`/`InsertStayCharge` and
`SweepStarts`/`SweepChecks`/`SweepInserts`/`SweepEnds` are what a caller does one
after the other, with other callers, the desk and the calendar in between.
`stayRaced` and `rentRaced` are history: the charges that were inserted while
another caller stood between its check and its insert of the same one.
`HasRent` is the search for the month's marker at the end of a description; it
also finds the line of a stay whose dates happen to be the month's.

### Sessions and RotationPromise

`row` is `user_sessions` (a refresh token each), `user` the account's password
and switch, `epoch` the access epochs, `redis` whether Redis answers. A sign-in
(`LogIn` holds the user's row, `LogInSecond` does not) and a refresh
(`RefreshLooksUp`, then the conditional update `RefreshRotates`, which claims the
row or loses it, then `RefreshCommits`) insert a row each. A revocation is one
UPDATE: `StatementStarts` takes the rows it matches, `StatementEnds` has waited
for those others held, `BumpEpoch` writes to Redis, `RevocationCommits`. Reuse of
a rotated token, an account switched off, both sign-outs and a password reset
are the five revocations. `closed`, `outrun` and `cut` are history: what the
properties call ended. `RotationPromise` says it without databases: `Open` a
family, `Exchange` a good token for one successor, `End` any set of them.

### Accounts

`account` is the user with its lockout counter and second factor, `code` the
backup codes of every batch, `invite` and `reset` the links. `login`, `enroll`,
`confirm` and `disable` hold the user's row and are one action each. Inviting
reads before it inserts and mails after it commits (`InviteChecks`,
`InviteIssues`, `InviteTells`); accepting looks before it locks (`AcceptLooks`,
`AcceptCommits`); a code is looked up and then claimed by a conditional update
(`FactorLooks`, `FactorClaims`, `FactorLoses`); a reset consumes its link, then
waits for the user, then for all other links (`ConfirmConsumes`, `ConfirmSets`,
`ConfirmVoids`, `ConfirmCommits`), so that two resets of a user may wait for each
other until PostgreSQL breaks the deadlock (`DeadlockBroken`).

### Billables

There is no table of invoice lines: an invoice is the set of job lines that
point at it. `create_invoice` looks at the free lines (`InvoiceReads`), locks
them and asks again (`InvoiceLocks`), freezes and commits (`InvoiceCommits`);
`UpdateLine` and `DeleteLine` wait for its locks. An estimate is drafted from
lines read before (`EstimateReads`, `EstimateInserts`), sent, and told of
afterwards (`SendEstimate`, `SendTells`, `TokenLooks`, `TokenIssues`); `Approve`
and `Convert` hold the estimate's row.

### Stock

`use_inventory_part_atomic` (`UseLooks`, `UseTakes`) is a conditional update of
the count; a draft is checked, then inserted (`DraftLooks`, `DraftSuggests`,
`DraftCommits`). `receive` holds the order and takes the items of its receipts
one after the other: one `ReceiveLine` each, then `ReceiveCommits`; what it wrote
shows at the commit only. Two deliveries that name two items in opposite orders
wait for each other until PostgreSQL rolls one back. `billed` is what the job's
committed part lines say, and `taken` (history) what left the shelf for them: a
line may be edited or removed, or the job deleted, until it is invoiced, and none
of that moves stock (`EditPartLine`, `DeletePartLine`, `DeleteJob`). The lines of
one item are kept as their sum, and are edited or removed together.

### FieldSync

The phone's part (`Enqueue`, `Start` with its purge of old actions, `Send` and
the three answers, `AppCloses`) follows `offlineQueue.ts` and `useOfflineQueue.ts`:
several replays run at once, each over the queue it read. `SignOut` is
`wipeFieldOfflineData`, which `logout` calls: the queue is cleared whatever is in
it, and a replay that read it before goes on and may put a refused entry back
(`wiped` is history). That the entry put back is sealed with a key that the wipe
has dropped, so that it may be unreadable later, is not modelled. The server's
part (`Check` for the key, then `Attach`, `ClockIn`, `ClockOut` under their unique
indexes) goes on even if the phone has given the request up.

### Billing

`IntentAsks` keeps the invoice's row locked until the provider answers
(`IntentAnswered`); `ProcessorSends` lets Stripe and the processors say anything
in any order, and `StripeConfirms`, `ProcessorConfirms` and `ProcessorEnds` are
what the webhooks do. An intent and the generic webhook have the same default
provider (`crypto_payments.py:190`, `278`), so any payment may be told of by both
kinds of event: `credited` (history) is the sequence of those that applied its
money. The dunning sweep selects with `FOR UPDATE` in the order of due
dates and looks at each row again once it has it: `SweepStarts`, one `SweepLocks`
per row, `SweepCommits`, `SweepDies`. `OnboardAsks` and `OnboardAnswered` are a
click on Connect onboarding; the `Subscription...` actions the shop's own
subscription, whose company is found by an id that the checkout's event stores.

### Yard

An edit of an address merges it with what it read and looks the whole up
(`AddressLooks`, `AddressWrites`); the backfill reads all rows, looks them up
and commits at its end (`BackfillReads`, `BackfillFinds`, `BackfillCommits`); a
work order's customer and boat are checked, then written (`CreateLooks`,
`CreateInserts`, `UpdateLooks`, `UpdateWrites`). `stale` is history: which of the
rows a request has read were changed since.

### Dispatch and DispatchQueue

`Dispatch` is the scoring as functions on integers, in hundredths of a point and
rounded as `_quantize2` rounds. `DispatchQueue` caches scores (`ScoreLooks`,
`ScoreWrites`) while jobs are edited, worked on, assigned and become overdue,
ranks technicians with live scores (`Rank`), and counts location pings in a
window of Redis that starts with its first request (`PingCounts`, `PingWrites`).
Redis answers, counts a ping and loses the answer, or is down; without an answer
the ping is let through. `pings` is history: when each ping that was let through
came, and what Redis did.

### Messages, Leads, FrontDesk

A message's `created_at` is the start of its transaction and it shows at its
commit, so a reply decides on its channel from messages in another order than
they will have (`TextArrives`, `PortalPosts`, `InboundCommits`). A reply reads
its customer, then looks at the thread, then commits (`ReplyReads`, `ReplyLooks`,
`ReplyCommits`). A portal link is committed first, the event that mails it
afterwards (`InviteIssues`, `InviteCommits`). `Leads` looks for a duplicate,
stores, and leaves a task behind that mails and stamps. `FrontDesk` composes the
two; they share no row, so each is explored with the other at rest.

## Runs

| run | bounds | what it shows |
|---|---|---|
| `ledger_safety` | 2 invoices, 2 sessions, 2 refunds, amounts 1 to 3, workers die, tenant without Connect | `LedgerConsistent`: payments and refunds add up, never exceed what came in, can be booked; `MoneyMatchesStatus`: status and money agree; `CreditedOnce`; live: `CapturedIsCredited`, `RefundIsBooked` |
| `outbox_promise` | 3 events (one of a split producer, one with nothing to send), 2 dispatchers, batches of 2, 2 attempts, 2 deaths, lost answers | `ClaimsExclusive`, `SendsAccountedFor`; `PromiseKept` and `PromiseKeptInTime`: implements `OutboxPromise` with its liveness |
| `slips_safety` | 1 slip, 2 reservations, 3 stays, months of 2 days, 2 callers, 1 death, staff edit the slip | `NoDoubleBooking`; `SecondChargeRaced`: a month or a stay has a second charge only of a check and an insert that overlapped; `SweepKeepsUp`; live: `RentIsCharged` |
| `sessions` | 1 user, 3 sessions, 2 workers, 3 events | `SessionsEnd` (types, `OneSuccessor`, `ClosedStaysClosed`, `PasswordChangeEndsSessions`); `EndedAccessStaysEnded`; `PromiseKept`: implements `RotationPromise` |
| `accounts` | 1 address, 2 invites, 2 resets, 2 workers, lockout after 2, 1 code, 2 batches, 6 events | `AccountsConsistent` (types, `OneBatch`, `InviteSpentOnAccount`, `OldLinksDie`); `GuessesBounded`; `CodeAdmitsOnce` |
| `billables` | 1 job, 3 lines of two prices, 2 invoices, 1 estimate, 2 links, 2 workers, 7 events | `LinesConsistent` (types, `InvoicesAddUp`, `OneApproval`); `ConversionBillsApproval`; `FrozenLinesStay` |
| `stock` | 2 items, 2 orders in opposite orders, 1 vendor, 2 workers, quantities to 2, 5 events | `StockConsistent` (types, `ShelfAddsUp`, `BilledAsTaken`, `AlertCurrent`); `DeliveriesWhole` |
| `field` | 2 actions, 2 replays, 1 mishap | `FieldConsistent` (types, `RowsOnce`, `NothingForgotten`); `InOrder`; live: `QueueDrains` |
| `billing` | 2 invoices of total 2, 2 payments, 1 charge, 2 sweeps, cooldown 1, 3 days, 4 events | `PaymentsConsistent` (types, `CreditedOncePerRail`, `PaidAddsUp`, `DuplicatesExplained`); `RemindersSpaced`; live: `SweepsEnd`, `ChargesLand` |
| `yard` | 2 customers, 2 boats, 1 job, 2 workers, 3 events | `YardConsistent` (types and references, `CoordinatesOfAddress`); `BoatOfCustomer` |
| `queue` | 1 technician, 2 workers; jobs: 1 loyal customer, an emergency and a large routine job, 4 events, a clock to 2; pings: 2 per window of 2, 6 events, a clock to 4 | `UrgentOutranks` (cached scores); `NoLeapfrog` (live ranking, whatever the skills that jobs ask for); `StartKept`; `QueueConsistent` (types, `PingsBounded`, `ShutOutForCause`) |
| `frontdesk` | 2 customers, 1 number, 1 link, 2 workers, 3 messages, 2 events; 3 sign-ups of two addresses | `DeskConsistent` (types, `NumberKeepsThread`, `MailedLinkOpens`, `OneLeadADay`, `ToldIsMailed`); `ReplyFollowsCustomer` |

Why the bounds are enough. *Ledger*: with amounts up to 3 a total is paid in
full, by a deposit and its rest, or by two deposits that leave a rest; a
displaced session and a list of refunds need two of each; a second invoice shows
that ledgers do not mix. *Outbox*: with batches of two, two failing events stand
in front of the third; two dispatchers overlap; with two attempts a row fails,
waits and dies. *Slips*: months of two days have a first and a last day; the
stays touch, meet on a day, cross a month, and one fills a month up to the first
of the next, where the desk's description equals the month's marker; two callers
race for one reservation and two reservations compete for days under one caller,
each pair with the other at rest (`OneContest`), which the second caller's
charges and the days of a booking do not depend on. *Sessions*: a family with a
token, its successor and the successor's, or two families; one request rotates
while another revokes. *Accounts*: two links or invites of one address are what
can cross; a second batch outdates a code that was looked up. *Billables*: two
invoices and an estimate compete for lines, of which one can be left out and one
added later. *Stock*: two items in two orders make the smallest circle; the lines
of an item are used, edited, removed and used again. *Field*: two actions have an
order, two replays can overtake each other; a mishap is a failed request, a
closed app, a sign-out or a clock-in without a key. *Billing*: two sweeps over
two rows in one order and one payment's lock among them; with a cooldown of one,
a reminder is due again on the third day. *Yard*: two of each let a boat change
hands under a job, and every pair of requests cross. *Queue*: an emergency
against the best a routine job can be; one technician with every set of skills
and every load stands for two, because a rank depends on nothing else of his.
Jobs and pings share no row but his, whose switch both only read, so each is
explored with the other at rest (`Apart`). *Pings*: one ping starts a window, a
second comes at its end and two at the start of the next: the last three are the
largest burst there is, with two to spare for those that pass without an answer.
*Front desk*: two customers share a number or hand it on; three messages are a
text, a reply, and one that is committed later than it began.

Every bound is a constant: `Events`, `Happenings` and `Mishaps` limit what users,
time and accidents do, `Deaths` the workers that die, `LastDay`, `MaxClock` and
`MaxNow` end the calendar,
`MAX_DISPATCH_ATTEMPTS` and `Limit` are 5 and 100 in the code. Deadlock is not
checked anywhere: staff and customers need not act, so every one of these
systems may come to rest; that requests do not wait for each other for ever is
what `SweepsEnd` and `QueueDrains` say. Two password resets, or two deliveries,
that wait for each other are ended by PostgreSQL's deadlock detector, whatever
this code does: what is checked is that the one rolled back leaves nothing behind
(`AccountsConsistent`, `DeliveriesWhole`). Symmetry is
used for interchangeable ids, in runs without liveness only. Every property is
tried against a mutant, a changed definition of the model that TLC must refute.

Several properties make an exception for what the code does not prevent, and
name it: `outrun` and `late` in `Sessions` (a login by second factor or a family
that a refresh took past a revocation's snapshot), `late` in `Accounts` (a link
asked for while others were being voided), `disturbed` and `crossed` in `Yard`
(a boat that changed hands, edits of one address that overlapped), `beside` in
`Leads`, `excused` in `Billing`, `stayRaced` and `rentRaced` in
`SlipReservations`, `edited` in `Stock`, `wiped` in `FieldSync`. The exceptions are
histories of the very overlap, edit or wipe they excuse, so that anything else is
still found. `CapturedIsCredited` names the payments that are refused for ever:
those another checkout displaced (`Displaced`) and those `InvoiceSM` has no
transition for (`Refused`).

## What the code says of itself and does not keep

Two promises in the source do not survive these models. The properties are what
does hold, and the exception in each of them is where the promise ends.

- `jobs/slip_storage_billing_sweep.py:11-14` says that running the sweep twice in
  a month, "or invoking it both from Celery Beat and manually in the same period,
  never double-charges a reservation", and `core/celery_app.py:81-84` that daily
  re-checks are "not a double-billing risk"; tasks are acknowledged late
  (`celery_app.py:55-59`), so one may also be run again while the first is still
  at work. The check for the month's line (`slip_reservations.py:445`) and its
  insert are not protected by a lock or an index: two sweeps that overlap charge
  twice, and the run reaches such states (`rentRaced` is not empty in them). What
  holds is `SecondChargeRaced`: sweeps that follow one another charge once.
- `inventory.py:6-8` says that a part can never be taken off the shelf "without
  it appearing on the work order (or vice versa)". The quantity of a committed
  part line may be edited (`jobs.py:565-570`), which moves no stock: the work
  order then lists more or fewer units than were taken. What holds is
  `BilledAsTaken`, and `ShelfAddsUp` of what was taken.

## Fairness

Only what the program's schedule gives is assumed, mostly as weak fairness of
single steps. Stripe delivers an event again until it is acknowledged, and a
handler whose worker lives goes on (`InvoiceLedger`, `Billing`). Beat starts a
pass every minute and the sweeps, and one whose worker lives ends (`Outbox`,
`SlipReservations`, `Billing`); of the callers of the slip sweep only beat's
(`Beat`) is assumed to run it. A provider's call in `Billing` returns or raises,
and either ends the wait for it. On the phone of `FieldSync` the app is opened
again, requests are answered and time passes. Staff, customers and producers owe
nothing, and no transport is assumed ever to succeed: an event that always fails
is settled as a dead letter.

## Theorems

Every safety property of every passing run is proved for every value of the
constants: 27 invariants, 3 action properties and the safety of both
refinements. What the
constants are assumed to be is in the modules, named: amounts are positive,
stays do not end before they begin, ids differ from `None` and kinds of ids from
each other, what is counted or added up is finite (`FiniteAssumption`,
`StockAssumption`, `QueueAssumption`). None of it goes beyond what a table's
columns and its being a table say.

The pattern is the same throughout. The property is not inductive as it stands:
it says nothing of what a request holds between its reads and its write. The
inductive invariant adds just that, as named conjuncts; one lemma per action
shows that it is kept, and the properties are its consequences. What a request
relies on is the part worth reading.

- *InvoiceLedger* (`BooksProofs`). `StatusIsTruthful` (`MoneyMatchesStatus`)
  needs to know that a session which can still be completed asks for something
  and belongs to an invoice, and that every refund returns something
  (`Standing`): otherwise a payment of nothing would make an invoice `partial`.
  `LedgersAgree` (`LedgerConsistent`): what was paid is the sum of the sessions
  that were credited and the refunds the sum of those in the books, so each
  handler changes one term of one sum, and a refund's term is bounded by what is
  left. `NoDoubleCredit` comes with it.
- *Stock* (`BooksProofs`). `ShelvesAgree` (`StockConsistent`) and
  `DeliveriesAreWhole`. Every step that moves stock or lines keeps the sum of
  shelf, `taken` and `loose`, and changes `billed` and `taken` alike unless it is
  the edit by hand. A delivery under way has taken a prefix of its receipts; its
  order still waits for it, no line gets more than was ordered, and its lines and
  its items tell of the same units (`DeliveryOk`); no other request has the order
  (`DeliveriesApart`). So at the commit the units on the lines and those on the
  shelves grow alike (`ShelfAddsUp`).
- *Outbox* (`DeliveryProofs`). `NoSharedRow`, `EveryMailAccountedFor` and
  `RetriesCapped` need that a pass keeps each row in one place (`PassesSound`)
  and that a row exists only once its producer is done (`RowsFollowChange`).
  `PromiseImplemented` is the refinement: a delivery maps to `Send`, a commit to
  `Settle` of the rows sent well and the rows given up, a producer's event to
  `Owe`, everything else to a stutter.
- *FieldSync* (`DeliveryProofs`). `EffectsInOrder` (`InOrder`): however old the
  queue it read, a replay leaves nothing out before what it has still to send
  (`ReplaysOk`), so when a request is under way all before it has had its effect
  or never will (`RequestsOk`); that the smallest of the actions left exists is
  shown from the well-foundedness of `<`. `FieldKept`: what a photo or a clock-in
  did is in the tables under its key (`EffectsOk`), so that the key's check and
  the unique index find it whoever comes second; a wipe forgets the phone's queue
  and nothing of the server's.
- *FrontDesk* (`DeliveryProofs`). `DeskAgrees`, `RepliesFollowCustomers`. A reply
  under way remembers a channel that was right for what was committed before it
  looked at the thread (`Follows`), and what is committed later ends later
  (`TimesOk`). Texts of one state of the customer book went to the owner of their
  number (`ThreadsKept`). A sign-up that has looked and found nothing is beside
  every recent lead of its address (`LookedBeside`).
- *SlipReservations* (`MarinaProofs`). `NeverDoubleBooked` rests on the
  availability check alone; `SweepIsThorough` on what a sweep may rely on while
  everything else goes on (`Working`). `SecondChargesRaced`
  (`SecondChargeRaced`): a caller that passed its check still stands before a
  charge nobody has inserted, or that charge is marked as raced (so two inserts
  are of overlapping callers), however many callers there are and wherever they
  die.
- *Yard* (`MarinaProofs`). `ReferencesAndCoordinatesHold` and `PairingHolds`:
  what a request has read is sound unless a row of it is stale (`RequestsSound`).
- *Sessions* (`SessionsProofs`). `SessionsStayEnded`, `CutTokensRefused` and
  `RotationKeepsPromise`. The invariant says of each request what it relies on:
  the row a refresh exchanges can be exchanged until it commits; what a
  revocation is about to revoke is all there is of its families, but for those a
  refresh took past it (`JobCovers`), and a password reset has all of the user's
  (`JobResets`). The refinement maps `OpenCommits` to `Open`, `RefreshCommits` to
  `Exchange`, `RevocationCommits` and `Expires` to `End`.
- *Accounts* (`AccountsProofs`). `LockoutCounts`, `CodesAdmitOnce`,
  `AccountsAgree`. The count of failures is the count of misses (`Guesses`); a
  code that may still be used has admitted nobody (`CodesSound`); a request about
  to issue an invite is alone with it; one that resets a password holds live
  links of its account and, once it has voided the others, all but those asked
  for since (`LinksHeld`).
- *Billables* (`BillablesProofs`). `LinesFrozenOnce` and `BilledLinesStay`: lines
  in a request's hands are free, of its job and no other request's, which is what
  the second look under the locks is for. On top of it, `LinesAgree`
  (`LinesConsistent`) and `ApprovalIsBilled` (`ConversionBillsApproval`): what a
  request is about to bill is what the lines it holds are worth, a standing
  invoice asks for what its own are worth, one made from an estimate has that
  estimate's lines and no others (`Books`), and of an estimate's links one is
  used if it was approved and none otherwise (`ApprovedOnce`).
- *Billing* (`OfficeProofs`). `PaymentsCreditedOnce`: what the generic webhook
  may still do follows from the payment's status, and what Stripe's completion
  may from the event not having been applied (`CreditsOk`, `EventsOk`).
  `PaymentsAgree` (`PaymentsConsistent`) adds that an invoice was paid the sum of
  what its payments credited, and counts Connect accounts: those made and those
  being asked for are no more than the excuses, and one (`AccountsOk`).
  `RemindersApart` (`RemindersSpaced`): a row a sweep has found is locked by it
  and still due (`SweepsOk`), so no other sweep and no payment can have changed
  it.
- *DispatchQueue* (`OfficeProofs`). `UrgentFirst` (`UrgentOutranks`): a cached
  score is the sum of its basis and of some loyalty between 0 and 8 points
  (`ScoreOf`), whatever the row has become since; an emergency is worth 45 points
  or more, routine work that is not late 17.5, revenue of five thousand 15 and
  loyalty 8 at most. `SkillDoesNotLeapfrog` (`NoLeapfrog`): fit and workload are
  worth less together than the base of an emergency exceeds that of routine work.
  `QueueKept` (`QueueConsistent`) rests on an invariant that is about windows,
  because Redis forgets a window when it ends. It says that the answered pings
  let through so far *fall into windows* (`Windows`): there is an assignment of a
  start to each, such that two starts are equal or a window apart, no start has
  more than the limit, and the limiter's counter and time to live describe the
  last one. A span as long as a window then touches two at most
  (`SpanTouchesTwo`). `StartsKept` (`StartKept`) is the action property of a
  job's start.

Lemmas on sums are in `Sums`. The library defines a sum by a recursive function
that takes elements one at a time, and induction over sets cannot be stated to
the provers; instead each fact is shown by looking at a smallest set, or a
smallest number, for which it would fail. From there: a term is taken out or put
in, one term changes, a sum is reindexed by a bijection, is at least its parts
and at most a larger one.

Only model-checked: liveness (`CapturedIsCredited`, `RefundIsBooked`,
`RentIsCharged`, `QueueDrains`, `SweepsEnd`, `ChargesLand`) and the fairness part
of the outbox's refinement (`PromiseKeptInTime`), which rest on `ENABLED` and are
beyond the prover.
`Windows` quantifies over every assignment and cannot be evaluated by TLC; what
follows from it (`PingsBounded`) is.

## What is not modelled

Formatting, templates, rates and arithmetic on currencies (amounts are small
whole numbers), password hashing and token encoding, and authorisation: who may
call what is the environment's choice. Tenancy is row-level security, enforced by
PostgreSQL; the modules are taken per tenant, except for incoming texts, which
choose one. Companies and draft asset tokens are single statements; reports, PDF
and the audit log read or append; the HTTP layer, the rest of the front end,
migrations, scripts and deployment have no protocol of their own. The denylist of
single access tokens is not modelled apart from the epoch, nor the other buckets
of the rate limiter, nor the broker between beat and workers. The backfill of
technicians' home addresses is the customers' once more. Redis losing its data is
not modelled (only its being away), nor the deletion of customers in `Messages`.

Two hazards have no property, because the code does not prevent them: an invoice
or estimate that is sent while its event was never written, and a slip freed
while another of its reservations is checked in. They are in the list below.

## Noted while reading

Facts of the code that the model reproduces or that its properties make an
exception for; each is a choice the team may want to know of.

*Money.* An invoice can be voided after the customer paid and before the event
is processed (`invoices.py:493`); the payment of a displaced session, or of an
invoice that is void, paid or refunded in part, or that was partly paid and stays
so, is refused on every redelivery (`invoices.py:587`; `InvoiceSM` has no step from
`partial` to `partial`); a stablecoin payment that the generic webhook confirmed is
credited again by Stripe's completion of it, whose handler does not ask for the
payment's status (`stripe_webhooks.py:339`; `stripe_webhooks.py:163` says that real
Stripe events do not take the generic path), and the same handler applies the money
of a payment that has failed or expired; for a Connect tenant a
refund's event that overtakes the payment's is acknowledged without effect
(`invoices.py:842`); a worker that dies inside the loop over an event's refunds
loses the rest of them (`invoices.py:915`); `send_invoice` and `send_estimate`
commit before their event is written (`invoices.py:433`); a later stablecoin
session overwrites the earlier one on the invoice, whose payment is then refused
on Stripe's path; a late failure marks a paid subscription `past_due`, and no
code path cancels one; overlapping clicks make two Connect accounts;
`SubscriptionSM` and `PaymentSM` are not used.

*Slips and lines.* Two sweeps at once charge a month twice (above); the sweep
does not see the desk's charge for the same days; a reservation cancelled between
check and insert is charged (`slip_reservations.py:427`); the departure or
cancellation of one reservation frees the slip of another
(`slip_reservations.py:238`); the deletion of a job takes its frozen lines along,
although a comment says it is refused.

*Stock.* A part line may be edited after its stock was taken (above); an
order moves to `received` with a partial delivery and cannot be
received again; a vendor may be archived between the check of a draft and its
insert.

*Field app.* Signing out discards what was not yet sent, without a warning; a
replayed clock-out closes the entry that is open by then: it is
not the no-op the docstring of `field_app.py` describes.

*Dispatch.* Urgency saturates after sixty days overdue, not after
`_OVERDUE_SATURATION_DAYS`; revenue is not capped, though a comment says that it
cannot outrank urgency; an emergency that is short of parts may be ranked below a
routine job, and so may one beside long overdue work; a deactivated technician
keeps his jobs; a late ping may overwrite a newer position; the rate limiter lets
everything through without Redis.

*Customers.* A boat that changes owner leaves its jobs with the former one;
overlapping edits of an address, or an edit and the backfill, may leave
coordinates of neither; a text goes to the newest customer with the number over
all tenants; nothing sets `sms_opted_out`; a portal customer who has no email
and does not text is not told of replies; two simultaneous sign-ups make two
rows; a sign-up whose notification task died is never announced, and its
repetition within a day is answered as a duplicate.

## Later

1. `Reports`: figures added up from separate reads while invoices move.
2. An abstract log of a technician's actions that `FieldSync` implements, with
   the refinement proved.
3. Deliveries whose deadlock is broken, as a refinement of one that books an
   order in a single step (`Stock`).
