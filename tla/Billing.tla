-------------------------------- MODULE Billing --------------------------------
(***************************************************************************)
(* The money a shop is owed, and owes, apart from the card payments of     *)
(* InvoiceLedger: stablecoin payments (services/crypto_payments.py), the   *)
(* reminders of the dunning sweep and the shop's Connect account           *)
(* (services/billing.py), and its own subscription to HarborIQ             *)
(* (services/stripe_webhooks.py).                                          *)
(*                                                                         *)
(* Stripe and other processors deliver events at least once, in any order; *)
(* an event refused is delivered again.  The dedup row of an event and all *)
(* it causes are one transaction.  Sweeps and payment intents keep locks   *)
(* on invoices while they wait: those steps are apart.                     *)
(***************************************************************************)
EXTENDS Integers, FiniteSets, Sequences, Functions

CONSTANTS Invoices,  \* overdue invoices, numbered by due date
          Payments,  \* crypto_payments, numbered as they are inserted
          Charges,   \* what Stripe bills the shop itself for
          Workers,   \* sweeps and Connect clicks that may be under way at once,
                     \* numbered apart from the payments
          Total,     \* the total of every invoice
          Cooldown,  \* DUNNING_REMINDER_COOLDOWN_DAYS
          MaxClock,  \* bound on time
          Events     \* bound: intents, sweeps, clicks and events begun

ASSUME BillingAssumption ==
  /\ Invoices \subseteq Nat \ {0} /\ Total \in Nat \ {0}
  /\ Payments \subseteq Nat \ {0} /\ Workers \subseteq Nat \ {0}
  /\ Payments \intersect Workers = {}
  /\ Cooldown \in Nat /\ MaxClock \in Nat \ {0} /\ Events \in Nat
ASSUME FiniteAssumption == IsFiniteSet(Payments) /\ IsFiniteSet(Workers)

VARIABLES
  clock,    \* now()
  invoice,  \* invoices: status, paid, checkout session, last_reminder_sent_at
  lock,     \* who holds the row lock of an invoice
  crypto,   \* crypto_payments
  sent,     \* events processors have sent
  applied,  \* crypto_processed_events and stripe_processed_events
  sweep,    \* run_dunning_sweep
  onboard,  \* start_connect_onboarding
  account,  \* companies.stripe_connect_account_id, accounts made, and why
  sub,      \* the company's subscription
  credited, \* history: by whose events the money of a payment was applied
  mailed,   \* history: reminders queued per invoice
  budget    \* what is left of Events

vars == <<clock, invoice, lock, crypto, sent, applied, sweep, onboard, account,
          sub, credited, mailed, budget>>

-----------------------------------------------------------------------------
None == 0

Confirmed == {"payment.confirmed", "payment.succeeded"}

Ended == {"payment.failed", "payment.expired"}

Completed == "checkout.session.completed"

PaymentEvents == [about : Payments, type : Confirmed \union Ended \union {Completed}]

ChargeEvents == [about : Charges, type : {"succeeded", "failed"}]

SubscriptionEvents == [about : {None}, type : {"checkout"}]

Invoice == [status : {"sent", "partial", "paid"}, paid : 0 .. Total,
            checkout : Payments \union {None}, reminded : 0 .. MaxClock]

CryptoPayment ==
  [status : {"none", "asking", "pending", "confirmed", "failed", "expired"},
   of : Invoices \union {None}, amount : 0 .. Total]

NoPayment == [status |-> "none", of |-> None, amount |-> 0]

Sweep == [stage : {"idle", "locking"}, began : 0 .. MaxClock,
          left : SUBSET Invoices, found : SUBSET Invoices]

NoSweep == [stage |-> "idle", began |-> 0, left |-> {}, found |-> {}]

Init ==
  /\ clock = 1
  /\ invoice = [i \in Invoices |->
       [status |-> "sent", paid |-> 0, checkout |-> None, reminded |-> 0]]
  /\ lock = [i \in Invoices |-> None]
  /\ crypto = [p \in Payments |-> NoPayment]
  /\ sent = {} /\ applied = {}
  /\ sweep = [w \in Workers |-> NoSweep]
  /\ onboard = [w \in Workers |-> [waits |-> FALSE, has |-> 0]]
  /\ account = [stored |-> 0, made |-> 0, excused |-> 0]
  /\ sub = [status |-> "trialing", known |-> FALSE, period |-> None]
  /\ credited = [p \in Payments |-> <<>>]
  /\ mailed = [i \in Invoices |-> 0]
  /\ budget = Events

Event == budget > 0 /\ budget' = budget - 1

Tick ==
  /\ clock < MaxClock
  /\ clock' = clock + 1
  /\ UNCHANGED <<invoice, lock, crypto, sent, applied, sweep, onboard, account,
                 sub, credited, mailed, budget>>

Set(f, x, v) == [f EXCEPT ![x] = v]

(* Ids are given out, and rows locked, in order. *)
Least(S, x) == x \in S /\ \A y \in S : x <= y

-----------------------------------------------------------------------------
(* Stablecoin payments. *)

Rest == <<clock, sweep, onboard, account, sub, mailed>>

Balance(i) == Total - invoice[i].paid

(* create_crypto_payment_intent, up to the call of the provider: the row of  *)
(* the invoice is locked and stays so. *)
IntentAsks(p, i, a) ==
  /\ Least({q \in Payments : crypto[q].status = "none"}, p)
  /\ lock[i] = None /\ Event
  /\ invoice[i].status \in {"sent", "partial"} /\ a \in 1 .. Balance(i)
  /\ crypto' = Set(crypto, p, [status |-> "asking", of |-> i, amount |-> a])
  /\ lock' = Set(lock, i, p)
  /\ UNCHANGED <<invoice, sent, applied, credited>> /\ UNCHANGED Rest

(* The provider answers: its reference is stamped on payment and invoice.    *)
(* Or it does not: everything is rolled back. *)
IntentAnswered(p) ==
  LET i == crypto[p].of IN
  /\ crypto[p].status = "asking"
  /\ lock' = Set(lock, i, None)
  /\ \/ /\ crypto' = Set(crypto, p, [crypto[p] EXCEPT !.status = "pending"])
        /\ invoice' = Set(invoice, i, [invoice[i] EXCEPT !.checkout = p])
     \/ crypto' = Set(crypto, p, NoPayment) /\ UNCHANGED invoice
  /\ UNCHANGED <<sent, applied, credited, budget>> /\ UNCHANGED Rest

(* Stripe tells of a completed session, once; anything may come by the       *)
(* generic webhook.  Every payment has the default provider: it may get both. *)
ProcessorSends(p, type) ==
  /\ crypto[p].status \notin {"none", "asking"} /\ Event
  /\ sent' = sent \union {[about |-> p, type |-> type]}
  /\ UNCHANGED <<invoice, lock, crypto, applied, credited>> /\ UNCHANGED Rest

Smaller(a, b) == IF a <= b THEN a ELSE b

NowPaid(i, a) == Smaller(invoice[i].paid + a, Total)

(* mark_paid_from_webhook; InvoiceSM takes partial to paid only. *)
MarkPaid(p, by) ==
  LET i == crypto[p].of
      paid == NowPaid(i, crypto[p].amount)
      target == IF paid >= Total THEN "paid" ELSE "partial"
  IN /\ lock[i] = None
     /\ target = "paid" \/ invoice[i].status = "sent"
     /\ invoice[i].status # "paid"
     /\ invoice' = Set(invoice, i, [invoice[i] EXCEPT !.status = target, !.paid = paid,
                                                      !.checkout = p])
     /\ credited' = Set(credited, p, Append(credited[p], by))

Fresh(p, types) ==
  \E e \in sent \ applied :
    e \in PaymentEvents /\ e.about = p /\ e.type \in types /\ applied' = applied \union {e}

(* _on_crypto_invoice_payment_completed: the invoice must carry the session;  *)
(* the money is applied whatever the payment's status. *)
StripeConfirms(p) ==
  /\ Fresh(p, {Completed})
  /\ invoice[crypto[p].of].checkout = p
  /\ crypto' = IF crypto[p].status = "pending"
               THEN Set(crypto, p, [crypto[p] EXCEPT !.status = "confirmed"]) ELSE crypto
  /\ MarkPaid(p, "stripe")
  /\ UNCHANGED <<lock, sent, budget>> /\ UNCHANGED Rest

(* Mutant: any confirmation is applied, whatever the payment's status. *)
ProcessorConfirmsAgain(p) ==
  /\ Fresh(p, Confirmed)
  /\ crypto' = Set(crypto, p, [crypto[p] EXCEPT !.status = "confirmed"])
  /\ MarkPaid(p, "webhook")
  /\ UNCHANGED <<lock, sent, budget>> /\ UNCHANGED Rest

(* confirm_crypto_payment: stamps the reference on the invoice and applies   *)
(* the money, from "pending" only. *)
ProcessorConfirms(p) ==
  /\ Fresh(p, Confirmed)
  /\ IF crypto[p].status = "pending"
     THEN /\ crypto' = Set(crypto, p, [crypto[p] EXCEPT !.status = "confirmed"])
          /\ MarkPaid(p, "webhook")
     ELSE UNCHANGED <<crypto, invoice, credited>>
  /\ UNCHANGED <<lock, sent, budget>> /\ UNCHANGED Rest

(* confirm_crypto_payment: a failure or an expiry overwrites any status. *)
ProcessorEnds(p) ==
  /\ \/ Fresh(p, {"payment.failed"})
        /\ crypto' = Set(crypto, p, [crypto[p] EXCEPT !.status = "failed"])
     \/ Fresh(p, {"payment.expired"})
        /\ crypto' = Set(crypto, p, [crypto[p] EXCEPT !.status = "expired"])
  /\ UNCHANGED <<invoice, lock, sent, credited, budget>> /\ UNCHANGED Rest

-----------------------------------------------------------------------------
(* The dunning sweep. *)

Money == <<clock, crypto, sent, applied, onboard, account, sub, credited>>

Due(i, cutoff) ==
  /\ invoice[i].status \in {"sent", "partial"} /\ Balance(i) > 0
  /\ invoice[i].reminded = 0 \/ invoice[i].reminded < cutoff

Cutoff(w) == sweep[w].began - Cooldown

SweepStarts(w) ==
  /\ Least({v \in Workers : sweep[v].stage = "idle"}, w) /\ Event
  /\ sweep' = Set(sweep, w, [stage |-> "locking", began |-> clock, found |-> {},
                             left |-> {i \in Invoices : Due(i, clock - Cooldown)}])
  /\ UNCHANGED <<invoice, lock, mailed>> /\ UNCHANGED Money

(* Mutant: the row is taken as it was when the sweep began. *)
SweepLocksStale(w) ==
  \E i \in Invoices :
    /\ sweep[w].stage = "locking" /\ Least(sweep[w].left, i) /\ lock[i] = None
    /\ lock' = Set(lock, i, w)
    /\ sweep' = Set(sweep, w, [sweep[w] EXCEPT !.left = sweep[w].left \ {i},
                                               !.found = sweep[w].found \union {i}])
    /\ UNCHANGED <<invoice, mailed, budget>> /\ UNCHANGED Money

(* Mutant: rows are locked in no particular order. *)
SweepLocksAnyhow(w) ==
  \E i \in sweep[w].left :
    /\ sweep[w].stage = "locking" /\ lock[i] = None
    /\ lock' = Set(lock, i, w)
    /\ sweep' = Set(sweep, w, [sweep[w] EXCEPT !.left = sweep[w].left \ {i},
                  !.found = sweep[w].found \union {j \in {i} : Due(j, Cutoff(w))}])
    /\ UNCHANGED <<invoice, mailed, budget>> /\ UNCHANGED Money

(* SELECT .. ORDER BY due_date FOR UPDATE: each row is locked in turn and    *)
(* the condition looked at again on what it holds by then. *)
SweepLocks(w) ==
  \E i \in Invoices :
    /\ sweep[w].stage = "locking" /\ Least(sweep[w].left, i) /\ lock[i] = None
    /\ lock' = Set(lock, i, w)
    /\ sweep' = Set(sweep, w, [sweep[w] EXCEPT !.left = sweep[w].left \ {i},
                  !.found = sweep[w].found \union {j \in {i} : Due(j, Cutoff(w))}])
    /\ UNCHANGED <<invoice, mailed, budget>> /\ UNCHANGED Money

Unlocked(w) == [i \in Invoices |-> IF lock[i] = w THEN None ELSE lock[i]]

(* A reminder for each, and now(): the time the transaction began. *)
SweepCommits(w) ==
  /\ sweep[w].stage = "locking" /\ sweep[w].left = {}
  /\ invoice' = [i \in Invoices |-> IF i \in sweep[w].found
                   THEN [invoice[i] EXCEPT !.reminded = sweep[w].began] ELSE invoice[i]]
  /\ mailed' = [i \in Invoices |-> IF i \in sweep[w].found THEN mailed[i] + 1 ELSE mailed[i]]
  /\ lock' = Unlocked(w) /\ sweep' = Set(sweep, w, NoSweep)
  /\ UNCHANGED budget /\ UNCHANGED Money

(* The process dies: the transaction is rolled back. *)
SweepDies(w) ==
  /\ sweep[w].stage = "locking" /\ Event
  /\ lock' = Unlocked(w) /\ sweep' = Set(sweep, w, NoSweep)
  /\ UNCHANGED <<invoice, mailed>> /\ UNCHANGED Money

-----------------------------------------------------------------------------
(* Stripe Connect. *)

Ledger == <<clock, invoice, lock, crypto, sent, applied, sweep, credited, mailed>>

(* start_connect_onboarding reads the account without a lock.  (History: a   *)
(* click that overlaps another before an account is stored is an excuse for  *)
(* a second account.) *)
OnboardAsks(w) ==
  /\ Least({v \in Workers : ~onboard[v].waits}, w) /\ Event
  /\ onboard' = Set(onboard, w, [waits |-> TRUE, has |-> account.stored])
  /\ account' = IF account.stored = 0 /\ \E v \in Workers : onboard[v].waits
                THEN [account EXCEPT !.excused = account.excused + 1] ELSE account
  /\ UNCHANGED sub /\ UNCHANGED Ledger

(* create_connect_account_and_onboarding_link makes an account unless there  *)
(* is one, and a link to it.  The link is stored with the account, or the    *)
(* call fails after the account was made: nothing is stored. *)
OnboardAnswered(w) ==
  LET fresh == onboard[w].has = 0
      made == IF fresh THEN account.made + 1 ELSE account.made
      id == IF fresh THEN made ELSE onboard[w].has
  IN
  /\ onboard[w].waits
  /\ \/ account' = [account EXCEPT !.made = made, !.stored = id]
     \/ account' = [account EXCEPT !.made = made,
          !.excused = IF fresh THEN account.excused + 1 ELSE account.excused]
  /\ onboard' = Set(onboard, w, [waits |-> FALSE, has |-> 0])
  /\ UNCHANGED <<sub, budget>> /\ UNCHANGED Ledger

-----------------------------------------------------------------------------
(* The shop's own subscription. *)

Shop == <<clock, invoice, lock, crypto, sweep, onboard, account, credited, mailed>>

Checkout == [about |-> None, type |-> "checkout"]

(* The checkout comes first at Stripe, not in the order of delivery. *)
StripeBills(e) ==
  /\ e \notin sent /\ Event
  /\ e # Checkout => Checkout \in sent
  /\ sent' = sent \union {e}
  /\ UNCHANGED <<applied, sub>> /\ UNCHANGED Shop

Delivered(e) ==
  /\ e \in sent \ applied
  /\ applied' = applied \union {e}
  /\ UNCHANGED <<sent, budget>> /\ UNCHANGED Shop

(* Mutant: the subscription's id is not stored. *)
CheckoutForgets ==
  /\ Delivered(Checkout)
  /\ sub' = [sub EXCEPT !.status = "active"]

(* _on_subscription_checkout_completed *)
SubscriptionCheckout ==
  /\ Delivered(Checkout)
  /\ sub' = [sub EXCEPT !.status = "active", !.known = TRUE]

(* _on_subscription_payment_succeeded; the company is found by the id of the *)
(* subscription, or the event is refused. *)
SubscriptionPaid(c) ==
  /\ sub.known /\ Delivered([about |-> c, type |-> "succeeded"])
  /\ sub' = [sub EXCEPT !.status = "active", !.period = c]

(* _on_subscription_payment_failed *)
SubscriptionFailed(c) ==
  /\ sub.known /\ Delivered([about |-> c, type |-> "failed"])
  /\ sub' = [sub EXCEPT !.status = "past_due"]

-----------------------------------------------------------------------------
Next ==
  \/ Tick
  \/ \E p \in Payments :
       \/ \E i \in Invoices, a \in 1 .. Total : IntentAsks(p, i, a)
       \/ \E t \in Confirmed \union Ended \union {Completed} : ProcessorSends(p, t)
       \/ IntentAnswered(p) \/ StripeConfirms(p) \/ ProcessorConfirms(p) \/ ProcessorEnds(p)
  \/ \E w \in Workers :
       \/ SweepStarts(w) \/ SweepLocks(w) \/ SweepCommits(w) \/ SweepDies(w)
       \/ OnboardAsks(w) \/ OnboardAnswered(w)
  \/ \E e \in ChargeEvents \union SubscriptionEvents : StripeBills(e)
  \/ SubscriptionCheckout
  \/ \E c \in Charges : SubscriptionPaid(c) \/ SubscriptionFailed(c)

Spec == Init /\ [][Next]_vars

(* Providers answer, transactions that can go on do, and Stripe delivers an  *)
(* event again until it is accepted. *)
Fairness ==
  /\ \A p \in Payments : WF_vars(IntentAnswered(p))
  /\ \A w \in Workers : WF_vars(SweepLocks(w) \/ SweepCommits(w))
  /\ WF_vars(SubscriptionCheckout)
  /\ \A c \in Charges : WF_vars(SubscriptionPaid(c)) /\ WF_vars(SubscriptionFailed(c))

FairSpec == Spec /\ Fairness

-----------------------------------------------------------------------------
(* Types of the rows, the events and the processes. *)
TypeOK ==
  /\ clock \in 1 .. MaxClock
  /\ invoice \in [Invoices -> Invoice]
  /\ lock \in [Invoices -> Payments \union Workers \union {None}]
  /\ crypto \in [Payments -> CryptoPayment]
  /\ applied \subseteq sent
  /\ sent \subseteq PaymentEvents \union ChargeEvents \union SubscriptionEvents
  /\ sweep \in [Workers -> Sweep]
  /\ onboard \in [Workers -> [waits : BOOLEAN, has : Nat]]
  /\ account \in [stored : Nat, made : Nat, excused : Nat]
  /\ sub \in [status : {"trialing", "active", "past_due"}, known : BOOLEAN,
              period : Charges \union {None}]
  /\ credited \in [Payments -> Seq({"webhook", "stripe"})] /\ mailed \in [Invoices -> Nat]
  /\ budget \in Nat

(* A payment's money is applied once by Stripe's completion and once by the  *)
(* generic webhook, however many of its events confirm it, and not by the    *)
(* webhook after Stripe; a payment shown as confirmed was applied.           *)
(* confirm_crypto_payment, _on_crypto_invoice_payment_completed. *)
CreditedOncePerRail ==
  \A p \in Payments :
    /\ credited[p] \in {<<>>, <<"stripe">>, <<"webhook">>, <<"webhook", "stripe">>}
    /\ crypto[p].status = "confirmed" => credited[p] # <<>>

(* What the payments of an invoice were applied for. *)
Applied(i) ==
  SumFunctionOnSet([p \in Payments |-> IF crypto[p].of = i THEN Len(credited[p]) * crypto[p].amount
                                       ELSE 0], Payments)

(* An invoice has been paid what was applied to it, up to its total.         *)
(* mark_paid_from_webhook under its two callers for stablecoins. *)
PaidAddsUp == \A i \in Invoices : invoice[i].paid = Smaller(Total, Applied(i))

(* "Do not re-remind an invoice more than once per this many days": however  *)
(* many sweeps run at once, reminders of an invoice are more than a cooldown *)
(* apart, and go out for unpaid invoices only.  run_dunning_sweep. *)
RemindersSpaced ==
  [][\A i \in Invoices : mailed'[i] # mailed[i] =>
       /\ mailed'[i] = mailed[i] + 1 /\ invoice[i].status # "paid"
       /\ invoice[i].reminded = 0
            \/ invoice'[i].reminded - invoice[i].reminded > Cooldown]_vars

(* Sweeps that wait for each other's rows, or for a payment's, all finish:   *)
(* they lock in the order of due dates. *)
SweepsEnd == \A w \in Workers : sweep[w].stage = "locking" ~> sweep[w].stage = "idle"

(* A shop has one Connect account, except for clicks that overlapped and     *)
(* links Stripe failed to make.  start_connect_onboarding. *)
DuplicatesExplained == account.made <= 1 + account.excused

(* Every charge Stripe tells of is applied, although it may be delivered     *)
(* before the checkout its company is found by.  resolve_company_from_event. *)
ChargesLand == \A e \in ChargeEvents : e \in sent ~> e \in applied

(* Payments, invoices and the shop's accounts agree: crypto_payments.py,      *)
(* invoices.py, stripe_billing.py. *)
PaymentsConsistent ==
  /\ TypeOK
  /\ CreditedOncePerRail
  /\ PaidAddsUp
  /\ DuplicatesExplained
=============================================================================
