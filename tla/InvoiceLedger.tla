---------------------------- MODULE InvoiceLedger ----------------------------
(***************************************************************************)
(* The money side of a customer invoice: app/services/invoices.py driven   *)
(* by the staff, by the public pay page and by the Stripe webhook          *)
(* (app/services/stripe_webhooks.py).                                      *)
(*                                                                         *)
(* Every service call below locks its invoice row (SELECT .. FOR UPDATE)   *)
(* before it reads, so a database transaction is one action here.  What is *)
(* split is what the code splits: the pay page reads the invoice without a *)
(* lock, calls Stripe and only then writes; the handler of charge.refunded *)
(* commits after every refund it books; and a call to Stripe survives the  *)
(* rollback of the transaction that made it.                               *)
(*                                                                         *)
(* Stripe itself (checkout sessions, refunds, events delivered at least    *)
(* once and in any order) is external and is modelled from how the code    *)
(* uses it.  Amounts are whole units; an invoice with a total of zero is   *)
(* left out (Stripe opens no checkout for it, and nothing else here        *)
(* applies to it).                                                         *)
(***************************************************************************)
EXTENDS Integers, FiniteSets, Functions

CONSTANTS Invoices,    \* the invoices a shop may draw up
          Sessions,    \* the Checkout Sessions (each with its PaymentIntent)
          Refunds,     \* the refund objects Stripe may create
          None,        \* "no id": a NULL column
          Amounts,     \* the amounts of money that occur
          Connect,     \* TRUE iff the tenant's events carry a Connect account
          Crashes      \* TRUE iff a web worker may die between two commits

ASSUME AmountsAssumption == Amounts \subseteq Nat \ {0}
ASSUME FlagsAssumption == Connect \in BOOLEAN /\ Crashes \in BOOLEAN
ASSUME NoneAssumption == None \notin Invoices \cup Sessions
ASSUME FiniteAssumption == IsFiniteSet(Sessions) /\ IsFiniteSet(Refunds)

VARIABLES
  invoice,   \* the invoices table, with SUM(refunds.amount) kept per row
  session,   \* Stripe: the Checkout Sessions and what was captured on them
  refund,    \* Stripe: the refunds, and the refunds table's copy ("booked")
  paidDone,  \* stripe_processed_events: sessions whose completion is applied
  backDone,  \* stripe_processed_events: refunds whose event is applied
  walking    \* charge.refunded handlers alive between two of their commits

vars == <<invoice, session, refund, paidDone, backDone, walking>>

Statuses == {"none", "draft", "sent", "partial", "paid", "void",
             "refunded", "partially_refunded"}

\* InvoiceSM.transitions; nothing in the services moves to "uncollectible".
transitions ==
  [s \in Statuses |->
     CASE s = "draft"              -> {"sent", "void"}
       [] s = "sent"               -> {"partial", "paid", "void"}
       [] s = "partial"            -> {"paid", "void", "partially_refunded"}
       [] s = "paid"               -> {"refunded", "partially_refunded"}
       [] s = "partially_refunded" -> {"refunded", "partially_refunded"}
       [] OTHER                    -> {}]

NoInvoice == [status |-> "none", total |-> 0, paid |-> 0, refunded |-> 0,
              checkout |-> None, pi |-> None]
NoSession == [state |-> "free", of |-> None, amount |-> 0,
              credited |-> 0, returned |-> 0]
NoRefund  == [pi |-> None, amount |-> 0, lists |-> {}, booked |-> FALSE]

Init == /\ invoice  = [i \in Invoices |-> NoInvoice]
        /\ session  = [s \in Sessions |-> NoSession]
        /\ refund   = [r \in Refunds |-> NoRefund]
        /\ paidDone = {}
        /\ backDone = {}
        /\ walking  = {}

-----------------------------------------------------------------------------
(* Staff and the pay page *)

\* create_invoice freezes the job's lines; their sum is the total.
CreateInvoice(i, t) ==
  /\ invoice[i].status = "none"
  /\ invoice' = [invoice EXCEPT ![i].status = "draft", ![i].total = t]
  /\ UNCHANGED <<session, refund, paidDone, backDone, walking>>

\* send_invoice opens a Checkout Session if Stripe answers (the session's URL
\* is given to nobody: the customer gets the pay page instead).
SendInvoice(i, s) ==
  /\ "sent" \in transitions[invoice[i].status]
  /\ s # None => session[s].state = "free"
  /\ invoice' = [invoice EXCEPT ![i].status = "sent",
                                ![i].checkout = IF s = None THEN @ ELSE s]
  /\ session' = IF s = None THEN session
                ELSE [session EXCEPT ![s].state = "unshared", ![s].of = i,
                                     ![s].amount = invoice[i].total]
  /\ UNCHANGED <<refund, paidDone, backDone, walking>>

\* void_invoice
VoidInvoice(i) ==
  /\ invoice[i].paid = 0
  /\ "void" \in transitions[invoice[i].status]
  /\ invoice' = [invoice EXCEPT ![i].status = "void"]
  /\ UNCHANGED <<session, refund, paidDone, backDone, walking>>

\* get_or_create_checkout_url, up to Stripe's answer: no row lock is held, and
\* the new session asks for the whole total.
LoadPayPage(i, s) ==
  /\ invoice[i].status \in {"sent", "partial", "partially_refunded"}
  /\ session[s].state = "free"
  /\ session' = [session EXCEPT ![s].state = "loading", ![s].of = i,
                                ![s].amount = invoice[i].total]
  /\ UNCHANGED <<invoice, refund, paidDone, backDone, walking>>

\* get_or_create_checkout_url, from Stripe's answer on: the session replaces
\* whatever the row holds by now, and its URL goes to the customer.
ShowPayPage(s) ==
  /\ session[s].state = "loading"
  /\ session' = [session EXCEPT ![s].state = "open"]
  /\ invoice' = [invoice EXCEPT ![session[s].of].checkout = s]
  /\ UNCHANGED <<refund, paidDone, backDone, walking>>

\* create_crypto_payment_intent: a stablecoin session for part of the balance.
CryptoIntent(i, a, s) ==
  /\ invoice[i].status \in {"sent", "partial"}
  /\ a \in 1 .. (invoice[i].total - invoice[i].paid)
  /\ session[s].state = "free"
  /\ session' = [session EXCEPT ![s].state = "open", ![s].of = i, ![s].amount = a]
  /\ invoice' = [invoice EXCEPT ![i].checkout = s]
  /\ UNCHANGED <<refund, paidDone, backDone, walking>>

-----------------------------------------------------------------------------
(* Stripe *)

\* The customer completes a checkout: the money is captured.
CustomerPays(s) ==
  /\ session[s].state = "open"
  /\ session' = [session EXCEPT ![s].state = "paid"]
  /\ UNCHANGED <<invoice, refund, paidDone, backDone, walking>>

Exists(r) == refund[r].pi # None

\* Stripe grants a refund up to what is left on the charge, and its event
\* carries every refund of that charge so far.
StripeRefund(s, a, r, booked) ==
  /\ ~Exists(r)
  /\ session[s].state = "paid"
  /\ session[s].returned + a <= session[s].amount
  /\ session' = [session EXCEPT ![s].returned = @ + a]
  /\ refund'  = [refund EXCEPT ![r] =
                   [pi |-> s, amount |-> a, booked |-> booked,
                    lists |-> {r} \cup {q \in Refunds : refund[q].pi = s}]]

\* A refund made in the Stripe Dashboard.
DashboardRefund(s, a, r) ==
  /\ StripeRefund(s, a, r, FALSE)
  /\ UNCHANGED <<invoice, paidDone, backDone, walking>>

-----------------------------------------------------------------------------
(* The webhook: checkout.session.completed *)

Smaller(a, b) == IF a <= b THEN a ELSE b

\* Mutant: looks the invoice up by payment intent, stamped only by a payment.
MarkPaidByIntent(s) ==
  \E i \in Invoices :
    /\ invoice[i].pi = s
    /\ "paid" \in transitions[invoice[i].status]
    /\ invoice' = [invoice EXCEPT ![i].status = "paid"]
    /\ session' = [session EXCEPT ![s].credited = @ + 1]

\* mark_paid_from_webhook finds the invoice by its current session, clamps the
\* amount and asks InvoiceSM; if either refuses, the transaction is rolled back
\* with its dedup row, Stripe gets an error and delivers again.
MarkPaid(s) ==
  \E i \in Invoices :
    LET row     == invoice[i]
        newPaid == Smaller(row.paid + session[s].amount, row.total)
        target  == IF newPaid >= row.total THEN "paid" ELSE "partial"
    IN /\ row.checkout = s
       /\ target \in transitions[row.status]
       /\ invoice' = [invoice EXCEPT ![i].status = target, ![i].paid = newPaid, ![i].pi = s]
       /\ session' = [session EXCEPT ![s].credited = @ + 1]

\* Mutant: the dedup row is not looked at.
CheckoutCompletedAgain(s) ==
  /\ session[s].state = "paid"
  /\ MarkPaid(s)
  /\ paidDone' = paidDone \cup {s}
  /\ UNCHANGED <<refund, backDone, walking>>

\* handle_stripe_webhook: dedup row and side effect in one transaction.
CheckoutCompleted(s) ==
  /\ session[s].state = "paid"
  /\ s \notin paidDone
  /\ MarkPaid(s)
  /\ paidDone' = paidDone \cup {s}
  /\ UNCHANGED <<refund, backDone, walking>>

-----------------------------------------------------------------------------
(* Refunds: the outbound path *)

\* Mutant: decides on the status string, not on amount_paid and total.
RefundTargetByStatus(row, a) ==
  IF row.status = "paid" /\ a >= row.paid - row.refunded
    THEN "refunded" ELSE "partially_refunded"

\* Mutant: forgets that a deposit is not a full payment.
RefundTargetOfDeposit(row, a) ==
  IF a >= row.paid - row.refunded THEN "refunded" ELSE "partially_refunded"

\* refund_invoice: the status a refund of a leads to.
RefundTarget(row, a) ==
  IF row.paid = row.total /\ a >= row.paid - row.refunded
    THEN "refunded" ELSE "partially_refunded"

MayRefund(i, a) ==
  /\ invoice[i].paid > 0
  /\ a \in 1 .. (invoice[i].paid - invoice[i].refunded)
  /\ RefundTarget(invoice[i], a) \in transitions[invoice[i].status]
  /\ invoice[i].pi # None

Booked(i, a) ==
  [invoice EXCEPT ![i].status = RefundTarget(invoice[i], a),
                  ![i].refunded = @ + a]

\* Stripe makes the refund and the transaction that asked for it commits.
RefundInvoice(i, a, r) ==
  /\ MayRefund(i, a)
  /\ StripeRefund(invoice[i].pi, a, r, TRUE)
  /\ invoice' = Booked(i, a)
  /\ UNCHANGED <<paidDone, backDone, walking>>

\* Stripe makes the refund, but its answer is lost: create_refund returns None
\* (or the worker dies), the transaction is rolled back, nothing is recorded.
RefundAnswerLost(i, a, r) ==
  /\ MayRefund(i, a)
  /\ StripeRefund(invoice[i].pi, a, r, FALSE)
  /\ UNCHANGED <<invoice, paidDone, backDone, walking>>

-----------------------------------------------------------------------------
(* The webhook: charge.refunded *)

\* The invoices row reconcile_refund_from_webhook finds for a refund.
Owner(r) == {i \in Invoices : invoice[i].pi = refund[r].pi}

\* Mutant: no look at the refunds table.
UnbookedUnchecked(e) == refund[e].lists

Unbooked(e) == {r \in refund[e].lists : ~refund[r].booked}

\* Is the handler of event e (the event of refund e) about to run a
\* transaction?  resolve_company_from_event raises while no invoice carries the
\* payment intent, unless the event names a Connect account.
Handling(e) ==
  /\ Exists(e)
  /\ \/ e \in walking
     \/ e \notin backDone /\ (Connect \/ Owner(e) # {})

\* reconcile_refund_from_webhook for the next refund of the list that is not
\* in the refunds table yet, and its commit; the first such commit also
\* commits the dedup row.  (Were InvoiceSM to refuse, the transaction would be
\* rolled back and the rest of the list dropped: RefundAlwaysBookable says that
\* never happens.)
ReconcileOne(e, r) ==
  /\ Handling(e)
  /\ r \in Unbooked(e)
  /\ \E i \in Owner(e) :
       /\ RefundTarget(invoice[i], refund[r].amount)
            \in transitions[invoice[i].status]
       /\ invoice' = Booked(i, refund[r].amount)
  /\ refund' = [refund EXCEPT ![r].booked = TRUE]
  /\ backDone' = backDone \cup {e}
  /\ walking' = walking \cup {e}
  /\ UNCHANGED <<session, paidDone>>

\* The end of the list: nothing (more) to book, the dedup row is committed.
\* With a Connect account and no invoice for the charge every refund of the
\* list is passed over.
ReconcileEnd(e) ==
  /\ Handling(e)
  /\ Unbooked(e) = {} \/ Owner(e) = {}
  /\ backDone' = backDone \cup {e}
  /\ walking' = walking \ {e}
  /\ UNCHANGED <<invoice, session, refund, paidDone>>

\* The worker dies between two commits of its list.
WorkerDies(e) ==
  /\ Crashes
  /\ e \in walking
  /\ walking' = walking \ {e}
  /\ UNCHANGED <<invoice, session, refund, paidDone, backDone>>

-----------------------------------------------------------------------------
Staff ==
  \E i \in Invoices :
    \/ \E t \in Amounts : CreateInvoice(i, t)
    \/ \E s \in Sessions \cup {None} : SendInvoice(i, s)
    \/ VoidInvoice(i)
    \/ \E a \in Amounts, r \in Refunds : RefundInvoice(i, a, r)
    \/ \E a \in Amounts, r \in Refunds : RefundAnswerLost(i, a, r)

Customer ==
  \E s \in Sessions :
    \/ \E i \in Invoices : LoadPayPage(i, s)
    \/ ShowPayPage(s)
    \/ \E i \in Invoices, a \in Amounts : CryptoIntent(i, a, s)
    \/ CustomerPays(s)

Dashboard ==
  \E s \in Sessions, a \in Amounts, r \in Refunds : DashboardRefund(s, a, r)

Webhook ==
  \/ \E s \in Sessions : CheckoutCompleted(s)
  \/ \E e \in Refunds :
       \/ \E r \in Refunds : ReconcileOne(e, r)
       \/ ReconcileEnd(e)
       \/ WorkerDies(e)

Next == Staff \/ Customer \/ Dashboard \/ Webhook

Spec == Init /\ [][Next]_vars

-----------------------------------------------------------------------------
(* Properties *)

InvoiceRow == [status : Statuses, total : Nat, paid : Nat, refunded : Nat,
               checkout : Sessions \cup {None}, pi : Sessions \cup {None}]
SessionRow == [state : {"free", "unshared", "loading", "open", "paid"},
               of : Invoices \cup {None}, amount : Nat,
               credited : Nat, returned : Nat]
RefundRow  == [pi : Sessions \cup {None}, amount : Nat,
               lists : SUBSET Refunds, booked : BOOLEAN]

\* Every column and every Stripe object has its type.
TypeOK ==
  /\ invoice \in [Invoices -> InvoiceRow]
  /\ session \in [Sessions -> SessionRow]
  /\ refund \in [Refunds -> RefundRow]
  /\ paidDone \subseteq Sessions
  /\ backDone \subseteq Refunds
  /\ walking \subseteq Refunds

\* What the status of an invoice says of its two ledgers, whichever of the
\* staff, the two webhooks and a second payment moved it: nothing is credited
\* before "partial", "paid" is the full total with nothing refunded, and a full
\* total that went back in full is "refunded", in however many pieces.
StatusTellsMoney(row) ==
  /\ row.paid <= row.total
  /\ row.status \in {"none", "draft", "sent", "void"} =>
       row.paid = 0 /\ row.refunded = 0 /\ row.pi = None
  /\ row.status = "partial" =>
       row.paid \in 1 .. (row.total - 1) /\ row.refunded = 0
  /\ row.status = "paid" =>
       row.paid > 0 /\ row.paid = row.total /\ row.refunded = 0
  /\ row.status = "partially_refunded" =>
       /\ row.paid > 0 /\ row.refunded > 0
       /\ row.paid < row.total \/ row.refunded < row.paid
  /\ row.status = "refunded" =>
       row.paid > 0 /\ row.paid = row.total /\ row.refunded >= row.paid

MoneyMatchesStatus == \A i \in Invoices : StatusTellsMoney(invoice[i])

\* A completed checkout is credited at most once however often its event is
\* delivered, and exactly when its dedup row is there.
CreditedOnce ==
  \A s \in Sessions : session[s].credited = IF s \in paidDone THEN 1 ELSE 0

\* What each checkout put on invoice i, and each refund took off it.
CreditsOf(i) ==
  [s \in Sessions |-> IF session[s].of = i
                       THEN session[s].credited * session[s].amount ELSE 0]
BackFrom(i) ==
  [r \in Refunds |-> IF refund[r].booked /\ session[refund[r].pi].of = i
                      THEN refund[r].amount ELSE 0]

\* amount_paid is the sum of what was credited, cut at the total; the refunds
\* total is the sum of the refunds booked on charges of this very invoice.
LedgersAddUp ==
  \A i \in Invoices :
    /\ invoice[i].paid =
         Smaller(invoice[i].total, SumFunctionOnSet(CreditsOf(i), Sessions))
    /\ invoice[i].refunded = SumFunctionOnSet(BackFrom(i), Refunds)

\* The books never show more money back than they show money in, although the
\* webhook books whatever Stripe refunded without looking at the remainder.
NeverOverRefunded ==
  \A i \in Invoices : invoice[i].refunded <= invoice[i].paid

\* InvoiceSM never refuses to book a refund that Stripe has already made of the
\* charge an invoice carries, whatever was refunded or paid in the meantime.
RefundAlwaysBookable ==
  \A r \in Refunds :
    Exists(r) /\ ~refund[r].booked =>
      \A i \in Owner(r) : RefundTarget(invoice[i], refund[r].amount)
                             \in transitions[invoice[i].status]

\* Once the event of a charge's only refund is acknowledged the refund is in
\* the refunds table, even if workers die (a tenant with Connect has the event
\* acknowledged though no invoice carries the charge yet).
LoneRefundBooked ==
  ~Connect => \A e \in backDone \ walking :
                 refund[e].lists = {e} => refund[e].booked

\* What rows and Stripe's charges say of each other: invoices.py.
LedgerConsistent ==
  /\ TypeOK
  /\ LedgersAddUp
  /\ NeverOverRefunded
  /\ RefundAlwaysBookable
  /\ LoneRefundBooked

-----------------------------------------------------------------------------
(* Liveness.  Stripe delivers an event until it is acknowledged, and a worker *)
(* that does not die runs its handler to the end; nobody else is obliged to   *)
(* act.                                                                       *)
Fairness ==
  /\ \A s \in Sessions : WF_vars(CheckoutCompleted(s))
  /\ \A e \in Refunds : /\ WF_vars(\E r \in Refunds : ReconcileOne(e, r))
                        /\ WF_vars(ReconcileEnd(e))

FairSpec == Spec /\ Fairness

\* Another checkout has the place of session s on the row of invoice i.
Displaced(i, s) == invoice[i].checkout # s

\* Payments InvoiceSM has no transition for: invoice i is void, paid already,
\* refunded in part or in full, or partly paid and short of its total even with
\* this payment (there is no partial -> partial).
Refused(i, s) ==
  \/ invoice[i].status \in {"void", "paid", "partially_refunded", "refunded"}
  \/ /\ invoice[i].status = "partial"
     /\ invoice[i].paid + session[s].amount < invoice[i].total

\* A captured payment is credited, unless another checkout takes its place on
\* the row first or InvoiceSM has no transition for it: the invoice is void,
\* paid already or (partially) refunded, or the payment leaves a rest on an
\* invoice that was partly paid before.
CapturedIsCredited ==
  \A s \in Sessions, i \in Invoices :
    (session[s].state = "paid" /\ session[s].of = i)
      ~> (s \in paidDone \/ Displaced(i, s) \/ Refused(i, s))

Alone(r) == \A q \in Refunds \ {r} : refund[q].pi # refund[r].pi

\* A refund of the charge an invoice carries gets into the refunds table, even
\* if workers die, unless a later payment takes that charge's place on the row
\* first or another refund of the charge shares its event.
RefundIsBooked ==
  \A r \in Refunds :
    (Exists(r) /\ Owner(r) # {})
      ~> (refund[r].booked \/ Owner(r) = {} \/ ~Alone(r))

=============================================================================
