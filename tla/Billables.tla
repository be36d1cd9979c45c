------------------------------ MODULE Billables ------------------------------
(***************************************************************************)
(* What a work order may be billed for: the lines of jobs, the invoices    *)
(* that freeze them, and estimates from draft through the customer's       *)
(* approval to conversion (services/jobs.py, invoices.py, estimates.py,    *)
(* public_tokens.py).  How an invoice is paid is InvoiceLedger's subject.  *)
(*                                                                         *)
(* There is no table of invoice lines: an invoice is the set of job lines  *)
(* that point at it.  A request that takes an invoice's or an estimate's   *)
(* row FOR UPDATE first holds it to its commit, and is one action.         *)
(***************************************************************************)
EXTENDS Naturals, FiniteSets, Functions

CONSTANTS Jobs, Lines, Invoices, Estimates, Tokens, Workers,
          None,
          Prices,   \* what a line may cost
          Events    \* bound: what staff and time do, all together

ASSUME BillablesAssumption ==
  /\ Prices \subseteq Nat \ {0} /\ Events \in Nat
  /\ None \notin Jobs \union Lines \union Invoices \union Estimates
ASSUME FiniteAssumption == IsFiniteSet(Lines) /\ IsFiniteSet(Prices)

VARIABLES
  open,      \* jobs: "open", "canceled" or "deleted"
  line,      \* job_line_items
  invoice,   \* invoices
  estimate,  \* estimates and their lines
  token,     \* public_tokens of purpose estimate_approve
  request,   \* what each worker is doing
  budget     \* what is left of Events

vars == <<open, line, invoice, estimate, token, request, budget>>

-----------------------------------------------------------------------------
Line == [job : Jobs \union {None}, price : Nat, invoice : Invoices \union {None},
         from : Estimates \union {None}]

NoLine == [job |-> None, price |-> 0, invoice |-> None, from |-> None]

(* estimate = None: create_invoice; otherwise convert_to_invoice. *)
Invoice == [status : {"none", "draft", "paid", "void"}, total : Nat,
            job : Jobs \union {None}, estimate : Estimates \union {None}]

NoInvoice == [status |-> "none", total |-> 0, job |-> None, estimate |-> None]

(* An estimate's lines do not change: they are known by what they cost. *)
Estimate == [status : {"none", "draft", "sent", "approved", "invoiced"},
             job : Jobs \union {None}, prices : SUBSET Prices,
             approvals : Nat, mailed : BOOLEAN]

NoEstimate == [status |-> "none", job |-> None, prices |-> {}, approvals |-> 0,
               mailed |-> FALSE]

Token == [of : Estimates \union {None}, uses : Nat, expired : BOOLEAN]

Request == [stage : {"idle", "locking", "freezing", "estimating", "telling", "issuing"},
            job : Jobs \union {None}, lines : SUBSET Lines, total : Nat,
            estimate : Estimates \union {None}]

Idle == [stage |-> "idle", job |-> None, lines |-> {}, total |-> 0, estimate |-> None]

Init ==
  /\ open = [j \in Jobs |-> "open"]
  /\ line = [l \in Lines |-> NoLine]
  /\ invoice = [i \in Invoices |-> NoInvoice]
  /\ estimate = [e \in Estimates |-> NoEstimate]
  /\ token = [t \in Tokens |-> [of |-> None, uses |-> 0, expired |-> FALSE]]
  /\ request = [w \in Workers |-> Idle]
  /\ budget = Events

-----------------------------------------------------------------------------
Event == budget > 0 /\ budget' = budget - 1

IsIdle(w) == request[w].stage = "idle"

Becomes(w, new) == request' = [request EXCEPT ![w] = new]

(* Lines locked FOR UPDATE by an invoice that is being made. *)
Held(l) == \E w \in Workers : request[w].stage = "freezing" /\ l \in request[w].lines

Worth(lines) == SumFunctionOnSet([l \in lines |-> line[l].price], lines)

Altogether(prices) == SumFunctionOnSet([p \in prices |-> p], prices)

Billed(i) == {l \in Lines : line[l].invoice = i}

-----------------------------------------------------------------------------
(* Lines: jobs.add_line_item and inventory's _record_part_line. *)
AddLine(j, l, p) ==
  /\ open[j] # "deleted" /\ line[l] = NoLine /\ Event
  /\ line' = [line EXCEPT ![l] = [NoLine EXCEPT !.job = j, !.price = p]]
  /\ UNCHANGED <<open, invoice, estimate, token, request>>

(* Mutant: the line is edited whether or not it is on an invoice. *)
UpdateLineAnyway(l, p) ==
  /\ line[l] # NoLine /\ ~Held(l) /\ p # line[l].price /\ Event
  /\ line' = [line EXCEPT ![l] = [line[l] EXCEPT !.price = p]]
  /\ UNCHANGED <<open, invoice, estimate, token, request>>

(* UPDATE .. WHERE invoice_id IS NULL waits for the lock and looks again. *)
UpdateLine(l, p) ==
  /\ line[l] # NoLine /\ line[l].invoice = None /\ ~Held(l)
  /\ p # line[l].price /\ Event
  /\ line' = [line EXCEPT ![l] = [line[l] EXCEPT !.price = p]]
  /\ UNCHANGED <<open, invoice, estimate, token, request>>

DeleteLine(l) ==
  /\ line[l] # NoLine /\ line[l].invoice = None /\ ~Held(l) /\ Event
  /\ line' = [line EXCEPT ![l] = NoLine]
  /\ UNCHANGED <<open, invoice, estimate, token, request>>

(* set_status to canceled, from any status but completed. *)
CancelJob(j) ==
  /\ open[j] = "open" /\ Event
  /\ open' = [open EXCEPT ![j] = "canceled"]
  /\ UNCHANGED <<line, invoice, estimate, token, request>>

(* delete: an estimate keeps its job; lines go with it, billed or not. *)
DeleteJob(j) ==
  /\ open[j] # "deleted" /\ \A e \in Estimates : estimate[e].job # j
  /\ \A l \in Lines : line[l].job = j => ~Held(l)
  /\ Event
  /\ open' = [open EXCEPT ![j] = "deleted"]
  /\ line' = [l \in Lines |-> IF line[l].job = j THEN NoLine ELSE line[l]]
  /\ UNCHANGED <<invoice, estimate, token, request>>

-----------------------------------------------------------------------------
(* create_invoice and create_invoice_from_reservation. *)

(* SELECT .. WHERE invoice_id IS NULL FOR UPDATE begins: the rows it sees .. *)
InvoiceReads(w, j) ==
  LET seen == {l \in Lines : line[l].job = j /\ line[l].invoice = None} IN
  /\ IsIdle(w) /\ open[j] # "deleted" /\ seen # {} /\ Event
  /\ Becomes(w, [Idle EXCEPT !.stage = "locking", !.job = j, !.lines = seen])
  /\ UNCHANGED <<open, line, invoice, estimate, token>>

(* Those it saw that are still free when it has locked them. *)
StillFree(w) ==
  {l \in request[w].lines : line[l].job = request[w].job /\ line[l].invoice = None}

(* Mutant: the rows are read without a lock. *)
InvoiceLocksNothing(w) ==
  /\ request[w].stage = "locking"
  /\ Becomes(w, [request[w] EXCEPT !.stage = "freezing", !.total = Worth(request[w].lines)])
  /\ UNCHANGED <<open, line, invoice, estimate, token, budget>>

(* .. it waits for, looks at again and sums up; none left is a 409. *)
InvoiceLocks(w) ==
  /\ request[w].stage = "locking" /\ \A l \in request[w].lines : ~Held(l)
  /\ Becomes(w, IF StillFree(w) = {} THEN Idle
                ELSE [request[w] EXCEPT !.stage = "freezing", !.lines = StillFree(w),
                                        !.total = Worth(StillFree(w))])
  /\ UNCHANGED <<open, line, invoice, estimate, token, budget>>

InvoiceCommits(w, i) ==
  /\ request[w].stage = "freezing" /\ invoice[i] = NoInvoice
  /\ invoice' = [invoice EXCEPT ![i] =
       [NoInvoice EXCEPT !.status = "draft", !.total = request[w].total, !.job = request[w].job]]
  /\ line' = [l \in Lines |->
       IF l \in request[w].lines THEN [line[l] EXCEPT !.invoice = i] ELSE line[l]]
  /\ Becomes(w, Idle)
  /\ UNCHANGED <<open, estimate, token, budget>>

(* void_invoice: the lines are billable work again. *)
Void(i) ==
  /\ invoice[i].status = "draft" /\ Event
  /\ invoice' = [invoice EXCEPT ![i] = [invoice[i] EXCEPT !.status = "void"]]
  /\ line' = [l \in Lines |->
       IF l \in Billed(i) THEN [line[l] EXCEPT !.invoice = None] ELSE line[l]]
  /\ UNCHANGED <<open, estimate, token, request>>

(* Sent and paid (InvoiceLedger): it cannot be voided any more. *)
Pay(i) ==
  /\ invoice[i].status = "draft" /\ Event
  /\ invoice' = [invoice EXCEPT ![i] = [invoice[i] EXCEPT !.status = "paid"]]
  /\ UNCHANGED <<open, line, estimate, token, request>>

-----------------------------------------------------------------------------
(* Estimates. *)

(* create_estimate looks at the job without a lock .. *)
EstimateReads(w, j) ==
  /\ IsIdle(w) /\ open[j] = "open" /\ Event
  /\ Becomes(w, [Idle EXCEPT !.stage = "estimating", !.job = j])
  /\ UNCHANGED <<open, line, invoice, estimate, token>>

(* .. and inserts; the foreign key refuses a job that is gone. *)
EstimateInserts(w, e, prices) ==
  LET j == request[w].job IN
  /\ request[w].stage = "estimating" /\ estimate[e] = NoEstimate /\ prices # {}
  /\ open[j] # "deleted"
  /\ estimate' = [estimate EXCEPT ![e] =
       [NoEstimate EXCEPT !.status = "draft", !.job = j, !.prices = prices]]
  /\ Becomes(w, Idle)
  /\ UNCHANGED <<open, line, invoice, token, budget>>

EstimateFails(w) ==
  /\ request[w].stage = "estimating" /\ open[request[w].job] = "deleted"
  /\ Becomes(w, Idle)
  /\ UNCHANGED <<open, line, invoice, estimate, token, budget>>

(* send_estimate commits the status before it issues the link .. *)
SendEstimate(w, e) ==
  /\ IsIdle(w) /\ estimate[e].status = "draft"
  /\ estimate' = [estimate EXCEPT ![e] = [estimate[e] EXCEPT !.status = "sent"]]
  /\ Becomes(w, [Idle EXCEPT !.stage = "telling", !.estimate = e])
  /\ UNCHANGED <<open, line, invoice, token, budget>>

(* .. and writes the event that mails it, if the customer has an address. *)
SendTells(w, mail) ==
  LET e == request[w].estimate IN
  /\ request[w].stage = "telling"
  /\ estimate' = [estimate EXCEPT ![e] = [estimate[e] EXCEPT !.mailed = mail]]
  /\ Becomes(w, Idle)
  /\ UNCHANGED <<open, line, invoice, token, budget>>

(* portal.get_estimate_approve_token: the status is read .. *)
TokenLooks(w, e) ==
  /\ IsIdle(w) /\ estimate[e].status = "sent" /\ Event
  /\ Becomes(w, [Idle EXCEPT !.stage = "issuing", !.estimate = e])
  /\ UNCHANGED <<open, line, invoice, estimate, token>>

(* .. and the token inserted, whatever became of the estimate. *)
TokenIssues(w, t) ==
  /\ request[w].stage = "issuing" /\ token[t].of = None
  /\ token' = [token EXCEPT ![t] = [token[t] EXCEPT !.of = request[w].estimate]]
  /\ Becomes(w, Idle)
  /\ UNCHANGED <<open, line, invoice, estimate, budget>>

TokenExpires(t) ==
  /\ token[t].of # None /\ ~token[t].expired /\ Event
  /\ token' = [token EXCEPT ![t] = [token[t] EXCEPT !.expired = TRUE]]
  /\ UNCHANGED <<open, line, invoice, estimate, request>>

(* WHERE revoked_at IS NULL AND expires_at > now() AND uses < max_uses. *)
TokenLive(t) == token[t].of # None /\ ~token[t].expired /\ token[t].uses < 1

(* approve_estimate_with_token: status, use and audit row in one transaction; *)
(* an estimate that is no longer "sent" leaves the token as it was. *)
Approve(t) ==
  LET e == token[t].of IN
  /\ TokenLive(t) /\ estimate[e].status = "sent"
  /\ estimate' = [estimate EXCEPT ![e] =
       [estimate[e] EXCEPT !.status = "approved", !.approvals = estimate[e].approvals + 1]]
  /\ token' = [token EXCEPT ![t] = [token[t] EXCEPT !.uses = token[t].uses + 1]]
  /\ UNCHANGED <<open, line, invoice, request, budget>>

(* Mutant: the copies are left for the invoice to pick up. *)
ConvertUnfrozen(e, i) ==
  \E copies \in SUBSET {l \in Lines : line[l] = NoLine} :
  \E f \in [copies -> estimate[e].prices] :
    /\ estimate[e].status = "approved" /\ invoice[i] = NoInvoice
    /\ {f[l] : l \in copies} = estimate[e].prices
    /\ Cardinality(copies) = Cardinality(estimate[e].prices)
    /\ line' = [l \in Lines |->
         IF l \in copies THEN [NoLine EXCEPT !.job = estimate[e].job, !.price = f[l], !.from = e]
         ELSE line[l]]
    /\ invoice' = [invoice EXCEPT ![i] =
         [status |-> "draft", total |-> Altogether(estimate[e].prices), job |-> estimate[e].job,
          estimate |-> e]]
    /\ estimate' = [estimate EXCEPT ![e] = [estimate[e] EXCEPT !.status = "invoiced"]]
    /\ UNCHANGED <<open, token, request, budget>>

(* convert_to_invoice: a copy of each line, frozen as it is inserted. *)
Convert(e, i) ==
  \E copies \in SUBSET {l \in Lines : line[l] = NoLine} :
  \E f \in [copies -> estimate[e].prices] :
    /\ estimate[e].status = "approved" /\ invoice[i] = NoInvoice
    /\ {f[l] : l \in copies} = estimate[e].prices
    /\ Cardinality(copies) = Cardinality(estimate[e].prices)
    /\ line' = [l \in Lines |->
         IF l \in copies
           THEN [job |-> estimate[e].job, price |-> f[l], invoice |-> i, from |-> e]
         ELSE line[l]]
    /\ invoice' = [invoice EXCEPT ![i] =
         [status |-> "draft", total |-> Altogether(estimate[e].prices), job |-> estimate[e].job,
          estimate |-> e]]
    /\ estimate' = [estimate EXCEPT ![e] = [estimate[e] EXCEPT !.status = "invoiced"]]
    /\ UNCHANGED <<open, token, request, budget>>

WorkerDies(w) ==
  /\ ~IsIdle(w) /\ Event
  /\ Becomes(w, Idle)
  /\ UNCHANGED <<open, line, invoice, estimate, token>>

-----------------------------------------------------------------------------
Next ==
  \/ \E j \in Jobs : CancelJob(j) \/ DeleteJob(j)
  \/ \E j \in Jobs, l \in Lines, p \in Prices : AddLine(j, l, p)
  \/ \E l \in Lines, p \in Prices : UpdateLine(l, p)
  \/ \E l \in Lines : DeleteLine(l)
  \/ \E w \in Workers, j \in Jobs : InvoiceReads(w, j) \/ EstimateReads(w, j)
  \/ \E w \in Workers : InvoiceLocks(w) \/ EstimateFails(w) \/ WorkerDies(w)
  \/ \E w \in Workers, i \in Invoices : InvoiceCommits(w, i)
  \/ \E i \in Invoices : Void(i) \/ Pay(i)
  \/ \E w \in Workers, e \in Estimates, prices \in SUBSET Prices : EstimateInserts(w, e, prices)
  \/ \E w \in Workers, e \in Estimates : SendEstimate(w, e) \/ TokenLooks(w, e)
  \/ \E w \in Workers, mail \in BOOLEAN : SendTells(w, mail)
  \/ \E w \in Workers, t \in Tokens : TokenIssues(w, t)
  \/ \E t \in Tokens : TokenExpires(t) \/ Approve(t)
  \/ \E e \in Estimates, i \in Invoices : Convert(e, i)

Spec == Init /\ [][Next]_vars

-----------------------------------------------------------------------------
(* Types of the tables and of the requests in progress. *)
TypeOK ==
  /\ open \in [Jobs -> {"open", "canceled", "deleted"}]
  /\ line \in [Lines -> Line]
  /\ invoice \in [Invoices -> Invoice]
  /\ estimate \in [Estimates -> Estimate]
  /\ token \in [Tokens -> Token]
  /\ request \in [Workers -> Request]
  /\ budget \in Nat

Live(i) == invoice[i].status \in {"draft", "paid"}

(* "the invoice's subtotal is always computed FROM the frozen rows": an      *)
(* invoice asks for what the lines pointing at it are worth, however many    *)
(* requests bill the job and edit its lines at once; one that is void has    *)
(* none.  It stops being true only when the job is deleted.                  *)
(* create_invoice, convert_to_invoice, void_invoice, update_line_item. *)
InvoicesAddUp ==
  \A i \in Invoices :
    /\ Live(i) /\ open[invoice[i].job] # "deleted" => invoice[i].total = Worth(Billed(i))
    /\ ~Live(i) => Billed(i) = {}

(* "bill exactly the approved lines": an invoiced estimate has one invoice   *)
(* for what was approved, and while it stands only that estimate's lines are *)
(* on it; an estimate not yet invoiced has none.  convert_to_invoice. *)
ConversionBillsApproval ==
  \A e \in Estimates :
    LET made == {i \in Invoices : invoice[i].estimate = e} IN
    /\ Cardinality(made) = IF estimate[e].status = "invoiced" THEN 1 ELSE 0
    /\ \A i \in made :
         /\ invoice[i].total = Altogether(estimate[e].prices)
         /\ Live(i) => /\ \A l \in Billed(i) : line[l].from = e
                       /\ {line[l].price : l \in Billed(i)} = estimate[e].prices

(* Of all the links a customer was given for an estimate, one use approves   *)
(* it and none is spent otherwise: "a failed transition does NOT burn the    *)
(* token".  approve_estimate_with_token against conversion and other links. *)
OneApproval ==
  \A e \in Estimates :
    LET spent == {t \in Tokens : token[t].of = e /\ token[t].uses > 0} IN
    /\ estimate[e].approvals = Cardinality(spent)
    /\ Cardinality(spent) = IF estimate[e].status \in {"approved", "invoiced"} THEN 1 ELSE 0

(* An invoiced line is not edited, moved or removed: it leaves its invoice   *)
(* only when that is voided or its job is deleted.  `invoice_id IS NULL`. *)
FrozenLinesStay ==
  [][\A l \in Lines : line[l].invoice # None =>
       \/ line'[l] = line[l]
       \/ line'[l] = [line[l] EXCEPT !.invoice = None] /\ invoice'[line[l].invoice].status = "void"
       \/ open'[line[l].job] = "deleted"]_vars

(* Lines, estimates and invoices agree: jobs.py, estimates.py, invoices.py. *)
LinesConsistent ==
  /\ TypeOK
  /\ InvoicesAddUp
  /\ OneApproval
=============================================================================
