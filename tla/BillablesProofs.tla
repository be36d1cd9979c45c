---------------------------- MODULE BillablesProofs ----------------------------
(***************************************************************************)
(* What Billables keeps for every number of jobs, lines, invoices and      *)
(* requests at once: a line that is on an invoice stays as it is, no two   *)
(* invoices in the making take the same line, an invoice asks for what its *)
(* lines are worth, and an approved estimate is billed once, as approved.  *)
(*                                                                         *)
(* Three layers, each inductive given those before it: who holds which     *)
(* line (IInv), the types, and the books with the approvals (FullInv).     *)
(***************************************************************************)
EXTENDS Billables, Sums, TLAPS

(* Records by their fields; sums of prices are left as they are.             *)
LineOk(r) == DOMAIN r = {"job", "price", "invoice", "from"}

InvoiceOk(r) ==
  /\ DOMAIN r = {"status", "total", "job", "estimate"}
  /\ r.status \in {"none", "draft", "paid", "void"}

RequestOk(r) ==
  /\ DOMAIN r = {"stage", "job", "lines", "total", "estimate"}
  /\ r.lines \subseteq Lines
  /\ r.stage \in {"locking", "freezing"} => r.job \in Jobs

Tables ==
  /\ DOMAIN open = Jobs
  /\ DOMAIN line = Lines /\ \A l \in Lines : LineOk(line[l])
  /\ DOMAIN invoice = Invoices /\ \A i \in Invoices : InvoiceOk(invoice[i])
  /\ DOMAIN request = Workers /\ \A w \in Workers : RequestOk(request[w])

Freezing(w) == request[w].stage = "freezing"

(* A request that freezes lines holds them: they are its job's and on no     *)
(* invoice yet.                                                              *)
FrozenAreFree ==
  \A w \in Workers : Freezing(w) =>
    \A l \in request[w].lines : line[l].invoice = None /\ line[l].job = request[w].job

(* No two requests freeze the same line: create_invoice's                    *)
(* SELECT .. FOR UPDATE, asked again once the rows are locked.               *)
FreezesApart ==
  \A w, v \in Workers :
    w # v /\ Freezing(w) /\ Freezing(v) => request[w].lines \intersect request[v].lines = {}

IInv == Tables /\ FrozenAreFree /\ FreezesApart

USE BillablesAssumption

-----------------------------------------------------------------------------
LEMMA Blank ==
  /\ LineOk(NoLine) /\ NoLine.invoice = None /\ NoLine.job = None
  /\ InvoiceOk(NoInvoice) /\ RequestOk(Idle) /\ Idle.stage = "idle"
  BY DEF LineOk, InvoiceOk, RequestOk, NoLine, NoInvoice, Idle

LEMMA InitEstablishes == Init => IInv
  BY Blank DEF Init, IInv, Tables, FrozenAreFree, FreezesApart, Freezing

(* A step of one request that leaves the lines alone and freezes nothing.    *)
LEMMA RequestStep ==
  ASSUME IInv, NEW w \in Workers, NEW new, Becomes(w, new), RequestOk(new),
         new.stage # "freezing", UNCHANGED line,
         DOMAIN open' = Jobs,
         DOMAIN invoice' = Invoices, \A i \in Invoices : InvoiceOk(invoice'[i])
  PROVE  IInv'
<1>1. /\ DOMAIN request' = Workers /\ request'[w] = new
      /\ \A v \in Workers \ {w} : request'[v] = request[v]
  BY DEF Becomes, IInv, Tables
<1>2. Tables'
  BY <1>1 DEF IInv, Tables
<1>3. FrozenAreFree' /\ FreezesApart'
  BY <1>1 DEF IInv, FrozenAreFree, FreezesApart, Freezing
<1> QED
  BY <1>2, <1>3 DEF IInv

(* A step that leaves the requests alone and the lines they freeze.          *)
LEMMA TableStep ==
  ASSUME IInv, UNCHANGED request, DOMAIN open' = Jobs,
         DOMAIN invoice' = Invoices, \A i \in Invoices : InvoiceOk(invoice'[i]),
         DOMAIN line' = Lines, \A l \in Lines : LineOk(line'[l]),
         \A l \in Lines : \/ ~Held(l)
                          \/ line'[l] = line[l]
                          \/ line[l].invoice # None
  PROVE  IInv'
<1>1. Tables'
  BY DEF IInv, Tables
<1>2. FrozenAreFree'
  <2> SUFFICES ASSUME NEW w \in Workers, Freezing(w), NEW l \in request[w].lines
               PROVE  line'[l].invoice = None /\ line'[l].job = request[w].job
    BY DEF FrozenAreFree, Freezing
  <2>1. l \in Lines /\ line[l].invoice = None /\ line[l].job = request[w].job /\ Held(l)
    BY DEF IInv, Tables, RequestOk, FrozenAreFree, Freezing, Held
  <2> QED
    BY <2>1
<1>3. FreezesApart'
  BY DEF IInv, FreezesApart, Freezing
<1> QED
  BY <1>1, <1>2, <1>3 DEF IInv

LEMMA UnusedNotHeld ==
  ASSUME IInv, NEW l \in Lines, line[l] = NoLine
  PROVE  ~Held(l)
<1>1. line[l].job = None
  BY Blank
<1>2. \A w \in Workers : Freezing(w) => request[w].job \in Jobs
  BY DEF IInv, Tables, RequestOk, Freezing
<1> QED
  BY <1>1, <1>2 DEF Held, IInv, FrozenAreFree, Freezing

-----------------------------------------------------------------------------
(* Lines and jobs.                                                           *)

LEMMA AddLineKeeps ==
  ASSUME IInv, NEW j \in Jobs, NEW l \in Lines, NEW p, AddLine(j, l, p)
  PROVE  IInv'
<1>1. UNCHANGED <<open, invoice, request>> /\ line[l] = NoLine
      /\ line' = [line EXCEPT ![l] = [NoLine EXCEPT !.job = j, !.price = p]]
  BY DEF AddLine
<1>2. LineOk([NoLine EXCEPT !.job = j, !.price = p])
  BY DEF LineOk, NoLine
<1> QED
  BY <1>1, <1>2, UnusedNotHeld, TableStep DEF IInv, Tables

LEMMA UpdateLineKeeps ==
  ASSUME IInv, NEW l \in Lines, NEW p, UpdateLine(l, p)
  PROVE  IInv'
<1>1. UNCHANGED <<open, invoice, request>> /\ ~Held(l)
      /\ line' = [line EXCEPT ![l] = [line[l] EXCEPT !.price = p]]
  BY DEF UpdateLine
<1>2. LineOk([line[l] EXCEPT !.price = p])
  BY DEF IInv, Tables, LineOk
<1> QED
  BY <1>1, <1>2, TableStep DEF IInv, Tables

LEMMA DeleteLineKeeps ==
  ASSUME IInv, NEW l \in Lines, DeleteLine(l)
  PROVE  IInv'
<1>1. UNCHANGED <<open, invoice, request>> /\ ~Held(l) /\ line' = [line EXCEPT ![l] = NoLine]
  BY DEF DeleteLine
<1> QED
  BY <1>1, Blank, TableStep DEF IInv, Tables

LEMMA JobsKeep ==
  ASSUME IInv, NEW j \in Jobs, CancelJob(j) \/ DeleteJob(j)
  PROVE  IInv'
<1>1. CASE CancelJob(j)
  <2>1. UNCHANGED <<line, invoice, request>> /\ DOMAIN open' = Jobs
    BY <1>1 DEF CancelJob, IInv, Tables
  <2> QED
    BY <2>1, TableStep DEF IInv, Tables
<1>2. CASE DeleteJob(j)
  <2>1. /\ UNCHANGED <<invoice, request>> /\ DOMAIN open' = Jobs
        /\ \A l \in Lines : line[l].job = j => ~Held(l)
        /\ line' = [l \in Lines |-> IF line[l].job = j THEN NoLine ELSE line[l]]
    BY <1>2 DEF DeleteJob, IInv, Tables
  <2> QED
    BY <2>1, Blank, TableStep DEF IInv, Tables
<1> QED
  BY <1>1, <1>2

-----------------------------------------------------------------------------
(* Invoices.                                                                 *)

LEMMA InvoiceReadsKeeps ==
  ASSUME IInv, NEW w \in Workers, NEW j \in Jobs, InvoiceReads(w, j)
  PROVE  IInv'
<1> DEFINE seen == {l \in Lines : line[l].job = j /\ line[l].invoice = None}
           new == [Idle EXCEPT !.stage = "locking", !.job = j, !.lines = seen]
<1>1. Becomes(w, new) /\ UNCHANGED <<open, line, invoice>>
  BY DEF InvoiceReads
<1>2. RequestOk(new) /\ new.stage # "freezing"
  BY DEF RequestOk, Idle
<1> HIDE DEF new
<1> QED
  BY <1>1, <1>2, RequestStep DEF IInv, Tables

LEMMA InvoiceLocksKeeps ==
  ASSUME IInv, NEW w \in Workers, InvoiceLocks(w)
  PROVE  IInv'
<1> DEFINE free == StillFree(w)
           new == [request[w] EXCEPT !.stage = "freezing", !.lines = free,
                                        !.total = Worth(free)]
<1>1. /\ request[w].stage = "locking" /\ \A l \in request[w].lines : ~Held(l)
      /\ Becomes(w, IF free = {} THEN Idle ELSE new)
      /\ UNCHANGED <<open, line, invoice>>
  BY DEF InvoiceLocks
<1>2. CASE free = {}
  BY <1>1, <1>2, Blank, RequestStep DEF IInv, Tables
<1>3. CASE free # {}
  <2>1. RequestOk(request[w])
    BY DEF IInv, Tables
  <2>2. free \subseteq request[w].lines
        /\ \A l \in free : line[l].job = request[w].job /\ line[l].invoice = None
    BY DEF StillFree
  <2> HIDE DEF free
  <2>3. /\ new.stage = "freezing" /\ new.job = request[w].job /\ new.lines = free
        /\ RequestOk(new)
    BY <1>1, <2>1, <2>2 DEF RequestOk
  <2> HIDE DEF new
  <2>4. /\ DOMAIN request' = Workers /\ request'[w] = new
        /\ \A v \in Workers \ {w} : request'[v] = request[v]
    BY <1>1, <1>3 DEF Becomes, IInv, Tables
  <2>5. Tables'
    BY <1>1, <2>3, <2>4 DEF IInv, Tables
  <2>6. FrozenAreFree'
    BY <1>1, <2>2, <2>3, <2>4 DEF IInv, FrozenAreFree, Freezing
  <2>7. \A v \in Workers : Freezing(v) => request[v].lines \intersect free = {}
    BY <1>1, <2>2 DEF Held, Freezing
  <2>8. FreezesApart'
    BY <2>3, <2>4, <2>7 DEF IInv, FreezesApart, Freezing
  <2> QED
    BY <2>5, <2>6, <2>8 DEF IInv
<1> QED
  BY <1>2, <1>3

LEMMA InvoiceCommitsKeeps ==
  ASSUME IInv, NEW w \in Workers, NEW i \in Invoices, InvoiceCommits(w, i)
  PROVE  IInv'
<1> DEFINE mine == request[w].lines
           made == [NoInvoice EXCEPT !.status = "draft", !.total = request[w].total,
                                     !.job = request[w].job]
<1>1. /\ Freezing(w) /\ UNCHANGED open
      /\ invoice' = [invoice EXCEPT ![i] = made]
      /\ line' = [l \in Lines |->
           IF l \in mine THEN [line[l] EXCEPT !.invoice = i] ELSE line[l]]
      /\ Becomes(w, Idle)
  BY DEF InvoiceCommits, Freezing
<1>2. InvoiceOk(made)
  BY DEF InvoiceOk, NoInvoice
<1> HIDE DEF made
<1>3. /\ DOMAIN request' = Workers /\ request'[w] = Idle
      /\ \A v \in Workers \ {w} : request'[v] = request[v]
  BY <1>1 DEF Becomes, IInv, Tables
<1>4. \A l \in Lines : LineOk([line[l] EXCEPT !.invoice = i])
  BY DEF IInv, Tables, LineOk
<1>5. Tables'
  BY <1>1, <1>2, <1>3, <1>4, Blank DEF IInv, Tables
<1>6. \A v \in Workers \ {w} : Freezing(v) => request[v].lines \intersect mine = {}
  BY <1>1 DEF IInv, FreezesApart
<1>7. FrozenAreFree'
  <2> SUFFICES ASSUME NEW v \in Workers, Freezing(v)', NEW l \in request'[v].lines
               PROVE  line'[l].invoice = None /\ line'[l].job = request'[v].job
    BY DEF FrozenAreFree
  <2>1. v # w /\ request'[v] = request[v] /\ Freezing(v)
    BY <1>3, Blank DEF Freezing
  <2>2. l \in Lines /\ line'[l] = line[l]
    BY <1>1, <1>6, <2>1 DEF IInv, Tables, RequestOk
  <2> QED
    BY <2>1, <2>2 DEF IInv, FrozenAreFree
<1>8. FreezesApart'
  BY <1>3, Blank DEF IInv, FreezesApart, Freezing
<1> QED
  BY <1>5, <1>7, <1>8 DEF IInv

LEMMA InvoiceEndsKeep ==
  ASSUME IInv, NEW i \in Invoices, Void(i) \/ Pay(i)
  PROVE  IInv'
<1>1. UNCHANGED <<open, request>>
  BY DEF Void, Pay
<1>2. DOMAIN invoice' = Invoices /\ \A k \in Invoices : InvoiceOk(invoice'[k])
  <2>1. PICK status \in {"void", "paid"} :
          invoice' = [invoice EXCEPT ![i] = [invoice[i] EXCEPT !.status = status]]
    BY DEF Void, Pay
  <2> DEFINE ended == [invoice[i] EXCEPT !.status = status]
  <2>2. InvoiceOk(ended)
    BY DEF IInv, Tables, InvoiceOk
  <2>3. invoice' = [invoice EXCEPT ![i] = ended]
    BY <2>1
  <2> HIDE DEF ended
  <2> QED
    BY <2>2, <2>3 DEF IInv, Tables
<1>3. /\ DOMAIN line' = Lines /\ \A l \in Lines : LineOk(line'[l])
      /\ \A l \in Lines : line'[l] = line[l] \/ line[l].invoice # None
  <2>1. CASE Pay(i)
    BY <2>1 DEF Pay, IInv, Tables
  <2>2. CASE Void(i)
    <3>1. line' = [l \in Lines |->
            IF l \in Billed(i) THEN [line[l] EXCEPT !.invoice = None] ELSE line[l]]
      BY <2>2 DEF Void
    <3>2. \A l \in Lines : LineOk([line[l] EXCEPT !.invoice = None])
      BY DEF IInv, Tables, LineOk
    <3>3. \A l \in Billed(i) : line[l].invoice # None
      BY DEF Billed
    <3> QED
      BY <3>1, <3>2, <3>3 DEF IInv, Tables
  <2> QED
    BY <2>1, <2>2
<1> QED
  BY <1>1, <1>2, <1>3, TableStep DEF IInv, Tables

-----------------------------------------------------------------------------
(* Estimates.                                                                *)

LEMMA ConvertKeeps ==
  ASSUME IInv, NEW e \in Estimates, NEW i \in Invoices, Convert(e, i)
  PROVE  IInv'
<1> DEFINE made == [status |-> "draft", total |-> Altogether(estimate[e].prices),
                    job |-> estimate[e].job, estimate |-> e]
<1>0. PICK copies \in SUBSET {l \in Lines : line[l] = NoLine} :
      \E f \in [copies -> estimate[e].prices] :
        /\ line' = [l \in Lines |->
             IF l \in copies
               THEN [job |-> estimate[e].job, price |-> f[l], invoice |-> i, from |-> e]
             ELSE line[l]]
        /\ invoice' = [invoice EXCEPT ![i] = made]
        /\ UNCHANGED <<open, request>>
  BY DEF Convert
<1>1. PICK f \in [copies -> estimate[e].prices] :
        /\ line' = [l \in Lines |->
             IF l \in copies
               THEN [job |-> estimate[e].job, price |-> f[l], invoice |-> i, from |-> e]
             ELSE line[l]]
        /\ invoice' = [invoice EXCEPT ![i] = made]
        /\ UNCHANGED <<open, request>>
  BY <1>0
<1>2. InvoiceOk(made)
  BY DEF InvoiceOk
<1> HIDE DEF made
<1>3. \A l \in Lines : LineOk(line'[l])
  <2>1. \A x : LineOk([job |-> estimate[e].job, price |-> x, invoice |-> i, from |-> e])
    BY DEF LineOk
  <2> QED
    BY <1>1, <2>1 DEF IInv, Tables
<1>4. \A l \in Lines : ~Held(l) \/ line'[l] = line[l]
  BY <1>1, UnusedNotHeld
<1> QED
  BY <1>1, <1>2, <1>3, <1>4, TableStep DEF IInv, Tables

LEMMA EstimateStepsKeep ==
  ASSUME IInv, NEW w \in Workers, NEW j, NEW e, NEW prices, NEW mail, NEW t,
         \/ EstimateReads(w, j) \/ EstimateInserts(w, e, prices) \/ EstimateFails(w)
         \/ SendEstimate(w, e) \/ SendTells(w, mail) \/ TokenLooks(w, e)
         \/ TokenIssues(w, t) \/ WorkerDies(w)
  PROVE  IInv'
<1>1. UNCHANGED <<open, line, invoice>>
  BY DEF EstimateReads, EstimateInserts, EstimateFails, SendEstimate, SendTells, TokenLooks,
         TokenIssues, WorkerDies
<1>2. /\ RequestOk([Idle EXCEPT !.stage = "estimating", !.job = j])
      /\ RequestOk([Idle EXCEPT !.stage = "telling", !.estimate = e])
      /\ RequestOk([Idle EXCEPT !.stage = "issuing", !.estimate = e])
  BY DEF RequestOk, Idle
<1>3. /\ [Idle EXCEPT !.stage = "estimating", !.job = j].stage # "freezing"
      /\ [Idle EXCEPT !.stage = "telling", !.estimate = e].stage # "freezing"
      /\ [Idle EXCEPT !.stage = "issuing", !.estimate = e].stage # "freezing"
  BY DEF Idle
<1>4. \E new : Becomes(w, new) /\ RequestOk(new) /\ new.stage # "freezing"
  <2>1. CASE EstimateReads(w, j)
    BY <2>1, <1>2, <1>3 DEF EstimateReads
  <2>2. CASE SendEstimate(w, e)
    BY <2>2, <1>2, <1>3 DEF SendEstimate
  <2>3. CASE TokenLooks(w, e)
    BY <2>3, <1>2, <1>3 DEF TokenLooks
  <2>4. CASE \/ EstimateInserts(w, e, prices) \/ EstimateFails(w) \/ SendTells(w, mail)
             \/ TokenIssues(w, t) \/ WorkerDies(w)
    BY <2>4, Blank DEF EstimateInserts, EstimateFails, SendTells, TokenIssues, WorkerDies
  <2> QED
    BY <2>1, <2>2, <2>3, <2>4
<1>5. PICK new : Becomes(w, new) /\ RequestOk(new) /\ new.stage # "freezing"
  BY <1>4
<1> QED
  BY <1>1, <1>5, RequestStep DEF IInv, Tables

LEMMA TokensKeep ==
  ASSUME IInv, NEW t \in Tokens, TokenExpires(t) \/ Approve(t)
  PROVE  IInv'
<1>1. UNCHANGED <<open, line, invoice, request>>
  BY DEF TokenExpires, Approve
<1> QED
  BY <1>1, TableStep DEF IInv, Tables

-----------------------------------------------------------------------------
LEMMA NextKeeps == IInv /\ [Next]_vars => IInv'
<1> SUFFICES ASSUME IInv, [Next]_vars  PROVE IInv'
  OBVIOUS
<1>1. CASE UNCHANGED vars
  BY <1>1, TableStep DEF vars, IInv, Tables
<1>2. ASSUME NEW j \in Jobs, CancelJob(j) \/ DeleteJob(j)  PROVE IInv'
  BY <1>2, JobsKeep
<1>3. ASSUME NEW l \in Lines, NEW p \in Prices,
             UpdateLine(l, p) \/ \E j \in Jobs : AddLine(j, l, p)
      PROVE  IInv'
  BY <1>3, AddLineKeeps, UpdateLineKeeps
<1>4. ASSUME NEW w \in Workers, NEW j \in Jobs, InvoiceReads(w, j)  PROVE IInv'
  BY <1>4, InvoiceReadsKeeps
<1>5. ASSUME NEW w \in Workers, InvoiceLocks(w)  PROVE IInv'
  BY <1>5, InvoiceLocksKeeps
<1>6. ASSUME NEW w \in Workers, NEW i \in Invoices, InvoiceCommits(w, i)  PROVE IInv'
  BY <1>6, InvoiceCommitsKeeps
<1>7. ASSUME NEW i \in Invoices, Void(i) \/ Pay(i)  PROVE IInv'
  BY <1>7, InvoiceEndsKeep
<1>8. ASSUME NEW w \in Workers,
             \/ \E j \in Jobs : EstimateReads(w, j)
             \/ \E e \in Estimates : SendEstimate(w, e) \/ TokenLooks(w, e)
             \/ \E e \in Estimates, prices \in SUBSET Prices : EstimateInserts(w, e, prices)
             \/ \E mail \in BOOLEAN : SendTells(w, mail)
             \/ \E t \in Tokens : TokenIssues(w, t)
             \/ EstimateFails(w) \/ WorkerDies(w)
      PROVE  IInv'
  BY <1>8, EstimateStepsKeep
<1>9. ASSUME NEW t \in Tokens, TokenExpires(t) \/ Approve(t)  PROVE IInv'
  BY <1>9, TokensKeep
<1>10. ASSUME NEW e \in Estimates, NEW i \in Invoices, Convert(e, i)  PROVE IInv'
  BY <1>10, ConvertKeeps
<1>11. ASSUME NEW l \in Lines, DeleteLine(l)  PROVE IInv'
  BY <1>11, DeleteLineKeeps
<1> QED
  BY <1>1, <1>2, <1>3, <1>4, <1>5, <1>6, <1>7, <1>8, <1>9, <1>10, <1>11 DEF Next

LEMMA Invariance == Spec => []IInv
  BY InitEstablishes, NextKeeps, PTL DEF Spec

-----------------------------------------------------------------------------
(* Types.                                                                    *)

USE FiniteAssumption

LEMMA WorthIsNat ==
  ASSUME TypeOK, NEW S \in SUBSET Lines
  PROVE  Worth(S) \in Nat
<1> DEFINE f == [l \in S |-> line[l].price]
<1>1. IsFiniteSet(S)
  BY FS_Subset
<1>2. \A l \in S : f[l] \in Nat
  BY DEF TypeOK, Line
<1> HIDE DEF f
<1>3. SumFunctionOnSet(f, S) \in Nat
  BY <1>1, <1>2, SumIsNat
<1> QED
  BY <1>3 DEF Worth, f

LEMMA AltogetherIsNat ==
  ASSUME NEW P \in SUBSET Prices
  PROVE  Altogether(P) \in Nat
<1> DEFINE f == [p \in P |-> p]
<1>1. IsFiniteSet(P)
  BY FS_Subset
<1>2. \A p \in P : f[p] \in Nat
  OBVIOUS
<1> HIDE DEF f
<1>3. SumFunctionOnSet(f, P) \in Nat
  BY <1>1, <1>2, SumIsNat
<1> QED
  BY <1>3 DEF Altogether, f

LEMMA InitTypes == Init => TypeOK
  BY DEF Init, TypeOK, Line, NoLine, Invoice, NoInvoice, Estimate, NoEstimate, Token, Request,
         Idle

LEMMA BudgetFalls ==
  ASSUME budget \in Nat, Event
  PROVE  budget' \in Nat
  BY DEF Event

(* What the steps write into a row. *)
LEMMA RowTypes ==
  ASSUME TypeOK
  PROVE  /\ \A l \in Lines : line[l] \in Line
         /\ \A w \in Workers : request[w] \in Request
         /\ \A j \in Jobs, p \in Prices : [NoLine EXCEPT !.job = j, !.price = p] \in Line
         /\ NoLine \in Line /\ Idle \in Request
         /\ \A r \in Line : \A p \in Prices : [r EXCEPT !.price = p] \in Line
         /\ \A r \in Line : \A i \in Invoices \union {None} : [r EXCEPT !.invoice = i] \in Line
         /\ \A r \in Request : [NoInvoice EXCEPT !.status = "draft", !.total = r.total,
                                                 !.job = r.job] \in Invoice
         /\ \A r \in Invoice : /\ [r EXCEPT !.status = "void"] \in Invoice
                               /\ [r EXCEPT !.status = "paid"] \in Invoice
<1>1. NoLine \in Line /\ Idle \in Request /\ NoInvoice \in Invoice
  BY DEF NoLine, Line, Idle, Request, NoInvoice, Invoice
<1>2. \A j \in Jobs, p \in Prices : [NoLine EXCEPT !.job = j, !.price = p] \in Line
  BY DEF NoLine, Line
<1>3. \A r \in Line : \A p \in Prices : [r EXCEPT !.price = p] \in Line
  BY DEF Line
<1>4. \A r \in Line : \A i \in Invoices \union {None} : [r EXCEPT !.invoice = i] \in Line
  BY DEF Line
<1>5. \A r \in Request : [NoInvoice EXCEPT !.status = "draft", !.total = r.total,
                                           !.job = r.job] \in Invoice
  BY DEF NoInvoice, Invoice, Request
<1>6. \A r \in Invoice : /\ [r EXCEPT !.status = "void"] \in Invoice
                         /\ [r EXCEPT !.status = "paid"] \in Invoice
  BY DEF Invoice
<1> QED
  BY <1>1, <1>2, <1>3, <1>4, <1>5, <1>6 DEF TypeOK

(* Steps on lines and jobs. *)
LEMMA AddLineTypes ==
  ASSUME TypeOK, NEW j \in Jobs, NEW l \in Lines, NEW p \in Prices, AddLine(j, l, p)
  PROVE  TypeOK'
<1> DEFINE new == [NoLine EXCEPT !.job = j, !.price = p]
<1>1. /\ line' = [line EXCEPT ![l] = new] /\ budget' \in Nat
      /\ UNCHANGED <<open, invoice, estimate, token, request>>
  BY DEF AddLine, Event, TypeOK
<1>2. new \in Line
  BY RowTypes
<1> HIDE DEF new
<1> QED
  BY <1>1, <1>2 DEF TypeOK

LEMMA UpdateLineTypes ==
  ASSUME TypeOK, NEW l \in Lines, NEW p \in Prices, UpdateLine(l, p)
  PROVE  TypeOK'
<1> DEFINE new == [line[l] EXCEPT !.price = p]
<1>1. /\ line' = [line EXCEPT ![l] = new] /\ budget' \in Nat
      /\ UNCHANGED <<open, invoice, estimate, token, request>>
  BY DEF UpdateLine, Event, TypeOK
<1>2. new \in Line
  BY RowTypes
<1> HIDE DEF new
<1> QED
  BY <1>1, <1>2 DEF TypeOK

LEMMA DeleteLineTypes ==
  ASSUME TypeOK, NEW l \in Lines, DeleteLine(l)
  PROVE  TypeOK'
<1> DEFINE new == NoLine
<1>1. /\ line' = [line EXCEPT ![l] = new] /\ budget' \in Nat
      /\ UNCHANGED <<open, invoice, estimate, token, request>>
  BY DEF DeleteLine, Event, TypeOK
<1>2. new \in Line
  BY RowTypes
<1> HIDE DEF new
<1> QED
  BY <1>1, <1>2 DEF TypeOK

LEMMA JobTypes ==
  ASSUME TypeOK, NEW j \in Jobs, CancelJob(j) \/ DeleteJob(j)
  PROVE  TypeOK'
<1>1. CASE CancelJob(j)
  BY <1>1 DEF TypeOK, CancelJob, Event
<1>2. CASE DeleteJob(j)
  <2>1. /\ UNCHANGED <<invoice, estimate, token, request>> /\ budget' \in Nat
        /\ open' \in [Jobs -> {"open", "canceled", "deleted"}]
        /\ line' = [l \in Lines |-> IF line[l].job = j THEN NoLine ELSE line[l]]
    BY <1>2 DEF TypeOK, DeleteJob, Event
  <2>2. line' \in [Lines -> Line]
    BY <2>1, RowTypes
  <2> QED
    BY <2>1, <2>2 DEF TypeOK
<1> QED
  BY <1>1, <1>2

(* A request moves on and nothing else does, but the budget. *)
LEMMA RequestTypes ==
  ASSUME TypeOK, NEW w \in Workers, NEW new \in Request, Becomes(w, new),
         UNCHANGED <<open, line, invoice, estimate, token>>, budget' \in Nat
  PROVE  TypeOK'
  BY DEF TypeOK, Becomes

LEMMA InvoiceReadsTypes ==
  ASSUME TypeOK, NEW w \in Workers, NEW j \in Jobs, InvoiceReads(w, j)
  PROVE  TypeOK'
<1> DEFINE seen == {l \in Lines : line[l].job = j /\ line[l].invoice = None}
           new == [Idle EXCEPT !.stage = "locking", !.job = j, !.lines = seen]
<1>1. Becomes(w, new) /\ UNCHANGED <<open, line, invoice, estimate, token>> /\ budget' \in Nat
  BY DEF InvoiceReads, Event, TypeOK
<1>2. new \in Request
  BY DEF Idle, Request
<1> HIDE DEF new
<1> QED
  BY <1>1, <1>2, RequestTypes

LEMMA InvoiceLocksTypes ==
  ASSUME TypeOK, NEW w \in Workers, InvoiceLocks(w)
  PROVE  TypeOK'
<1> DEFINE free == StillFree(w)
           new == [request[w] EXCEPT !.stage = "freezing", !.lines = free,
                                     !.total = Worth(free)]
<1>1. /\ Becomes(w, IF free = {} THEN Idle ELSE new) /\ budget' \in Nat
      /\ UNCHANGED <<open, line, invoice, estimate, token>>
  BY DEF InvoiceLocks, TypeOK
<1>2. request[w] \in Request
  BY RowTypes
<1>3. free \in SUBSET Lines
  BY <1>2 DEF StillFree, Request
<1>4. Worth(free) \in Nat
  BY <1>3, WorthIsNat
<1> HIDE DEF free
<1>5. new \in Request
  BY <1>2, <1>3, <1>4 DEF Request
<1> HIDE DEF new
<1> QED
  BY <1>1, <1>5, RowTypes, RequestTypes

LEMMA InvoiceCommitsTypes ==
  ASSUME TypeOK, NEW w \in Workers, NEW i \in Invoices, InvoiceCommits(w, i)
  PROVE  TypeOK'
<1>1. UNCHANGED <<open, estimate, token, budget>> /\ request' = [request EXCEPT ![w] = Idle]
  BY DEF InvoiceCommits, Becomes
<1>2. invoice' \in [Invoices -> Invoice]
  BY RowTypes DEF InvoiceCommits, TypeOK
<1>3. line' \in [Lines -> Line]
  BY RowTypes DEF InvoiceCommits, TypeOK
<1> QED
  BY <1>1, <1>2, <1>3, RowTypes DEF TypeOK

LEMMA VoidTypes ==
  ASSUME TypeOK, NEW i \in Invoices, Void(i) \/ Pay(i)
  PROVE  TypeOK'
<1>1. UNCHANGED <<open, estimate, token, request>> /\ budget' \in Nat
  BY DEF Void, Pay, Event, TypeOK
<1>2. invoice[i] \in Invoice
  BY DEF TypeOK
<1>3. invoice' \in [Invoices -> Invoice]
  BY <1>2, RowTypes DEF Void, Pay, TypeOK
<1>4. line' \in [Lines -> Line]
  <2>1. \A l \in Lines : [line[l] EXCEPT !.invoice = None] \in Line
    BY RowTypes
  <2>2. CASE Void(i)
    <3>1. line' = [l \in Lines |->
            IF l \in Billed(i) THEN [line[l] EXCEPT !.invoice = None] ELSE line[l]]
      BY <2>2 DEF Void
    <3> QED
      BY <2>1, <3>1 DEF TypeOK
  <2>3. CASE Pay(i)
    BY <2>3 DEF Pay, TypeOK
  <2> QED
    BY <2>2, <2>3
<1> QED
  BY <1>1, <1>3, <1>4 DEF TypeOK

(* Steps on estimates and their links. *)
LEMMA LookTypes ==
  ASSUME TypeOK, NEW w \in Workers,
         \/ \E j \in Jobs : EstimateReads(w, j)
         \/ \E e \in Estimates : TokenLooks(w, e)
         \/ EstimateFails(w) \/ WorkerDies(w)
  PROVE  TypeOK'
<1>1. UNCHANGED <<open, line, invoice, estimate, token>>
  BY DEF EstimateReads, TokenLooks, EstimateFails, WorkerDies
<1>0. budget' \in Nat
  <2>1. UNCHANGED budget \/ Event
    BY DEF EstimateReads, TokenLooks, EstimateFails, WorkerDies
  <2> QED
    BY <2>1 DEF Event, TypeOK
<1>2. /\ \A j \in Jobs : [Idle EXCEPT !.stage = "estimating", !.job = j] \in Request
      /\ \A e \in Estimates : [Idle EXCEPT !.stage = "issuing", !.estimate = e] \in Request
  BY DEF Idle, Request
<1>3. \E new \in Request : Becomes(w, new)
  BY <1>2, RowTypes DEF EstimateReads, TokenLooks, EstimateFails, WorkerDies
<1> QED
  BY <1>0, <1>1, <1>3, RequestTypes

LEMMA EstimateInsertsTypes ==
  ASSUME TypeOK, NEW w \in Workers, NEW e \in Estimates, NEW prices \in SUBSET Prices,
         EstimateInserts(w, e, prices)
  PROVE  TypeOK'
<1> DEFINE new == [NoEstimate EXCEPT !.status = "draft", !.job = request[w].job,
                                     !.prices = prices]
<1>1. /\ estimate' = [estimate EXCEPT ![e] = new]
      /\ request' = [request EXCEPT ![w] = Idle]
      /\ UNCHANGED <<open, line, invoice, token, budget>>
  BY DEF EstimateInserts, Becomes
<1>2. new \in Estimate
  BY RowTypes DEF Request, NoEstimate, Estimate
<1> HIDE DEF new
<1> QED
  BY <1>1, <1>2, RowTypes DEF TypeOK

LEMMA EstimateSentTypes ==
  ASSUME TypeOK, NEW w \in Workers, NEW e \in Estimates, SendEstimate(w, e)
  PROVE  TypeOK'
<1> DEFINE new == [Idle EXCEPT !.stage = "telling", !.estimate = e]
           sent == [estimate[e] EXCEPT !.status = "sent"]
<1>1. /\ estimate' = [estimate EXCEPT ![e] = sent]
      /\ request' = [request EXCEPT ![w] = new]
      /\ UNCHANGED <<open, line, invoice, token, budget>>
  BY DEF SendEstimate, Becomes
<1>2. new \in Request
  BY DEF Idle, Request
<1>3. estimate[e] \in Estimate
  BY DEF TypeOK
<1>4. sent \in Estimate
  BY <1>3 DEF Estimate
<1> HIDE DEF new, sent
<1> QED
  BY <1>1, <1>2, <1>4 DEF TypeOK

LEMMA SendTellsTypes ==
  ASSUME TypeOK, NEW w \in Workers, NEW mail \in BOOLEAN, SendTells(w, mail)
  PROVE  TypeOK'
<1> DEFINE e == request[w].estimate
           told == [estimate[e] EXCEPT !.mailed = mail]
<1>1. /\ estimate' = [estimate EXCEPT ![e] = told]
      /\ request' = [request EXCEPT ![w] = Idle]
      /\ UNCHANGED <<open, line, invoice, token, budget>>
  BY DEF SendTells, Becomes
<1>2. CASE e \in Estimates
  <2>1. told \in Estimate
    BY <1>2 DEF TypeOK, Estimate
  <2> HIDE DEF told, e
  <2> QED
    BY <1>1, <2>1, RowTypes DEF TypeOK
<1>3. CASE e \notin Estimates
  <2>1. estimate' = estimate
    BY <1>1, <1>3 DEF TypeOK
  <2> QED
    BY <1>1, <2>1, RowTypes DEF TypeOK
<1> QED
  BY <1>2, <1>3

LEMMA TokenIssuesTypes ==
  ASSUME TypeOK, NEW w \in Workers, NEW t \in Tokens, TokenIssues(w, t)
  PROVE  TypeOK'
<1> DEFINE new == [token[t] EXCEPT !.of = request[w].estimate]
<1>1. /\ token' = [token EXCEPT ![t] = new]
      /\ request' = [request EXCEPT ![w] = Idle]
      /\ UNCHANGED <<open, line, invoice, estimate, budget>>
  BY DEF TokenIssues, Becomes
<1>2. token[t] \in Token /\ request[w].estimate \in Estimates \union {None}
  BY RowTypes DEF Request, TypeOK
<1>3. new \in Token
  BY <1>2 DEF Token
<1> HIDE DEF new
<1> QED
  BY <1>1, <1>3, RowTypes DEF TypeOK

LEMMA TokenExpiresTypes ==
  ASSUME TypeOK, NEW t \in Tokens, TokenExpires(t)
  PROVE  TypeOK'
<1> DEFINE new == [token[t] EXCEPT !.expired = TRUE]
<1>1. /\ token' = [token EXCEPT ![t] = new] /\ budget' \in Nat
      /\ UNCHANGED <<open, line, invoice, estimate, request>>
  BY DEF TokenExpires, Event, TypeOK
<1>2. token[t] \in Token
  BY DEF TypeOK
<1>3. new \in Token
  BY <1>2 DEF Token
<1> HIDE DEF new
<1> QED
  BY <1>1, <1>3 DEF TypeOK

LEMMA ApproveTypes ==
  ASSUME TypeOK, NEW t \in Tokens, Approve(t)
  PROVE  TypeOK'
<1> DEFINE e == token[t].of
           new == [estimate[e] EXCEPT !.status = "approved",
                                      !.approvals = estimate[e].approvals + 1]
           used == [token[t] EXCEPT !.uses = token[t].uses + 1]
<1>1. /\ estimate' = [estimate EXCEPT ![e] = new]
      /\ token' = [token EXCEPT ![t] = used]
      /\ UNCHANGED <<open, line, invoice, request, budget>>
  BY DEF Approve
<1>2. e \in Estimates
  BY DEF Approve, TokenLive, TypeOK, Token
<1>3. estimate[e] \in Estimate /\ token[t] \in Token
  BY <1>2 DEF TypeOK
<1>4. new \in Estimate
  <2>1. \A r \in Estimate : \A n \in Nat :
          [r EXCEPT !.status = "approved", !.approvals = n] \in Estimate
    BY Zenon DEF Estimate
  <2>2. estimate[e].approvals + 1 \in Nat
    BY <1>3 DEF Estimate
  <2> QED
    BY <1>3, <2>1, <2>2
<1>5. used \in Token
  BY <1>3 DEF Token
<1> HIDE DEF new, used, e
<1> QED
  BY <1>1, <1>2, <1>4, <1>5 DEF TypeOK

LEMMA ConvertTypes ==
  ASSUME TypeOK, NEW e \in Estimates, NEW i \in Invoices, Convert(e, i)
  PROVE  TypeOK'
<1> DEFINE made == [status |-> "draft", total |-> Altogether(estimate[e].prices),
                    job |-> estimate[e].job, estimate |-> e]
           Copied(copies, f) ==
             /\ line' = [l \in Lines |->
                  IF l \in copies
                    THEN [job |-> estimate[e].job, price |-> f[l], invoice |-> i, from |-> e]
                  ELSE line[l]]
             /\ invoice' = [invoice EXCEPT ![i] = made]
             /\ estimate' = [estimate EXCEPT ![e] = [estimate[e] EXCEPT !.status = "invoiced"]]
             /\ UNCHANGED <<open, token, request, budget>>
<1>0. PICK copies \in SUBSET {l \in Lines : line[l] = NoLine} :
        \E f \in [copies -> estimate[e].prices] : Copied(copies, f)
  BY DEF Convert
<1>1. PICK f \in [copies -> estimate[e].prices] : Copied(copies, f)
  BY <1>0
<1>2. estimate[e] \in Estimate
  BY DEF TypeOK
<1>3. made \in Invoice
  <2>1. Altogether(estimate[e].prices) \in Nat
    BY <1>2, AltogetherIsNat DEF Estimate
  <2> QED
    BY <1>2, <2>1 DEF Estimate, Invoice
<1>4. [estimate[e] EXCEPT !.status = "invoiced"] \in Estimate
  BY <1>2 DEF Estimate
<1>5. \A l \in copies :
        [job |-> estimate[e].job, price |-> f[l], invoice |-> i, from |-> e] \in Line
  BY <1>2 DEF Estimate, Line
<1> HIDE DEF made
<1>6. /\ line' \in [Lines -> Line] /\ invoice' \in [Invoices -> Invoice]
      /\ estimate' \in [Estimates -> Estimate]
  BY <1>1, <1>3, <1>4, <1>5 DEF TypeOK
<1> QED
  BY <1>1, <1>6 DEF TypeOK

LEMMA TypesKeep == TypeOK /\ [Next]_vars => TypeOK'
<1> SUFFICES ASSUME TypeOK, [Next]_vars  PROVE TypeOK'
  OBVIOUS
<1>1. CASE UNCHANGED vars
  BY <1>1 DEF vars, TypeOK
<1>2. ASSUME NEW j \in Jobs, CancelJob(j) \/ DeleteJob(j)  PROVE TypeOK'
  BY <1>2, JobTypes
<1>3. ASSUME NEW l \in Lines,
             \/ \E p \in Prices : UpdateLine(l, p) \/ \E j \in Jobs : AddLine(j, l, p)
             \/ DeleteLine(l)
      PROVE  TypeOK'
  BY <1>3, AddLineTypes, UpdateLineTypes, DeleteLineTypes
<1>4. ASSUME NEW w \in Workers,
             \/ \E j \in Jobs : InvoiceReads(w, j)
             \/ InvoiceLocks(w)
             \/ \E i \in Invoices : InvoiceCommits(w, i)
      PROVE  TypeOK'
  BY <1>4, InvoiceReadsTypes, InvoiceLocksTypes, InvoiceCommitsTypes
<1>5. ASSUME NEW i \in Invoices, Void(i) \/ Pay(i)  PROVE TypeOK'
  BY <1>5, VoidTypes
<1>6. ASSUME NEW w \in Workers,
             \/ \E j \in Jobs : EstimateReads(w, j)
             \/ \E e \in Estimates : TokenLooks(w, e)
             \/ EstimateFails(w) \/ WorkerDies(w)
      PROVE  TypeOK'
  BY <1>6, LookTypes
<1>7. ASSUME NEW w \in Workers,
             \/ \E e \in Estimates : SendEstimate(w, e)
             \/ \E e \in Estimates, prices \in SUBSET Prices : EstimateInserts(w, e, prices)
             \/ \E mail \in BOOLEAN : SendTells(w, mail)
             \/ \E t \in Tokens : TokenIssues(w, t)
      PROVE  TypeOK'
  BY <1>7, EstimateInsertsTypes, EstimateSentTypes, SendTellsTypes, TokenIssuesTypes
<1>8. ASSUME NEW t \in Tokens, TokenExpires(t) \/ Approve(t)  PROVE TypeOK'
  BY <1>8, TokenExpiresTypes, ApproveTypes
<1>9. ASSUME NEW e \in Estimates, NEW i \in Invoices, Convert(e, i)  PROVE TypeOK'
  BY <1>9, ConvertTypes
<1> QED
  BY <1>1, <1>2, <1>3, <1>4, <1>5, <1>6, <1>7, <1>8, <1>9 DEF Next

-----------------------------------------------------------------------------
(* The books: what invoices ask for and what their lines are worth.  Every   *)
(* step leaves every invoice but one as it is, or takes lines from those     *)
(* whose job is gone.                                                        *)

(* What a request is about to bill is what the lines it holds are worth.     *)
SummedUp == \A w \in Workers : Freezing(w) => request[w].total = Worth(request[w].lines)

(* An invoice asks for what its lines are worth, which are its job's.        *)
Stands(i) ==
  /\ Live(i) => invoice[i].job \in Jobs
  /\ Live(i) /\ open[invoice[i].job] # "deleted" => invoice[i].total = Worth(Billed(i))
  /\ \A l \in Billed(i) : Live(i) /\ line[l].job = invoice[i].job

Made(e) == {i \in Invoices : invoice[i].estimate = e}

(* An invoice made from an estimate bills what was approved.                 *)
BillsApproval(e, i) ==
  /\ invoice[i].job = estimate[e].job
  /\ invoice[i].total = Altogether(estimate[e].prices)
  /\ Live(i) => /\ \A l \in Billed(i) : line[l].from = e
                /\ {line[l].price : l \in Billed(i)} = estimate[e].prices

Converted(e) ==
  /\ estimate[e].status = "invoiced" => \E i \in Invoices : Made(e) = {i}
  /\ estimate[e].status # "invoiced" => Made(e) = {}
  /\ \A i \in Made(e) : BillsApproval(e, i)

Books ==
  /\ SummedUp
  /\ \A i \in Invoices : Stands(i)
  /\ \A e \in Estimates : Converted(e)

(* Lines are worth the same as long as each costs the same. *)
LEMMA SameWorth ==
  ASSUME NEW S, \A l \in S : line'[l].price = line[l].price
  PROVE  SumFunctionOnSet([l \in S |-> line'[l].price], S) = Worth(S)
<1>1. [l \in S |-> line'[l].price] = [l \in S |-> line[l].price]
  OBVIOUS
<1> QED
  BY <1>1 DEF Worth

(* What happens elsewhere leaves an invoice as it is. *)
Untouched(i) ==
  /\ invoice'[i] = invoice[i] /\ Billed(i)' = Billed(i)
  /\ \A l \in Billed(i) : line'[l] = line[l]
  /\ invoice[i].job \in Jobs /\ open[invoice[i].job] = "deleted"
       => open'[invoice[i].job] = "deleted"

LEMMA UntouchedStands ==
  ASSUME NEW i, Stands(i), Untouched(i)
  PROVE  Stands(i)'
<1>1. Worth(Billed(i))' = Worth(Billed(i))
  <2>1. Worth(Billed(i))' = SumFunctionOnSet([l \in Billed(i) |-> line'[l].price], Billed(i))
    BY DEF Worth, Untouched
  <2> QED
    BY <2>1, SameWorth DEF Untouched
<1> QED
  BY <1>1 DEF Stands, Untouched, Live

(* What was approved and billed is as it was, or there is no invoice. *)
SameBill(e) ==
  /\ estimate'[e].status = estimate[e].status /\ estimate'[e].job = estimate[e].job
  /\ estimate'[e].prices = estimate[e].prices

LEMMA UntouchedBills ==
  ASSUME NEW e, NEW i, BillsApproval(e, i), Untouched(i), SameBill(e)
  PROVE  BillsApproval(e, i)'
  BY DEF BillsApproval, Untouched, Live, SameBill

EstimateQuiet(e) ==
  \/ SameBill(e)
  \/ estimate'[e].status # "invoiced" /\ estimate[e].status # "invoiced"

LEMMA QuietConverted ==
  ASSUME NEW e, Converted(e), EstimateQuiet(e), Made(e)' = Made(e),
         \A i \in Made(e) : BillsApproval(e, i) /\ SameBill(e)
                              => BillsApproval(e, i)'
  PROVE  Converted(e)'
<1>1. CASE SameBill(e)
  BY <1>1 DEF Converted, SameBill
<1>2. CASE estimate'[e].status # "invoiced" /\ estimate[e].status # "invoiced"
  BY <1>2 DEF Converted
<1> QED
  BY <1>1, <1>2 DEF EstimateQuiet

(* Sums in the making stand: the lines are held. *)
LEMMA HeldSums ==
  ASSUME IInv, SummedUp,
         \A w \in Workers : Freezing(w)' => Freezing(w) /\ request'[w] = request[w],
         \A l \in Lines : ~Held(l) \/ line'[l].price = line[l].price
  PROVE  SummedUp'
<1> SUFFICES ASSUME NEW w \in Workers, Freezing(w)'
             PROVE  (request[w].total = Worth(request[w].lines))'
  BY DEF SummedUp
<1>1. Freezing(w) /\ request'[w] = request[w] /\ request[w].lines \subseteq Lines
  BY DEF IInv, Tables, RequestOk
<1>2. \A l \in request[w].lines : line'[l].price = line[l].price
  BY <1>1 DEF Held, Freezing
<1>3. SumFunctionOnSet([l \in request[w].lines |-> line'[l].price], request[w].lines)
        = Worth(request[w].lines)
  BY <1>2, SameWorth
<1> QED
  BY <1>1, <1>3 DEF Worth, SummedUp

(* A step that leaves invoices and the lines on them alone.                  *)
LEMMA LooseInvoices ==
  ASSUME Books, UNCHANGED invoice,
         \A j \in Jobs : open[j] = "deleted" => open'[j] = "deleted",
         \A l \in Lines : \/ line'[l] = line[l]
                          \/ line[l].invoice = None /\ line'[l].invoice = None,
         \A e \in Estimates : EstimateQuiet(e)
  PROVE  (\A i \in Invoices : Stands(i)') /\ \A e \in Estimates : Converted(e)'
<1>1. \A i \in Invoices : Untouched(i)
  BY DEF Untouched, Billed
<1>2. \A i \in Invoices : Stands(i)'
  BY <1>1, UntouchedStands DEF Books
<1>3. ASSUME NEW e \in Estimates  PROVE Converted(e)'
  <2>1. Made(e)' = Made(e) /\ Made(e) \subseteq Invoices
    BY DEF Made
  <2>2. \A i \in Made(e) : BillsApproval(e, i) /\ SameBill(e)
                             => BillsApproval(e, i)'
    BY <1>1, <2>1, UntouchedBills
  <2> QED
    BY <2>1, <2>2, QuietConverted DEF Books
<1> QED
  BY <1>2, <1>3

LEMMA LooseStep ==
  ASSUME IInv, Books, UNCHANGED invoice,
         \A j \in Jobs : open[j] = "deleted" => open'[j] = "deleted",
         \A l \in Lines : \/ line'[l] = line[l]
                          \/ line[l].invoice = None /\ line'[l].invoice = None,
         \A l \in Lines : ~Held(l) \/ line'[l].price = line[l].price,
         \A e \in Estimates : EstimateQuiet(e),
         \A w \in Workers : Freezing(w)' => Freezing(w) /\ request'[w] = request[w]
  PROVE  Books'
  BY HeldSums, LooseInvoices DEF Books

LEMMA LineBooks ==
  ASSUME IInv, Books, TypeOK,
         \/ \E j \in Jobs : CancelJob(j)
         \/ \E l \in Lines, p \in Prices : \/ \E j \in Jobs : AddLine(j, l, p)
                                           \/ UpdateLine(l, p)
         \/ \E l \in Lines : DeleteLine(l)
  PROVE  Books'
<1>1. UNCHANGED <<invoice, estimate, request>>
  BY DEF CancelJob, AddLine, UpdateLine, DeleteLine
<1>2. \A j \in Jobs : open[j] = "deleted" => open'[j] = "deleted"
  BY DEF IInv, Tables, CancelJob, AddLine, UpdateLine, DeleteLine
<1> DEFINE Loose ==
             /\ \A l \in Lines : \/ line'[l] = line[l]
                                 \/ line[l].invoice = None /\ line'[l].invoice = None
             /\ \A l \in Lines : ~Held(l) \/ line'[l].price = line[l].price
<1>3. Loose
  <2>1. CASE \E j \in Jobs : CancelJob(j)
    BY <2>1 DEF CancelJob
  <2>2. ASSUME NEW l \in Lines, NEW p \in Prices, NEW j \in Jobs, AddLine(j, l, p)
        PROVE  Loose
    <3> DEFINE new == [NoLine EXCEPT !.job = j, !.price = p]
    <3>1. line' = [line EXCEPT ![l] = new] /\ line[l] = NoLine
      BY <2>2 DEF AddLine
    <3>2. new.invoice = None
      BY DEF NoLine
    <3> HIDE DEF new
    <3> QED
      BY <3>1, <3>2, Blank, UnusedNotHeld DEF IInv, Tables
  <2>3. ASSUME NEW l \in Lines, NEW p \in Prices, UpdateLine(l, p)
        PROVE  Loose
    <3> DEFINE new == [line[l] EXCEPT !.price = p]
    <3>1. line' = [line EXCEPT ![l] = new] /\ line[l].invoice = None /\ ~Held(l)
      BY <2>3 DEF UpdateLine
    <3>2. new.invoice = None
      BY <3>1 DEF IInv, Tables, LineOk
    <3> HIDE DEF new
    <3> QED
      BY <3>1, <3>2 DEF IInv, Tables
  <2>4. ASSUME NEW l \in Lines, DeleteLine(l)
        PROVE  Loose
    BY <2>4, Blank DEF DeleteLine, IInv, Tables
  <2> QED
    BY <2>1, <2>2, <2>3, <2>4
<1> QED
  BY <1>1, <1>2, <1>3, LooseStep DEF EstimateQuiet, SameBill, Freezing

LEMMA EstimateBooks ==
  ASSUME IInv, Books, TypeOK,
         \/ \E w \in Workers :
              \/ \E j \in Jobs : EstimateReads(w, j) \/ InvoiceReads(w, j)
              \/ \E e \in Estimates, prices \in SUBSET Prices : EstimateInserts(w, e, prices)
              \/ \E e \in Estimates : SendEstimate(w, e) \/ TokenLooks(w, e)
              \/ \E mail \in BOOLEAN : SendTells(w, mail)
              \/ \E t \in Tokens : TokenIssues(w, t)
              \/ EstimateFails(w) \/ WorkerDies(w)
         \/ \E t \in Tokens : TokenExpires(t) \/ Approve(t)
         \/ UNCHANGED vars
  PROVE  Books'
<1>1. UNCHANGED <<open, line, invoice>>
  BY DEF EstimateReads, InvoiceReads, EstimateInserts, SendEstimate, TokenLooks, SendTells,
         TokenIssues, EstimateFails, WorkerDies, TokenExpires, Approve, vars
<1>2. ASSUME NEW v \in Workers, Freezing(v)'
      PROVE  Freezing(v) /\ request'[v] = request[v]
  <2>1. \/ UNCHANGED request
        \/ \E w \in Workers : \E new : Becomes(w, new) /\ new.stage # "freezing"
    <3>1. /\ Idle.stage # "freezing"
          /\ \A j : [Idle EXCEPT !.stage = "estimating", !.job = j].stage # "freezing"
          /\ \A e : [Idle EXCEPT !.stage = "telling", !.estimate = e].stage # "freezing"
          /\ \A e : [Idle EXCEPT !.stage = "issuing", !.estimate = e].stage # "freezing"
          /\ \A j, seen : [Idle EXCEPT !.stage = "locking", !.job = j, !.lines = seen].stage
                            # "freezing"
      BY DEF Idle
    <3>2. ASSUME NEW w \in Workers,
                 \/ \E j \in Jobs : EstimateReads(w, j) \/ InvoiceReads(w, j)
                 \/ \E e \in Estimates : SendEstimate(w, e) \/ TokenLooks(w, e)
          PROVE  \E new : Becomes(w, new) /\ new.stage # "freezing"
      BY <3>1, <3>2 DEF EstimateReads, InvoiceReads, SendEstimate, TokenLooks
    <3>3. ASSUME NEW w \in Workers,
                 \/ \E e \in Estimates, prices \in SUBSET Prices : EstimateInserts(w, e, prices)
                 \/ \E mail \in BOOLEAN : SendTells(w, mail)
                 \/ \E t \in Tokens : TokenIssues(w, t)
                 \/ EstimateFails(w) \/ WorkerDies(w)
          PROVE  \E new : Becomes(w, new) /\ new.stage # "freezing"
      BY <3>1, <3>3 DEF EstimateInserts, SendTells, TokenIssues, EstimateFails, WorkerDies
    <3>4. (\E t \in Tokens : TokenExpires(t) \/ Approve(t)) \/ UNCHANGED vars
            => UNCHANGED request
      BY DEF TokenExpires, Approve, vars
    <3> QED
      BY <3>2, <3>3, <3>4
  <2>2. CASE UNCHANGED request
    BY <1>2, <2>2 DEF Freezing
  <2>3. ASSUME NEW w \in Workers, NEW new, Becomes(w, new), new.stage # "freezing"
        PROVE  Freezing(v) /\ request'[v] = request[v]
    BY <1>2, <2>3 DEF Freezing, Becomes, IInv, Tables
  <2> QED
    BY <2>1, <2>2, <2>3
<1>3. ASSUME NEW e \in Estimates  PROVE EstimateQuiet(e)
  <2>1. ASSUME NEW w \in Workers, NEW d \in Estimates, NEW prices, EstimateInserts(w, d, prices)
        PROVE  EstimateQuiet(e)
    <3> DEFINE new == [NoEstimate EXCEPT !.status = "draft", !.job = request[w].job,
                                         !.prices = prices]
    <3>1. estimate' = [estimate EXCEPT ![d] = new] /\ estimate[d] = NoEstimate
      BY <2>1 DEF EstimateInserts
    <3>2. new.status = "draft" /\ NoEstimate.status = "none"
      BY DEF NoEstimate
    <3> HIDE DEF new
    <3> QED
      BY <3>1, <3>2 DEF EstimateQuiet, SameBill, TypeOK
  <2>2. ASSUME NEW w \in Workers, NEW d \in Estimates, SendEstimate(w, d)
        PROVE  EstimateQuiet(e)
    BY <2>2 DEF SendEstimate, EstimateQuiet, SameBill, TypeOK, Estimate
  <2>3. ASSUME NEW w \in Workers, NEW mail \in BOOLEAN, SendTells(w, mail)
        PROVE  EstimateQuiet(e)
    BY <2>3 DEF SendTells, EstimateQuiet, SameBill, TypeOK, Estimate
  <2>4. ASSUME NEW t \in Tokens, Approve(t)
        PROVE  EstimateQuiet(e)
    BY <2>4 DEF Approve, EstimateQuiet, SameBill, TypeOK, Estimate
  <2>5. ASSUME UNCHANGED estimate  PROVE EstimateQuiet(e)
    BY <2>5 DEF EstimateQuiet, SameBill
  <2> QED
    BY <2>1, <2>2, <2>3, <2>4, <2>5 DEF EstimateReads, InvoiceReads, TokenLooks, TokenIssues,
       EstimateFails, WorkerDies, TokenExpires, vars
<1> QED
  BY <1>1, <1>2, <1>3, LooseStep

(* An estimate is a job's: create_estimate looked at the job. *)
EstimatesHaveJobs ==
  /\ \A w \in Workers : request[w].stage = "estimating" => request[w].job \in Jobs
  /\ \A e \in Estimates : estimate[e].status # "none" => estimate[e].job \in Jobs

LEMMA EstimateJobsKeep ==
  ASSUME TypeOK, EstimatesHaveJobs, [Next]_vars
  PROVE  EstimatesHaveJobs'
<1> DEFINE RequestFine(v) == request'[v].stage = "estimating" => request'[v].job \in Jobs
           EstimateFine(d) == estimate'[d].status # "none" => estimate'[d].job \in Jobs
<1>1. ASSUME NEW w \in Workers, NEW j \in Jobs, EstimateReads(w, j)
      PROVE  (\A v \in Workers : RequestFine(v)) /\ UNCHANGED estimate
  <2> DEFINE new == [Idle EXCEPT !.stage = "estimating", !.job = j]
  <2>1. request' = [request EXCEPT ![w] = new] /\ UNCHANGED estimate
    BY <1>1 DEF EstimateReads, Becomes
  <2>2. new.job = j
    BY DEF Idle
  <2> HIDE DEF new
  <2> QED
    BY <2>1, <2>2 DEF TypeOK, EstimatesHaveJobs
<1>2. ASSUME NEW w \in Workers, NEW new, Becomes(w, new), new.stage # "estimating",
             NEW v \in Workers
      PROVE  RequestFine(v)
  BY <1>2 DEF Becomes, TypeOK, EstimatesHaveJobs
<1>3. /\ Idle.stage # "estimating"
      /\ \A e : [Idle EXCEPT !.stage = "telling", !.estimate = e].stage # "estimating"
      /\ \A e : [Idle EXCEPT !.stage = "issuing", !.estimate = e].stage # "estimating"
      /\ \A j, seen : [Idle EXCEPT !.stage = "locking", !.job = j, !.lines = seen].stage
                        # "estimating"
  BY DEF Idle
<1>4. ASSUME UNCHANGED request, NEW v \in Workers  PROVE RequestFine(v)
  BY <1>4 DEF EstimatesHaveJobs
<1>5. ASSUME NEW d \in Estimates, UNCHANGED estimate  PROVE EstimateFine(d)
  BY <1>5 DEF EstimatesHaveJobs
<1>6. ASSUME NEW w \in Workers, InvoiceLocks(w), NEW v \in Workers  PROVE RequestFine(v)
  <2> DEFINE new == [request[w] EXCEPT !.stage = "freezing", !.lines = StillFree(w),
                                       !.total = Worth(StillFree(w))]
  <2>1. Becomes(w, Idle) \/ Becomes(w, new)
    BY <1>6 DEF InvoiceLocks
  <2>2. new.stage = "freezing"
    BY DEF TypeOK, Request
  <2> HIDE DEF new
  <2> QED
    BY <1>2, <1>3, <2>1, <2>2
<1>7. ASSUME NEW w \in Workers, NEW e \in Estimates, NEW prices, EstimateInserts(w, e, prices),
             NEW d \in Estimates
      PROVE  EstimateFine(d)
  <2> DEFINE new == [NoEstimate EXCEPT !.status = "draft", !.job = request[w].job,
                                       !.prices = prices]
  <2>1. estimate' = [estimate EXCEPT ![e] = new] /\ request[w].job \in Jobs
    BY <1>7 DEF EstimateInserts, EstimatesHaveJobs
  <2>2. new.job = request[w].job
    BY DEF NoEstimate
  <2> HIDE DEF new
  <2> QED
    BY <2>1, <2>2 DEF TypeOK, EstimatesHaveJobs
<1>8. ASSUME NEW d \in Estimates,
             \/ \E w \in Workers, e \in Estimates : SendEstimate(w, e)
             \/ \E w \in Workers, mail \in BOOLEAN : SendTells(w, mail)
             \/ \E t \in Tokens : Approve(t)
             \/ \E e \in Estimates, i \in Invoices : Convert(e, i)
      PROVE  EstimateFine(d)
  <2>1. estimate[d].status # "none" => estimate'[d].job = estimate[d].job
    <3>1. \A e \in Estimates : estimate[e] \in Estimate
      BY DEF TypeOK
    <3>2. ASSUME NEW w \in Workers, NEW e \in Estimates, SendEstimate(w, e)
          PROVE  estimate'[d].job = estimate[d].job
      BY <3>1, <3>2 DEF SendEstimate, TypeOK, Estimate
    <3>3. ASSUME NEW w \in Workers, NEW mail \in BOOLEAN, SendTells(w, mail)
          PROVE  estimate'[d].job = estimate[d].job
      BY <3>1, <3>3 DEF SendTells, TypeOK, Estimate
    <3>4. ASSUME NEW t \in Tokens, Approve(t)
          PROVE  estimate'[d].job = estimate[d].job
      BY <3>1, <3>4 DEF Approve, TypeOK, Estimate
    <3>5. ASSUME NEW e \in Estimates, NEW i \in Invoices, Convert(e, i)
          PROVE  estimate'[d].job = estimate[d].job
      BY <3>1, <3>5 DEF Convert, TypeOK, Estimate
    <3> QED
      BY <1>8, <3>2, <3>3, <3>4, <3>5
  <2>2. estimate[d].status = "none" => estimate'[d].status = "none"
    <3>1. ASSUME NEW w \in Workers, NEW e \in Estimates, SendEstimate(w, e)
          PROVE  estimate[d].status = "none" => estimate'[d].status = "none"
      BY <3>1 DEF SendEstimate, TypeOK
    <3>2. ASSUME NEW w \in Workers, NEW mail \in BOOLEAN, SendTells(w, mail)
          PROVE  estimate'[d].status = estimate[d].status
      BY <3>2 DEF SendTells, TypeOK, Estimate
    <3>3. ASSUME NEW t \in Tokens, Approve(t)
          PROVE  estimate[d].status = "none" => estimate'[d].status = "none"
      BY <3>3 DEF Approve, TypeOK
    <3>4. ASSUME NEW e \in Estimates, NEW i \in Invoices, Convert(e, i)
          PROVE  estimate[d].status = "none" => estimate'[d].status = "none"
      BY <3>4 DEF Convert, TypeOK
    <3> QED
      BY <1>8, <3>1, <3>2, <3>3, <3>4
  <2> QED
    BY <2>1, <2>2 DEF EstimatesHaveJobs
<1>9. \A v \in Workers : RequestFine(v)
  <2>1. ASSUME NEW w \in Workers, NEW v \in Workers,
               \/ \E j \in Jobs : InvoiceReads(w, j)
               \/ \E e \in Estimates : SendEstimate(w, e) \/ TokenLooks(w, e)
        PROVE  RequestFine(v)
    BY <1>2, <1>3, <2>1 DEF InvoiceReads, SendEstimate, TokenLooks
  <2>2. ASSUME NEW w \in Workers, NEW v \in Workers,
               \/ \E e \in Estimates, prices \in SUBSET Prices : EstimateInserts(w, e, prices)
               \/ \E mail \in BOOLEAN : SendTells(w, mail)
               \/ \E t \in Tokens : TokenIssues(w, t)
               \/ \E i \in Invoices : InvoiceCommits(w, i)
               \/ EstimateFails(w) \/ WorkerDies(w)
        PROVE  RequestFine(v)
    BY <1>2, <1>3, <2>2 DEF EstimateInserts, SendTells, TokenIssues, InvoiceCommits,
                            EstimateFails, WorkerDies
  <2>3. ASSUME NEW v \in Workers,
               \/ \E j \in Jobs : CancelJob(j) \/ DeleteJob(j)
               \/ \E j \in Jobs, l \in Lines, p \in Prices : AddLine(j, l, p)
               \/ \E l \in Lines, p \in Prices : UpdateLine(l, p)
               \/ \E l \in Lines : DeleteLine(l)
               \/ \E i \in Invoices : Void(i) \/ Pay(i)
               \/ \E t \in Tokens : TokenExpires(t) \/ Approve(t)
               \/ \E e \in Estimates, i \in Invoices : Convert(e, i)
               \/ UNCHANGED vars
        PROVE  RequestFine(v)
    <3>1. UNCHANGED request
      BY <2>3 DEF CancelJob, DeleteJob, AddLine, UpdateLine, DeleteLine, Void, Pay, TokenExpires,
                  Approve, Convert, vars
    <3> QED
      BY <1>4, <3>1
  <2> HIDE DEF RequestFine
  <2> QED
    BY <1>1, <1>6, <2>1, <2>2, <2>3 DEF Next
<1>10. \A d \in Estimates : EstimateFine(d)
  <2>1. \/ UNCHANGED estimate
        \/ \E w \in Workers, e \in Estimates, prices \in SUBSET Prices :
             EstimateInserts(w, e, prices)
        \/ \E w \in Workers, e \in Estimates : SendEstimate(w, e)
        \/ \E w \in Workers, mail \in BOOLEAN : SendTells(w, mail)
        \/ \E t \in Tokens : Approve(t)
        \/ \E e \in Estimates, i \in Invoices : Convert(e, i)
    BY DEF Next, vars, CancelJob, DeleteJob, AddLine, UpdateLine, DeleteLine, InvoiceReads,
       EstimateReads, InvoiceLocks, EstimateFails, WorkerDies, InvoiceCommits, Void, Pay,
       TokenLooks, TokenIssues, TokenExpires
  <2> HIDE DEF EstimateFine
  <2> QED
    BY <1>5, <1>7, <1>8, <2>1
<1> QED
  BY <1>9, <1>10 DEF EstimatesHaveJobs

(* The lines that were locked are summed up as they are. *)
LEMMA InvoiceLocksBooks ==
  ASSUME IInv, Books, NEW w \in Workers, InvoiceLocks(w)
  PROVE  Books'
<1> DEFINE free == StillFree(w)
           new == [request[w] EXCEPT !.stage = "freezing", !.lines = free,
                                        !.total = Worth(free)]
<1>1. /\ request' = [request EXCEPT ![w] = IF free = {} THEN Idle ELSE new]
      /\ UNCHANGED <<open, line, invoice, estimate>>
  BY DEF InvoiceLocks, Becomes
<1>2. new.stage = "freezing" /\ new.lines = free /\ new.total = Worth(free)
  BY DEF IInv, Tables, RequestOk
<1> HIDE DEF new
<1>3. SummedUp'
  <2> SUFFICES ASSUME NEW v \in Workers, Freezing(v)'
               PROVE  (request[v].total = Worth(request[v].lines))'
    BY DEF SummedUp
  <2>1. CASE v # w
    <3>1. request'[v] = request[v] /\ Freezing(v)
      BY <1>1, <2>1 DEF IInv, Tables, Freezing
    <3>2. request[v].total = Worth(request[v].lines)
      BY <3>1 DEF Books, SummedUp
    <3> QED
      BY <1>1, <3>1, <3>2 DEF Worth
  <2>2. CASE v = w
    <3>1. request'[w] = new
      BY <1>1, <2>2, Blank DEF IInv, Tables, Freezing
    <3> HIDE DEF free
    <3> QED
      BY <1>1, <1>2, <2>2, <3>1 DEF Worth
  <2> QED
    BY <2>1, <2>2
<1>4. /\ \A i \in Invoices : Stands(i)'
      /\ \A e \in Estimates : Converted(e)'
  BY <1>1, LooseInvoices DEF EstimateQuiet, SameBill
<1> QED
  BY <1>3, <1>4 DEF Books

(* A step on one invoice and its lines; those it takes or gives back were,   *)
(* or become, free.                                                          *)
LEMMA OneInvoiceStep ==
  ASSUME IInv, Books, NEW i \in Invoices, UNCHANGED open,
         \A k \in Invoices \ {i} : invoice'[k] = invoice[k],
         \A l \in Lines : \/ line'[l] = line[l]
                          \/ /\ line[l].invoice \in {None, i}
                             /\ line'[l].invoice \in {None, i},
         \A l \in Lines : ~Held(l) \/ line'[l].price = line[l].price,
         \A w \in Workers : Freezing(w)' => Freezing(w) /\ request'[w] = request[w],
         Stands(i)', \A e \in Estimates : Converted(e)'
  PROVE  Books'
<1>1. SummedUp'
  BY HeldSums DEF Books
<1>2. ASSUME NEW k \in Invoices \ {i}  PROVE Untouched(k)
  <2>1. i # None /\ k # None
    OBVIOUS
  <2> QED
    BY <2>1 DEF Untouched, Billed
<1>3. \A k \in Invoices : Stands(k)'
  BY <1>2, UntouchedStands DEF Books
<1> QED
  BY <1>1, <1>3 DEF Books

(* No estimate's invoice but i is touched, and i bills no estimate anew. *)
LEMMA OtherApprovals ==
  ASSUME Books, NEW i \in Invoices, UNCHANGED estimate,
         \A k \in Invoices \ {i} : Untouched(k),
         invoice'[i].estimate = invoice[i].estimate,
         \A e \in Estimates : invoice[i].estimate = e /\ BillsApproval(e, i)
                                => BillsApproval(e, i)'
  PROVE  \A e \in Estimates : Converted(e)'
<1> SUFFICES ASSUME NEW e \in Estimates  PROVE Converted(e)'
  OBVIOUS
<1>1. Converted(e)
  BY DEF Books
<1>2. Made(e)' = Made(e)
  BY DEF Made, Untouched
<1>3. \A k \in Made(e) : BillsApproval(e, k)'
  <2> SUFFICES ASSUME NEW k \in Made(e)  PROVE BillsApproval(e, k)'
    OBVIOUS
  <2>1. k \in Invoices /\ invoice[k].estimate = e /\ BillsApproval(e, k)
    BY <1>1 DEF Made, Converted
  <2>2. CASE k = i
    BY <2>1, <2>2
  <2>3. CASE k # i
    BY <2>1, <2>3, UntouchedBills DEF SameBill
  <2> QED
    BY <2>2, <2>3
<1> QED
  BY <1>1, <1>2, <1>3 DEF Converted

LEMMA InvoiceCommitsBooks ==
  ASSUME IInv, TypeOK, Books, NEW w \in Workers, NEW i \in Invoices, InvoiceCommits(w, i)
  PROVE  Books'
<1> DEFINE mine == request[w].lines
           made == [NoInvoice EXCEPT !.status = "draft", !.total = request[w].total,
                                     !.job = request[w].job]
<1>1. /\ Freezing(w) /\ invoice[i] = NoInvoice /\ UNCHANGED <<open, estimate>>
      /\ invoice' = [invoice EXCEPT ![i] = made]
      /\ line' = [l \in Lines |->
           IF l \in mine THEN [line[l] EXCEPT !.invoice = i] ELSE line[l]]
      /\ request' = [request EXCEPT ![w] = Idle]
  BY DEF InvoiceCommits, Freezing, Becomes
<1>2. /\ made.status = "draft" /\ made.total = request[w].total /\ made.job = request[w].job
      /\ made.estimate = None /\ NoInvoice.estimate = None /\ NoInvoice.status = "none"
  BY DEF NoInvoice
<1> HIDE DEF made
<1>3. mine \subseteq Lines /\ request[w].job \in Jobs /\ request[w].total = Worth(mine)
      /\ \A l \in mine : line[l].invoice = None /\ line[l].job = request[w].job
  BY <1>1 DEF IInv, Tables, RequestOk, FrozenAreFree, Freezing, Books, SummedUp
<1>4. Billed(i) = {}
  BY <1>1, <1>2 DEF Books, Stands, Live
<1>5. \A l \in Lines : /\ line'[l].price = line[l].price
                       /\ line'[l].job = line[l].job
                       /\ line'[l].invoice = IF l \in mine THEN i ELSE line[l].invoice
                       /\ l \notin mine => line'[l] = line[l]
  <2>1. \A l \in Lines : line[l] \in Line
    BY DEF TypeOK
  <2> QED
    BY <1>1, <2>1 DEF Line
<1>6. Billed(i)' = mine
  BY <1>3, <1>4, <1>5 DEF Billed
<1>7. invoice'[i] = made
  BY <1>1 DEF TypeOK
<1>8. Stands(i)'
  <2>1. Worth(Billed(i))' = Worth(mine)
    <3>1. Worth(Billed(i))' = SumFunctionOnSet([l \in mine |-> line'[l].price], mine)
      BY <1>6 DEF Worth
    <3>2. \A l \in mine : line'[l].price = line[l].price
      BY <1>3, <1>5
    <3> HIDE DEF mine
    <3> QED
      BY <3>1, <3>2, SameWorth
  <2>2. \A l \in mine : line'[l].job = request[w].job
    BY <1>3, <1>5
  <2> HIDE DEF mine
  <2> QED
    BY <1>2, <1>3, <1>6, <1>7, <2>1, <2>2 DEF Stands, Live
<1>9. \A k \in Invoices \ {i} : invoice'[k] = invoice[k] /\ Untouched(k)
  <2> SUFFICES ASSUME NEW k \in Invoices \ {i}  PROVE invoice'[k] = invoice[k] /\ Untouched(k)
    OBVIOUS
  <2>1. invoice'[k] = invoice[k]
    BY <1>1 DEF TypeOK
  <2>2. Billed(k)' = Billed(k) /\ \A l \in Billed(k) : line'[l] = line[l]
    BY <1>3, <1>5 DEF Billed
  <2> QED
    BY <1>1, <2>1, <2>2 DEF Untouched
<1>10. \A e \in Estimates : Converted(e)'
  <2>1. invoice'[i].estimate = None /\ invoice[i].estimate = None
    BY <1>1, <1>2, <1>7
  <2> QED
    BY <1>1, <1>9, <2>1, OtherApprovals
<1>11. \A v \in Workers : Freezing(v)' => Freezing(v) /\ request'[v] = request[v]
  BY <1>1, Blank DEF Freezing, TypeOK
<1>12. \A l \in Lines : \/ line'[l] = line[l]
                        \/ line[l].invoice \in {None, i} /\ line'[l].invoice \in {None, i}
  BY <1>3, <1>5
<1> QED
  BY <1>1, <1>5, <1>8, <1>9, <1>10, <1>11, <1>12, OneInvoiceStep

LEMMA InvoiceEndsBooks ==
  ASSUME IInv, TypeOK, Books, NEW i \in Invoices, Void(i) \/ Pay(i)
  PROVE  Books'
<1>1. PICK status \in {"void", "paid"} :
        /\ invoice' = [invoice EXCEPT ![i] = [invoice[i] EXCEPT !.status = status]]
        /\ status = "paid" => line' = line
        /\ status = "void" => line' = [l \in Lines |->
             IF l \in Billed(i) THEN [line[l] EXCEPT !.invoice = None] ELSE line[l]]
        /\ invoice[i].status = "draft" /\ UNCHANGED <<open, estimate, request>>
  BY DEF Void, Pay
<1>2. /\ invoice'[i].status = status /\ invoice'[i].total = invoice[i].total
      /\ invoice'[i].job = invoice[i].job /\ invoice'[i].estimate = invoice[i].estimate
  <2>1. invoice[i] \in Invoice
    BY DEF TypeOK
  <2> QED
    BY <1>1, <2>1 DEF TypeOK, Invoice
<1>3. \A l \in Lines :
        /\ line'[l].price = line[l].price
        /\ status = "paid" \/ l \notin Billed(i) => line'[l] = line[l]
        /\ status = "void" /\ l \in Billed(i) => line'[l].invoice = None
  <2>1. \A l \in Lines : line[l] \in Line
    BY DEF TypeOK
  <2> QED
    BY <1>1, <2>1 DEF Line
<1>4. Live(i) /\ (Live(i)' <=> status = "paid")
  BY <1>1, <1>2 DEF Live
<1>5. CASE status = "paid"
  <2>1. Stands(i) /\ line' = line /\ open' = open
    BY <1>1, <1>5 DEF Books
  <2>2. Stands(i)'
    BY <1>2, <1>4, <1>5, <2>1 DEF Stands, Worth, Billed
  <2>3. \A e \in Estimates : BillsApproval(e, i) => BillsApproval(e, i)'
    BY <1>1, <1>2, <1>4, <1>5, <2>1 DEF BillsApproval, Billed
  <2>4. \A k \in Invoices \ {i} : invoice'[k] = invoice[k] /\ Untouched(k)
    BY <1>1, <2>1 DEF TypeOK, Untouched, Billed
  <2>5. \A e \in Estimates : Converted(e)'
    BY <1>1, <1>2, <2>3, <2>4, OtherApprovals
  <2> QED
    BY <1>1, <2>1, <2>2, <2>4, <2>5, OneInvoiceStep DEF Freezing
<1>6. CASE status = "void"
  <2>1. Billed(i)' = {}
    BY <1>3, <1>6 DEF Billed
  <2>2. Stands(i)'
    BY <1>4, <1>6, <2>1 DEF Stands
  <2>3. \A e \in Estimates : BillsApproval(e, i) => BillsApproval(e, i)'
    BY <1>1, <1>2, <1>4, <1>6 DEF BillsApproval
  <2>4. \A k \in Invoices \ {i} : invoice'[k] = invoice[k] /\ Untouched(k)
    <3> SUFFICES ASSUME NEW k \in Invoices \ {i}
                 PROVE  invoice'[k] = invoice[k] /\ Untouched(k)
      OBVIOUS
    <3>1. invoice'[k] = invoice[k]
      BY <1>1 DEF TypeOK
    <3>2. Billed(k)' = Billed(k) /\ \A l \in Billed(k) : line'[l] = line[l]
      BY <1>3, <1>6 DEF Billed
    <3> QED
      BY <1>1, <3>1, <3>2 DEF Untouched
  <2>5. \A e \in Estimates : Converted(e)'
    BY <1>1, <1>2, <2>3, <2>4, OtherApprovals
  <2>6. \A l \in Lines : \/ line'[l] = line[l]
                         \/ line[l].invoice \in {None, i} /\ line'[l].invoice \in {None, i}
    BY <1>3, <1>6 DEF Billed
  <2> QED
    BY <1>1, <1>3, <2>2, <2>4, <2>5, <2>6, OneInvoiceStep DEF Freezing
<1> QED
  BY <1>5, <1>6

(* Lines that go with their job leave only its invoices.  *)
LEMMA DeleteJobBooks ==
  ASSUME IInv, TypeOK, EstimatesHaveJobs, Books, NEW j \in Jobs, DeleteJob(j)
  PROVE  Books'
<1>1. /\ \A e \in Estimates : estimate[e].job # j
      /\ \A l \in Lines : line[l].job = j => ~Held(l)
      /\ open' = [open EXCEPT ![j] = "deleted"]
      /\ line' = [l \in Lines |-> IF line[l].job = j THEN NoLine ELSE line[l]]
      /\ UNCHANGED <<invoice, estimate, request>>
  BY DEF DeleteJob
<1>2. SummedUp'
  BY <1>1, HeldSums DEF Books, Freezing
<1>3. ASSUME NEW i \in Invoices, invoice[i].job # j  PROVE Untouched(i)
  <2>1. \A l \in Billed(i) : line[l].job # j
    BY <1>3 DEF Books, Stands
  <2>2. Billed(i)' = Billed(i) /\ \A l \in Billed(i) : line'[l] = line[l]
    BY <1>1, <2>1, Blank DEF Billed
  <2> QED
    BY <1>1, <2>2 DEF Untouched, TypeOK
<1>4. \A i \in Invoices : Stands(i)'
  <2> SUFFICES ASSUME NEW i \in Invoices  PROVE Stands(i)'
    OBVIOUS
  <2>1. CASE invoice[i].job # j
    BY <1>3, <2>1, UntouchedStands DEF Books
  <2>2. CASE invoice[i].job = j
    <3>1. Billed(i)' = {}
      <4>1. \A l \in Billed(i) : line[l].job = j
        BY <2>2 DEF Books, Stands
      <4> QED
        BY <1>1, <4>1, Blank DEF Billed
    <3>2. open'[j] = "deleted"
      BY <1>1 DEF TypeOK
    <3> QED
      BY <1>1, <2>2, <3>1, <3>2 DEF Stands
  <2> QED
    BY <2>1, <2>2
<1>5. ASSUME NEW e \in Estimates  PROVE Converted(e)'
  <2>1. Converted(e) /\ Made(e)' = Made(e) /\ Made(e) \subseteq Invoices /\ SameBill(e)
    BY <1>1 DEF Books, Made, SameBill
  <2>2. \A i \in Made(e) : BillsApproval(e, i) => BillsApproval(e, i)'
    BY <1>1, <1>3, <2>1, UntouchedBills DEF BillsApproval
  <2> QED
    BY <2>1, <2>2, QuietConverted DEF EstimateQuiet
<1> QED
  BY <1>2, <1>4, <1>5 DEF Books

(* The copies of an estimate's lines cost together what its lines cost: each *)
(* of its prices is copied once.                                             *)
LEMMA CopiesAddUp ==
  ASSUME NEW prices \in SUBSET Prices, NEW copies \in SUBSET Lines,
         NEW f \in Surjection(copies, prices), Cardinality(copies) = Cardinality(prices)
  PROVE  SumFunctionOnSet([l \in copies |-> f[l]], copies) = Altogether(prices)
<1> DEFINE v == [p \in prices |-> p]
           g == [l \in copies |-> f[l]]
<1>1. IsFiniteSet(copies)
  BY FS_Subset
<1>2. f \in [copies -> prices]
  BY DEF Surjection
<1>3. f \in Injection(copies, prices)
  BY <1>1, FS_SurjSameCardinalityImpliesInj
<1>4. f \in Bijection(copies, prices)
  BY <1>3 DEF Bijection
<1>5. \A p \in prices : v[p] \in Nat
  OBVIOUS
<1>6. \A l \in copies : g[l] = v[f[l]]
  BY <1>2
<1> HIDE DEF v, g
<1>7. SumFunctionOnSet(g, copies) = SumFunctionOnSet(v, prices)
  <2>1. Reindexes(f, copies, prices, g, v)
    BY <1>1, <1>4, <1>5, <1>6 DEF Reindexes
  <2> QED
    BY <2>1, SumsAlike
<1> QED
  BY <1>7 DEF Altogether, v, g

LEMMA ConvertBooks ==
  ASSUME IInv, TypeOK, EstimatesHaveJobs, Books,
         NEW e \in Estimates, NEW i \in Invoices, Convert(e, i)
  PROVE  Books'
<1> DEFINE prices == estimate[e].prices
           made == [status |-> "draft", total |-> Altogether(prices),
                    job |-> estimate[e].job, estimate |-> e]
           copy(p) == [job |-> estimate[e].job, price |-> p, invoice |-> i, from |-> e]
           Copied(copies, f) ==
             /\ estimate[e].status = "approved" /\ invoice[i] = NoInvoice
             /\ {f[l] : l \in copies} = prices
             /\ Cardinality(copies) = Cardinality(prices)
             /\ line' = [l \in Lines |-> IF l \in copies THEN copy(f[l]) ELSE line[l]]
             /\ invoice' = [invoice EXCEPT ![i] = made]
             /\ estimate' = [estimate EXCEPT ![e] = [estimate[e] EXCEPT !.status = "invoiced"]]
             /\ UNCHANGED <<open, token, request, budget>>
<1>1. PICK copies \in SUBSET {l \in Lines : line[l] = NoLine} :
        \E f \in [copies -> prices] : Copied(copies, f)
  BY DEF Convert
<1>2. PICK f \in [copies -> prices] : Copied(copies, f)
  BY <1>1
<1>3. /\ copies \in SUBSET Lines /\ prices \in SUBSET Prices
      /\ estimate[e].job \in Jobs
  BY <1>1, <1>2 DEF TypeOK, Estimate, EstimatesHaveJobs
<1>4. /\ \A l \in copies : line[l] = NoLine /\ ~Held(l) /\ line[l].invoice = None
      /\ \A l \in copies : line'[l] = copy(f[l])
      /\ \A l \in Lines \ copies : line'[l] = line[l]
  BY <1>2, <1>3, Blank, UnusedNotHeld
<1>5. /\ made.status = "draft" /\ made.total = Altogether(prices)
      /\ made.job = estimate[e].job /\ made.estimate = e
      /\ NoInvoice.status = "none" /\ NoInvoice.estimate = None
      /\ \A p : /\ copy(p).job = estimate[e].job /\ copy(p).price = p
                /\ copy(p).invoice = i /\ copy(p).from = e
  BY DEF NoInvoice
<1>6. Billed(i) = {}
  BY <1>2, <1>5 DEF Books, Stands, Live
<1>7. invoice'[i] = made /\ \A k \in Invoices \ {i} : invoice'[k] = invoice[k]
  BY <1>2 DEF TypeOK
<1>8. Altogether(prices) = SumFunctionOnSet([l \in copies |-> f[l]], copies)
  <2>1. f \in Surjection(copies, prices) /\ Cardinality(copies) = Cardinality(prices)
    BY <1>2 DEF Surjection
  <2> QED
    BY <1>3, <2>1, CopiesAddUp
<1> HIDE DEF made, copy
<1>9. Billed(i)' = copies
  BY <1>3, <1>4, <1>5, <1>6 DEF Billed
<1>10. Worth(Billed(i))' = Altogether(prices)
  <2>1. [l \in copies |-> line'[l].price] = [l \in copies |-> f[l]]
    BY <1>4, <1>5
  <2>2. Worth(Billed(i))' = SumFunctionOnSet([l \in copies |-> line'[l].price], copies)
    BY <1>9 DEF Worth
  <2> QED
    BY <1>8, <2>1, <2>2
<1>11. Stands(i)'
  BY <1>3, <1>4, <1>5, <1>7, <1>9, <1>10 DEF Stands, Live
<1>12. \A k \in Invoices \ {i} : Untouched(k)
  <2> SUFFICES ASSUME NEW k \in Invoices \ {i}  PROVE Untouched(k)
    OBVIOUS
  <2>1. Billed(k)' = Billed(k) /\ \A l \in Billed(k) : line'[l] = line[l]
    BY <1>3, <1>4, <1>5 DEF Billed
  <2> QED
    BY <1>2, <1>7, <2>1 DEF Untouched
<1>13. /\ estimate'[e].status = "invoiced" /\ estimate'[e].job = estimate[e].job
       /\ estimate'[e].prices = prices
       /\ \A d \in Estimates \ {e} : estimate'[d] = estimate[d]
  <2>1. estimate[e] \in Estimate
    BY DEF TypeOK
  <2> QED
    BY <1>2, <2>1 DEF TypeOK, Estimate
<1>14. \A d \in Estimates \ {e} : Converted(d)'
  <2> SUFFICES ASSUME NEW d \in Estimates \ {e}  PROVE Converted(d)'
    OBVIOUS
  <2>1. Converted(d) /\ SameBill(d)
    BY <1>13 DEF Books, SameBill
  <2>2. i \notin Made(d) /\ Made(d)' = Made(d) /\ Made(d) \subseteq Invoices
    BY <1>2, <1>5, <1>7 DEF Made
  <2>3. \A k \in Made(d) : BillsApproval(d, k)'
    BY <1>12, <2>1, <2>2, UntouchedBills DEF Converted
  <2> QED
    BY <2>1, <2>2, <2>3 DEF Converted, SameBill
<1>15. Converted(e)'
  <2>1. Made(e) = {}
    BY <1>2 DEF Books, Converted
  <2>2. Made(e)' = {i}
    BY <1>5, <1>7, <2>1 DEF Made
  <2>3. \A l \in copies : line'[l].price = f[l] /\ line'[l].from = e
    BY <1>4, <1>5
  <2>4. BillsApproval(e, i)'
    <3>1. invoice'[i].job = estimate'[e].job
      BY <1>5, <1>7, <1>13
    <3>2. (invoice[i].total = Altogether(estimate[e].prices))'
      BY <1>5, <1>7, <1>13 DEF Altogether
    <3>3. {line'[l].price : l \in copies} = {f[l] : l \in copies}
      BY <2>3
    <3>4. (/\ \A l \in Billed(i) : line[l].from = e
           /\ {line[l].price : l \in Billed(i)} = estimate[e].prices)'
      BY <1>2, <1>9, <1>13, <2>3, <3>3
    <3> QED
      BY <3>1, <3>2, <3>4 DEF BillsApproval
  <2> QED
    BY <1>13, <2>2, <2>4 DEF Converted
<1>16. \A l \in Lines : \/ line'[l] = line[l]
                        \/ line[l].invoice \in {None, i} /\ line'[l].invoice \in {None, i}
  BY <1>4, <1>5
<1>17. \A l \in Lines : ~Held(l) \/ line'[l].price = line[l].price
  BY <1>4
<1> QED
  BY <1>2, <1>7, <1>11, <1>14, <1>15, <1>16, <1>17, OneInvoiceStep DEF Freezing

LEMMA BooksKeep ==
  ASSUME IInv, TypeOK, EstimatesHaveJobs, Books, [Next]_vars
  PROVE  Books'
<1>1. CASE UNCHANGED vars
  BY <1>1, EstimateBooks
<1>2. ASSUME NEW j \in Jobs, CancelJob(j) \/ DeleteJob(j)  PROVE Books'
  BY <1>2, LineBooks, DeleteJobBooks
<1>3. ASSUME NEW l \in Lines,
             \/ \E p \in Prices : UpdateLine(l, p) \/ \E j \in Jobs : AddLine(j, l, p)
             \/ DeleteLine(l)
      PROVE  Books'
  BY <1>3, LineBooks
<1>4. ASSUME NEW w \in Workers, InvoiceLocks(w) \/ \E i \in Invoices : InvoiceCommits(w, i)
      PROVE  Books'
  BY <1>4, InvoiceLocksBooks, InvoiceCommitsBooks
<1>5. ASSUME NEW i \in Invoices, Void(i) \/ Pay(i)  PROVE Books'
  BY <1>5, InvoiceEndsBooks
<1>6. ASSUME NEW w \in Workers,
             \/ \E j \in Jobs : EstimateReads(w, j) \/ InvoiceReads(w, j)
             \/ \E e \in Estimates, prices \in SUBSET Prices : EstimateInserts(w, e, prices)
             \/ \E e \in Estimates : SendEstimate(w, e) \/ TokenLooks(w, e)
             \/ \E mail \in BOOLEAN : SendTells(w, mail)
             \/ \E t \in Tokens : TokenIssues(w, t)
             \/ EstimateFails(w) \/ WorkerDies(w)
      PROVE  Books'
  BY <1>6, EstimateBooks
<1>7. ASSUME NEW t \in Tokens, TokenExpires(t) \/ Approve(t)  PROVE Books'
  BY <1>7, EstimateBooks
<1>8. ASSUME NEW e \in Estimates, NEW i \in Invoices, Convert(e, i)  PROVE Books'
  BY <1>8, ConvertBooks
<1> QED
  BY <1>1, <1>2, <1>3, <1>4, <1>5, <1>6, <1>7, <1>8 DEF Next

-----------------------------------------------------------------------------
(* Approvals.                                                                *)

Spent(e) == {t \in Tokens : token[t].of = e /\ token[t].uses > 0}

Settled(e) == estimate[e].status \in {"approved", "invoiced"}

(* A link that was not given out is not used; an estimate is approved by     *)
(* exactly one, and none is spent before.                                    *)
ApprovedOnce ==
  /\ \A t \in Tokens : token[t].of = None => token[t].uses = 0
  /\ \A e \in Estimates :
       \/ Settled(e) /\ estimate[e].approvals = 1 /\ \E t \in Tokens : Spent(e) = {t}
       \/ ~Settled(e) /\ estimate[e].approvals = 0 /\ Spent(e) = {}

(* An estimate moves on without being approved. *)
MovesOn(e) ==
  /\ estimate'[e].approvals = estimate[e].approvals
  /\ Settled(e)' <=> Settled(e)

LEMMA EstimatesMoveOn ==
  ASSUME TypeOK, NEW d \in Estimates,
         \/ UNCHANGED estimate
         \/ \E w \in Workers, e \in Estimates, prices \in SUBSET Prices :
              EstimateInserts(w, e, prices)
         \/ \E w \in Workers, e \in Estimates : SendEstimate(w, e)
         \/ \E w \in Workers, mail \in BOOLEAN : SendTells(w, mail)
         \/ \E e \in Estimates, i \in Invoices : Convert(e, i)
  PROVE  MovesOn(d)
<1>0. \A e \in Estimates : estimate[e] \in Estimate
  BY DEF TypeOK
<1>1. ASSUME NEW w \in Workers, NEW e \in Estimates, NEW prices, EstimateInserts(w, e, prices)
      PROVE  MovesOn(d)
  <2> DEFINE new == [NoEstimate EXCEPT !.status = "draft", !.job = request[w].job,
                                       !.prices = prices]
  <2>1. estimate' = [estimate EXCEPT ![e] = new] /\ estimate[e] = NoEstimate
    BY <1>1 DEF EstimateInserts
  <2>2. /\ new.status = "draft" /\ new.approvals = 0
        /\ NoEstimate.status = "none" /\ NoEstimate.approvals = 0
    BY DEF NoEstimate
  <2> HIDE DEF new
  <2> QED
    BY <2>1, <2>2 DEF MovesOn, Settled, TypeOK
<1>2. ASSUME NEW w \in Workers, NEW e \in Estimates, SendEstimate(w, e)
      PROVE  MovesOn(d)
  BY <1>0, <1>2 DEF SendEstimate, MovesOn, Settled, TypeOK, Estimate
<1>3. ASSUME NEW w \in Workers, NEW mail \in BOOLEAN, SendTells(w, mail)
      PROVE  MovesOn(d)
  BY <1>0, <1>3 DEF SendTells, MovesOn, Settled, TypeOK, Estimate
<1>4. ASSUME NEW e \in Estimates, NEW i \in Invoices, Convert(e, i)
      PROVE  MovesOn(d)
  <2>1. /\ estimate[e].status = "approved"
        /\ estimate' = [estimate EXCEPT ![e] = [estimate[e] EXCEPT !.status = "invoiced"]]
    BY <1>4 DEF Convert
  <2> QED
    BY <1>0, <2>1 DEF MovesOn, Settled, TypeOK, Estimate
<1>5. ASSUME UNCHANGED estimate  PROVE MovesOn(d)
  BY <1>5 DEF MovesOn, Settled
<1> QED
  BY <1>1, <1>2, <1>3, <1>4, <1>5

(* What is done to the links leaves them as used as they were. *)
LEMMA UsesStay ==
  ASSUME TypeOK, ApprovedOnce,
         \/ UNCHANGED token
         \/ \E w \in Workers, t \in Tokens : TokenIssues(w, t)
         \/ \E t \in Tokens : TokenExpires(t)
  PROVE  /\ \A t \in Tokens : token'[t].of = None => token'[t].uses = 0
         /\ \A e \in Estimates : Spent(e)' = Spent(e)
<1>0. /\ None \notin Estimates
      /\ \A t \in Tokens : token[t] \in Token
  BY DEF TypeOK
<1>1. ASSUME NEW w \in Workers, NEW t \in Tokens, TokenIssues(w, t), NEW s \in Tokens
      PROVE  /\ token'[s].uses = token[s].uses
             /\ token'[s].of = token[s].of \/ token[s].uses = 0
  <2>1. token[t].of = None /\ token[t].uses = 0
    BY <1>1 DEF TokenIssues, ApprovedOnce
  <2>2. token' = [token EXCEPT ![t] = [token[t] EXCEPT !.of = request[w].estimate]]
    BY <1>1 DEF TokenIssues
  <2> QED
    BY <1>0, <2>1, <2>2 DEF TypeOK, Token
<1>2. ASSUME NEW t \in Tokens, TokenExpires(t), NEW s \in Tokens
      PROVE  token'[s].uses = token[s].uses /\ token'[s].of = token[s].of
  <2>1. token' = [token EXCEPT ![t] = [token[t] EXCEPT !.expired = TRUE]]
    BY <1>2 DEF TokenExpires
  <2> QED
    BY <1>0, <2>1 DEF TypeOK, Token
<1>3. \A s \in Tokens : /\ token'[s].uses = token[s].uses
                        /\ token'[s].of = token[s].of \/ token[s].uses = 0
  BY <1>1, <1>2
<1>4. \A s \in Tokens : token'[s].of = None => token'[s].uses = 0
  BY <1>3 DEF ApprovedOnce
<1>5. \A e \in Estimates : Spent(e)' = Spent(e)
  <2>1. \A s \in Tokens, e \in Estimates :
          token'[s].of = e /\ token'[s].uses > 0 <=> token[s].of = e /\ token[s].uses > 0
    BY <1>3
  <2> QED
    BY <2>1 DEF Spent
<1> QED
  BY <1>4, <1>5

LEMMA ApproveOnce ==
  ASSUME TypeOK, ApprovedOnce, NEW t \in Tokens, Approve(t)
  PROVE  ApprovedOnce'
<1>0. PICK e \in Estimates : e = token[t].of
  BY DEF Approve, TokenLive, TypeOK, Token
<1> DEFINE approved == [estimate[e] EXCEPT !.status = "approved",
                                           !.approvals = estimate[e].approvals + 1]
           used == [token[t] EXCEPT !.uses = token[t].uses + 1]
<1>1. /\ token[t].of # None /\ token[t].uses < 1 /\ estimate[e].status = "sent"
      /\ estimate' = [estimate EXCEPT ![e] = approved]
      /\ token' = [token EXCEPT ![t] = used]
  BY <1>0 DEF Approve, TokenLive
<1>2. /\ \A s \in Tokens : token[s] \in Token
      /\ \A d \in Estimates : estimate[d] \in Estimate
  BY DEF TypeOK
<1>3. estimate[e].approvals = 0 /\ Spent(e) = {}
  BY <1>1, <1>2 DEF ApprovedOnce, Settled
<1>4. token[t].uses \in Nat
  BY <1>2 DEF Token
<1>5. token[t].uses = 0
  BY <1>1, <1>4
<1>6. approved.status = "approved" /\ approved.approvals = 1
  BY <1>2, <1>3 DEF Estimate
<1>7. used.of = e /\ used.uses = 1
  BY <1>0, <1>2, <1>5 DEF Token
<1> HIDE DEF approved, used
<1>8. /\ token'[t] = used /\ \A s \in Tokens \ {t} : token'[s] = token[s]
      /\ estimate'[e] = approved /\ \A d \in Estimates \ {e} : estimate'[d] = estimate[d]
  BY <1>1, <1>2 DEF TypeOK
<1>9. Spent(e)' = {t}
  <2>1. t \in Spent(e)'
    BY <1>7, <1>8 DEF Spent
  <2>2. \A s \in Tokens \ {t} : s \notin Spent(e)'
    BY <1>3, <1>8 DEF Spent
  <2> QED
    BY <2>1, <2>2 DEF Spent
<1>10. \A d \in Estimates \ {e} : Spent(d)' = Spent(d)
  <2>1. \A d \in Estimates \ {e} : t \notin Spent(d) /\ t \notin Spent(d)'
    BY <1>0, <1>7, <1>8 DEF Spent
  <2> QED
    BY <1>8, <2>1 DEF Spent
<1>11. Settled(e)' /\ \A d \in Estimates \ {e} : Settled(d)' <=> Settled(d)
  BY <1>6, <1>8 DEF Settled
<1>12. \A s \in Tokens : token'[s].of = None => token'[s].uses = 0
  BY <1>0, <1>1, <1>7, <1>8 DEF ApprovedOnce
<1>13. \A d \in Estimates :
         (\/ Settled(d) /\ estimate[d].approvals = 1 /\ \E s \in Tokens : Spent(d) = {s}
          \/ ~Settled(d) /\ estimate[d].approvals = 0 /\ Spent(d) = {})'
  BY <1>6, <1>8, <1>9, <1>10, <1>11 DEF ApprovedOnce
<1> QED
  BY <1>12, <1>13 DEF ApprovedOnce

LEMMA ApprovalsKeep ==
  ASSUME TypeOK, ApprovedOnce, [Next]_vars
  PROVE  ApprovedOnce'
<1> DEFINE EstimateStep ==
             \/ UNCHANGED estimate
             \/ \E w \in Workers, e \in Estimates, prices \in SUBSET Prices :
                  EstimateInserts(w, e, prices)
             \/ \E w \in Workers, e \in Estimates : SendEstimate(w, e)
             \/ \E w \in Workers, mail \in BOOLEAN : SendTells(w, mail)
             \/ \E e \in Estimates, i \in Invoices : Convert(e, i)
           TokenStep ==
             \/ UNCHANGED token
             \/ \E w \in Workers, t \in Tokens : TokenIssues(w, t)
             \/ \E t \in Tokens : TokenExpires(t)
<1>1. CASE \E t \in Tokens : Approve(t)
  BY <1>1, ApproveOnce
<1>2. CASE ~\E t \in Tokens : Approve(t)
  <2>1. EstimateStep
    BY <1>2 DEF Next, vars, CancelJob, DeleteJob, AddLine, UpdateLine, DeleteLine, InvoiceReads,
       EstimateReads, InvoiceLocks, EstimateFails, WorkerDies, InvoiceCommits, Void, Pay,
       TokenLooks, TokenIssues, TokenExpires
  <2>2. TokenStep
    BY <1>2 DEF Next, vars, CancelJob, DeleteJob, AddLine, UpdateLine, DeleteLine, InvoiceReads,
       EstimateReads, InvoiceLocks, EstimateFails, WorkerDies, InvoiceCommits, Void, Pay,
       TokenLooks, EstimateInserts, SendEstimate, SendTells, Convert
  <2>3. \A d \in Estimates : MovesOn(d)
    BY <2>1, EstimatesMoveOn
  <2>4. /\ \A t \in Tokens : token'[t].of = None => token'[t].uses = 0
        /\ \A e \in Estimates : Spent(e)' = Spent(e)
    BY <2>2, UsesStay
  <2> QED
    BY <2>3, <2>4 DEF ApprovedOnce, MovesOn
<1> QED
  BY <1>1, <1>2

LEMMA InitBooks == Init => EstimatesHaveJobs /\ Books /\ ApprovedOnce
<1> SUFFICES ASSUME Init  PROVE EstimatesHaveJobs /\ Books /\ ApprovedOnce
  OBVIOUS
<1>1. /\ NoInvoice.status = "none" /\ NoInvoice.estimate = None /\ NoLine.invoice = None
      /\ NoEstimate.status = "none" /\ NoEstimate.approvals = 0 /\ Idle.stage = "idle"
  BY DEF NoInvoice, NoLine, NoEstimate, Idle
<1>2. EstimatesHaveJobs
  BY <1>1 DEF Init, EstimatesHaveJobs
<1>3. SummedUp
  BY <1>1 DEF Init, SummedUp, Freezing
<1>4. \A i \in Invoices : Stands(i)
  BY <1>1 DEF Init, Stands, Live, Billed
<1>5. \A e \in Estimates : Converted(e)
  <2>1. \A e \in Estimates : Made(e) = {}
    BY <1>1 DEF Init, Made
  <2> QED
    BY <1>1, <2>1 DEF Init, Converted
<1>6. ApprovedOnce
  <2>1. \A t \in Tokens : token[t].of = None /\ token[t].uses = 0
    BY DEF Init
  <2>2. \A e \in Estimates : Spent(e) = {}
    BY <2>1 DEF Spent
  <2> QED
    BY <1>1, <2>1, <2>2 DEF Init, ApprovedOnce, Settled
<1> QED
  BY <1>2, <1>3, <1>4, <1>5, <1>6 DEF Books

FullInv == IInv /\ TypeOK /\ EstimatesHaveJobs /\ Books /\ ApprovedOnce

LEMMA FullInvariance == Spec => []FullInv
<1>1. Init => FullInv
  BY InitEstablishes, InitTypes, InitBooks DEF FullInv
<1>2. FullInv /\ [Next]_vars => FullInv'
  BY NextKeeps, TypesKeep, EstimateJobsKeep, BooksKeep, ApprovalsKeep DEF FullInv
<1> QED
  BY <1>1, <1>2, PTL DEF Spec

-----------------------------------------------------------------------------
(* No two invoices in the making take the same line, nor one that is billed  *)
(* already: create_invoice's locks.                                          *)
THEOREM LinesFrozenOnce == Spec => [](FrozenAreFree /\ FreezesApart)
<1>1. IInv => FrozenAreFree /\ FreezesApart
  BY DEF IInv
<1> QED
  BY <1>1, Invariance, PTL

(* A line on an invoice leaves it only by the invoice being voided or its    *)
(* job deleted, and is not edited meanwhile.                                 *)
THEOREM BilledLinesStay == Spec => FrozenLinesStay
<1> DEFINE Stays(l) == \/ line'[l] = line[l]
                       \/ /\ line'[l] = [line[l] EXCEPT !.invoice = None]
                          /\ invoice'[line[l].invoice].status = "void"
                       \/ open'[line[l].job] = "deleted"
<1>1. ASSUME IInv, [Next]_vars, NEW l \in Lines, line[l].invoice # None
      PROVE  Stays(l)
  <2>1. ASSUME NEW j \in Jobs, DeleteJob(j)  PROVE Stays(l)
    <3>1. open'[j] = "deleted" /\ (line[l].job = j \/ line'[l] = line[l])
      BY <1>1, <2>1 DEF DeleteJob, IInv, Tables
    <3> QED
      BY <3>1
  <2>2. ASSUME NEW m \in Lines, NEW p, NEW j, AddLine(j, m, p) \/ UpdateLine(m, p) \/ DeleteLine(m)
        PROVE  line'[l] = line[l]
    <3>1. l # m
      BY <1>1, <2>2, Blank DEF AddLine, UpdateLine, DeleteLine
    <3> QED
      BY <1>1, <2>2, <3>1 DEF AddLine, UpdateLine, DeleteLine, IInv, Tables
  <2>3. ASSUME NEW w \in Workers, NEW i \in Invoices, InvoiceCommits(w, i)
        PROVE  line'[l] = line[l]
    <3>1. l \notin request[w].lines
      BY <1>1, <2>3 DEF InvoiceCommits, IInv, FrozenAreFree, Freezing
    <3> QED
      BY <2>3, <3>1 DEF InvoiceCommits
  <2>4. ASSUME NEW i \in Invoices, Void(i)  PROVE Stays(l)
    <3>1. InvoiceOk(invoice[i]) /\ DOMAIN invoice = Invoices
      BY <1>1 DEF IInv, Tables
    <3>2. invoice'[i].status = "void"
      BY <2>4, <3>1 DEF Void, InvoiceOk
    <3>3. line'[l] = IF line[l].invoice = i THEN [line[l] EXCEPT !.invoice = None] ELSE line[l]
      BY <2>4 DEF Void, Billed
    <3> QED
      BY <3>2, <3>3
  <2>5. ASSUME NEW e \in Estimates, NEW i \in Invoices, Convert(e, i)
        PROVE  line'[l] = line[l]
    <3>1. line[l] # NoLine
      BY <1>1, Blank
    <3> QED
      BY <2>5, <3>1 DEF Convert
  <2>6. ASSUME UNCHANGED line  PROVE line'[l] = line[l]
    BY <2>6
  <2>7. \/ UNCHANGED line
        \/ \E j \in Jobs : DeleteJob(j)
        \/ \E m \in Lines : \/ \E j \in Jobs, p \in Prices : AddLine(j, m, p) \/ UpdateLine(m, p)
                            \/ \E p \in Prices : UpdateLine(m, p)
                            \/ DeleteLine(m)
        \/ \E i \in Invoices : Void(i) \/ \E w \in Workers : InvoiceCommits(w, i)
        \/ \E e \in Estimates, i \in Invoices : Convert(e, i)
    BY <1>1 DEF Next, vars, CancelJob, InvoiceReads, EstimateReads, InvoiceLocks, EstimateFails,
       WorkerDies, Pay, EstimateInserts, SendEstimate, TokenLooks, SendTells, TokenIssues,
       TokenExpires, Approve
  <2> QED
    BY <2>1, <2>2, <2>3, <2>4, <2>5, <2>6, <2>7
<1>2. IInv /\ [Next]_vars =>
        [\A l \in Lines : line[l].invoice # None =>
           \/ line'[l] = line[l]
           \/ line'[l] = [line[l] EXCEPT !.invoice = None] /\ invoice'[line[l].invoice].status = "void"
           \/ open'[line[l].job] = "deleted"]_vars
  BY <1>1
<1> QED
  BY <1>2, Invariance, PTL DEF Spec, FrozenLinesStay

(* The tables agree whatever staff and customers do at once: an invoice      *)
(* asks for what the lines on it are worth, one that is void has none, and   *)
(* an estimate is approved by exactly one use of a link (invoices.py,        *)
(* estimates.py).                                                            *)
THEOREM LinesAgree == Spec => []LinesConsistent
<1>1. ASSUME FullInv  PROVE InvoicesAddUp
  <2>1. ASSUME NEW i \in Invoices  PROVE Stands(i)
    BY <1>1 DEF FullInv, Books
  <2> QED
    BY <2>1 DEF InvoicesAddUp, Stands
<1>2. ASSUME FullInv  PROVE OneApproval
  <2> SUFFICES ASSUME NEW e \in Estimates
               PROVE  /\ estimate[e].approvals = Cardinality(Spent(e))
                      /\ Cardinality(Spent(e)) = IF Settled(e) THEN 1 ELSE 0
    BY DEF OneApproval, Spent, Settled
  <2>1. \/ Settled(e) /\ estimate[e].approvals = 1 /\ \E t \in Tokens : Spent(e) = {t}
        \/ ~Settled(e) /\ estimate[e].approvals = 0 /\ Spent(e) = {}
    BY <1>2 DEF FullInv, ApprovedOnce
  <2>2. Cardinality({}) = 0 /\ \A t : Cardinality({t}) = 1
    BY FS_EmptySet, FS_Singleton
  <2> QED
    BY <2>1, <2>2
<1>3. FullInv => LinesConsistent
  BY <1>1, <1>2 DEF LinesConsistent, FullInv
<1> QED
  BY <1>3, FullInvariance, PTL

(* Converting an estimate bills what the customer approved, once: it has one *)
(* invoice, for the approved total, with that estimate's lines and no others *)
(* (convert_to_invoice).                                                     *)
THEOREM ApprovalIsBilled == Spec => []ConversionBillsApproval
<1>1. ASSUME FullInv  PROVE ConversionBillsApproval
  <2> SUFFICES ASSUME NEW e \in Estimates
               PROVE  /\ Cardinality(Made(e)) = IF estimate[e].status = "invoiced" THEN 1 ELSE 0
                      /\ \A i \in Made(e) : BillsApproval(e, i)
    BY DEF ConversionBillsApproval, Made, BillsApproval
  <2>1. Converted(e)
    BY <1>1 DEF FullInv, Books
  <2>2. Cardinality({}) = 0 /\ \A i : Cardinality({i}) = 1
    BY FS_EmptySet, FS_Singleton
  <2> QED
    BY <2>1, <2>2 DEF Converted
<1> QED
  BY <1>1, FullInvariance, PTL
=============================================================================
