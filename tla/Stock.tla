-------------------------------- MODULE Stock --------------------------------
(***************************************************************************)
(* Parts on the shelf and the purchase orders that fill it                 *)
(* (services/inventory.py, purchase_orders.py, vendors.py).                *)
(*                                                                         *)
(* receive() holds the order's row and then locks the item of one receipt  *)
(* after the other, in the order the receipts name them: each receipt is   *)
(* an action, and what it wrote is seen only when the request commits.     *)
(***************************************************************************)
EXTENDS Integers, Sequences, FiniteSets, Functions

CONSTANTS Items, Orders, Vendors, Workers,
          Null,
          Baskets,     \* bound: what may be ordered, as sequences of lines
          Deliveries,  \* bound: what may arrive, as sequences of receipts
          MaxQty,      \* bound: units of a use, and reorder points
          Events       \* bound: what staff do, all together

Wanted == [item : Items, ordered : Nat \ {0}]

Receipt == [line : Nat \ {0}, qty : Nat \ {0}]

ASSUME StockAssumption ==
  /\ Baskets \subseteq Seq(Wanted) \ {<<>>} /\ Deliveries \subseteq Seq(Receipt) \ {<<>>}
  /\ MaxQty \in Nat \ {0} /\ Events \in Nat
  /\ Null \notin Items \union Orders \union Vendors
  /\ IsFiniteSet(Items) /\ IsFiniteSet(Orders)

VARIABLES
  item,     \* inventory_items
  order,    \* purchase_orders and their lines
  active,   \* vendors that are not archived
  jobs,     \* whether the work order exists that parts are used on
  billed,   \* units on the job's committed part lines, per item (the lines of
            \*   one item are edited and removed together)
  taken,    \* history: units taken from the shelf for those lines
  loose,    \* history: units used without a job, or for lines removed since
  edited,   \* history: items whose lines' quantity was edited since
  request,  \* what each worker is doing
  budget    \* what is left of Events

lineVars == <<billed, taken, loose, edited>>
stockVars == <<item, order, active, jobs, lineVars, request, budget>>

-----------------------------------------------------------------------------
Quantities == 1 .. MaxQty

(* moved: since reorder_point last changed. *)
Item == [on_hand : Nat, reorder : Nat, alerted : BOOLEAN, moved : BOOLEAN]

OrderLine == [item : Items, ordered : Nat \ {0}, received : Nat]

Order == [status : {"none", "draft", "submitted", "received", "cancelled"},
          vendor : Vendors \union {Null}, lines : Seq(OrderLine)]

NoOrder == [status |-> "none", vendor |-> Null, lines |-> <<>>]

(* takes: units this request adds to the shelf, lines: to the order. *)
Request == [stage : {"idle", "drafting", "receiving", "using"},
            order : Orders \union {Null}, vendor : Vendors \union {Null},
            lines : Seq(OrderLine), receipts : Seq(Receipt), done : Nat,
            item : Items \union {Null}, qty : Nat, job : BOOLEAN]

Idle == [stage |-> "idle", order |-> Null, vendor |-> Null, lines |-> <<>>,
         receipts |-> <<>>, done |-> 0, item |-> Null, qty |-> 0, job |-> FALSE]

StockInit ==
  /\ item = [i \in Items |-> [on_hand |-> 0, reorder |-> 1, alerted |-> FALSE, moved |-> FALSE]]
  /\ order = [p \in Orders |-> NoOrder]
  /\ active = Vendors
  /\ jobs = TRUE
  /\ billed = [i \in Items |-> 0] /\ taken = billed /\ loose = billed
  /\ edited = {}
  /\ request = [w \in Workers |-> Idle]
  /\ budget = Events

-----------------------------------------------------------------------------
Event == budget > 0 /\ budget' = budget - 1

IsIdle(w) == request[w].stage = "idle"

Becomes(w, new) == request' = [request EXCEPT ![w] = new]

(* FOR UPDATE on purchase_orders. *)
OrderHeld(p) == \E w \in Workers : request[w].stage = "receiving" /\ request[w].order = p

(* The n-th receipt of w, its order line and the item that line is for. *)
Got(w, n) == request[w].receipts[n]
ItemOf(w, n) == order[request[w].order].lines[Got(w, n).line].item

(* Items a delivery has written and not committed. *)
HeldBy(w) == IF request[w].stage = "receiving" THEN {ItemOf(w, n) : n \in 1 .. request[w].done}
             ELSE {}

HeldByOther(w, i) == \E v \in Workers \ {w} : i \in HeldBy(v)

(* The units of the receipts in S of w. *)
Arrived(w, S) == SumFunctionOnSet([n \in DOMAIN request[w].receipts |-> Got(w, n).qty], S)

(* What w has received so far on line k of its order, and of item i. *)
OnLine(w, k) == Arrived(w, {n \in 1 .. request[w].done : Got(w, n).line = k})
OfItem(w, i) == Arrived(w, {n \in 1 .. request[w].done : ItemOf(w, n) = i})

(* use_inventory_part_atomic and receive_inventory_atomic write this row. *)
Moved(row, delta) ==
  [row EXCEPT !.on_hand = row.on_hand + delta,
              !.alerted = row.on_hand + delta < row.reorder, !.moved = TRUE]

-----------------------------------------------------------------------------
(* Items and vendors. *)

(* inventory.update: low_stock_alerted is left as it is. *)
SetReorderPoint(i, n) ==
  /\ \A w \in Workers : i \notin HeldBy(w)
  /\ n # item[i].reorder /\ Event
  /\ item' = [item EXCEPT ![i] = [item[i] EXCEPT !.reorder = n, !.moved = FALSE]]
  /\ UNCHANGED <<order, active, jobs, lineVars, request>>

(* vendors.set_active. *)
SetVendorActive(v) ==
  /\ Event
  /\ active' = IF v \in active THEN active \ {v} ELSE active \union {v}
  /\ UNCHANGED <<item, order, jobs, lineVars, request>>

(* jobs.update_line_item: the quantity of a committed line is an ordinary    *)
(* column, and the shelf is not looked at. *)
EditPartLine(i, n) ==
  /\ billed[i] \notin {0, n} /\ Event
  /\ billed' = [billed EXCEPT ![i] = n]
  /\ edited' = edited \union {i}
  /\ UNCHANGED <<item, order, active, jobs, taken, loose, request>>

(* The lines of the items in gone are removed; the stock is not put back. *)
Removed(gone) ==
  /\ loose' = [i \in Items |-> IF i \in gone THEN loose[i] + taken[i] ELSE loose[i]]
  /\ taken' = [i \in Items |-> IF i \in gone THEN 0 ELSE taken[i]]
  /\ billed' = [i \in Items |-> IF i \in gone THEN 0 ELSE billed[i]]
  /\ edited' = edited \ gone

(* jobs.delete_line_item. *)
DeletePartLine(i) ==
  /\ billed[i] > 0 /\ Event
  /\ Removed({i})
  /\ UNCHANGED <<item, order, active, jobs, request>>

(* jobs.delete. *)
DeleteJob ==
  /\ jobs /\ Event
  /\ jobs' = FALSE
  /\ Removed(Items)
  /\ UNCHANGED <<item, order, active, request>>

-----------------------------------------------------------------------------
(* use_inventory_part_atomic: the job is looked for .. *)
UseLooks(w, i, q, named) ==
  /\ IsIdle(w) /\ (named => jobs) /\ Event
  /\ Becomes(w, [Idle EXCEPT !.stage = "using", !.item = i, !.qty = q, !.job = named])
  /\ UNCHANGED <<item, order, active, jobs, lineVars>>

(* q units of i go on the job's lines, or nowhere the tables tell of. *)
OnLines(i, q) ==
  /\ billed' = [billed EXCEPT ![i] = billed[i] + q]
  /\ taken' = [taken EXCEPT ![i] = taken[i] + q]
  /\ UNCHANGED <<loose, edited>>

OffJob(i, q) ==
  /\ loose' = [loose EXCEPT ![i] = loose[i] + q]
  /\ UNCHANGED <<billed, taken, edited>>

(* Mutant: the stock is deducted although the line cannot be written. *)
UseTakesAnyway(w) ==
  LET i == request[w].item
      q == request[w].qty IN
  /\ request[w].stage = "using" /\ ~HeldByOther(w, i)
  /\ item[i].on_hand >= q
  /\ item' = [item EXCEPT ![i] = Moved(item[i], - q)]
  /\ IF ~request[w].job THEN OffJob(i, q) ELSE OnLines(i, IF jobs THEN q ELSE 0)
  /\ Becomes(w, Idle)
  /\ UNCHANGED <<order, active, jobs, budget>>

(* .. UPDATE .. WHERE quantity_on_hand >= :qty waits for the row, and the    *)
(* part line is written with it, or neither if the job is gone. *)
UseTakes(w) ==
  LET i == request[w].item
      q == request[w].qty IN
  /\ request[w].stage = "using" /\ ~HeldByOther(w, i)
  /\ item[i].on_hand >= q /\ (request[w].job => jobs)
  /\ item' = [item EXCEPT ![i] = Moved(item[i], - q)]
  /\ IF request[w].job THEN OnLines(i, q) ELSE OffJob(i, q)
  /\ Becomes(w, Idle)
  /\ UNCHANGED <<order, active, jobs, budget>>

UseFails(w) ==
  /\ request[w].stage = "using" /\ ~HeldByOther(w, request[w].item)
  /\ item[request[w].item].on_hand < request[w].qty \/ (request[w].job /\ ~jobs)
  /\ Becomes(w, Idle)
  /\ UNCHANGED <<item, order, active, jobs, lineVars, budget>>

-----------------------------------------------------------------------------
(* Purchase orders. *)

(* create_draft, with the lines staff typed in: the vendor is looked at .. *)
DraftLooks(w, v, typed) ==
  /\ IsIdle(w) /\ v \in active /\ Event
  /\ Becomes(w, [Idle EXCEPT !.stage = "drafting", !.vendor = v,
                             !.lines = [k \in DOMAIN typed |->
                               [item |-> typed[k].item, ordered |-> typed[k].ordered,
                                received |-> 0]]])
  /\ UNCHANGED <<item, order, active, jobs, lineVars>>

(* generate_draft_from_suggestions: what is missing up to reorder_point. *)
DraftSuggests(w, v, chosen) ==
  LET short == {i \in chosen : item[i].on_hand < item[i].reorder} IN
  /\ IsIdle(w) /\ short # {} /\ v \in active /\ Event
  /\ \E s \in Bijection(1 .. Cardinality(short), short) :
       Becomes(w, [Idle EXCEPT !.stage = "drafting", !.vendor = v,
                               !.lines = [k \in DOMAIN s |->
                                 [item |-> s[k], received |-> 0,
                                  ordered |-> item[s[k]].reorder - item[s[k]].on_hand]]])
  /\ UNCHANGED <<item, order, active, jobs, lineVars>>

(* .. and the order inserted, by then perhaps on an archived vendor. *)
DraftCommits(w, p) ==
  /\ request[w].stage = "drafting" /\ order[p] = NoOrder
  /\ order' = [order EXCEPT ![p] = [status |-> "draft", vendor |-> request[w].vendor,
                                    lines |-> request[w].lines]]
  /\ Becomes(w, Idle)
  /\ UNCHANGED <<item, active, jobs, lineVars, budget>>

(* PurchaseOrderSM. *)
Transitions == [draft |-> {"submitted", "cancelled"}, submitted |-> {"received", "cancelled"},
                none |-> {}, received |-> {}, cancelled |-> {}]

(* submit and cancel: one statement each under the order's lock. *)
SetStatus(p, target) ==
  /\ target \in {"submitted", "cancelled"} \intersect Transitions[order[p].status]
  /\ ~OrderHeld(p)
  /\ order' = [order EXCEPT ![p] = [order[p] EXCEPT !.status = target]]
  /\ UNCHANGED <<item, active, jobs, lineVars, request, budget>>

(* receive: the order's row is locked and its transition asserted .. *)
ReceiveOpens(w, p, receipts) ==
  /\ IsIdle(w) /\ "received" \in Transitions[order[p].status] /\ ~OrderHeld(p) /\ Event
  /\ \A n \in DOMAIN receipts : receipts[n].line \in DOMAIN order[p].lines
  /\ Becomes(w, [Idle EXCEPT !.stage = "receiving", !.order = p, !.receipts = receipts])
  /\ UNCHANGED <<item, order, active, jobs, lineVars>>

Upcoming(w) == request[w].done + 1

MoreToDo(w) == request[w].stage = "receiving" /\ request[w].done < Len(request[w].receipts)

(* Mutant: what this delivery already added is forgotten. *)
TooManyAtOnce(w) ==
  LET l == order[request[w].order].lines[Got(w, Upcoming(w)).line] IN
  l.received + Got(w, Upcoming(w)).qty > l.ordered

(* More than is outstanding, counting what this delivery already added. *)
TooMany(w) ==
  LET l == order[request[w].order].lines[Got(w, Upcoming(w)).line] IN
  l.received + OnLine(w, Got(w, Upcoming(w)).line) + Got(w, Upcoming(w)).qty > l.ordered

(* .. then line by line: its item's row is waited for and written .. *)
ReceiveLine(w) ==
  /\ MoreToDo(w) /\ ~TooMany(w) /\ ~HeldByOther(w, ItemOf(w, Upcoming(w)))
  /\ Becomes(w, [request[w] EXCEPT !.done = Upcoming(w)])
  /\ UNCHANGED <<item, order, active, jobs, lineVars, budget>>

(* .. or everything is rolled back .. *)
ReceiveFails(w) ==
  /\ MoreToDo(w) /\ TooMany(w)
  /\ Becomes(w, Idle)
  /\ UNCHANGED <<item, order, active, jobs, lineVars, budget>>

(* .. until the status is written and all of it is committed. *)
ReceiveCommits(w) ==
  LET p == request[w].order IN
  /\ request[w].stage = "receiving" /\ request[w].done = Len(request[w].receipts)
  /\ order' = [order EXCEPT ![p] = [order[p] EXCEPT !.status = "received",
       !.lines = [k \in DOMAIN order[p].lines |->
         [order[p].lines[k] EXCEPT !.received = order[p].lines[k].received + OnLine(w, k)]]]]
  /\ item' = [i \in Items |-> IF i \in HeldBy(w) THEN Moved(item[i], OfItem(w, i)) ELSE item[i]]
  /\ Becomes(w, Idle)
  /\ UNCHANGED <<active, jobs, lineVars, budget>>

(* Two deliveries that name the same items in different orders wait for each *)
(* other: PostgreSQL rolls one of them back. *)
WaitsFor(w, v) == MoreToDo(w) /\ w # v /\ ItemOf(w, Upcoming(w)) \in HeldBy(v)

DeadlockBroken(victim) ==
  /\ \E w \in Workers : WaitsFor(w, victim) /\ WaitsFor(victim, w)
  /\ Becomes(victim, Idle)
  /\ UNCHANGED <<item, order, active, jobs, lineVars, budget>>

RequestDies(w) ==
  /\ ~IsIdle(w) /\ Event
  /\ Becomes(w, Idle)
  /\ UNCHANGED <<item, order, active, jobs, lineVars>>

-----------------------------------------------------------------------------
StockNext ==
  \/ \E i \in Items, n \in 0 .. MaxQty : SetReorderPoint(i, n)
  \/ \E v \in Vendors : SetVendorActive(v)
  \/ \E i \in Items, n \in Quantities : EditPartLine(i, n)
  \/ \E i \in Items : DeletePartLine(i)
  \/ DeleteJob
  \/ \E w \in Workers, i \in Items, q \in Quantities, named \in BOOLEAN : UseLooks(w, i, q, named)
  \/ \E w \in Workers, v \in Vendors, typed \in Baskets : DraftLooks(w, v, typed)
  \/ \E w \in Workers, v \in Vendors, chosen \in SUBSET Items : DraftSuggests(w, v, chosen)
  \/ \E w \in Workers, p \in Orders : DraftCommits(w, p)
  \/ \E p \in Orders, target \in {"submitted", "cancelled"} : SetStatus(p, target)
  \/ \E w \in Workers, p \in Orders, receipts \in Deliveries : ReceiveOpens(w, p, receipts)
  \/ \E w \in Workers :
       \/ UseTakes(w) \/ UseFails(w) \/ ReceiveLine(w) \/ ReceiveFails(w)
       \/ ReceiveCommits(w) \/ DeadlockBroken(w) \/ RequestDies(w)

StockSpec == StockInit /\ [][StockNext]_stockVars

-----------------------------------------------------------------------------
(* Types of the tables and of the requests in progress. *)
StockTypeOK ==
  /\ item \in [Items -> Item]
  /\ order \in [Orders -> Order]
  /\ active \subseteq Vendors
  /\ jobs \in BOOLEAN
  /\ billed \in [Items -> Nat] /\ taken \in [Items -> Nat]
  /\ loose \in [Items -> Nat] /\ edited \subseteq Items
  /\ request \in [Workers -> Request]
  /\ budget \in Nat

(* What the order p, and what all of them say was received of item i. *)
ReceivedOn(p, i) ==
  SumFunctionOnSet([k \in DOMAIN order[p].lines |-> order[p].lines[k].received],
                   {k \in DOMAIN order[p].lines : order[p].lines[k].item = i})

Received(i) == SumFunctionOnSet([p \in Orders |-> ReceivedOn(p, i)], Orders)

(* "every unit on the shelf always traces back to a real receipt": what the  *)
(* orders say was received is on the shelf, was taken for the job's lines,   *)
(* or was used otherwise; nothing is lost or counted twice, whichever uses   *)
(* and deliveries cross.  use_inventory_part_atomic, receive. *)
ShelfAddsUp == \A i \in Items : Received(i) = item[i].on_hand + taken[i] + loose[i]

(* A committed part line bills the units that were taken for it, whatever    *)
(* became of the job meanwhile, until somebody edits its quantity; what       *)
(* inventory.py says of every part on a work order has no such exception.     *)
(* use_inventory_part_atomic, update_line_item. *)
BilledAsTaken == \A i \in Items : i \notin edited => billed[i] = taken[i]

(* A delivery is booked as a whole or not at all, once, and never beyond     *)
(* what was ordered: only an order that is "received" has lines with         *)
(* anything on them, and it has some.  receive, against cancel, a second     *)
(* delivery, and a failure or deadlock half-way. *)
DeliveriesWhole ==
  \A p \in Orders :
    LET got == {k \in DOMAIN order[p].lines : order[p].lines[k].received > 0} IN
    /\ got # {} <=> order[p].status = "received"
    /\ \A k \in got : order[p].lines[k].received <= order[p].lines[k].ordered

(* low_stock_alerted tells whether the shelf is below the reorder point, as  *)
(* long as that was not changed since stock last moved.  The two writers of  *)
(* quantity_on_hand. *)
AlertCurrent == \A i \in Items :
  item[i].moved => item[i].alerted = (item[i].on_hand < item[i].reorder)

(* The shelf, its alerts, the orders and the work order agree: inventory.py,  *)
(* purchase_orders.py, jobs.py. *)
StockConsistent ==
  /\ StockTypeOK
  /\ ShelfAddsUp
  /\ BilledAsTaken
  /\ AlertCurrent
=============================================================================
