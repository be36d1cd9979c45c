----------------------------- MODULE BooksProofs -----------------------------
(***************************************************************************)
(* What the books of Stock and of InvoiceLedger keep for every set of      *)
(* items, orders, requests, invoices, checkouts and refunds at once.       *)
(*                                                                         *)
(* Stock: every unit received is on the shelf or where it was used, and a  *)
(* delivery is booked as a whole.                                          *)
(*                                                                         *)
(* InvoiceLedger: its types, that a checkout is credited at most once,     *)
(* that an invoice's status tells the truth about its ledgers, and that    *)
(* the ledgers are the sums of what was credited and booked.               *)
(***************************************************************************)
EXTENDS InvoiceLedger, Stock, Sums, TLAPS

-----------------------------------------------------------------------------
(* Stock: shelves and purchase orders.                                      *)

(* What the request r has received of line k and, with the lines ls of its   *)
(* order, of item i; what lines say was received of an item.                 *)
Units(r, S) == SumFunctionOnSet([n \in DOMAIN r.receipts |-> r.receipts[n].qty], S)
OfLine(r, k) == Units(r, {n \in 1 .. r.done : r.receipts[n].line = k})
OfKind(r, ls, i) == Units(r, {n \in 1 .. r.done : ls[r.receipts[n].line].item = i})
For(ls, i) == {k \in DOMAIN ls : ls[k].item = i}
InBooks(ls, i) == SumFunctionOnSet([k \in DOMAIN ls |-> ls[k].received], For(ls, i))

(* A delivery under way: its order waits for it, no line gets more than was  *)
(* ordered, and lines and items tell of the same units.                      *)
DeliveryOk(r, o) ==
  /\ o.status = "submitted"
  /\ r.receipts # <<>> /\ r.done \in 0 .. Len(r.receipts)
  /\ \A n \in DOMAIN r.receipts : r.receipts[n].line \in DOMAIN o.lines
  /\ \A k \in DOMAIN o.lines : OfLine(r, k) \in Nat /\ OfLine(r, k) <= o.lines[k].ordered
  /\ \A i \in Items :
       OfKind(r, o.lines, i)
         = SumFunctionOnSet([k \in DOMAIN o.lines |-> OfLine(r, k)], For(o.lines, i))

OrdersWhole ==
  \A p \in Orders :
    /\ order[p].status # "received" => \A k \in DOMAIN order[p].lines : order[p].lines[k].received = 0
    /\ order[p].status = "received" =>
         /\ \A k \in DOMAIN order[p].lines : order[p].lines[k].received <= order[p].lines[k].ordered
         /\ \E k \in DOMAIN order[p].lines : order[p].lines[k].received > 0

(* What the stage of the request r says about it, with the orders M.         *)
FitsStage(r, M) ==
  /\ r.stage = "using" => r.item \in Items
  /\ r.stage = "drafting" => \A k \in DOMAIN r.lines : r.lines[k].received = 0
  /\ r.stage = "receiving" => r.order \in Orders /\ DeliveryOk(r, M[r.order])

RequestsOk == \A w \in Workers : FitsStage(request[w], order)

(* An order is received by one request at a time.                            *)
DeliveriesApart ==
  \A v, w \in Workers : v # w /\ request[v].stage = "receiving" /\ request[w].stage = "receiving"
                          => request[v].order # request[w].order

StockInv ==
  /\ StockTypeOK
  /\ OrdersWhole /\ RequestsOk /\ DeliveriesApart
  /\ ShelfAddsUp /\ AlertCurrent

-----------------------------------------------------------------------------
(* Sequences and sums of their parts.                                       *)
LEMMA FunctionIsSeq ==
  ASSUME NEW T, NEW n \in Nat, NEW g \in [1 .. n -> T]
  PROVE  g \in Seq(T) /\ Len(g) = n
OBVIOUS

LEMMA DomainFinite ==
  ASSUME NEW T, NEW s \in Seq(T)
  PROVE  /\ DOMAIN s = 1 .. Len(s) /\ Len(s) \in Nat /\ IsFiniteSet(DOMAIN s)
         /\ \A k \in DOMAIN s : s[k] \in T
<1>1. DOMAIN s = 1 .. Len(s) /\ Len(s) \in Nat /\ \A k \in DOMAIN s : s[k] \in T
  OBVIOUS
<1>2. IsFiniteSet(1 .. Len(s))
  BY <1>1, FS_Interval
<1> QED
  BY <1>1, <1>2

LEMMA BooksOfLines ==
  ASSUME NEW ls \in Seq(OrderLine), NEW i
  PROVE  /\ IsFiniteSet(For(ls, i)) /\ For(ls, i) \subseteq DOMAIN ls
         /\ InBooks(ls, i) \in Nat
         /\ (\A k \in DOMAIN ls : ls[k].received = 0) => InBooks(ls, i) = 0
<1>1. IsFiniteSet(DOMAIN ls) /\ \A k \in DOMAIN ls : ls[k] \in OrderLine
  BY DomainFinite
<1>2. For(ls, i) \subseteq DOMAIN ls /\ IsFiniteSet(For(ls, i))
  BY <1>1, FS_Subset DEF For
<1> DEFINE f == [k \in DOMAIN ls |-> ls[k].received]
<1>3. \A k \in For(ls, i) : f[k] = ls[k].received /\ f[k] \in Nat
  BY <1>1, <1>2 DEF OrderLine
<1>4. InBooks(ls, i) = SumFunctionOnSet(f, For(ls, i))
  BY DEF InBooks
<1> HIDE DEF f
<1>5. InBooks(ls, i) \in Nat
  BY <1>2, <1>3, <1>4, SumIsNat
<1>6. (\A k \in DOMAIN ls : ls[k].received = 0) => InBooks(ls, i) = 0
  BY <1>2, <1>3, <1>4, SumOfZeros
<1> QED
  BY <1>2, <1>5, <1>6

(* What one more receipt adds.                                              *)
LEMMA OneMoreReceipt ==
  ASSUME NEW f, NEW n \in Nat, NEW S, S \subseteq 1 .. n, NEW N \in Nat, n + 1 <= N,
         \A m \in 1 .. N : f[m] \in Nat
  PROVE  /\ SumFunctionOnSet(f, S) \in Nat
         /\ SumFunctionOnSet(f, S \union {n + 1}) = f[n + 1] + SumFunctionOnSet(f, S)
<1>0. IsFiniteSet(1 .. n)
  BY FS_Interval
<1>1. IsFiniteSet(S)
  BY <1>0, FS_Subset
<1>2. n + 1 \notin S /\ n + 1 \in 1 .. N /\ S \subseteq 1 .. N
  OBVIOUS
<1>3. \A m \in S \union {n + 1} : f[m] \in Nat
  BY <1>2
<1>4. SumFunctionOnSet(f, S) \in Nat
  BY <1>1, <1>3, SumIsNat
<1>5. SumFunctionOnSet(f, S \union {n + 1}) = f[n + 1] + SumFunctionOnSet(f, S)
  <2> DEFINE x == n + 1
  <2>1. x \notin S /\ \A m \in S \union {x} : f[m] \in Nat
    BY <1>2, <1>3
  <2> HIDE DEF x
  <2>2. SumFunctionOnSet(f, S \union {x}) = f[x] + SumFunctionOnSet(f, S)
    BY <1>1, <2>1, SumPutsIn
  <2> QED
    BY <2>2 DEF x
<1> QED
  BY <1>4, <1>5

(* A delivery that has just opened has received nothing.                    *)
LEMMA OpensOk ==
  ASSUME NEW r, NEW o, o.lines \in Seq(OrderLine), o.status = "submitted",
         r.receipts \in Seq(Receipt), r.receipts # <<>>, r.done = 0,
         \A n \in DOMAIN r.receipts : r.receipts[n].line \in DOMAIN o.lines
  PROVE  DeliveryOk(r, o)
<1>1. \A k : OfLine(r, k) = 0
  <2> SUFFICES ASSUME NEW k  PROVE OfLine(r, k) = 0
    OBVIOUS
  <2>1. {n \in 1 .. r.done : r.receipts[n].line = k} = {}
    OBVIOUS
  <2> QED
    BY <2>1, SumOfNothing DEF OfLine, Units
<1>2. ASSUME NEW i  PROVE OfKind(r, o.lines, i) = 0
  <2>1. {n \in 1 .. r.done : o.lines[r.receipts[n].line].item = i} = {}
    OBVIOUS
  <2> QED
    BY <2>1, SumOfNothing DEF OfKind, Units
<1>3. ASSUME NEW i
      PROVE  SumFunctionOnSet([k \in DOMAIN o.lines |-> OfLine(r, k)], For(o.lines, i)) = 0
  <2> DEFINE f == [k \in DOMAIN o.lines |-> OfLine(r, k)]
  <2>1. IsFiniteSet(For(o.lines, i)) /\ For(o.lines, i) \subseteq DOMAIN o.lines
    BY BooksOfLines
  <2>2. \A k \in For(o.lines, i) : f[k] = 0
    BY <1>1, <2>1
  <2> HIDE DEF f
  <2>3. SumFunctionOnSet(f, For(o.lines, i)) = 0
    BY <2>1, <2>2, SumOfZeros
  <2> QED
    BY <2>3 DEF f
<1>4. \A k \in DOMAIN o.lines : o.lines[k].ordered \in Nat
  <2>1. \A k \in DOMAIN o.lines : o.lines[k] \in OrderLine
    BY DomainFinite
  <2> QED
    BY <2>1 DEF OrderLine
<1>5. 0 \in 0 .. Len(r.receipts)
  BY DomainFinite
<1> QED
  BY <1>1, <1>2, <1>3, <1>4, <1>5 DEF DeliveryOk

(* The item of each line of an order is one of the items.                   *)
LEMMA LineTypes ==
  ASSUME NEW ls \in Seq(OrderLine), NEW k \in DOMAIN ls
  PROVE  /\ ls[k] \in OrderLine /\ ls[k].item \in Items
         /\ ls[k].ordered \in Nat \ {0} /\ ls[k].received \in Nat
<1>1. ls[k] \in OrderLine
  BY DomainFinite
<1> QED
  BY <1>1 DEF OrderLine

LEMMA ReceiptTypes ==
  ASSUME NEW rs \in Seq(Receipt), NEW n \in 1 .. Len(rs)
  PROVE  /\ n \in DOMAIN rs /\ rs[n] \in Receipt
         /\ rs[n].line \in Nat \ {0} /\ rs[n].qty \in Nat \ {0}
<1>1. n \in DOMAIN rs /\ rs[n] \in Receipt
  BY DomainFinite
<1> QED
  BY <1>1 DEF Receipt

(* The units of some receipts are a number, and of one receipt more, more.   *)
LEMMA UnitsGrow ==
  ASSUME NEW r, r.receipts \in Seq(Receipt), NEW n \in Nat, n + 1 <= Len(r.receipts),
         NEW S, S \subseteq 1 .. n
  PROVE  /\ Units(r, S) \in Nat
         /\ Units(r, S \union {n + 1}) = r.receipts[n + 1].qty + Units(r, S)
<1> DEFINE f == [m \in DOMAIN r.receipts |-> r.receipts[m].qty]
<1>1. Len(r.receipts) \in Nat /\ n + 1 \in 1 .. Len(r.receipts)
  BY DomainFinite
<1>2. \A m \in 1 .. Len(r.receipts) : f[m] = r.receipts[m].qty /\ f[m] \in Nat
  BY ReceiptTypes
<1>3. \A T : Units(r, T) = SumFunctionOnSet(f, T)
  BY DEF Units
<1> HIDE DEF f
<1>4. /\ SumFunctionOnSet(f, S) \in Nat
      /\ SumFunctionOnSet(f, S \union {n + 1}) = f[n + 1] + SumFunctionOnSet(f, S)
  BY <1>1, <1>2, OneMoreReceipt
<1> QED
  BY <1>1, <1>2, <1>3, <1>4

(* A receipt of q units for line k0 is added to the units of that line and   *)
(* of its item, and to no others.                                            *)
Adds(r, r2, ls, k0, q) ==
  /\ \A k : OfLine(r, k) \in Nat
  /\ \A k : OfLine(r2, k) = IF k = k0 THEN OfLine(r, k) + q ELSE OfLine(r, k)
  /\ \A i : OfKind(r, ls, i) \in Nat
  /\ \A i : OfKind(r2, ls, i) = IF ls[k0].item = i THEN OfKind(r, ls, i) + q
                                                  ELSE OfKind(r, ls, i)

LEMMA ReceiptAdds ==
  ASSUME NEW r, NEW ls, r.receipts \in Seq(Receipt), r.done \in Nat,
         r.done + 1 <= Len(r.receipts),
         NEW r2, r2.receipts = r.receipts, r2.done = r.done + 1,
         NEW k0, k0 = r.receipts[r.done + 1].line, NEW q, q = r.receipts[r.done + 1].qty
  PROVE  Adds(r, r2, ls, k0, q)
<1> DEFINE On(k) == {n \in 1 .. r.done : r.receipts[n].line = k}
           Of(i) == {n \in 1 .. r.done : ls[r.receipts[n].line].item = i}
<1>1. q \in Nat /\ Len(r.receipts) \in Nat
  BY ReceiptTypes, DomainFinite
<1>2. \A S : Units(r2, S) = Units(r, S)
  BY DEF Units
<1>3. ASSUME NEW k
      PROVE  /\ OfLine(r, k) \in Nat
             /\ OfLine(r2, k) = IF k = k0 THEN OfLine(r, k) + q ELSE OfLine(r, k)
  <2>1. OfLine(r, k) = Units(r, On(k)) /\ On(k) \subseteq 1 .. r.done
    BY DEF OfLine
  <2>2. OfLine(r2, k) = Units(r, IF k = k0 THEN On(k) \union {r.done + 1} ELSE On(k))
    <3>1. {n \in 1 .. r2.done : r2.receipts[n].line = k}
            = IF k = k0 THEN On(k) \union {r.done + 1} ELSE On(k)
      OBVIOUS
    <3> QED
      BY <3>1, <1>2 DEF OfLine
  <2> HIDE DEF On
  <2>3. Units(r, On(k)) \in Nat /\ Units(r, On(k) \union {r.done + 1}) = q + Units(r, On(k))
    BY <2>1, UnitsGrow
  <2> QED
    BY <1>1, <2>1, <2>2, <2>3
<1>4. ASSUME NEW i
      PROVE  /\ OfKind(r, ls, i) \in Nat
             /\ OfKind(r2, ls, i) = IF ls[k0].item = i THEN OfKind(r, ls, i) + q
                                                     ELSE OfKind(r, ls, i)
  <2>1. OfKind(r, ls, i) = Units(r, Of(i)) /\ Of(i) \subseteq 1 .. r.done
    BY DEF OfKind
  <2>2. OfKind(r2, ls, i) = Units(r, IF ls[k0].item = i THEN Of(i) \union {r.done + 1} ELSE Of(i))
    <3>1. {n \in 1 .. r2.done : ls[r2.receipts[n].line].item = i}
            = IF ls[k0].item = i THEN Of(i) \union {r.done + 1} ELSE Of(i)
      OBVIOUS
    <3> QED
      BY <3>1, <1>2 DEF OfKind
  <2> HIDE DEF Of
  <2>3. Units(r, Of(i)) \in Nat /\ Units(r, Of(i) \union {r.done + 1}) = q + Units(r, Of(i))
    BY <2>1, UnitsGrow
  <2> QED
    BY <1>1, <2>1, <2>2, <2>3
<1> QED
  BY <1>3, <1>4 DEF Adds

(* A receipt that is not too many keeps a delivery in order.                *)
LEMMA ReceiptKeeps ==
  ASSUME NEW r, NEW o, DeliveryOk(r, o), o.lines \in Seq(OrderLine),
         r.receipts \in Seq(Receipt), r.done < Len(r.receipts),
         NEW r2, r2.receipts = r.receipts, r2.done = r.done + 1,
         NEW k0, k0 = r.receipts[r.done + 1].line, NEW q, q = r.receipts[r.done + 1].qty,
         o.lines[k0].received + OfLine(r, k0) + q <= o.lines[k0].ordered
  PROVE  DeliveryOk(r2, o)
<1>1. r.done \in Nat /\ r.done + 1 <= Len(r.receipts) /\ Len(r.receipts) \in Nat
  BY DomainFinite DEF DeliveryOk
<1>2. /\ \A k : OfLine(r, k) \in Nat
      /\ \A k : OfLine(r2, k) = IF k = k0 THEN OfLine(r, k) + q ELSE OfLine(r, k)
      /\ \A i : OfKind(r, o.lines, i) \in Nat
      /\ \A i : OfKind(r2, o.lines, i) = IF o.lines[k0].item = i THEN OfKind(r, o.lines, i) + q
                                                               ELSE OfKind(r, o.lines, i)
  <2>1. Adds(r, r2, o.lines, k0, q)
    BY <1>1, ReceiptAdds
  <2> QED
    BY <2>1 DEF Adds
<1>3. r.done + 1 \in 1 .. Len(r.receipts)
  BY <1>1
<1>4. q \in Nat /\ r.done + 1 \in DOMAIN r.receipts
  BY <1>3, ReceiptTypes
<1>5. k0 \in DOMAIN o.lines
  BY <1>4 DEF DeliveryOk
<1>6. o.lines[k0].received \in Nat /\ \A k \in DOMAIN o.lines : o.lines[k].ordered \in Nat
  BY <1>5, LineTypes
<1>7. \A k \in DOMAIN o.lines : OfLine(r2, k) \in Nat /\ OfLine(r2, k) <= o.lines[k].ordered
  <2> SUFFICES ASSUME NEW k \in DOMAIN o.lines
               PROVE  OfLine(r2, k) \in Nat /\ OfLine(r2, k) <= o.lines[k].ordered
    OBVIOUS
  <2>1. OfLine(r, k) \in Nat /\ OfLine(r, k) <= o.lines[k].ordered
    BY DEF DeliveryOk
  <2>2. CASE k = k0
    <3>1. OfLine(r2, k) = OfLine(r, k0) + q /\ OfLine(r, k0) \in Nat
      BY <1>2, <2>2
    <3>2. o.lines[k0].ordered \in Nat /\ o.lines[k].ordered = o.lines[k0].ordered
      BY <1>6, <2>2
    <3>3. OfLine(r, k0) + q \in Nat /\ OfLine(r, k0) + q <= o.lines[k0].ordered
      <4>1. /\ o.lines[k0].received \in Nat /\ OfLine(r, k0) \in Nat
            /\ q \in Nat /\ o.lines[k0].ordered \in Nat
            /\ o.lines[k0].received + OfLine(r, k0) + q <= o.lines[k0].ordered
        BY <1>4, <1>6, <3>1, <3>2
      <4>2. PICK a \in Nat, b \in Nat, c \in Nat, d \in Nat :
              /\ a = o.lines[k0].received /\ b = OfLine(r, k0)
              /\ c = q /\ d = o.lines[k0].ordered
        BY <4>1
      <4>3. a + b + c <= d
        BY <4>1, <4>2
      <4>4. b + c \in Nat /\ b + c <= d
        BY <4>3
      <4> QED
        BY <4>2, <4>4
    <3> QED
      BY <3>1, <3>2, <3>3
  <2>3. CASE k # k0
    BY <1>2, <2>1, <2>3
  <2> QED
    BY <2>2, <2>3
<1>8. ASSUME NEW i \in Items
      PROVE  OfKind(r2, o.lines, i)
               = SumFunctionOnSet([k \in DOMAIN o.lines |-> OfLine(r2, k)], For(o.lines, i))
  <2> DEFINE f == [k \in DOMAIN o.lines |-> OfLine(r, k)]
             g == [k \in DOMAIN o.lines |-> OfLine(r2, k)]
  <2>1. /\ \A k \in DOMAIN o.lines : f[k] = OfLine(r, k) /\ g[k] = OfLine(r2, k)
        /\ OfKind(r, o.lines, i) = SumFunctionOnSet(f, For(o.lines, i))
    BY DEF DeliveryOk
  <2>2. IsFiniteSet(For(o.lines, i)) /\ For(o.lines, i) \subseteq DOMAIN o.lines
    BY BooksOfLines
  <2>3. k0 \in For(o.lines, i) <=> o.lines[k0].item = i
    BY <1>5 DEF For
  <2> HIDE DEF f, g
  <2>4. CASE o.lines[k0].item = i
    <3>0. OfLine(r, k0) \in Nat /\ OfLine(r2, k0) = OfLine(r, k0) + q
      BY <1>2
    <3>1. f[k0] = OfLine(r, k0) /\ g[k0] = OfLine(r, k0) + q /\ f[k0] \in Nat
      BY <1>5, <2>1, <3>0
    <3>b. \A k \in DOMAIN o.lines : f[k] \in Nat /\ g[k] \in Nat
      BY <1>7, <2>1 DEF DeliveryOk
    <3>a. ASSUME NEW k \in For(o.lines, i) \ {k0}  PROVE f[k] = g[k]
      <4>1. k \in DOMAIN o.lines /\ k # k0
        BY <2>2
      <4>2. OfLine(r2, k) = OfLine(r, k)
        BY <1>2, <4>1
      <4> QED
        BY <2>1, <4>1, <4>2
    <3>2. ChangesAt(f, g, For(o.lines, i), k0)
      BY <2>2, <2>3, <2>4, <3>b, <3>a DEF ChangesAt
    <3>3. SumFunctionOnSet(g, For(o.lines, i)) = SumFunctionOnSet(f, For(o.lines, i)) - f[k0] + g[k0]
      BY <3>2, SumChanges
    <3>4. SumFunctionOnSet(f, For(o.lines, i)) \in Nat
      BY <1>2, <2>1
    <3>5. SumFunctionOnSet(g, For(o.lines, i)) = SumFunctionOnSet(f, For(o.lines, i)) + q
      BY <1>4, <3>1, <3>3, <3>4
    <3> QED
      BY <1>2, <2>1, <2>4, <3>5 DEF g
  <2>5. CASE o.lines[k0].item # i
    <3>1. \A k \in For(o.lines, i) : f[k] = g[k]
      BY <1>2, <2>1, <2>2, <2>3, <2>5
    <3>2. SumFunctionOnSet(f, For(o.lines, i)) = SumFunctionOnSet(g, For(o.lines, i))
      BY <2>2, <3>1, SumOfSame
    <3> QED
      BY <1>2, <2>1, <2>5, <3>2 DEF g
  <2> QED
    BY <2>4, <2>5
<1>9. r2.done \in 0 .. Len(r2.receipts)
  BY <1>1
<1>10. o.status = "submitted" /\ r2.receipts # <<>>
       /\ \A n \in DOMAIN r2.receipts : r2.receipts[n].line \in DOMAIN o.lines
  BY DEF DeliveryOk
<1> QED
  BY <1>7, <1>8, <1>9, <1>10 DEF DeliveryOk

(* A delivery that is over, booked on the lines of its order: what they say  *)
(* was received of an item grows by what came of it.                         *)
PutOnLines(r, ls, ls2) ==
  /\ ls2 \in Seq(OrderLine)
  /\ \A k \in DOMAIN ls2 : ls2[k].received <= ls2[k].ordered
  /\ \E k \in DOMAIN ls2 : ls2[k].received > 0
  /\ \A i \in Items :
       /\ OfKind(r, ls, i) \in Nat /\ InBooks(ls, i) \in Nat
       /\ InBooks(ls2, i) = InBooks(ls, i) + OfKind(r, ls, i)
       /\ i \notin {ls[r.receipts[n].line].item : n \in 1 .. r.done} => OfKind(r, ls, i) = 0

LEMMA CommitBooks ==
  ASSUME NEW r, NEW o, DeliveryOk(r, o), o.lines \in Seq(OrderLine),
         r.receipts \in Seq(Receipt), r.done = Len(r.receipts),
         \A k \in DOMAIN o.lines : o.lines[k].received = 0,
         NEW ls2, ls2 = [k \in DOMAIN o.lines |->
           [o.lines[k] EXCEPT !.received = o.lines[k].received + OfLine(r, k)]]
  PROVE  PutOnLines(r, o.lines, ls2)
<1>1. \A k \in DOMAIN o.lines : OfLine(r, k) \in Nat /\ OfLine(r, k) <= o.lines[k].ordered
  BY DEF DeliveryOk
<1>2. DOMAIN ls2 = DOMAIN o.lines
  OBVIOUS
<1>3. ASSUME NEW k \in DOMAIN o.lines
      PROVE  /\ ls2[k] \in OrderLine /\ ls2[k].item = o.lines[k].item
             /\ ls2[k].ordered = o.lines[k].ordered /\ ls2[k].received = OfLine(r, k)
  <2>1. /\ o.lines[k] \in OrderLine /\ OfLine(r, k) \in Nat
        /\ o.lines[k].received + OfLine(r, k) = OfLine(r, k)
    BY <1>1, DomainFinite
  <2>2. ls2[k] = [o.lines[k] EXCEPT !.received = OfLine(r, k)]
    BY <2>1
  <2> QED
    BY <2>1, <2>2 DEF OrderLine
<1>4. ls2 \in Seq(OrderLine)
  <2>1. DOMAIN o.lines = 1 .. Len(o.lines) /\ Len(o.lines) \in Nat
    BY DomainFinite
  <2>2. ls2 \in [1 .. Len(o.lines) -> OrderLine]
    BY <1>3, <2>1
  <2> QED
    BY <2>1, <2>2, FunctionIsSeq
<1>5. \A k \in DOMAIN ls2 : ls2[k].received <= ls2[k].ordered
  BY <1>1, <1>2, <1>3
<1>6. \A n \in 1 .. r.done : r.receipts[n].qty \in Nat \ {0}
  BY ReceiptTypes
<1>7. r.done \in Nat /\ r.done # 0 /\ DOMAIN r.receipts = 1 .. r.done
  BY DomainFinite DEF DeliveryOk
<1> DEFINE q == [n \in DOMAIN r.receipts |-> r.receipts[n].qty]
<1>8. \A n \in 1 .. r.done : q[n] = r.receipts[n].qty /\ q[n] \in Nat \ {0}
  BY <1>6, <1>7
<1>9. IsFiniteSet(1 .. r.done)
  <2>1. PICK m \in Nat : m = r.done
    BY <1>7
  <2>2. IsFiniteSet(1 .. m)
    BY FS_Interval
  <2> QED
    BY <2>1, <2>2
<1>10. \A S : Units(r, S) = SumFunctionOnSet(q, S)
  BY DEF Units
<1> HIDE DEF q
<1>11. \E k \in DOMAIN ls2 : ls2[k].received > 0
  <2>0. 1 \in 1 .. r.done /\ 1 \in DOMAIN r.receipts
    BY <1>7
  <2>1. 1 \in 1 .. r.done /\ r.receipts[1].line \in DOMAIN o.lines
    BY <2>0 DEF DeliveryOk
  <2> DEFINE k1 == r.receipts[1].line
             S == {n \in 1 .. r.done : r.receipts[n].line = k1}
  <2>2. IsFiniteSet(S) /\ 1 \in S /\ \A n \in S : q[n] \in Nat \ {0}
    BY <1>8, <1>9, <2>1, FS_Subset
  <2>3. OfLine(r, k1) = SumFunctionOnSet(q, S)
    BY <1>10 DEF OfLine
  <2> HIDE DEF S
  <2>4. q[1] <= SumFunctionOnSet(q, S)
    BY <2>2, SumAtLeastPart
  <2>5. OfLine(r, k1) \in Nat /\ OfLine(r, k1) > 0
    BY <1>1, <2>1, <2>2, <2>3, <2>4
  <2> QED
    BY <1>2, <1>3, <2>1, <2>5
<1>12. ASSUME NEW i \in Items
       PROVE  /\ OfKind(r, o.lines, i) \in Nat /\ InBooks(o.lines, i) = 0
              /\ InBooks(ls2, i) = OfKind(r, o.lines, i)
              /\ i \notin {o.lines[r.receipts[n].line].item : n \in 1 .. r.done}
                   => OfKind(r, o.lines, i) = 0
  <2> DEFINE S == {n \in 1 .. r.done : o.lines[r.receipts[n].line].item = i}
  <2>1. IsFiniteSet(S) /\ \A n \in S : q[n] \in Nat
    BY <1>8, <1>9, FS_Subset
  <2>2. OfKind(r, o.lines, i) = SumFunctionOnSet(q, S)
    BY <1>10 DEF OfKind
  <2>3. i \notin {o.lines[r.receipts[n].line].item : n \in 1 .. r.done} => S = {}
    OBVIOUS
  <2> HIDE DEF S
  <2>4. OfKind(r, o.lines, i) \in Nat
    BY <2>1, <2>2, SumIsNat
  <2>5. i \notin {o.lines[r.receipts[n].line].item : n \in 1 .. r.done}
          => OfKind(r, o.lines, i) = 0
    BY <2>2, <2>3, SumOfNothing
  <2>6. InBooks(o.lines, i) = 0
    BY BooksOfLines
  <2>7. For(ls2, i) = For(o.lines, i)
    BY <1>2, <1>3 DEF For
  <2>8. [k \in DOMAIN ls2 |-> ls2[k].received] = [k \in DOMAIN o.lines |-> OfLine(r, k)]
    BY <1>2, <1>3
  <2>9. InBooks(ls2, i) = OfKind(r, o.lines, i)
    BY <2>7, <2>8 DEF InBooks, DeliveryOk
  <2> QED
    BY <2>4, <2>5, <2>6, <2>9
<1>13. ASSUME NEW i \in Items
       PROVE  InBooks(ls2, i) = InBooks(o.lines, i) + OfKind(r, o.lines, i)
  <2>1. PICK n \in Nat : n = OfKind(r, o.lines, i)
    BY <1>12
  <2> QED
    BY <1>12, <2>1
<1>14. ASSUME NEW i \in Items
       PROVE  OfKind(r, o.lines, i) \in Nat /\ InBooks(o.lines, i) \in Nat
  <2>1. OfKind(r, o.lines, i) \in Nat /\ InBooks(o.lines, i) = 0
    BY <1>12
  <2> QED
    BY <2>1
<1> QED
  BY <1>4, <1>5, <1>11, <1>12, <1>13, <1>14 DEF PutOnLines

-----------------------------------------------------------------------------
(* What the orders M say was received of item i, all together.              *)
InAll(M, i) == SumFunctionOnSet([p \in Orders |-> InBooks(M[p].lines, i)], Orders)

LEMMA ReceivedInAll == ASSUME NEW i  PROVE Received(i) = InAll(order, i)
BY DEF Received, ReceivedOn, InAll, InBooks, For

LEMMA OrderTypes ==
  ASSUME StockTypeOK, NEW p \in Orders
  PROVE  /\ order[p] \in Order /\ order[p].lines \in Seq(OrderLine)
         /\ order[p].vendor \in Vendors \union {Null}
         /\ order[p] = [status |-> order[p].status, vendor |-> order[p].vendor,
                        lines |-> order[p].lines]
<1>1. order[p] \in Order
  BY DEF StockTypeOK
<1> QED
  BY <1>1 DEF Order

LEMMA RequestTypes ==
  ASSUME StockTypeOK, NEW w \in Workers
  PROVE  /\ request[w] \in Request /\ request[w].receipts \in Seq(Receipt)
         /\ request[w].lines \in Seq(OrderLine) /\ request[w].done \in Nat
         /\ request[w].qty \in Nat /\ request[w].job \in BOOLEAN
         /\ request[w].vendor \in Vendors \union {Null}
<1>1. request[w] \in Request
  BY DEF StockTypeOK
<1> QED
  BY <1>1 DEF Request

USE DEF lineVars

(* What one request does next leaves the others as they were, as long as     *)
(* the orders they hold are.                                                 *)
LEMMA RequestMoves ==
  ASSUME StockInv, NEW w \in Workers, NEW new, Becomes(w, new), new \in Request,
         FitsStage(new, order'),
         \A v \in Workers \ {w} : request[v].stage = "receiving" =>
           /\ order'[request[v].order] = order[request[v].order]
           /\ new.stage = "receiving" => request[v].order # new.order
  PROVE  request' \in [Workers -> Request] /\ RequestsOk' /\ DeliveriesApart'
<1>1. /\ request \in [Workers -> Request] /\ RequestsOk /\ DeliveriesApart
      /\ request' = [request EXCEPT ![w] = new]
  BY DEF StockInv, StockTypeOK, Becomes
<1>2. request' \in [Workers -> Request] /\ request'[w] = new
      /\ \A v \in Workers \ {w} : request'[v] = request[v]
  BY <1>1
<1>3. ASSUME NEW v \in Workers  PROVE FitsStage(request'[v], order')
  <2>1. CASE v = w
    BY <1>2, <2>1
  <2>2. CASE v # w
    <3>1. FitsStage(request[v], order) /\ request'[v] = request[v]
      BY <1>1, <1>2, <2>2 DEF RequestsOk
    <3>2. request[v].stage = "receiving" =>
            order'[request[v].order] = order[request[v].order]
      BY <2>2
    <3> QED
      BY <3>1, <3>2 DEF FitsStage
  <2> QED
    BY <2>1, <2>2
<1>4. DeliveriesApart'
  BY <1>1, <1>2 DEF DeliveriesApart
<1> QED
  BY <1>2, <1>3, <1>4 DEF RequestsOk

(* Units only move from the shelf to where they are used.                   *)
LEMMA ShelfStays ==
  ASSUME ShelfAddsUp, \A p \in Orders, i \in Items :
           InBooks(order'[p].lines, i) = InBooks(order[p].lines, i),
         \A i \in Items : item'[i].on_hand + taken'[i] + loose'[i]
                          = item[i].on_hand + taken[i] + loose[i]
  PROVE  ShelfAddsUp'
<1> SUFFICES ASSUME NEW i \in Items
             PROVE  Received(i)' = item'[i].on_hand + taken'[i] + loose'[i]
  BY DEF ShelfAddsUp
<1>1. [p \in Orders |-> InBooks(order'[p].lines, i)] = [p \in Orders |-> InBooks(order[p].lines, i)]
  OBVIOUS
<1>2. InAll(order', i) = InAll(order, i)
  BY <1>1 DEF InAll
<1>3. Received(i)' = InAll(order', i)
  BY DEF Received, ReceivedOn, InAll, InBooks, For
<1> QED
  BY <1>2, <1>3, ReceivedInAll DEF ShelfAddsUp

LEMMA RowsOnly ==
  ASSUME StockInv, UNCHANGED <<order, request>>
  PROVE  OrdersWhole' /\ RequestsOk' /\ DeliveriesApart'
BY DEF StockInv, OrdersWhole, RequestsOk, DeliveriesApart

LEMMA RequestOnly ==
  ASSUME StockInv, NEW w \in Workers, NEW new \in Request, Becomes(w, new),
         UNCHANGED <<item, order, active, jobs, billed, taken, loose, edited>>, budget' \in Nat,
         FitsStage(new, order),
         \A v \in Workers \ {w} :
           request[v].stage = "receiving" /\ new.stage = "receiving" => request[v].order # new.order
  PROVE  StockInv'
<1>1. request' \in [Workers -> Request] /\ RequestsOk' /\ DeliveriesApart'
  BY RequestMoves
<1>2. StockTypeOK'
  BY <1>1 DEF StockInv, StockTypeOK
<1>3. OrdersWhole' /\ AlertCurrent'
  BY DEF StockInv, OrdersWhole, AlertCurrent
<1>4. ShelfAddsUp'
  BY ShelfStays DEF StockInv
<1> QED
  BY <1>1, <1>2, <1>3, <1>4 DEF StockInv

LEMMA IdleFits == Idle \in Request /\ Idle.stage = "idle" /\ \A M : FitsStage(Idle, M)
<1>1. <<>> \in Seq(OrderLine) /\ <<>> \in Seq(Receipt)
  OBVIOUS
<1>2. Idle \in Request
  BY <1>1 DEF Idle, Request
<1> QED
  BY <1>2 DEF Idle, FitsStage

LEMMA EndsIdle ==
  ASSUME StockInv, NEW w \in Workers, Becomes(w, Idle),
         UNCHANGED <<item, order, active, jobs, billed, taken, loose, edited>>, budget' \in Nat
  PROVE  StockInv'
BY RequestOnly, IdleFits

LEMMA StockInitEstablishes == StockInit => StockInv
<1> SUFFICES ASSUME StockInit  PROVE StockInv
  OBVIOUS
<1>1. <<>> \in Seq(OrderLine) /\ DOMAIN NoOrder.lines = {} /\ NoOrder.lines = <<>>
  BY DEF NoOrder
<1>2. StockTypeOK
  <2>1. NoOrder \in Order
    BY <1>1 DEF NoOrder, Order
  <2>2. Events \in Nat
    BY StockAssumption
  <2> QED
    BY <2>1, <2>2, IdleFits DEF StockInit, StockTypeOK, Item
<1>3. OrdersWhole
  BY <1>1 DEF StockInit, OrdersWhole, NoOrder
<1>4. RequestsOk /\ DeliveriesApart
  BY IdleFits DEF StockInit, RequestsOk, DeliveriesApart
<1>5. ShelfAddsUp
  <2> SUFFICES ASSUME NEW i \in Items
               PROVE  Received(i) = item[i].on_hand + taken[i] + loose[i]
    BY DEF ShelfAddsUp
  <2> DEFINE f == [p \in Orders |-> InBooks(order[p].lines, i)]
  <2>1. \A p \in Orders : f[p] = 0
    BY <1>1, BooksOfLines DEF StockInit
  <2>2. InAll(order, i) = SumFunctionOnSet(f, Orders)
    BY DEF InAll
  <2> HIDE DEF f
  <2>3. SumFunctionOnSet(f, Orders) = 0
    BY <2>1, StockAssumption, SumOfZeros
  <2>4. item[i].on_hand = 0 /\ taken[i] = 0 /\ loose[i] = 0
    BY DEF StockInit
  <2> QED
    BY <2>2, <2>3, <2>4, ReceivedInAll
<1>6. AlertCurrent
  BY DEF StockInit, AlertCurrent
<1> QED
  BY <1>2, <1>3, <1>4, <1>5, <1>6 DEF StockInv

LEMMA StockReorderPoint ==
  ASSUME StockInv, NEW i \in Items, NEW n \in 0 .. MaxQty, SetReorderPoint(i, n)
  PROVE  StockInv'
<1>1. n \in Nat /\ budget' \in Nat
  BY StockAssumption DEF SetReorderPoint, Event, StockInv, StockTypeOK
<1>2. item[i] \in Item /\ item \in [Items -> Item]
  BY DEF StockInv, StockTypeOK
<1>3. [item[i] EXCEPT !.reorder = n, !.moved = FALSE] \in Item
  BY <1>1, <1>2 DEF Item
<1>4. /\ item' \in [Items -> Item] /\ item'[i].moved = FALSE
      /\ \A j \in Items : item'[j].on_hand = item[j].on_hand
      /\ \A j \in Items \ {i} : item'[j] = item[j]
  BY <1>2, <1>3 DEF SetReorderPoint, Item
<1>5. StockTypeOK'
  BY <1>1, <1>4 DEF SetReorderPoint, StockInv, StockTypeOK
<1>6. OrdersWhole' /\ RequestsOk' /\ DeliveriesApart'
  BY RowsOnly DEF SetReorderPoint
<1>7. ShelfAddsUp'
  BY <1>4, ShelfStays DEF SetReorderPoint, StockInv
<1>8. AlertCurrent'
  BY <1>4 DEF StockInv, AlertCurrent
<1> QED
  BY <1>5, <1>6, <1>7, <1>8 DEF StockInv

LEMMA StockVendorActive ==
  ASSUME StockInv, NEW v \in Vendors, SetVendorActive(v)  PROVE StockInv'
<1>1. StockTypeOK'
  BY DEF SetVendorActive, Event, StockInv, StockTypeOK
<1>2. OrdersWhole' /\ RequestsOk' /\ DeliveriesApart'
  BY RowsOnly DEF SetVendorActive
<1>3. ShelfAddsUp'
  BY ShelfStays DEF SetVendorActive, StockInv
<1>4. AlertCurrent'
  BY DEF SetVendorActive, StockInv, AlertCurrent
<1> QED
  BY <1>1, <1>2, <1>3, <1>4 DEF StockInv

(* Lines that are removed leave their units where they were used.           *)
LEMMA LinesGo ==
  ASSUME StockInv, NEW gone \in SUBSET Items, Removed(gone), Event, jobs' \in BOOLEAN,
         UNCHANGED <<item, order, active, request>>
  PROVE  StockInv'
<1>1. \A i \in Items : /\ billed[i] \in Nat /\ taken[i] \in Nat /\ loose[i] \in Nat
                       /\ item[i] \in Item
  BY DEF StockInv, StockTypeOK
<1>2. \A i \in Items : item[i].on_hand \in Nat
  BY <1>1 DEF Item
<1>3. StockTypeOK'
  <2>1. /\ loose' \in [Items -> Nat] /\ taken' \in [Items -> Nat]
        /\ billed' \in [Items -> Nat]
    BY <1>1 DEF Removed
  <2>2. budget' \in Nat /\ edited' \subseteq Items
    BY DEF Removed, Event, StockInv, StockTypeOK
  <2> QED
    BY <2>1, <2>2 DEF StockInv, StockTypeOK
<1>4. OrdersWhole' /\ RequestsOk' /\ DeliveriesApart'
  BY RowsOnly
<1>5. ShelfAddsUp'
  <2>1. \A i \in Items : item'[i].on_hand + taken'[i] + loose'[i]
                           = item[i].on_hand + taken[i] + loose[i]
    BY <1>1, <1>2 DEF Removed
  <2> QED
    BY <2>1, ShelfStays DEF StockInv
<1>6. AlertCurrent'
  BY DEF StockInv, AlertCurrent
<1> QED
  BY <1>3, <1>4, <1>5, <1>6 DEF StockInv

LEMMA StockDeleteJob == ASSUME StockInv, DeleteJob  PROVE StockInv'
<1>1. jobs' \in BOOLEAN
  BY Zenon DEF DeleteJob
<1> QED
  BY <1>1, LinesGo DEF DeleteJob

LEMMA StockDeletePartLine ==
  ASSUME StockInv, NEW i \in Items, DeletePartLine(i)  PROVE StockInv'
<1>1. jobs' \in BOOLEAN
  BY DEF DeletePartLine, StockInv, StockTypeOK
<1> QED
  BY <1>1, LinesGo DEF DeletePartLine

(* An edit of a line's quantity moves no stock.                             *)
LEMMA StockEditPartLine ==
  ASSUME StockInv, NEW i \in Items, NEW n \in Quantities, EditPartLine(i, n)
  PROVE  StockInv'
<1>1. n \in Nat /\ budget' \in Nat
  BY StockAssumption DEF Quantities, EditPartLine, Event, StockInv, StockTypeOK
<1>2. StockTypeOK'
  BY <1>1 DEF EditPartLine, StockInv, StockTypeOK
<1>3. OrdersWhole' /\ RequestsOk' /\ DeliveriesApart'
  BY RowsOnly DEF EditPartLine
<1>4. ShelfAddsUp'
  BY ShelfStays DEF EditPartLine, StockInv
<1>5. AlertCurrent'
  BY DEF EditPartLine, StockInv, AlertCurrent
<1> QED
  BY <1>2, <1>3, <1>4, <1>5 DEF StockInv

LEMMA StockUseLooks ==
  ASSUME StockInv, NEW w \in Workers, NEW i \in Items, NEW q \in Quantities,
         NEW named \in BOOLEAN, UseLooks(w, i, q, named)
  PROVE  StockInv'
<1> DEFINE new == [Idle EXCEPT !.stage = "using", !.item = i, !.qty = q, !.job = named]
<1>1. q \in Nat /\ budget' \in Nat
  BY StockAssumption DEF Quantities, UseLooks, Event, StockInv, StockTypeOK
<1>2. new \in Request /\ new.stage = "using" /\ new.item = i
  BY <1>1, IdleFits DEF Request, Idle
<1>3. Becomes(w, new) /\ UNCHANGED <<item, order, active, jobs, billed, taken, loose, edited>>
  BY DEF UseLooks
<1> HIDE DEF new
<1>4. FitsStage(new, order)
  BY <1>2 DEF FitsStage
<1> QED
  BY <1>1, <1>2, <1>3, <1>4, RequestOnly

LEMMA StockUseFails == ASSUME StockInv, NEW w \in Workers, UseFails(w)  PROVE StockInv'
BY EndsIdle DEF UseFails, StockInv, StockTypeOK

LEMMA StockReceiveFails == ASSUME StockInv, NEW w \in Workers, ReceiveFails(w)  PROVE StockInv'
BY EndsIdle DEF ReceiveFails, StockInv, StockTypeOK

LEMMA StockDeadlockBroken ==
  ASSUME StockInv, NEW w \in Workers, DeadlockBroken(w)  PROVE StockInv'
BY EndsIdle DEF DeadlockBroken, StockInv, StockTypeOK

LEMMA StockRequestDies == ASSUME StockInv, NEW w \in Workers, RequestDies(w)  PROVE StockInv'
BY EndsIdle DEF RequestDies, Event, StockInv, StockTypeOK

(* A write of quantity_on_hand says whether the shelf is low.               *)
LEMMA MovedRow ==
  ASSUME NEW row \in Item, NEW d, row.on_hand + d \in Nat
  PROVE  /\ Moved(row, d) \in Item /\ Moved(row, d).on_hand = row.on_hand + d
         /\ Moved(row, d).alerted = (Moved(row, d).on_hand < Moved(row, d).reorder)
<1>1. PICK n \in Nat : n = row.on_hand + d
  OBVIOUS
<1>2. Moved(row, d) = [row EXCEPT !.on_hand = n, !.alerted = n < row.reorder, !.moved = TRUE]
  BY <1>1 DEF Moved
<1>3. (n < row.reorder) \in BOOLEAN
  <2>1. row.reorder \in Nat
    BY DEF Item
  <2>2. (n < row.reorder) = TRUE \/ (n < row.reorder) = FALSE
    BY <2>1
  <2> QED
    BY <2>2, Zenon
<1>4. PICK m \in BOOLEAN : m = (n < row.reorder)
  BY <1>3, Zenon
<1>5. Moved(row, d) = [on_hand |-> n, reorder |-> row.reorder, alerted |-> m, moved |-> TRUE]
  BY <1>2, <1>4 DEF Item
<1>6. row.reorder \in Nat
  BY DEF Item
<1> QED
  BY <1>1, <1>4, <1>5, <1>6 DEF Item

LEMMA StockUseTakes == ASSUME StockInv, NEW w \in Workers, UseTakes(w)  PROVE StockInv'
<1>1. request[w].item \in Items
  BY DEF UseTakes, StockInv, RequestsOk, FitsStage
<1> DEFINE i == request[w].item
           q == request[w].qty
<1>2. i \in Items /\ q \in Nat
  BY <1>1, RequestTypes DEF StockInv
<1>3. /\ item[i].on_hand >= q
      /\ item' = [item EXCEPT ![i] = Moved(item[i], - q)]
      /\ IF request[w].job THEN OnLines(i, q) ELSE OffJob(i, q)
      /\ Becomes(w, Idle) /\ UNCHANGED <<order, active, jobs, budget>>
  BY DEF UseTakes
<1> HIDE DEF i, q
<1>4. /\ item \in [Items -> Item] /\ item[i] \in Item
      /\ billed \in [Items -> Nat] /\ taken \in [Items -> Nat]
      /\ loose \in [Items -> Nat] /\ edited \subseteq Items
  BY <1>2 DEF StockInv, StockTypeOK
<1>5. /\ item[i].on_hand \in Nat /\ item[i].on_hand + (- q) \in Nat
      /\ item[i].reorder \in Nat
  BY <1>2, <1>3, <1>4 DEF Item
<1>6. /\ Moved(item[i], - q) \in Item
      /\ Moved(item[i], - q).on_hand = item[i].on_hand + (- q)
      /\ Moved(item[i], - q).alerted
           = (Moved(item[i], - q).on_hand < Moved(item[i], - q).reorder)
  BY <1>4, <1>5, MovedRow
<1>7. /\ item' \in [Items -> Item] /\ item'[i] = Moved(item[i], - q)
      /\ \A j \in Items \ {i} : item'[j] = item[j]
  BY <1>2, <1>3, <1>4, <1>6
<1>8. /\ billed' \in [Items -> Nat] /\ taken' \in [Items -> Nat]
      /\ loose' \in [Items -> Nat] /\ edited' \subseteq Items
  BY <1>2, <1>3, <1>4 DEF OnLines, OffJob
<1>9. \A j \in Items : item'[j].on_hand + taken'[j] + loose'[j]
                         = item[j].on_hand + taken[j] + loose[j]
  <2> SUFFICES ASSUME NEW j \in Items
               PROVE  item'[j].on_hand + taken'[j] + loose'[j]
                        = item[j].on_hand + taken[j] + loose[j]
    OBVIOUS
  <2>1. CASE j # i
    <3>1. item'[j] = item[j] /\ taken'[j] = taken[j] /\ loose'[j] = loose[j]
      BY <1>3, <1>4, <1>7, <2>1 DEF OnLines, OffJob
    <3> QED
      BY <3>1
  <2>2. CASE j = i
    <3>1. /\ item'[i].on_hand = item[i].on_hand + (- q)
          /\ taken[i] \in Nat /\ loose[i] \in Nat
      BY <1>2, <1>4, <1>6, <1>7
    <3>2. \/ taken'[i] = taken[i] + q /\ loose'[i] = loose[i]
          \/ loose'[i] = loose[i] + q /\ taken'[i] = taken[i]
      BY <1>2, <1>3, <1>4 DEF OnLines, OffJob
    <3> QED
      BY <1>2, <1>5, <2>2, <3>1, <3>2
  <2> QED
    BY <2>1, <2>2
<1>10. request' \in [Workers -> Request] /\ RequestsOk' /\ DeliveriesApart'
  <2>1. order' = order /\ FitsStage(Idle, order') /\ Idle \in Request /\ Idle.stage = "idle"
    BY <1>3, IdleFits
  <2> QED
    BY <1>3, <2>1, RequestMoves
<1>11. StockTypeOK' /\ OrdersWhole'
  BY <1>3, <1>7, <1>8, <1>10 DEF StockInv, StockTypeOK, OrdersWhole
<1>12. ShelfAddsUp'
  BY <1>3, <1>9, ShelfStays DEF StockInv
<1>13. AlertCurrent'
  <2> SUFFICES ASSUME NEW j \in Items, item'[j].moved
               PROVE  item'[j].alerted = (item'[j].on_hand < item'[j].reorder)
    BY DEF AlertCurrent
  <2>1. CASE j # i
    BY <1>7, <2>1 DEF StockInv, AlertCurrent
  <2>2. CASE j = i
    BY <1>6, <1>7, <2>2
  <2> QED
    BY <2>1, <2>2
<1> QED
  BY <1>10, <1>11, <1>12, <1>13 DEF StockInv

LEMMA StockDraftLooks ==
  ASSUME StockInv, NEW w \in Workers, NEW v \in Vendors, NEW typed \in Baskets,
         DraftLooks(w, v, typed)
  PROVE  StockInv'
<1> DEFINE lines == [k \in DOMAIN typed |->
                      [item |-> typed[k].item, ordered |-> typed[k].ordered, received |-> 0]]
           new == [Idle EXCEPT !.stage = "drafting", !.vendor = v, !.lines = lines]
<1>1. typed \in Seq(Wanted)
  BY StockAssumption
<1>2. /\ DOMAIN typed = 1 .. Len(typed) /\ Len(typed) \in Nat
      /\ \A k \in DOMAIN typed : typed[k] \in Wanted
  BY <1>1, DomainFinite
<1>3. \A k \in DOMAIN typed : lines[k] \in OrderLine /\ lines[k].received = 0
  BY <1>2 DEF Wanted, OrderLine
<1>4. lines \in [1 .. Len(typed) -> OrderLine] /\ DOMAIN lines = DOMAIN typed
  BY <1>2, <1>3
<1>5. Becomes(w, new) /\ UNCHANGED <<item, order, active, jobs, billed, taken, loose, edited>>
  BY DEF DraftLooks
<1> HIDE DEF lines
<1>6. lines \in Seq(OrderLine)
  BY <1>2, <1>4, FunctionIsSeq
<1>7. new \in Request /\ new.stage = "drafting" /\ new.lines = lines
  BY <1>6, IdleFits DEF Request, Idle
<1> HIDE DEF new
<1>8. FitsStage(new, order)
  BY <1>3, <1>4, <1>7 DEF FitsStage
<1>9. budget' \in Nat
  BY DEF DraftLooks, Event, StockInv, StockTypeOK
<1> QED
  BY <1>5, <1>7, <1>8, <1>9, RequestOnly

LEMMA StockDraftSuggests ==
  ASSUME StockInv, NEW w \in Workers, NEW v \in Vendors, NEW chosen \in SUBSET Items,
         DraftSuggests(w, v, chosen)
  PROVE  StockInv'
<1> DEFINE short == {i \in chosen : item[i].on_hand < item[i].reorder}
<1>1. PICK s \in Bijection(1 .. Cardinality(short), short) :
        Becomes(w, [Idle EXCEPT !.stage = "drafting", !.vendor = v,
                                !.lines = [k \in DOMAIN s |->
                                  [item |-> s[k], received |-> 0,
                                   ordered |-> item[s[k]].reorder - item[s[k]].on_hand]]])
  BY DEF DraftSuggests
<1> DEFINE lines == [k \in DOMAIN s |->
                      [item |-> s[k], received |-> 0,
                       ordered |-> item[s[k]].reorder - item[s[k]].on_hand]]
           new == [Idle EXCEPT !.stage = "drafting", !.vendor = v, !.lines = lines]
<1>2. IsFiniteSet(short)
  BY StockAssumption, FS_Subset
<1>3. Cardinality(short) \in Nat
  BY <1>2, FS_CardinalityType
<1>4. DOMAIN s = 1 .. Cardinality(short) /\ \A k \in DOMAIN s : s[k] \in short
  BY DEF Bijection, Injection, Surjection, IsInjective
<1>5. \A i \in short : i \in Items /\ item[i].reorder - item[i].on_hand \in Nat \ {0}
  <2>1. \A i \in Items : item[i].on_hand \in Nat /\ item[i].reorder \in Nat
    BY DEF StockInv, StockTypeOK, Item
  <2> QED
    BY <2>1
<1>6. Becomes(w, new) /\ UNCHANGED <<item, order, active, jobs, billed, taken, loose, edited>>
  BY <1>1 DEF DraftSuggests
<1> HIDE DEF short
<1>7. \A k \in DOMAIN s : lines[k] \in OrderLine /\ lines[k].received = 0
  BY <1>4, <1>5 DEF OrderLine
<1>8. lines \in [1 .. Cardinality(short) -> OrderLine] /\ DOMAIN lines = DOMAIN s
  BY <1>4, <1>7
<1> HIDE DEF lines
<1>9. lines \in Seq(OrderLine)
  BY <1>3, <1>8, FunctionIsSeq
<1>10. new \in Request /\ new.stage = "drafting" /\ new.lines = lines
  BY <1>9, IdleFits DEF Request, Idle
<1> HIDE DEF new
<1>11. FitsStage(new, order)
  BY <1>7, <1>8, <1>10 DEF FitsStage
<1>12. budget' \in Nat
  BY DEF DraftSuggests, Event, StockInv, StockTypeOK
<1> QED
  BY <1>6, <1>10, <1>11, <1>12, RequestOnly

(* An order changes that no delivery holds, and its lines say what they did  *)
(* say of every item.                                                        *)
LEMMA OrderChanges ==
  ASSUME StockInv, NEW p \in Orders, NEW o \in Order,
         order' = [order EXCEPT ![p] = o], order[p].status # "received",
         o.status # "received", \A k \in DOMAIN o.lines : o.lines[k].received = 0
  PROVE  /\ order' \in [Orders -> Order] /\ OrdersWhole'
         /\ \A x \in Orders, i \in Items :
              InBooks(order'[x].lines, i) = InBooks(order[x].lines, i)
<1>1. order \in [Orders -> Order] /\ order[p].lines \in Seq(OrderLine)
  BY OrderTypes DEF StockInv, StockTypeOK
<1>2. /\ order' \in [Orders -> Order] /\ order'[p] = o
      /\ \A x \in Orders \ {p} : order'[x] = order[x]
  BY <1>1
<1>3. OrdersWhole'
  BY <1>2 DEF StockInv, OrdersWhole
<1>4. ASSUME NEW x \in Orders, NEW i \in Items
      PROVE  InBooks(order'[x].lines, i) = InBooks(order[x].lines, i)
  <2>1. CASE x # p
    BY <1>2, <2>1
  <2>2. CASE x = p
    <3>1. o.lines \in Seq(OrderLine)
      BY DEF Order
    <3>2. \A k \in DOMAIN order[p].lines : order[p].lines[k].received = 0
      BY DEF StockInv, OrdersWhole
    <3>3. InBooks(o.lines, i) = 0 /\ InBooks(order[p].lines, i) = 0
      BY <1>1, <3>1, <3>2, BooksOfLines
    <3> QED
      BY <1>2, <2>2, <3>3
  <2> QED
    BY <2>1, <2>2
<1> QED
  BY <1>2, <1>3, <1>4

LEMMA StockDraftCommits ==
  ASSUME StockInv, NEW w \in Workers, NEW p \in Orders, DraftCommits(w, p)
  PROVE  StockInv'
<1> DEFINE o == [status |-> "draft", vendor |-> request[w].vendor, lines |-> request[w].lines]
<1>1. /\ request[w].stage = "drafting" /\ order[p].status = "none"
      /\ order' = [order EXCEPT ![p] = o]
      /\ Becomes(w, Idle) /\ UNCHANGED <<item, active, jobs, billed, taken, loose, edited, budget>>
  BY DEF DraftCommits, NoOrder
<1>2. o \in Order /\ o.status = "draft" /\ o.lines = request[w].lines
  BY RequestTypes DEF Order, StockInv
<1>3. \A k \in DOMAIN request[w].lines : request[w].lines[k].received = 0
  BY <1>1 DEF StockInv, RequestsOk, FitsStage
<1> HIDE DEF o
<1>4. /\ order' \in [Orders -> Order] /\ OrdersWhole'
      /\ \A x \in Orders, i \in Items :
           InBooks(order'[x].lines, i) = InBooks(order[x].lines, i)
  BY <1>1, <1>2, <1>3, OrderChanges
<1>5. \A v \in Workers : request[v].stage = "receiving" =>
        order'[request[v].order] = order[request[v].order]
  <2> SUFFICES ASSUME NEW v \in Workers, request[v].stage = "receiving"
               PROVE  order'[request[v].order] = order[request[v].order]
    OBVIOUS
  <2>1. request[v].order \in Orders /\ order[request[v].order].status = "submitted"
    BY DEF StockInv, RequestsOk, FitsStage, DeliveryOk
  <2>2. order \in [Orders -> Order] /\ request[v].order # p
    BY <1>1, <2>1 DEF StockInv, StockTypeOK
  <2> QED
    BY <1>1, <2>1, <2>2
<1>6. request' \in [Workers -> Request] /\ RequestsOk' /\ DeliveriesApart'
  <2>1. FitsStage(Idle, order') /\ Idle \in Request /\ Idle.stage = "idle"
    BY IdleFits
  <2> QED
    BY <1>1, <1>5, <2>1, RequestMoves
<1>7. StockTypeOK' /\ AlertCurrent'
  BY <1>1, <1>4, <1>6 DEF StockInv, StockTypeOK, AlertCurrent
<1>8. ShelfAddsUp'
  BY <1>1, <1>4, ShelfStays DEF StockInv
<1> QED
  BY <1>4, <1>6, <1>7, <1>8 DEF StockInv

LEMMA StockSetStatus ==
  ASSUME StockInv, NEW p \in Orders, NEW target \in {"submitted", "cancelled"},
         SetStatus(p, target)
  PROVE  StockInv'
<1> DEFINE o == [order[p] EXCEPT !.status = target]
<1>1. /\ target \in Transitions[order[p].status] /\ ~OrderHeld(p)
      /\ order' = [order EXCEPT ![p] = o]
      /\ UNCHANGED <<item, active, jobs, billed, taken, loose, edited, request, budget>>
  BY DEF SetStatus
<1>2. order[p] \in Order /\ order[p].status # "received"
  <2>1. order[p] \in Order
    BY OrderTypes DEF StockInv
  <2> QED
    BY <1>1, <2>1 DEF Transitions
<1>3. o \in Order /\ o.status = target /\ o.lines = order[p].lines
  BY <1>2 DEF Order
<1>4. \A k \in DOMAIN order[p].lines : order[p].lines[k].received = 0
  BY <1>2 DEF StockInv, OrdersWhole
<1> HIDE DEF o
<1>5. /\ order' \in [Orders -> Order] /\ OrdersWhole'
      /\ \A x \in Orders, i \in Items :
           InBooks(order'[x].lines, i) = InBooks(order[x].lines, i)
  BY <1>1, <1>2, <1>3, <1>4, OrderChanges
<1>6. RequestsOk'
  <2> SUFFICES ASSUME NEW v \in Workers  PROVE FitsStage(request[v], order')
    BY <1>1 DEF RequestsOk
  <2>1. FitsStage(request[v], order)
    BY DEF StockInv, RequestsOk
  <2>2. request[v].stage = "receiving" => order'[request[v].order] = order[request[v].order]
    <3> SUFFICES ASSUME request[v].stage = "receiving"
                 PROVE  order'[request[v].order] = order[request[v].order]
      OBVIOUS
    <3>1. request[v].order # p /\ request[v].order \in Orders
      BY <1>1, <2>1 DEF OrderHeld, FitsStage
    <3> QED
      BY <1>1, <3>1 DEF StockInv, StockTypeOK
  <2> QED
    BY <2>1, <2>2 DEF FitsStage
<1>7. DeliveriesApart' /\ AlertCurrent'
  BY <1>1 DEF StockInv, DeliveriesApart, AlertCurrent
<1>8. StockTypeOK'
  BY <1>1, <1>5 DEF StockInv, StockTypeOK
<1>9. ShelfAddsUp'
  BY <1>1, <1>5, ShelfStays DEF StockInv
<1> QED
  BY <1>5, <1>6, <1>7, <1>8, <1>9 DEF StockInv

LEMMA StockReceiveOpens ==
  ASSUME StockInv, NEW w \in Workers, NEW p \in Orders, NEW receipts \in Deliveries,
         ReceiveOpens(w, p, receipts)
  PROVE  StockInv'
<1> DEFINE new == [Idle EXCEPT !.stage = "receiving", !.order = p, !.receipts = receipts]
<1>1. receipts \in Seq(Receipt) /\ receipts # <<>>
  BY StockAssumption
<1>2. /\ new \in Request /\ new.stage = "receiving" /\ new.order = p
      /\ new.receipts = receipts /\ new.done = 0
  BY <1>1, IdleFits DEF Request, Idle
<1>3. Becomes(w, new) /\ UNCHANGED <<item, order, active, jobs, billed, taken, loose, edited>>
  BY DEF ReceiveOpens
<1>4. /\ "received" \in Transitions[order[p].status] /\ ~OrderHeld(p)
      /\ \A n \in DOMAIN receipts : receipts[n].line \in DOMAIN order[p].lines
  BY DEF ReceiveOpens
<1>5. order[p] \in Order /\ order[p].lines \in Seq(OrderLine)
  BY OrderTypes DEF StockInv
<1>6. order[p].status = "submitted"
  BY <1>4, <1>5 DEF Transitions, Order
<1> HIDE DEF new
<1>7. DeliveryOk(new, order[p])
  BY <1>1, <1>2, <1>4, <1>5, <1>6, OpensOk
<1>8. FitsStage(new, order)
  BY <1>2, <1>7 DEF FitsStage
<1>9. \A v \in Workers : request[v].stage = "receiving" => request[v].order # new.order
  BY <1>2, <1>4 DEF OrderHeld
<1>10. budget' \in Nat
  BY DEF ReceiveOpens, Event, StockInv, StockTypeOK
<1> QED
  BY <1>2, <1>3, <1>8, <1>9, <1>10, RequestOnly

LEMMA StockReceiveLine == ASSUME StockInv, NEW w \in Workers, ReceiveLine(w)  PROVE StockInv'
<1> DEFINE r == request[w]
           o == order[r.order]
           n == r.done + 1
           new == [r EXCEPT !.done = n]
<1>1. /\ r.stage = "receiving" /\ r.done < Len(r.receipts) /\ Becomes(w, new)
      /\ UNCHANGED <<item, order, active, jobs, billed, taken, loose, edited, budget>>
  BY DEF ReceiveLine, MoreToDo, Upcoming
<1>2. r.order \in Orders /\ DeliveryOk(r, o)
  BY <1>1 DEF StockInv, RequestsOk, FitsStage
<1>3. r \in Request /\ r.receipts \in Seq(Receipt) /\ r.done \in Nat
  BY RequestTypes DEF StockInv
<1>4. o.lines \in Seq(OrderLine)
  BY <1>2, OrderTypes DEF StockInv
<1>5. /\ new \in Request /\ new.stage = "receiving" /\ new.order = r.order
      /\ new.receipts = r.receipts /\ new.done = r.done + 1
  BY <1>1, <1>3 DEF Request
<1>6. n \in 1 .. Len(r.receipts)
  BY <1>1, <1>3, DomainFinite
<1>7. n \in DOMAIN r.receipts /\ r.receipts[n].qty \in Nat
  BY <1>3, <1>6, ReceiptTypes
<1> DEFINE k == r.receipts[n].line
<1>8. k \in DOMAIN o.lines /\ OfLine(r, k) \in Nat
  BY <1>2, <1>7 DEF DeliveryOk
<1>9. o.lines[k].ordered \in Nat /\ o.lines[k].received \in Nat
  BY <1>4, <1>8, LineTypes
<1>10. OnLine(w, k) = OfLine(r, k)
  BY DEF OnLine, Arrived, Got, OfLine, Units
<1>11. ~(o.lines[k].received + OfLine(r, k) + r.receipts[n].qty > o.lines[k].ordered)
  BY <1>10 DEF ReceiveLine, TooMany, Got, Upcoming
<1>12. o.lines[k].received + OfLine(r, k) + r.receipts[n].qty <= o.lines[k].ordered
  <2>1. PICK a \in Nat, b \in Nat, c \in Nat, d \in Nat :
          /\ a = o.lines[k].received /\ b = OfLine(r, k)
          /\ c = r.receipts[n].qty /\ d = o.lines[k].ordered
    BY <1>7, <1>8, <1>9
  <2>2. ~(a + b + c > d)
    BY <1>11, <2>1
  <2>3. a + b + c <= d
    BY <2>2
  <2> QED
    BY <2>1, <2>3
<1> HIDE DEF r, o, n, new, k
<1>13. DeliveryOk(new, o)
  BY <1>1, <1>2, <1>3, <1>4, <1>5, <1>12, ReceiptKeeps DEF n, k
<1>14. FitsStage(new, order)
  BY <1>2, <1>5, <1>13 DEF FitsStage, o
<1>15. \A v \in Workers \ {w} : request[v].stage = "receiving" => request[v].order # new.order
  BY <1>1, <1>5 DEF StockInv, DeliveriesApart, r
<1>16. budget' \in Nat
  BY <1>1 DEF StockInv, StockTypeOK
<1> QED
  BY <1>1, <1>5, <1>14, <1>15, <1>16, RequestOnly

(* All that arrived is on the shelf and on the order at once.               *)
LEMMA StockReceiveCommits ==
  ASSUME StockInv, NEW w \in Workers, ReceiveCommits(w)  PROVE StockInv'
<1> DEFINE r == request[w]
           p == r.order
           ls == order[p].lines
           ls2 == [k \in DOMAIN ls |-> [ls[k] EXCEPT !.received = ls[k].received + OfLine(r, k)]]
           o2 == [order[p] EXCEPT !.status = "received", !.lines = ls2]
           Came(i) == OfKind(r, ls, i)
           held == {ls[r.receipts[n].line].item : n \in 1 .. r.done}
<1>1. /\ r.stage = "receiving" /\ r.done = Len(r.receipts) /\ Becomes(w, Idle)
      /\ UNCHANGED <<active, jobs, billed, taken, loose, edited, budget>>
  BY DEF ReceiveCommits
<1>2. p \in Orders /\ DeliveryOk(r, order[p]) /\ order[p].status = "submitted"
  BY <1>1 DEF StockInv, RequestsOk, FitsStage, DeliveryOk
<1>3. r.receipts \in Seq(Receipt) /\ order[p] \in Order /\ ls \in Seq(OrderLine)
  BY <1>2, RequestTypes, OrderTypes DEF StockInv
<1>4. order' = [order EXCEPT ![p] = o2]
  BY DEF ReceiveCommits, OnLine, Arrived, Got, OfLine, Units
<1>5. HeldBy(w) = held
  BY <1>1 DEF HeldBy, ItemOf, Got
<1>6. ASSUME NEW i  PROVE OfItem(w, i) = Came(i)
  BY DEF OfItem, Arrived, ItemOf, Got, OfKind, Units
<1>7. item' = [i \in Items |-> IF i \in held THEN Moved(item[i], Came(i)) ELSE item[i]]
  BY <1>5, <1>6 DEF ReceiveCommits
<1>8. \A k \in DOMAIN ls : ls[k].received = 0
  BY <1>2 DEF StockInv, OrdersWhole
<1>9. PutOnLines(r, ls, ls2)
  BY <1>1, <1>2, <1>3, <1>8, CommitBooks
<1>10. o2 \in Order /\ o2.status = "received" /\ o2.lines = ls2
  BY <1>3, <1>9 DEF PutOnLines, Order
<1>11. \A i \in Items : Came(i) \in Nat /\ (i \notin held => Came(i) = 0)
  BY <1>9 DEF PutOnLines
<1> HIDE DEF ls2, o2, Came, held
<1>12. /\ order' \in [Orders -> Order] /\ order'[p] = o2
       /\ \A x \in Orders \ {p} : order'[x] = order[x]
  BY <1>2, <1>4, <1>10 DEF StockInv, StockTypeOK
<1>13. OrdersWhole'
  <2> SUFFICES ASSUME NEW x \in Orders
               PROVE  /\ order'[x].status # "received" =>
                           \A k \in DOMAIN order'[x].lines : order'[x].lines[k].received = 0
                      /\ order'[x].status = "received" =>
                           /\ \A k \in DOMAIN order'[x].lines :
                                order'[x].lines[k].received <= order'[x].lines[k].ordered
                           /\ \E k \in DOMAIN order'[x].lines : order'[x].lines[k].received > 0
    BY DEF OrdersWhole
  <2>1. CASE x = p
    BY <1>9, <1>10, <1>12, <2>1 DEF PutOnLines
  <2>2. CASE x # p
    <3>1. order'[x] = order[x]
      BY <1>12, <2>2
    <3> QED
      BY <3>1 DEF StockInv, OrdersWhole
  <2> QED
    BY <2>1, <2>2
<1>14. \A v \in Workers \ {w} : request[v].stage = "receiving" =>
         order'[request[v].order] = order[request[v].order]
  <2> SUFFICES ASSUME NEW v \in Workers \ {w}, request[v].stage = "receiving"
               PROVE  order'[request[v].order] = order[request[v].order]
    OBVIOUS
  <2>1. request[v].order \in Orders
    BY DEF StockInv, RequestsOk, FitsStage
  <2>2. request[v].order # p
    BY <1>1 DEF StockInv, DeliveriesApart
  <2> QED
    BY <1>12, <2>1, <2>2
<1>15. request' \in [Workers -> Request] /\ RequestsOk' /\ DeliveriesApart'
  <2>1. FitsStage(Idle, order') /\ Idle \in Request /\ Idle.stage = "idle"
    BY IdleFits
  <2> QED
    BY <1>1, <1>14, <2>1, RequestMoves
<1>16. ASSUME NEW i \in Items
       PROVE  /\ item'[i] \in Item /\ item'[i].on_hand = item[i].on_hand + Came(i)
              /\ item'[i].moved => item'[i].alerted = (item'[i].on_hand < item'[i].reorder)
  <2>1. item[i] \in Item /\ item[i].on_hand \in Nat /\ Came(i) \in Nat
    BY <1>11 DEF StockInv, StockTypeOK, Item
  <2>2. CASE i \in held
    <3>1. item'[i] = Moved(item[i], Came(i))
      BY <1>7, <2>2
    <3>2. item[i].on_hand + Came(i) \in Nat
      BY <2>1
    <3> QED
      BY <2>1, <3>1, <3>2, MovedRow
  <2>3. CASE i \notin held
    <3>1. item'[i] = item[i] /\ Came(i) = 0
      BY <1>7, <1>11, <2>3
    <3> QED
      BY <2>1, <3>1 DEF StockInv, AlertCurrent
  <2> QED
    BY <2>2, <2>3
<1>17. item' \in [Items -> Item]
  BY <1>7, <1>16
<1>18. StockTypeOK'
  BY <1>1, <1>12, <1>15, <1>17 DEF StockInv, StockTypeOK
<1>19. AlertCurrent'
  BY <1>16 DEF AlertCurrent
<1>20. ShelfAddsUp'
  <2> SUFFICES ASSUME NEW i \in Items
               PROVE  Received(i)' = item'[i].on_hand + taken'[i] + loose'[i]
    BY DEF ShelfAddsUp
  <2> DEFINE f == [x \in Orders |-> InBooks(order[x].lines, i)]
             g == [x \in Orders |-> InBooks(order'[x].lines, i)]
  <2>1. \A x \in Orders : f[x] = InBooks(order[x].lines, i) /\ g[x] = InBooks(order'[x].lines, i)
    OBVIOUS
  <2>2. \A x \in Orders : f[x] \in Nat /\ g[x] \in Nat
    <3> SUFFICES ASSUME NEW x \in Orders  PROVE f[x] \in Nat /\ g[x] \in Nat
      OBVIOUS
    <3>1. order[x].lines \in Seq(OrderLine) /\ order'[x].lines \in Seq(OrderLine)
      BY <1>12, OrderTypes DEF StockInv, Order
    <3> QED
      BY <2>1, <3>1, BooksOfLines
  <2>3. InAll(order, i) = SumFunctionOnSet(f, Orders) /\ InAll(order', i) = SumFunctionOnSet(g, Orders)
    BY DEF InAll
  <2>4. Received(i)' = InAll(order', i)
    BY DEF Received, ReceivedOn, InAll, InBooks, For
  <2>5. \A x \in Orders \ {p} : f[x] = g[x]
    BY <1>12, <2>1
  <2>6. g[p] = f[p] + Came(i)
    <3>1. g[p] = InBooks(ls2, i) /\ f[p] = InBooks(ls, i)
      BY <1>2, <1>10, <1>12, <2>1
    <3> QED
      BY <1>9, <3>1 DEF PutOnLines, Came
  <2> HIDE DEF f, g
  <2>7. ChangesAt(f, g, Orders, p)
    BY <1>2, <2>2, <2>5, StockAssumption DEF ChangesAt
  <2>8. SumFunctionOnSet(g, Orders) = SumFunctionOnSet(f, Orders) - f[p] + g[p]
    BY <2>7, SumChanges
  <2>9. SumFunctionOnSet(f, Orders) = item[i].on_hand + taken[i] + loose[i]
    BY <2>3, ReceivedInAll DEF StockInv, ShelfAddsUp
  <2>10. /\ item'[i].on_hand = item[i].on_hand + Came(i)
         /\ taken'[i] = taken[i] /\ loose'[i] = loose[i]
    BY <1>1, <1>16
  <2>11. PICK a \in Nat, b \in Nat, c \in Nat, d \in Nat, e \in Nat :
           /\ a = item[i].on_hand /\ b = taken[i] /\ c = loose[i] /\ d = Came(i) /\ e = f[p]
    BY <1>2, <1>11, <2>2 DEF StockInv, StockTypeOK, Item
  <2>12. SumFunctionOnSet(g, Orders) = (a + b + c) - e + (e + d)
    BY <2>6, <2>8, <2>9, <2>11
  <2>13. SumFunctionOnSet(g, Orders) = (a + d) + b + c
    BY <2>12
  <2> QED
    BY <2>3, <2>4, <2>10, <2>11, <2>13
<1> QED
  BY <1>13, <1>15, <1>18, <1>19, <1>20 DEF StockInv

-----------------------------------------------------------------------------
LEMMA StockStep == StockInv /\ [StockNext]_stockVars => StockInv'
<1> SUFFICES ASSUME StockInv, [StockNext]_stockVars  PROVE StockInv'
  OBVIOUS
<1>1. CASE UNCHANGED stockVars
  <2>1. UNCHANGED <<item, order, active, jobs, billed, taken, loose, edited, request, budget>>
    BY <1>1 DEF stockVars
  <2>2. OrdersWhole' /\ RequestsOk' /\ DeliveriesApart'
    BY <2>1, RowsOnly
  <2>3. ShelfAddsUp'
    BY <2>1, ShelfStays DEF StockInv
  <2>4. StockTypeOK' /\ AlertCurrent'
    BY <2>1 DEF StockInv, StockTypeOK, AlertCurrent
  <2> QED
    BY <2>2, <2>3, <2>4 DEF StockInv
<1>2. CASE StockNext
  <2>1. CASE \E i \in Items, n \in 0 .. MaxQty : SetReorderPoint(i, n)
    BY <2>1, StockReorderPoint
  <2>2. CASE \E v \in Vendors : SetVendorActive(v)
    BY <2>2, StockVendorActive
  <2>3. CASE DeleteJob
    BY <2>3, StockDeleteJob
  <2>11. CASE \E i \in Items, n \in Quantities : EditPartLine(i, n)
    BY <2>11, StockEditPartLine
  <2>12. CASE \E i \in Items : DeletePartLine(i)
    BY <2>12, StockDeletePartLine
  <2>4. CASE \E w \in Workers, i \in Items, q \in Quantities, named \in BOOLEAN :
               UseLooks(w, i, q, named)
    BY <2>4, StockUseLooks
  <2>5. CASE \E w \in Workers, v \in Vendors, typed \in Baskets : DraftLooks(w, v, typed)
    BY <2>5, StockDraftLooks
  <2>6. CASE \E w \in Workers, v \in Vendors, chosen \in SUBSET Items : DraftSuggests(w, v, chosen)
    BY <2>6, StockDraftSuggests
  <2>7. CASE \E w \in Workers, p \in Orders : DraftCommits(w, p)
    BY <2>7, StockDraftCommits
  <2>8. CASE \E p \in Orders, target \in {"submitted", "cancelled"} : SetStatus(p, target)
    BY <2>8, StockSetStatus
  <2>9. CASE \E w \in Workers, p \in Orders, receipts \in Deliveries : ReceiveOpens(w, p, receipts)
    BY <2>9, StockReceiveOpens
  <2>10. CASE \E w \in Workers :
                \/ UseTakes(w) \/ UseFails(w) \/ ReceiveLine(w) \/ ReceiveFails(w)
                \/ ReceiveCommits(w) \/ DeadlockBroken(w) \/ RequestDies(w)
    BY <2>10, StockUseTakes, StockUseFails, StockReceiveLine, StockReceiveFails,
       StockReceiveCommits, StockDeadlockBroken, StockRequestDies
  <2> QED
    BY <1>2, <2>1, <2>2, <2>3, <2>4, <2>5, <2>6, <2>7, <2>8, <2>9, <2>10, <2>11, <2>12 DEF StockNext
<1> QED
  BY <1>1, <1>2

LEMMA OrdersAreWhole == StockInv => DeliveriesWhole
<1> SUFFICES ASSUME StockInv, NEW p \in Orders
             PROVE  LET got == {k \in DOMAIN order[p].lines : order[p].lines[k].received > 0} IN
                    /\ got # {} <=> order[p].status = "received"
                    /\ \A k \in got : order[p].lines[k].received <= order[p].lines[k].ordered
  BY DEF DeliveriesWhole
<1>1. CASE order[p].status = "received"
  BY <1>1 DEF StockInv, OrdersWhole
<1>2. CASE order[p].status # "received"
  <2>1. \A k \in DOMAIN order[p].lines : ~(order[p].lines[k].received > 0)
    BY <1>2 DEF StockInv, OrdersWhole
  <2> QED
    BY <1>2, <2>1
<1> QED
  BY <1>1, <1>2

(* A line bills what was taken for it until its quantity is edited.         *)
LEMMA LinesStay ==
  ASSUME StockTypeOK, BilledAsTaken, [StockNext]_stockVars
  PROVE  BilledAsTaken'
<1>1. CASE \E i \in Items, n \in Quantities : EditPartLine(i, n)
  BY <1>1 DEF EditPartLine, StockTypeOK, BilledAsTaken
<1>2. CASE DeleteJob \/ \E i \in Items : DeletePartLine(i)
  BY <1>2 DEF DeleteJob, DeletePartLine, Removed, BilledAsTaken
<1>3. ASSUME NEW w \in Workers, UseTakes(w)  PROVE BilledAsTaken'
  <2>1. PICK i, q : OnLines(i, q) \/ OffJob(i, q)
    BY <1>3 DEF UseTakes
  <2> QED
    BY <2>1 DEF OnLines, OffJob, StockTypeOK, BilledAsTaken
<1>4. CASE UNCHANGED lineVars
  BY <1>4 DEF BilledAsTaken
<1>5. \/ \E i \in Items, n \in Quantities : EditPartLine(i, n)
      \/ DeleteJob \/ \E i \in Items : DeletePartLine(i)
      \/ \E w \in Workers : UseTakes(w)
      \/ UNCHANGED lineVars
  BY DEF StockNext, stockVars, SetReorderPoint, SetVendorActive, UseLooks, UseFails,
         DraftLooks, DraftSuggests, DraftCommits, SetStatus, ReceiveOpens, ReceiveLine,
         ReceiveFails, ReceiveCommits, DeadlockBroken, RequestDies
<1> QED
  BY <1>1, <1>2, <1>3, <1>4, <1>5

LEMMA StockInvHolds == StockSpec => []StockInv
BY StockInitEstablishes, StockStep, PTL DEF StockSpec

LEMMA LinesHold == StockSpec => []BilledAsTaken
<1>1. StockInit => BilledAsTaken
  BY DEF StockInit, BilledAsTaken
<1>2. StockInv /\ BilledAsTaken /\ [StockNext]_stockVars => BilledAsTaken'
  BY LinesStay DEF StockInv
<1> QED
  BY <1>1, <1>2, StockInvHolds, PTL DEF StockSpec

HIDE DEF lineVars

(* However uses and deliveries cross, fail or deadlock, every unit that the  *)
(* orders say was received is on the shelf, was taken for the job's lines or *)
(* used otherwise; a line bills what was taken for it until its quantity is  *)
(* edited; and low_stock_alerted tells whether the shelf is low.             *)
THEOREM ShelvesAgree == StockSpec => []StockConsistent
<1>1. StockInv /\ BilledAsTaken => StockConsistent
  BY DEF StockInv, StockConsistent
<1> QED
  BY <1>1, StockInvHolds, LinesHold, PTL

(* A delivery is booked as a whole or not at all, once, and never beyond     *)
(* what was ordered.                                                         *)
THEOREM DeliveriesAreWhole == StockSpec => []DeliveriesWhole
BY OrdersAreWhole, StockInvHolds, PTL

-----------------------------------------------------------------------------
(* InvoiceLedger: invoices, checkouts and refunds.                           *)

(* What the status of an invoice rests on: a session that can still be     *)
(* completed asks for a positive amount and belongs to an invoice, an      *)
(* invoice that was drawn up has a positive total, every refund returns    *)
(* something, and an event lists only refunds that exist.                  *)
Standing ==
  /\ \A i \in Invoices : invoice[i].status # "none" => invoice[i].total > 0
  /\ \A s \in Sessions : session[s].state # "free" =>
       session[s].of \in Invoices /\ session[s].amount > 0
  /\ \A r \in Refunds : /\ refund[r].pi # None => refund[r].amount > 0
                        /\ \A q \in refund[r].lists : refund[q].pi # None

IInv == TypeOK /\ Standing /\ MoneyMatchesStatus /\ CreditedOnce

USE AmountsAssumption, FlagsAssumption, NoneAssumption

LEMMA InitEstablishes == Init => IInv
BY DEF Init, IInv, TypeOK, Standing, MoneyMatchesStatus, StatusTellsMoney,
       CreditedOnce, NoInvoice, NoSession, NoRefund, Statuses,
       InvoiceRow, SessionRow, RefundRow

-----------------------------------------------------------------------------
(* What a transaction may write into a row.                                *)
LEMMA InvoiceRowStays ==
  ASSUME NEW row \in InvoiceRow, NEW st \in Statuses, NEW n \in Nat,
         NEW p \in Sessions \cup {None}
  PROVE  /\ [row EXCEPT !.status = st] \in InvoiceRow
         /\ [row EXCEPT !.checkout = p] \in InvoiceRow
         /\ [row EXCEPT !.status = st, !.total = n] \in InvoiceRow
         /\ [row EXCEPT !.status = st, !.checkout = p] \in InvoiceRow
         /\ [row EXCEPT !.status = st, !.refunded = n] \in InvoiceRow
         /\ [row EXCEPT !.status = st, !.paid = n, !.pi = p] \in InvoiceRow
BY DEF InvoiceRow

LEMMA SessionRowStays ==
  ASSUME NEW row \in SessionRow, NEW n \in Nat, NEW i \in Invoices,
         NEW st \in {"unshared", "loading", "open", "paid"}
  PROVE  /\ [row EXCEPT !.state = st] \in SessionRow
         /\ [row EXCEPT !.credited = n] \in SessionRow
         /\ [row EXCEPT !.returned = n] \in SessionRow
         /\ [row EXCEPT !.state = st, !.of = i, !.amount = n] \in SessionRow
BY DEF SessionRow

(* Booking a refund of a on invoice i, as both refund paths do it.         *)
LEMMA BookedKeepsStatus ==
  ASSUME NEW i \in Invoices, NEW a \in Nat \ {0}, IInv,
         RefundTarget(invoice[i], a) \in transitions[invoice[i].status],
         invoice' = Booked(i, a)
  PROVE  /\ invoice' \in [Invoices -> InvoiceRow]
         /\ MoneyMatchesStatus'
         /\ \A j \in Invoices :
              invoice'[j].status # "none" => invoice'[j].total > 0
<1> USE DEF IInv
<1> DEFINE row == invoice[i]
<1>1. row \in InvoiceRow /\ StatusTellsMoney(row)
  BY DEF TypeOK, MoneyMatchesStatus
<1>2. row.status \in {"partial", "paid", "partially_refunded"}
  BY <1>1 DEF transitions, RefundTarget, Statuses, InvoiceRow
<1>3. invoice'[i] = [row EXCEPT !.status = RefundTarget(row, a),
                                !.refunded = row.refunded + a]
  BY DEF Booked, TypeOK, InvoiceRow
<1>4. \A j \in Invoices : j # i => invoice'[j] = invoice[j]
  BY DEF Booked, TypeOK
<1>5. RefundTarget(row, a) \in {"refunded", "partially_refunded"}
  BY DEF RefundTarget
<1>6. StatusTellsMoney([row EXCEPT !.status = RefundTarget(row, a),
                                   !.refunded = row.refunded + a])
  BY <1>1, <1>2
     DEF StatusTellsMoney, RefundTarget, transitions, Statuses, InvoiceRow
<1>7. [row EXCEPT !.status = RefundTarget(row, a),
                  !.refunded = row.refunded + a] \in InvoiceRow
  <2>1. RefundTarget(row, a) \in Statuses /\ row.refunded + a \in Nat
    BY <1>1, <1>5 DEF InvoiceRow, Statuses
  <2> QED BY <1>1, <2>1, InvoiceRowStays
<1>8. invoice' \in [Invoices -> InvoiceRow]
  <2>1. ASSUME NEW j \in Invoices  PROVE  invoice'[j] \in InvoiceRow
    <3>1. CASE j = i
      BY <1>3, <1>7, <3>1
    <3>2. CASE j # i
      BY <1>4, <3>2 DEF TypeOK
    <3> QED BY <3>1, <3>2
  <2>2. invoice' = [j \in Invoices |-> invoice'[j]]
    BY DEF Booked, TypeOK
  <2> QED BY <2>1, <2>2
<1>9. ASSUME NEW j \in Invoices
      PROVE  /\ StatusTellsMoney(invoice'[j])
             /\ invoice'[j].status # "none" => invoice'[j].total > 0
  <2>1. CASE j = i
    <3>1. invoice'[i].total = row.total
      BY <1>1, <1>3 DEF InvoiceRow
    <3>2. row.total > 0
      BY <1>2 DEF Standing
    <3> QED BY <1>3, <1>6, <2>1, <3>1, <3>2
  <2>2. CASE j # i
    BY <1>4, <2>2 DEF MoneyMatchesStatus, Standing
  <2> QED BY <2>1, <2>2
<1>10. MoneyMatchesStatus'
  BY <1>9 DEF MoneyMatchesStatus, StatusTellsMoney
<1> QED
  BY <1>8, <1>9, <1>10

(* Stripe granting a refund of a on charge s leaves its side well formed.  *)
LEMMA StripeRefundKeeps ==
  ASSUME NEW s \in Sessions, NEW a \in Nat \ {0}, NEW r \in Refunds,
         NEW b \in BOOLEAN, IInv, StripeRefund(s, a, r, b)
  PROVE  /\ session' \in [Sessions -> SessionRow]
         /\ refund' \in [Refunds -> RefundRow]
         /\ \A t \in Sessions : /\ session'[t].state = session[t].state
                                /\ session'[t].of = session[t].of
                                /\ session'[t].amount = session[t].amount
                                /\ session'[t].credited = session[t].credited
         /\ \A q \in Refunds : /\ refund'[q].pi # None => refund'[q].amount > 0
                               /\ \A p \in refund'[q].lists : refund'[p].pi # None
<1>1. /\ session' = [session EXCEPT ![s].returned = @ + a]
      /\ refund' = [refund EXCEPT ![r] =
                      [pi |-> s, amount |-> a, booked |-> b,
                       lists |-> {r} \cup {q \in Refunds : refund[q].pi = s}]]
  BY DEF StripeRefund
<1>2. \A q \in Refunds \ {r} : refund'[q] = refund[q]
  BY <1>1 DEF IInv, TypeOK
<1>3. /\ refund'[r].pi = s /\ refund'[r].amount = a
      /\ refund'[r].lists = {r} \cup {q \in Refunds : refund[q].pi = s}
  BY <1>1 DEF IInv, TypeOK
<1>4. ASSUME NEW q \in Refunds
      PROVE  /\ refund'[q].pi # None => refund'[q].amount > 0
             /\ \A p \in refund'[q].lists : refund'[p].pi # None
  <2>1. CASE q = r
    BY <1>2, <1>3, <2>1
  <2>2. CASE q # r
    BY <1>2, <1>3, <2>2 DEF IInv, Standing, TypeOK, RefundRow
  <2> QED BY <2>1, <2>2
<1>5. session' \in [Sessions -> SessionRow]
  <2>1. /\ session[s] \in SessionRow /\ session[s].returned + a \in Nat
        /\ session[s].of \in Invoices
    BY DEF StripeRefund, IInv, TypeOK, Standing, SessionRow
  <2> QED BY <1>1, <2>1, SessionRowStays DEF IInv, TypeOK
<1>6. refund' \in [Refunds -> RefundRow]
  BY <1>1 DEF IInv, TypeOK, RefundRow
<1>7. \A t \in Sessions : /\ session'[t].state = session[t].state
                          /\ session'[t].of = session[t].of
                          /\ session'[t].amount = session[t].amount
                          /\ session'[t].credited = session[t].credited
  BY <1>1 DEF IInv, TypeOK, SessionRow
<1> QED
  BY <1>4, <1>5, <1>6, <1>7

-----------------------------------------------------------------------------
(* One lemma per action.                                                   *)
LEMMA CreateInvoiceKeeps ==
  ASSUME NEW i \in Invoices, NEW t \in Amounts, IInv, CreateInvoice(i, t)
  PROVE  IInv'
<1> USE DEF IInv
<1>1. TypeOK'
  <2>1. "draft" \in Statuses /\ t \in Nat
    BY DEF Statuses
  <2>2. invoice' \in [Invoices -> InvoiceRow]
    BY <2>1, InvoiceRowStays DEF CreateInvoice, TypeOK
  <2> QED BY <2>2 DEF CreateInvoice, TypeOK
<1>2. Standing'
  BY DEF CreateInvoice, TypeOK, Standing, InvoiceRow
<1>3. MoneyMatchesStatus'
  BY DEF CreateInvoice, TypeOK, MoneyMatchesStatus, StatusTellsMoney, InvoiceRow
<1>4. CreditedOnce'
  BY DEF CreateInvoice, CreditedOnce
<1> QED BY <1>1, <1>2, <1>3, <1>4

LEMMA SendInvoiceKeeps ==
  ASSUME NEW i \in Invoices, NEW s \in Sessions \cup {None}, IInv,
         SendInvoice(i, s)
  PROVE  IInv'
<1> USE DEF IInv
<1>0. invoice[i].status = "draft"
  BY DEF SendInvoice, transitions, TypeOK, InvoiceRow, Statuses
<1>1. TypeOK'
  <2>1. /\ "sent" \in Statuses
        /\ invoice[i].total \in Nat
        /\ invoice[i].checkout \in Sessions \cup {None}
    BY DEF Statuses, TypeOK, InvoiceRow
  <2>2. invoice' \in [Invoices -> InvoiceRow]
    <3>1. PICK c \in Sessions \cup {None} :
            invoice' = [invoice EXCEPT ![i].status = "sent", ![i].checkout = c]
      BY <2>1 DEF SendInvoice, TypeOK
    <3> QED BY <2>1, <3>1, InvoiceRowStays DEF TypeOK
  <2>3. session' \in [Sessions -> SessionRow]
    BY <2>1, SessionRowStays DEF SendInvoice, TypeOK
  <2> QED BY <2>2, <2>3 DEF SendInvoice, TypeOK
<1>2. Standing'
  BY <1>0 DEF SendInvoice, TypeOK, Standing, InvoiceRow, SessionRow
<1>3. MoneyMatchesStatus'
  BY <1>0 DEF SendInvoice, TypeOK, MoneyMatchesStatus, StatusTellsMoney, InvoiceRow
<1>4. CreditedOnce'
  BY DEF SendInvoice, CreditedOnce, TypeOK, SessionRow
<1> QED BY <1>1, <1>2, <1>3, <1>4

LEMMA VoidInvoiceKeeps ==
  ASSUME NEW i \in Invoices, IInv, VoidInvoice(i)
  PROVE  IInv'
<1> USE DEF IInv
<1>0. invoice[i].status \in {"draft", "sent"}
  BY DEF VoidInvoice, transitions, TypeOK, InvoiceRow, Statuses,
         MoneyMatchesStatus, StatusTellsMoney
<1>1. TypeOK'
  <2>1. invoice' \in [Invoices -> InvoiceRow]
    BY InvoiceRowStays DEF VoidInvoice, TypeOK, Statuses
  <2> QED BY <2>1 DEF VoidInvoice, TypeOK
<1>2. Standing'
  BY <1>0 DEF VoidInvoice, TypeOK, Standing, InvoiceRow
<1>3. MoneyMatchesStatus'
  BY <1>0 DEF VoidInvoice, TypeOK, MoneyMatchesStatus, StatusTellsMoney, InvoiceRow
<1>4. CreditedOnce'
  BY DEF VoidInvoice, CreditedOnce
<1> QED BY <1>1, <1>2, <1>3, <1>4

LEMMA LoadPayPageKeeps ==
  ASSUME NEW i \in Invoices, NEW s \in Sessions, IInv, LoadPayPage(i, s)
  PROVE  IInv'
<1> USE DEF IInv
<1>1. TypeOK'
  <2>1. invoice[i].total \in Nat
    BY DEF TypeOK, InvoiceRow
  <2>2. session' \in [Sessions -> SessionRow]
    BY <2>1, SessionRowStays DEF LoadPayPage, TypeOK
  <2> QED BY <2>2 DEF LoadPayPage, TypeOK
<1>2. Standing'
  BY DEF LoadPayPage, TypeOK, Standing, InvoiceRow, SessionRow
<1>3. MoneyMatchesStatus'
  BY DEF LoadPayPage, MoneyMatchesStatus, StatusTellsMoney
<1>4. CreditedOnce'
  BY DEF LoadPayPage, CreditedOnce, TypeOK, SessionRow
<1> QED BY <1>1, <1>2, <1>3, <1>4

LEMMA ShowPayPageKeeps ==
  ASSUME NEW s \in Sessions, IInv, ShowPayPage(s)
  PROVE  IInv'
<1> USE DEF IInv
<1>0. session[s].of \in Invoices
  BY DEF ShowPayPage, Standing
<1>1. TypeOK'
  <2>1. PICK st \in Statuses : TRUE
    BY DEF Statuses
  <2>2. invoice' \in [Invoices -> InvoiceRow]
    BY <1>0, <2>1, InvoiceRowStays DEF ShowPayPage, TypeOK
  <2>3. session' \in [Sessions -> SessionRow]
    BY <1>0, SessionRowStays DEF ShowPayPage, TypeOK
  <2> QED BY <2>2, <2>3 DEF ShowPayPage, TypeOK
<1>2. Standing'
  BY <1>0 DEF ShowPayPage, TypeOK, Standing, InvoiceRow, SessionRow
<1>3. MoneyMatchesStatus'
  BY <1>0 DEF ShowPayPage, TypeOK, MoneyMatchesStatus, StatusTellsMoney, InvoiceRow
<1>4. CreditedOnce'
  BY DEF ShowPayPage, CreditedOnce, TypeOK, SessionRow
<1> QED BY <1>1, <1>2, <1>3, <1>4

LEMMA CryptoIntentKeeps ==
  ASSUME NEW i \in Invoices, NEW a \in Amounts, NEW s \in Sessions, IInv,
         CryptoIntent(i, a, s)
  PROVE  IInv'
<1> USE DEF IInv
<1>1. TypeOK'
  <2>1. PICK st \in Statuses : TRUE
    BY DEF Statuses
  <2>2. invoice' \in [Invoices -> InvoiceRow]
    BY <2>1, InvoiceRowStays DEF CryptoIntent, TypeOK
  <2>3. session' \in [Sessions -> SessionRow]
    BY SessionRowStays DEF CryptoIntent, TypeOK
  <2> QED BY <2>2, <2>3 DEF CryptoIntent, TypeOK
<1>2. Standing'
  BY DEF CryptoIntent, TypeOK, Standing, InvoiceRow, SessionRow
<1>3. MoneyMatchesStatus'
  BY DEF CryptoIntent, TypeOK, MoneyMatchesStatus, StatusTellsMoney, InvoiceRow
<1>4. CreditedOnce'
  BY DEF CryptoIntent, CreditedOnce, TypeOK, SessionRow
<1> QED BY <1>1, <1>2, <1>3, <1>4

LEMMA CustomerPaysKeeps ==
  ASSUME NEW s \in Sessions, IInv, CustomerPays(s)
  PROVE  IInv'
<1> USE DEF IInv
<1>1. TypeOK'
  <2>1. session[s].of \in Invoices
    BY DEF CustomerPays, Standing
  <2>2. session' \in [Sessions -> SessionRow]
    BY <2>1, SessionRowStays DEF CustomerPays, TypeOK
  <2> QED BY <2>2 DEF CustomerPays, TypeOK
<1>2. Standing'
  BY DEF CustomerPays, TypeOK, Standing, SessionRow
<1>3. MoneyMatchesStatus'
  BY DEF CustomerPays, MoneyMatchesStatus, StatusTellsMoney
<1>4. CreditedOnce'
  BY DEF CustomerPays, CreditedOnce, TypeOK, SessionRow
<1> QED BY <1>1, <1>2, <1>3, <1>4

\* A payment credits a row whose session it is: "sent" or "partial" only.
LEMMA CheckoutCompletedKeeps ==
  ASSUME NEW s \in Sessions, IInv, CheckoutCompleted(s)
  PROVE  IInv'
<1> USE DEF IInv
<1>1. PICK i \in Invoices :
        LET row     == invoice[i]
            newPaid == Smaller(row.paid + session[s].amount, row.total)
            target  == IF newPaid >= row.total THEN "paid" ELSE "partial"
        IN /\ target \in transitions[row.status]
           /\ invoice' = [invoice EXCEPT ![i].status = target,
                                         ![i].paid = newPaid, ![i].pi = s]
           /\ session' = [session EXCEPT ![s].credited = @ + 1]
  BY DEF CheckoutCompleted, MarkPaid
<1> DEFINE row     == invoice[i]
           newPaid == Smaller(row.paid + session[s].amount, row.total)
           target  == IF newPaid >= row.total THEN "paid" ELSE "partial"
<1>2. /\ row \in InvoiceRow
      /\ session[s].amount \in Nat \ {0}
      /\ row.total > 0
      /\ row.status \in {"sent", "partial"}
  <2>1. row \in InvoiceRow /\ session[s] \in SessionRow
    BY DEF TypeOK
  <2>2. row.status \in {"sent", "partial"}
    BY <1>1, <2>1 DEF transitions, InvoiceRow, Statuses
  <2> QED
    BY <2>1, <2>2 DEF CheckoutCompleted, Standing, InvoiceRow, SessionRow
<1>3. /\ newPaid \in 1 .. row.total
      /\ target = IF newPaid = row.total THEN "paid" ELSE "partial"
  BY <1>2 DEF Smaller, InvoiceRow
<1>4. /\ invoice'[i] = [row EXCEPT !.status = target, !.paid = newPaid, !.pi = s]
      /\ \A j \in Invoices : j # i => invoice'[j] = invoice[j]
      /\ invoice' = [j \in Invoices |-> invoice'[j]]
  BY <1>1 DEF TypeOK
<1>5. StatusTellsMoney(row)
  BY DEF MoneyMatchesStatus
<1> HIDE DEF newPaid, target
<1>6. invoice'[i] \in InvoiceRow
  <2>1. target \in Statuses /\ newPaid \in Nat
    BY <1>2, <1>3 DEF InvoiceRow, Statuses
  <2>2. ASSUME NEW st \in Statuses, NEW n \in Nat
        PROVE  [row EXCEPT !.status = st, !.paid = n, !.pi = s] \in InvoiceRow
    BY <1>2, InvoiceRowStays
  <2> HIDE DEF row
  <2>3. [row EXCEPT !.status = target, !.paid = newPaid, !.pi = s] \in InvoiceRow
    BY <2>1, <2>2
  <2> QED BY <1>4, <2>3
<1>7. TypeOK'
  <2>1. ASSUME NEW j \in Invoices  PROVE  invoice'[j] \in InvoiceRow
    BY <1>4, <1>6 DEF TypeOK
  <2>2. invoice' \in [Invoices -> InvoiceRow]
    BY <1>4, <2>1
  <2>3. session[s] \in SessionRow /\ session[s].credited + 1 \in Nat
    BY DEF TypeOK, SessionRow
  <2>4. session' \in [Sessions -> SessionRow]
    BY <1>1, <2>3, SessionRowStays DEF TypeOK
  <2> QED
    BY <2>2, <2>4 DEF TypeOK, CheckoutCompleted
<1>8. Standing'
  <2>1. \A j \in Invoices : invoice'[j].status # "none" => invoice'[j].total > 0
    BY <1>2, <1>4 DEF Standing, InvoiceRow
  <2>2. \A t \in Sessions : session'[t].state # "free" =>
          session'[t].of \in Invoices /\ session'[t].amount > 0
    BY <1>1 DEF Standing, TypeOK, SessionRow
  <2> QED
    BY <2>1, <2>2 DEF Standing, CheckoutCompleted
<1>9. MoneyMatchesStatus'
  <2>1. StatusTellsMoney(invoice'[i])
    BY <1>2, <1>3, <1>4, <1>5 DEF StatusTellsMoney, InvoiceRow
  <2>2. \A j \in Invoices : StatusTellsMoney(invoice'[j])
    BY <1>4, <2>1 DEF MoneyMatchesStatus
  <2> QED
    BY <2>2 DEF MoneyMatchesStatus, StatusTellsMoney
<1>10. CreditedOnce'
  <2>1. /\ session[s].credited = 0
        /\ paidDone' = paidDone \cup {s}
    BY DEF CheckoutCompleted, CreditedOnce
  <2> QED
    BY <1>1, <2>1 DEF CreditedOnce, TypeOK, SessionRow
<1> QED BY <1>7, <1>8, <1>9, <1>10

LEMMA DashboardRefundKeeps ==
  ASSUME NEW s \in Sessions, NEW a \in Amounts, NEW r \in Refunds, IInv,
         DashboardRefund(s, a, r)
  PROVE  IInv'
<1>1. StripeRefund(s, a, r, FALSE)
  BY DEF DashboardRefund
<1> USE DEF IInv
<1>2. TypeOK'
  BY <1>1, StripeRefundKeeps DEF DashboardRefund, TypeOK
<1>3. Standing'
  BY <1>1, StripeRefundKeeps DEF DashboardRefund, Standing
<1>4. MoneyMatchesStatus'
  BY DEF DashboardRefund, MoneyMatchesStatus, StatusTellsMoney
<1>5. CreditedOnce'
  BY <1>1, StripeRefundKeeps DEF DashboardRefund, CreditedOnce
<1> QED BY <1>2, <1>3, <1>4, <1>5

LEMMA RefundAnswerLostKeeps ==
  ASSUME NEW i \in Invoices, NEW a \in Amounts, NEW r \in Refunds, IInv,
         RefundAnswerLost(i, a, r)
  PROVE  IInv'
<1> USE DEF IInv
<1>1. invoice[i].pi \in Sessions /\ StripeRefund(invoice[i].pi, a, r, FALSE)
  BY DEF RefundAnswerLost, MayRefund, TypeOK, InvoiceRow
<1>2. TypeOK'
  BY <1>1, StripeRefundKeeps DEF RefundAnswerLost, TypeOK
<1>3. Standing'
  BY <1>1, StripeRefundKeeps DEF RefundAnswerLost, Standing
<1>4. MoneyMatchesStatus'
  BY DEF RefundAnswerLost, MoneyMatchesStatus, StatusTellsMoney
<1>5. CreditedOnce'
  BY <1>1, StripeRefundKeeps DEF RefundAnswerLost, CreditedOnce
<1> QED BY <1>2, <1>3, <1>4, <1>5

LEMMA RefundInvoiceKeeps ==
  ASSUME NEW i \in Invoices, NEW a \in Amounts, NEW r \in Refunds, IInv,
         RefundInvoice(i, a, r)
  PROVE  IInv'
<1> USE DEF IInv
<1>1. /\ invoice[i].pi \in Sessions
      /\ StripeRefund(invoice[i].pi, a, r, TRUE)
      /\ RefundTarget(invoice[i], a) \in transitions[invoice[i].status]
      /\ invoice' = Booked(i, a)
  BY DEF RefundInvoice, MayRefund, TypeOK, InvoiceRow
<1>2. TypeOK'
  BY <1>1, StripeRefundKeeps, BookedKeepsStatus DEF RefundInvoice, TypeOK
<1>3. Standing'
  BY <1>1, StripeRefundKeeps, BookedKeepsStatus DEF Standing
<1>4. MoneyMatchesStatus'
  BY <1>1, BookedKeepsStatus
<1>5. CreditedOnce'
  BY <1>1, StripeRefundKeeps DEF RefundInvoice, CreditedOnce
<1> QED BY <1>2, <1>3, <1>4, <1>5

LEMMA ReconcileOneKeeps ==
  ASSUME NEW e \in Refunds, NEW r \in Refunds, IInv, ReconcileOne(e, r)
  PROVE  IInv'
<1> USE DEF IInv
<1> DEFINE a == refund[r].amount
<1>1. refund[r].pi # None /\ a \in Nat \ {0}
  BY DEF ReconcileOne, Unbooked, Standing, TypeOK, RefundRow
<1>2. PICK i \in Invoices :
        /\ RefundTarget(invoice[i], a) \in transitions[invoice[i].status]
        /\ invoice' = Booked(i, a)
  BY DEF ReconcileOne, Owner
<1> HIDE DEF a
<1>3. /\ invoice' \in [Invoices -> InvoiceRow]
      /\ MoneyMatchesStatus'
      /\ \A j \in Invoices :
           invoice'[j].status # "none" => invoice'[j].total > 0
  BY <1>1, <1>2, BookedKeepsStatus
<1>4. refund' \in [Refunds -> RefundRow]
  <2>1. [refund[r] EXCEPT !.booked = TRUE] \in RefundRow
    <3>1. ASSUME NEW row \in RefundRow
          PROVE  [row EXCEPT !.booked = TRUE] \in RefundRow
      <4>1. PICK p \in Sessions \cup {None}, n \in Nat, l \in SUBSET Refunds,
                 b \in BOOLEAN :
              row = [pi |-> p, amount |-> n, lists |-> l, booked |-> b]
        BY DEF RefundRow
      <4> QED BY <4>1 DEF RefundRow
    <3> QED BY <3>1 DEF TypeOK
  <2> QED BY <2>1 DEF ReconcileOne, TypeOK
<1>5. TypeOK'
  BY <1>3, <1>4 DEF ReconcileOne, TypeOK
<1>6. Standing'
  <2>1. /\ session' = session
        /\ refund' = [refund EXCEPT ![r].booked = TRUE]
    BY DEF ReconcileOne
  <2>2. \A q \in Refunds : /\ refund'[q].pi = refund[q].pi
                           /\ refund'[q].amount = refund[q].amount
                           /\ refund'[q].lists = refund[q].lists
    BY <2>1 DEF TypeOK, RefundRow
  <2>3. \A q \in Refunds : refund[q].lists \subseteq Refunds
    BY DEF TypeOK, RefundRow
  <2> QED
    BY <1>3, <2>1, <2>2, <2>3 DEF Standing
<1>7. MoneyMatchesStatus'
  BY <1>3
<1>8. CreditedOnce'
  BY DEF ReconcileOne, CreditedOnce
<1> QED BY <1>5, <1>6, <1>7, <1>8

\* The ends of a handler touch no money.
LEMMA HandlerEndsKeeps ==
  ASSUME IInv, UNCHANGED <<invoice, session, refund, paidDone>>,
         backDone' \subseteq Refunds, walking' \subseteq Refunds
  PROVE  IInv'
BY DEF IInv, TypeOK, Standing, MoneyMatchesStatus, StatusTellsMoney,
       CreditedOnce, InvoiceRow, SessionRow, RefundRow

-----------------------------------------------------------------------------
LEMMA NextKeeps == IInv /\ [Next]_vars => IInv'
<1> SUFFICES ASSUME IInv, [Next]_vars  PROVE  IInv'
  OBVIOUS
<1>1. CASE Staff
  BY <1>1, CreateInvoiceKeeps, SendInvoiceKeeps, VoidInvoiceKeeps,
     RefundInvoiceKeeps, RefundAnswerLostKeeps DEF Staff
<1>2. CASE Customer
  BY <1>2, LoadPayPageKeeps, ShowPayPageKeeps, CryptoIntentKeeps,
     CustomerPaysKeeps DEF Customer
<1>3. CASE Dashboard
  BY <1>3, DashboardRefundKeeps DEF Dashboard
<1>4. CASE Webhook
  <2>1. CASE \E s \in Sessions : CheckoutCompleted(s)
    BY <2>1, CheckoutCompletedKeeps
  <2>2. ASSUME NEW e \in Refunds, NEW r \in Refunds, ReconcileOne(e, r)
        PROVE  IInv'
    BY <2>2, ReconcileOneKeeps
  <2>3. ASSUME NEW e \in Refunds, ReconcileEnd(e)  PROVE  IInv'
    BY <2>3, HandlerEndsKeeps DEF ReconcileEnd, IInv, TypeOK
  <2>4. ASSUME NEW e \in Refunds, WorkerDies(e)  PROVE  IInv'
    BY <2>4, HandlerEndsKeeps DEF WorkerDies, IInv, TypeOK
  <2> QED BY <1>4, <2>1, <2>2, <2>3, <2>4 DEF Webhook
<1>5. CASE UNCHANGED vars
  BY <1>5, HandlerEndsKeeps DEF vars, IInv, TypeOK
<1> QED BY <1>1, <1>2, <1>3, <1>4, <1>5 DEF Next

-----------------------------------------------------------------------------
(* The books.  What makes the ledgers add up: a free checkout carries no   *)
(* money, a checkout in use asks its invoice for no more than the total, a *)
(* row's checkouts are its own, the charge on a row was credited to it in  *)
(* full, refunds are made of paid charges only, never for more than was    *)
(* captured, and are booked only on the row that carries their charge.     *)
ReturnedOn(s) ==
  [r \in Refunds |-> IF refund[r].pi = s THEN refund[r].amount ELSE 0]

SessionsMatch ==
  \A s \in Sessions :
    /\ session[s].state = "free" => session[s] = NoSession
    /\ session[s].state # "free" =>
         /\ invoice[session[s].of].status # "none"
         /\ session[s].amount <= invoice[session[s].of].total
    /\ session[s].returned = SumFunctionOnSet(ReturnedOn(s), Refunds)
    /\ session[s].returned <= session[s].amount

RowsMatch ==
  \A i \in Invoices :
    /\ invoice[i].checkout # None => session[invoice[i].checkout].of = i
    /\ invoice[i].pi # None =>
         /\ session[invoice[i].pi].of = i
         /\ session[invoice[i].pi].amount <= invoice[i].paid

RefundsMatch ==
  \A r \in Refunds :
    /\ Exists(r) => session[refund[r].pi].state = "paid"
    /\ ~Exists(r) => refund[r] = NoRefund
    /\ refund[r].booked => invoice[session[refund[r].pi].of].pi = refund[r].pi
    /\ \A q \in refund[r].lists : refund[q].pi = refund[r].pi

EventsMatch ==
  \A e \in backDone \cup walking :
    /\ Exists(e)
    /\ ~Connect /\ refund[e].lists = {e} => refund[e].booked

Books == /\ SessionsMatch
         /\ RowsMatch
         /\ RefundsMatch
         /\ EventsMatch
         /\ LedgersAddUp

LEMMA BooksOpen == Init => Books
<1> SUFFICES ASSUME Init  PROVE  Books
  OBVIOUS
<1>1. /\ \A i \in Invoices : invoice[i] = NoInvoice
      /\ \A s \in Sessions : session[s] = NoSession
      /\ \A r \in Refunds : refund[r] = NoRefund
      /\ backDone = {} /\ walking = {}
  BY DEF Init
<1>2. ASSUME NEW s \in Sessions
      PROVE  SumFunctionOnSet(ReturnedOn(s), Refunds) = 0
  <2>1. \A r \in Refunds : ReturnedOn(s)[r] = 0
    BY <1>1 DEF ReturnedOn, NoRefund
  <2> QED BY <2>1, FiniteAssumption, SumOfZeros
<1>3. ASSUME NEW i \in Invoices
      PROVE  /\ SumFunctionOnSet(CreditsOf(i), Sessions) = 0
             /\ SumFunctionOnSet(BackFrom(i), Refunds) = 0
  <2>1. \A s \in Sessions : CreditsOf(i)[s] = 0
    BY <1>1 DEF CreditsOf, NoSession
  <2>2. \A r \in Refunds : BackFrom(i)[r] = 0
    BY <1>1 DEF BackFrom, NoRefund
  <2> QED BY <2>1, <2>2, FiniteAssumption, SumOfZeros
<1>4. SessionsMatch
  BY <1>1, <1>2 DEF SessionsMatch, NoSession
<1>5. RowsMatch
  BY <1>1 DEF RowsMatch, NoInvoice
<1>6. RefundsMatch
  <2>1. ~NoRefund.booked /\ NoRefund.pi = None /\ NoRefund.lists = {}
    BY DEF NoRefund
  <2>2. ASSUME NEW r \in Refunds
        PROVE  ~Exists(r) /\ refund[r] = NoRefund
    BY <1>1, <2>1 DEF Exists
  <2> HIDE DEF NoRefund
  <2> QED BY <2>1, <2>2 DEF RefundsMatch
<1>7. EventsMatch
  BY <1>1 DEF EventsMatch
<1>8. LedgersAddUp
  BY <1>1, <1>3 DEF LedgersAddUp, NoInvoice, Smaller
<1> QED BY <1>4, <1>5, <1>6, <1>7, <1>8 DEF Books

\* What a checkout may have put on a row is a natural number.
LEMMA LedgersAreNat ==
  ASSUME IInv, NEW i \in Invoices
  PROVE  /\ \A s \in Sessions : CreditsOf(i)[s] \in Nat
         /\ \A r \in Refunds : BackFrom(i)[r] \in Nat
         /\ SumFunctionOnSet(CreditsOf(i), Sessions) \in Nat
<1>1. ASSUME NEW s \in Sessions  PROVE  CreditsOf(i)[s] \in Nat
  <2>1. session[s].credited \in {0, 1} /\ session[s].amount \in Nat
    BY DEF IInv, CreditedOnce, TypeOK, SessionRow
  <2> QED BY <2>1 DEF CreditsOf
<1>2. \A r \in Refunds : BackFrom(i)[r] \in Nat
  BY DEF IInv, TypeOK, RefundRow, BackFrom
<1>3. SumFunctionOnSet(CreditsOf(i), Sessions) \in Nat
  BY <1>1, FiniteAssumption, SumIsNat
<1> QED BY <1>1, <1>2, <1>3

\* A step that moves no money: a checkout keeps its own or is opened for an
\* invoice that was drawn up; a row keeps its ledgers and its charge.
CheckoutQuiet(t) ==
  \/ /\ session'[t].of = session[t].of
     /\ session'[t].amount = session[t].amount
     /\ session'[t].credited = session[t].credited
     /\ session'[t].returned = session[t].returned
     /\ session[t].state = "free" => session'[t] = session[t]
     /\ session[t].state # "free" => session'[t].state # "free"
     /\ session[t].state = "paid" => session'[t].state = "paid"
  \/ /\ session[t].state = "free" /\ session'[t].state # "free"
     /\ session'[t].credited = 0 /\ session'[t].returned = 0
     /\ invoice'[session'[t].of].status # "none"
     /\ session'[t].amount <= invoice'[session'[t].of].total

RowQuiet(i) ==
  /\ invoice'[i].paid = invoice[i].paid
  /\ invoice'[i].refunded = invoice[i].refunded
  /\ invoice'[i].pi = invoice[i].pi
  /\ invoice[i].status # "none" =>
       invoice'[i].total = invoice[i].total /\ invoice'[i].status # "none"
  /\ \/ invoice'[i].checkout = invoice[i].checkout
     \/ /\ invoice'[i].checkout \in Sessions
        /\ session'[invoice'[i].checkout].of = i

LEMMA OpeningKeepsBooks ==
  ASSUME IInv, IInv', Books,
         \A t \in Sessions : CheckoutQuiet(t),
         \A i \in Invoices : RowQuiet(i),
         refund' = refund, backDone' = backDone, walking' = walking
  PROVE  Books'
<1> USE DEF Books, CheckoutQuiet, RowQuiet
<1>1. ASSUME NEW s \in Sessions, session[s].state # "free"
      PROVE  /\ session'[s].of = session[s].of
             /\ session[s].of \in Invoices
  BY <1>1 DEF IInv, Standing
<1>2. \A s \in Sessions : ReturnedOn(s)' = ReturnedOn(s)
  BY DEF ReturnedOn
<1>3. SessionsMatch'
  <2> SUFFICES ASSUME NEW s \in Sessions
               PROVE  /\ session'[s].state = "free" => session'[s] = NoSession
                      /\ session'[s].state # "free" =>
                           /\ invoice'[session'[s].of].status # "none"
                           /\ session'[s].amount <= invoice'[session'[s].of].total
                      /\ session'[s].returned = SumFunctionOnSet(ReturnedOn(s), Refunds)
                      /\ session'[s].returned <= session'[s].amount
    BY <1>2 DEF SessionsMatch, NoSession
  <2>1. session'[s].amount \in Nat
    BY DEF IInv, TypeOK, SessionRow
  <2>2. session[s].returned = SumFunctionOnSet(ReturnedOn(s), Refunds)
    BY DEF SessionsMatch
  <2>3. session[s].state = "free" => session[s] = NoSession
    BY DEF SessionsMatch
  <2>4. CASE session[s].state = "free"
    BY <2>1, <2>2, <2>3, <2>4 DEF NoSession
  <2>5. CASE session[s].state # "free"
    <3>1. /\ invoice[session[s].of].status # "none"
          /\ session[s].amount <= invoice[session[s].of].total
          /\ session[s].returned <= session[s].amount
      BY <2>5 DEF SessionsMatch
    <3> QED BY <1>1, <2>2, <2>5, <3>1
  <2> QED BY <2>4, <2>5
<1>4. RowsMatch'
  <2> SUFFICES ASSUME NEW i \in Invoices
               PROVE  /\ invoice'[i].checkout # None =>
                           session'[invoice'[i].checkout].of = i
                      /\ invoice'[i].pi # None =>
                           /\ session'[invoice'[i].pi].of = i
                           /\ session'[invoice'[i].pi].amount <= invoice'[i].paid
    BY DEF RowsMatch
  <2>1. /\ invoice[i].checkout \in Sessions \cup {None}
        /\ invoice[i].pi \in Sessions \cup {None}
    BY DEF IInv, TypeOK, InvoiceRow
  <2>2. \A s \in Sessions : session[s].of = i => session[s].state # "free"
    BY DEF SessionsMatch, NoSession
  <2> QED BY <2>1, <2>2 DEF RowsMatch
<1>5. RefundsMatch'
  <2> SUFFICES ASSUME NEW r \in Refunds
               PROVE  /\ Exists(r) => session'[refund[r].pi].state = "paid"
                      /\ refund[r].booked =>
                           invoice'[session'[refund[r].pi].of].pi = refund[r].pi
    BY DEF RefundsMatch, Exists
  <2>1. refund[r].booked => Exists(r)
    BY DEF RefundsMatch, NoRefund
  <2>2. Exists(r) => refund[r].pi \in Sessions /\ session[refund[r].pi].state = "paid"
    BY DEF RefundsMatch, Exists, IInv, TypeOK, RefundRow
  <2> QED BY <1>1, <2>1, <2>2 DEF RefundsMatch
<1>6. EventsMatch'
  BY DEF EventsMatch, Exists
<1>7. LedgersAddUp'
  <2> SUFFICES ASSUME NEW i \in Invoices
               PROVE  /\ invoice'[i].paid = Smaller(invoice'[i].total,
                           SumFunctionOnSet(CreditsOf(i)', Sessions))
                      /\ invoice'[i].refunded =
                           SumFunctionOnSet(BackFrom(i)', Refunds)
    BY DEF LedgersAddUp, Smaller
  <2>1. CreditsOf(i)' = CreditsOf(i)
    <3>1. ASSUME NEW s \in Sessions
          PROVE  (IF session'[s].of = i
                  THEN session'[s].credited * session'[s].amount ELSE 0)
                 = (IF session[s].of = i
                    THEN session[s].credited * session[s].amount ELSE 0)
      <4>1. session'[s].amount \in Nat
        BY DEF IInv, TypeOK, SessionRow
      <4>2. session[s].state = "free" => session[s].of = None
        BY DEF SessionsMatch, NoSession
      <4>3. 0 * session'[s].amount = 0
        BY <4>1
      <4> QED BY <4>2, <4>3
    <3> QED BY <3>1 DEF CreditsOf
  <2>2. BackFrom(i)' = BackFrom(i)
    <3>1. ASSUME NEW r \in Refunds, refund[r].booked
          PROVE  session'[refund[r].pi].of = session[refund[r].pi].of
      <4>1. Exists(r)
        BY <3>1 DEF RefundsMatch, NoRefund
      <4>2. refund[r].pi \in Sessions /\ session[refund[r].pi].state = "paid"
        BY <4>1 DEF RefundsMatch, Exists, IInv, TypeOK, RefundRow
      <4> QED BY <1>1, <4>2
    <3> QED BY <3>1 DEF BackFrom
  <2>3. CASE invoice[i].status # "none"
    BY <2>1, <2>2, <2>3 DEF LedgersAddUp
  <2>4. CASE invoice[i].status = "none"
    <3>1. \A s \in Sessions : session[s].of # i
      BY <2>4 DEF SessionsMatch, NoSession
    <3>2. \A s \in Sessions : CreditsOf(i)[s] = 0
      BY <3>1 DEF CreditsOf
    <3>3. SumFunctionOnSet(CreditsOf(i), Sessions) = 0
      BY <3>2, FiniteAssumption, SumOfZeros
    <3>4. /\ invoice[i].paid = 0
          /\ invoice'[i].total \in Nat
      BY <2>4 DEF IInv, MoneyMatchesStatus, StatusTellsMoney, TypeOK, InvoiceRow
    <3> QED BY <2>1, <2>2, <3>3, <3>4 DEF LedgersAddUp, Smaller
  <2> QED BY <2>3, <2>4
<1> QED BY <1>3, <1>4, <1>5, <1>6, <1>7

LEMMA StaffKeepsBooks ==
  ASSUME IInv, IInv', Books, NEW i \in Invoices,
         \/ \E t \in Amounts : CreateInvoice(i, t)
         \/ \E c \in Sessions \cup {None} : SendInvoice(i, c)
         \/ VoidInvoice(i)
  PROVE  Books'
<1> USE DEF IInv
<1>0. /\ \A j \in Invoices : invoice[j] \in InvoiceRow
      /\ \A t \in Sessions : session[t] \in SessionRow
      /\ \A t \in Sessions : session[t].state = "free" => session[t] = NoSession
  BY DEF TypeOK, Books, SessionsMatch
<1>1. ASSUME NEW t \in Amounts, CreateInvoice(i, t)  PROVE  Books'
  <2>1. /\ invoice' = [invoice EXCEPT ![i].status = "draft", ![i].total = t]
        /\ invoice[i].status = "none"
        /\ UNCHANGED <<session, refund, backDone, walking>>
    BY <1>1 DEF CreateInvoice
  <2>2. \A j \in Invoices :
           /\ invoice'[j].paid = invoice[j].paid
           /\ invoice'[j].refunded = invoice[j].refunded
           /\ invoice'[j].pi = invoice[j].pi
           /\ invoice[j].status # "none" =>
                invoice'[j].total = invoice[j].total /\ invoice'[j].status # "none"
           /\ invoice'[j].checkout = invoice[j].checkout
    BY <1>0, <2>1 DEF TypeOK, InvoiceRow
  <2>3. \A c \in Sessions : CheckoutQuiet(c)
    BY <2>1 DEF CheckoutQuiet
  <2>4. \A j \in Invoices : RowQuiet(j)
    BY <2>2 DEF RowQuiet
  <2> QED BY <2>1, <2>3, <2>4, OpeningKeepsBooks
<1>2. ASSUME NEW c \in Sessions \cup {None}, SendInvoice(i, c)  PROVE  Books'
  <2>0. invoice[i].status = "draft"
    BY <1>0, <1>2 DEF SendInvoice, transitions, InvoiceRow, Statuses
  <2>1. CASE c = None
    <3>1. /\ invoice' = [invoice EXCEPT ![i].status = "sent",
                                        ![i].checkout = invoice[i].checkout]
          /\ UNCHANGED <<session, refund, backDone, walking>>
      BY <1>0, <1>2, <2>1 DEF SendInvoice, TypeOK, InvoiceRow
    <3>2. \A j \in Invoices :
             /\ invoice'[j].paid = invoice[j].paid
             /\ invoice'[j].refunded = invoice[j].refunded
             /\ invoice'[j].pi = invoice[j].pi
             /\ invoice[j].status # "none" =>
                  invoice'[j].total = invoice[j].total /\ invoice'[j].status # "none"
             /\ invoice'[j].checkout = invoice[j].checkout
      BY <1>0, <3>1 DEF TypeOK, InvoiceRow
    <3>3. \A t \in Sessions : CheckoutQuiet(t)
      BY <3>1 DEF CheckoutQuiet
    <3>4. \A j \in Invoices : RowQuiet(j)
      BY <3>2 DEF RowQuiet
    <3> QED BY <3>1, <3>3, <3>4, OpeningKeepsBooks
  <2>2. CASE c # None
    <3>1. /\ c \in Sessions /\ session[c].state = "free"
          /\ invoice' = [invoice EXCEPT ![i].status = "sent", ![i].checkout = c]
          /\ session' = [session EXCEPT ![c].state = "unshared", ![c].of = i,
                                        ![c].amount = invoice[i].total]
          /\ UNCHANGED <<refund, backDone, walking>>
      BY <1>0, <1>2, <2>2 DEF SendInvoice, TypeOK, InvoiceRow
    <3>2. /\ session'[c].state = "unshared" /\ session'[c].of = i
          /\ session'[c].amount = invoice[i].total
          /\ session'[c].credited = 0 /\ session'[c].returned = 0
          /\ \A t \in Sessions \ {c} : session'[t] = session[t]
      BY <1>0, <3>1 DEF TypeOK, SessionRow, NoSession
    <3>3. /\ \A j \in Invoices :
               /\ invoice'[j].paid = invoice[j].paid
               /\ invoice'[j].refunded = invoice[j].refunded
               /\ invoice'[j].pi = invoice[j].pi
               /\ invoice'[j].total = invoice[j].total
               /\ invoice[j].status # "none" => invoice'[j].status # "none"
               /\ j # i => invoice'[j].checkout = invoice[j].checkout
          /\ invoice'[i].checkout = c /\ invoice'[i].status = "sent"
      BY <1>0, <3>1 DEF TypeOK, InvoiceRow
    <3>4. invoice[i].total \in Nat
      BY <1>0 DEF InvoiceRow
    <3>5. CheckoutQuiet(c)
      <4>1. session'[c].amount <= invoice'[session'[c].of].total
        BY <3>2, <3>3, <3>4
      <4>2. session'[c].state # "free" /\ invoice'[session'[c].of].status # "none"
        BY <3>2, <3>3
      <4> QED BY <3>1, <3>2, <4>1, <4>2 DEF CheckoutQuiet
    <3>7. \A t \in Sessions : CheckoutQuiet(t)
      <4>1. \A t \in Sessions \ {c} : CheckoutQuiet(t)
        BY <3>2 DEF CheckoutQuiet
      <4> QED BY <3>5, <4>1
    <3>6. \A j \in Invoices : RowQuiet(j)
      BY <3>1, <3>2, <3>3 DEF RowQuiet
    <3> QED BY <3>1, <3>6, <3>7, OpeningKeepsBooks
  <2> QED BY <2>1, <2>2
<1>3. ASSUME VoidInvoice(i)  PROVE  Books'
  <2>1. /\ invoice' = [invoice EXCEPT ![i].status = "void"]
        /\ UNCHANGED <<session, refund, backDone, walking>>
    BY <1>3 DEF VoidInvoice
  <2>2. \A j \in Invoices :
           /\ invoice'[j].paid = invoice[j].paid
           /\ invoice'[j].refunded = invoice[j].refunded
           /\ invoice'[j].pi = invoice[j].pi
           /\ invoice'[j].total = invoice[j].total
           /\ invoice[j].status # "none" => invoice'[j].status # "none"
           /\ invoice'[j].checkout = invoice[j].checkout
    BY <1>0, <2>1 DEF TypeOK, InvoiceRow
  <2>3. \A c \in Sessions : CheckoutQuiet(c)
    BY <2>1 DEF CheckoutQuiet
  <2>4. \A j \in Invoices : RowQuiet(j)
    BY <2>2 DEF RowQuiet
  <2> QED BY <2>1, <2>3, <2>4, OpeningKeepsBooks
<1> QED BY <1>1, <1>2, <1>3

LEMMA CustomerKeepsBooks ==
  ASSUME IInv, IInv', Books, NEW s \in Sessions,
         \/ \E i \in Invoices : LoadPayPage(i, s)
         \/ ShowPayPage(s)
         \/ \E i \in Invoices, a \in Amounts : CryptoIntent(i, a, s)
         \/ CustomerPays(s)
  PROVE  Books'
<1> USE DEF IInv
<1>0. /\ \A j \in Invoices : invoice[j] \in InvoiceRow
      /\ \A t \in Sessions : session[t] \in SessionRow
      /\ \A t \in Sessions : session[t].state = "free" => session[t] = NoSession
  BY DEF TypeOK, Books, SessionsMatch
<1>1. ASSUME NEW i \in Invoices, LoadPayPage(i, s)  PROVE  Books'
  <2>1. /\ invoice[i].status \in {"sent", "partial", "partially_refunded"}
        /\ session[s].state = "free"
        /\ session' = [session EXCEPT ![s].state = "loading", ![s].of = i,
                                      ![s].amount = invoice[i].total]
        /\ UNCHANGED <<invoice, refund, backDone, walking>>
    BY <1>1 DEF LoadPayPage
  <2>2. /\ session'[s].state = "loading" /\ session'[s].of = i
        /\ session'[s].amount = invoice[i].total
        /\ session'[s].credited = 0 /\ session'[s].returned = 0
        /\ \A t \in Sessions \ {s} : session'[t] = session[t]
    BY <1>0, <2>1 DEF TypeOK, SessionRow, NoSession
  <2>3. invoice[i].total \in Nat
    BY <1>0 DEF InvoiceRow
  <2>4. \A c \in Sessions : CheckoutQuiet(c)
    <3>1. session'[s].amount <= invoice'[session'[s].of].total
      BY <2>1, <2>2, <2>3
    <3>2. session'[s].state # "free" /\ invoice'[session'[s].of].status # "none"
      BY <2>1, <2>2
    <3>3. CheckoutQuiet(s)
      BY <2>1, <2>2, <3>1, <3>2 DEF CheckoutQuiet
    <3>4. \A c \in Sessions \ {s} : CheckoutQuiet(c)
      BY <2>2 DEF CheckoutQuiet
    <3> QED BY <3>3, <3>4
  <2>5. \A j \in Invoices : RowQuiet(j)
    BY <2>1 DEF RowQuiet
  <2> QED BY <2>1, <2>4, <2>5, OpeningKeepsBooks
<1>2. ASSUME ShowPayPage(s)  PROVE  Books'
  <2>1. /\ session[s].state = "loading"
        /\ session' = [session EXCEPT ![s].state = "open"]
        /\ invoice' = [invoice EXCEPT ![session[s].of].checkout = s]
        /\ UNCHANGED <<refund, backDone, walking>>
    BY <1>2 DEF ShowPayPage
  <2>2. session[s].of \in Invoices
    BY <2>1 DEF Standing
  <2>3. /\ session'[s].state = "open" /\ session'[s].of = session[s].of
        /\ session'[s].amount = session[s].amount
        /\ session'[s].credited = session[s].credited
        /\ session'[s].returned = session[s].returned
        /\ \A t \in Sessions \ {s} : session'[t] = session[t]
    BY <1>0, <2>1 DEF TypeOK, SessionRow
  <2>4. \A j \in Invoices :
           /\ invoice'[j].paid = invoice[j].paid
           /\ invoice'[j].refunded = invoice[j].refunded
           /\ invoice'[j].pi = invoice[j].pi
           /\ invoice'[j].total = invoice[j].total
           /\ invoice'[j].status = invoice[j].status
           /\ invoice'[j].checkout =
                IF j = session[s].of THEN s ELSE invoice[j].checkout
    BY <1>0, <2>1, <2>2 DEF TypeOK, InvoiceRow
  <2>5. \A c \in Sessions : CheckoutQuiet(c)
    BY <2>1, <2>3 DEF CheckoutQuiet
  <2>6. \A j \in Invoices : RowQuiet(j)
    BY <2>3, <2>4 DEF RowQuiet
  <2> QED BY <2>1, <2>5, <2>6, OpeningKeepsBooks
<1>3. ASSUME NEW i \in Invoices, NEW a \in Amounts, CryptoIntent(i, a, s)  PROVE  Books'
  <2>1. /\ invoice[i].status \in {"sent", "partial"}
        /\ a \in 1 .. (invoice[i].total - invoice[i].paid)
        /\ session[s].state = "free"
        /\ session' = [session EXCEPT ![s].state = "open", ![s].of = i, ![s].amount = a]
        /\ invoice' = [invoice EXCEPT ![i].checkout = s]
        /\ UNCHANGED <<refund, backDone, walking>>
    BY <1>3 DEF CryptoIntent
  <2>2. /\ session'[s].state = "open" /\ session'[s].of = i /\ session'[s].amount = a
        /\ session'[s].credited = 0 /\ session'[s].returned = 0
        /\ \A t \in Sessions \ {s} : session'[t] = session[t]
    BY <1>0, <2>1 DEF TypeOK, SessionRow, NoSession
  <2>3. \A j \in Invoices :
           /\ invoice'[j].paid = invoice[j].paid
           /\ invoice'[j].refunded = invoice[j].refunded
           /\ invoice'[j].pi = invoice[j].pi
           /\ invoice'[j].total = invoice[j].total
           /\ invoice'[j].status = invoice[j].status
           /\ invoice'[j].checkout = IF j = i THEN s ELSE invoice[j].checkout
    BY <1>0, <2>1 DEF TypeOK, InvoiceRow
  <2>4. invoice[i].total \in Nat /\ invoice[i].paid \in Nat /\ a <= invoice[i].total
    BY <1>0, <2>1 DEF InvoiceRow
  <2>5. \A c \in Sessions : CheckoutQuiet(c)
    <3>1. session'[s].amount <= invoice'[session'[s].of].total
      BY <2>2, <2>3, <2>4
    <3>2. session'[s].state # "free" /\ invoice'[session'[s].of].status # "none"
      BY <2>1, <2>2, <2>3
    <3>3. CheckoutQuiet(s)
      BY <2>1, <2>2, <3>1, <3>2 DEF CheckoutQuiet
    <3>4. \A c \in Sessions \ {s} : CheckoutQuiet(c)
      BY <2>2 DEF CheckoutQuiet
    <3> QED BY <3>3, <3>4
  <2>6. \A j \in Invoices : RowQuiet(j)
    BY <2>2, <2>3 DEF RowQuiet
  <2> QED BY <2>1, <2>5, <2>6, OpeningKeepsBooks
<1>4. ASSUME CustomerPays(s)  PROVE  Books'
  <2>1. /\ session[s].state = "open"
        /\ session' = [session EXCEPT ![s].state = "paid"]
        /\ UNCHANGED <<invoice, refund, backDone, walking>>
    BY <1>4 DEF CustomerPays
  <2>2. /\ session'[s].state = "paid" /\ session'[s].of = session[s].of
        /\ session'[s].amount = session[s].amount
        /\ session'[s].credited = session[s].credited
        /\ session'[s].returned = session[s].returned
        /\ \A t \in Sessions \ {s} : session'[t] = session[t]
    BY <1>0, <2>1 DEF TypeOK, SessionRow
  <2>3. \A c \in Sessions : CheckoutQuiet(c)
    BY <2>1, <2>2 DEF CheckoutQuiet
  <2>4. \A j \in Invoices : RowQuiet(j)
    BY <2>1 DEF RowQuiet
  <2> QED BY <2>1, <2>3, <2>4, OpeningKeepsBooks
<1> QED BY <1>1, <1>2, <1>3, <1>4

\* No refund of this invoice is booked while it can still be paid.
LEMMA NothingBookedYet ==
  ASSUME IInv, Books, NEW i \in Invoices, invoice[i].refunded = 0
  PROVE  \A r \in Refunds : refund[r].booked => session[refund[r].pi].of # i
<1> SUFFICES ASSUME NEW r \in Refunds, refund[r].booked,
                    session[refund[r].pi].of = i
             PROVE  FALSE
  OBVIOUS
<1>1. BackFrom(i)[r] <= SumFunctionOnSet(BackFrom(i), Refunds)
  BY LedgersAreNat, FiniteAssumption, SumAtLeastPart
<1>2. SumFunctionOnSet(BackFrom(i), Refunds) = 0
  BY DEF Books, LedgersAddUp
<1>3. BackFrom(i)[r] = refund[r].amount
  BY DEF BackFrom
<1>4. ~NoRefund.booked
  BY DEF NoRefund
<1>5. refund[r].pi # None
  BY <1>4 DEF Books, RefundsMatch, Exists
<1>6. refund[r].amount \in Nat \ {0}
  BY <1>5 DEF IInv, Standing, TypeOK, RefundRow
<1> QED BY <1>1, <1>2, <1>3, <1>6

\* A completed checkout is credited to the one row it was opened for.
LEMMA CheckoutCompletedKeepsBooks ==
  ASSUME NEW s \in Sessions, IInv, IInv', Books, CheckoutCompleted(s)
  PROVE  Books'
<1> USE DEF Books
<1>1. PICK i \in Invoices :
        LET row     == invoice[i]
            newPaid == Smaller(row.paid + session[s].amount, row.total)
            target  == IF newPaid >= row.total THEN "paid" ELSE "partial"
        IN /\ row.checkout = s
           /\ target \in transitions[row.status]
           /\ invoice' = [invoice EXCEPT ![i].status = target,
                                         ![i].paid = newPaid, ![i].pi = s]
           /\ session' = [session EXCEPT ![s].credited = @ + 1]
  BY DEF CheckoutCompleted, MarkPaid
<1> DEFINE row     == invoice[i]
           newPaid == Smaller(row.paid + session[s].amount, row.total)
           target  == IF newPaid >= row.total THEN "paid" ELSE "partial"
           amount  == session[s].amount
<1>2. /\ row.paid \in Nat /\ row.total \in Nat /\ amount \in Nat
      /\ target \in {"paid", "partial"}
      /\ row.status \in {"sent", "partial"}
      /\ session[s].of = i /\ s # None
      /\ amount <= row.total
      /\ session[s].credited = 0
      /\ row.refunded = 0
  <2>1. row \in InvoiceRow /\ session[s] \in SessionRow /\ s # None
    BY DEF IInv, TypeOK
  <2>2. row.status \in {"sent", "partial"}
    BY <1>1, <2>1 DEF transitions, InvoiceRow, Statuses
  <2>3. session[s].of = i
    BY <1>1, <2>1 DEF RowsMatch
  <2>4. session[s].state = "paid"
    BY DEF CheckoutCompleted
  <2>5. amount <= row.total
    BY <2>3, <2>4 DEF SessionsMatch
  <2>6. session[s].credited = 0
    BY DEF CheckoutCompleted, IInv, CreditedOnce
  <2>7. row.refunded = 0
    BY <2>2 DEF IInv, MoneyMatchesStatus, StatusTellsMoney
  <2> QED BY <2>1, <2>2, <2>3, <2>5, <2>6, <2>7 DEF InvoiceRow, SessionRow
<1>3. /\ invoice'[i].paid = newPaid /\ invoice'[i].pi = s
      /\ invoice'[i].total = row.total /\ invoice'[i].refunded = row.refunded
      /\ invoice'[i].checkout = row.checkout /\ invoice'[i].status = target
      /\ \A j \in Invoices : j # i => invoice'[j] = invoice[j]
  BY <1>1 DEF IInv, TypeOK, InvoiceRow
<1>4. /\ session'[s].credited = 1 /\ session'[s].of = i
      /\ \A t \in Sessions :
           /\ t # s => session'[t] = session[t]
           /\ session'[t].state = session[t].state
           /\ session'[t].of = session[t].of
           /\ session'[t].amount = session[t].amount
           /\ session'[t].returned = session[t].returned
  BY <1>1, <1>2 DEF IInv, TypeOK, SessionRow
<1>5. /\ refund' = refund /\ backDone' = backDone /\ walking' = walking
      /\ session[s].state = "paid"
  BY DEF CheckoutCompleted
<1>6. newPaid >= amount /\ newPaid \in Nat
  BY <1>2 DEF Smaller
<1> HIDE DEF newPaid, target
<1>7. SessionsMatch'
  <2> SUFFICES ASSUME NEW t \in Sessions
               PROVE  /\ session'[t].state = "free" => session'[t] = NoSession
                      /\ session'[t].state # "free" =>
                           /\ invoice'[session'[t].of].status # "none"
                           /\ session'[t].amount <= invoice'[session'[t].of].total
                      /\ session'[t].returned = SumFunctionOnSet(ReturnedOn(t)', Refunds)
                      /\ session'[t].returned <= session'[t].amount
    BY DEF SessionsMatch, NoSession
  <2>1. ReturnedOn(t)' = ReturnedOn(t)
    BY <1>5 DEF ReturnedOn
  <2>2. \A j \in Invoices : /\ invoice'[j].total = invoice[j].total
                            /\ invoice[j].status # "none" => invoice'[j].status # "none"
    BY <1>2, <1>3
  <2>3. session[t].state # "free" => session[t].of \in Invoices
    BY DEF IInv, Standing
  <2> QED BY <1>4, <1>5, <2>1, <2>2, <2>3 DEF SessionsMatch
<1>8. RowsMatch'
  BY <1>2, <1>3, <1>4, <1>6 DEF RowsMatch, IInv, TypeOK, InvoiceRow
<1>9. RefundsMatch'
  <2> SUFFICES ASSUME NEW r \in Refunds
               PROVE  /\ Exists(r) => session'[refund[r].pi].state = "paid"
                      /\ refund[r].booked =>
                           invoice'[session'[refund[r].pi].of].pi = refund[r].pi
    BY <1>5 DEF RefundsMatch, Exists
  <2>1. ~NoRefund.booked
    BY DEF NoRefund
  <2>2. refund[r].booked => Exists(r)
    BY <2>1 DEF RefundsMatch
  <2>3. Exists(r) => /\ refund[r].pi \in Sessions
                     /\ session[refund[r].pi].state = "paid"
                     /\ session[refund[r].pi].of \in Invoices
    BY DEF RefundsMatch, Exists, IInv, TypeOK, RefundRow, Standing
  <2>4. refund[r].booked => session[refund[r].pi].of # i
    BY <1>2, NothingBookedYet
  <2> QED BY <1>3, <1>4, <2>2, <2>3, <2>4 DEF RefundsMatch
<1>10. EventsMatch'
  BY <1>5 DEF EventsMatch, Exists
<1>11. \A j \in Invoices : BackFrom(j)' = BackFrom(j)
  <2>1. ASSUME NEW r \in Refunds, refund[r].booked
        PROVE  session'[refund[r].pi].of = session[refund[r].pi].of
    <3>1. ~NoRefund.booked
      BY DEF NoRefund
    <3>2. refund[r].pi \in Sessions
      BY <2>1, <3>1 DEF RefundsMatch, Exists, IInv, TypeOK, RefundRow
    <3> QED BY <1>4, <3>2
  <2> QED BY <1>5, <2>1 DEF BackFrom
<1>12. \A j \in Invoices \ {i} : CreditsOf(j)' = CreditsOf(j)
  BY <1>2, <1>4 DEF CreditsOf
<1>13. SumFunctionOnSet(CreditsOf(i)', Sessions) =
         SumFunctionOnSet(CreditsOf(i), Sessions) + amount
  <2> DEFINE f == CreditsOf(i)
             g == CreditsOf(i)'
  <2>1. \A t \in Sessions : f[t] \in Nat /\ g[t] \in Nat
    <3>1. \A t \in Sessions : f[t] \in Nat
      BY LedgersAreNat
    <3>2. ASSUME NEW t \in Sessions  PROVE  g[t] \in Nat
      <4>1. session'[t].credited \in {0, 1} /\ session'[t].amount \in Nat
        BY DEF IInv, CreditedOnce, TypeOK, SessionRow
      <4> QED BY <4>1 DEF CreditsOf
    <3> QED BY <3>1, <3>2
  <2>2. \A t \in Sessions \ {s} : f[t] = g[t]
    BY <1>4 DEF CreditsOf
  <2>3. f[s] = 0 /\ g[s] = amount
    BY <1>2, <1>4 DEF CreditsOf
  <2>4. SumFunctionOnSet(f, Sessions) \in Nat
    BY LedgersAreNat
  <2> HIDE DEF f, g
  <2>5. SumFunctionOnSet(g, Sessions) = SumFunctionOnSet(f, Sessions) - f[s] + g[s]
    BY <2>1, <2>2, FiniteAssumption, SumOfOneChange
  <2>6. SumFunctionOnSet(g, Sessions) = SumFunctionOnSet(f, Sessions) + amount
    BY <1>2, <2>3, <2>4, <2>5
  <2> QED BY <2>6 DEF f, g
<1>14. LedgersAddUp'
  <2> SUFFICES ASSUME NEW j \in Invoices
               PROVE  /\ invoice'[j].paid = Smaller(invoice'[j].total,
                           SumFunctionOnSet(CreditsOf(j)', Sessions))
                      /\ invoice'[j].refunded =
                           SumFunctionOnSet(BackFrom(j)', Refunds)
    BY DEF LedgersAddUp, Smaller
  <2>1. CASE j # i
    BY <1>3, <1>11, <1>12, <2>1 DEF LedgersAddUp
  <2>2. CASE j = i
    <3>1. /\ row.paid = Smaller(row.total, SumFunctionOnSet(CreditsOf(i), Sessions))
          /\ row.refunded = SumFunctionOnSet(BackFrom(i), Refunds)
          /\ SumFunctionOnSet(CreditsOf(i), Sessions) \in Nat
      BY LedgersAreNat DEF LedgersAddUp
    <3>2. newPaid = Smaller(row.total, SumFunctionOnSet(CreditsOf(i)', Sessions))
      BY <1>2, <1>13, <3>1 DEF newPaid, Smaller
    <3> QED BY <1>3, <1>11, <2>2, <3>1, <3>2
  <2> QED BY <2>1, <2>2
<1> QED BY <1>7, <1>8, <1>9, <1>10, <1>14

\* What booking a refund of a does to the row of invoice i, and to no other.
LEMMA BookedRow ==
  ASSUME IInv, NEW i \in Invoices, NEW a \in Nat \ {0}, invoice' = Booked(i, a),
         RefundTarget(invoice[i], a) \in transitions[invoice[i].status]
  PROVE  /\ invoice'[i].refunded = invoice[i].refunded + a
         /\ \A j \in Invoices \ {i} : invoice'[j].refunded = invoice[j].refunded
         /\ \A j \in Invoices :
              /\ invoice'[j].paid = invoice[j].paid
              /\ invoice'[j].total = invoice[j].total
              /\ invoice'[j].pi = invoice[j].pi
              /\ invoice'[j].checkout = invoice[j].checkout
              /\ invoice[j].status # "none" => invoice'[j].status # "none"
<1>1. RefundTarget(invoice[i], a) # "none"
  BY DEF RefundTarget
<1>2. \A j \in Invoices : invoice[j] \in InvoiceRow
  BY DEF IInv, TypeOK
<1> QED BY <1>1, <1>2 DEF Booked, IInv, TypeOK, InvoiceRow

LEMMA BookingAddsUp ==
  ASSUME IInv, IInv', Books, NEW i \in Invoices, NEW r \in Refunds, NEW a \in Nat \ {0},
         BackFrom(i)[r] = 0, BackFrom(i)'[r] = a,
         \A q \in Refunds \ {r} : BackFrom(i)'[q] = BackFrom(i)[q],
         \A j \in Invoices \ {i} : BackFrom(j)' = BackFrom(j),
         \A j \in Invoices : CreditsOf(j)' = CreditsOf(j),
         invoice' = Booked(i, a),
         RefundTarget(invoice[i], a) \in transitions[invoice[i].status]
  PROVE  LedgersAddUp'
<1>1. SumFunctionOnSet(BackFrom(i)', Refunds) =
        SumFunctionOnSet(BackFrom(i), Refunds) + a
  <2> DEFINE f == BackFrom(i)
             g == BackFrom(i)'
  <2>1. \A q \in Refunds : f[q] \in Nat
    BY LedgersAreNat
  <2>2. \A q \in Refunds : g[q] \in Nat
    BY <2>1
  <2>3. SumFunctionOnSet(f, Refunds) \in Nat
    BY <2>1, FiniteAssumption, SumIsNat
  <2>4. f[r] = 0 /\ g[r] = a /\ \A q \in Refunds \ {r} : f[q] = g[q]
    OBVIOUS
  <2> HIDE DEF f, g
  <2>5. SumFunctionOnSet(g, Refunds) = SumFunctionOnSet(f, Refunds) - f[r] + g[r]
    BY <2>1, <2>2, <2>4, FiniteAssumption, SumOfOneChange
  <2>6. SumFunctionOnSet(g, Refunds) = SumFunctionOnSet(f, Refunds) + a
    BY <2>3, <2>4, <2>5
  <2> QED BY <2>6 DEF f, g
<1> SUFFICES ASSUME NEW j \in Invoices
             PROVE  /\ invoice'[j].paid = Smaller(invoice'[j].total,
                         SumFunctionOnSet(CreditsOf(j)', Sessions))
                    /\ invoice'[j].refunded =
                         SumFunctionOnSet(BackFrom(j)', Refunds)
  BY DEF LedgersAddUp, Smaller
<1>2. /\ invoice[j].paid =
           Smaller(invoice[j].total, SumFunctionOnSet(CreditsOf(j), Sessions))
      /\ invoice[j].refunded = SumFunctionOnSet(BackFrom(j), Refunds)
  BY DEF Books, LedgersAddUp
<1>3. CASE j = i
  BY <1>1, <1>2, <1>3, BookedRow
<1>4. CASE j # i
  BY <1>2, <1>4, BookedRow
<1> QED BY <1>3, <1>4

\* A step that leaves a row's payments and charges, and what refund r, granted
\* on charge s, takes off the books of invoice j.
RowHolds(j) ==
  /\ invoice'[j].paid = invoice[j].paid
  /\ invoice'[j].total = invoice[j].total
  /\ invoice'[j].pi = invoice[j].pi
  /\ invoice'[j].checkout = invoice[j].checkout
  /\ invoice[j].status # "none" => invoice'[j].status # "none"

BackGrows(j, s, a, r) ==
  /\ BackFrom(j)[r] = 0
  /\ BackFrom(j)'[r] =
       IF refund'[r].booked /\ session[s].of = j THEN a ELSE 0
  /\ \A q \in Refunds \ {r} : BackFrom(j)'[q] = BackFrom(j)[q]

\* Stripe granting a refund of a on charge s, whatever is booked of it.
LEMMA GrantKeepsBooks ==
  ASSUME NEW s \in Sessions, NEW a \in Nat \ {0}, NEW r \in Refunds,
         IInv, IInv', Books,
         StripeRefund(s, a, r, TRUE) \/ StripeRefund(s, a, r, FALSE),
         \A j \in Invoices : RowHolds(j),
         refund'[r].booked => invoice[session[s].of].pi = s,
         backDone' = backDone, walking' = walking
  PROVE  /\ SessionsMatch' /\ RowsMatch' /\ RefundsMatch' /\ EventsMatch'
         /\ \A j \in Invoices : CreditsOf(j)' = CreditsOf(j)
         /\ \A j \in Invoices : BackGrows(j, s, a, r)
<1> USE DEF Books, RowHolds, BackGrows
<1>0. ~NoRefund.booked /\ NoRefund.pi = None /\ NoRefund.amount = 0
  BY DEF NoRefund
<1>1. /\ session' = [session EXCEPT ![s].returned = @ + a]
      /\ \E b \in BOOLEAN :
           refund' = [refund EXCEPT ![r] =
                        [pi |-> s, amount |-> a, booked |-> b,
                         lists |-> {r} \cup {q \in Refunds : refund[q].pi = s}]]
      /\ ~Exists(r) /\ session[s].state = "paid"
      /\ session[s].returned + a <= session[s].amount
  BY DEF StripeRefund
<1>2. /\ \A q \in Refunds \ {r} : refund'[q] = refund[q]
      /\ refund'[r].pi = s /\ refund'[r].amount = a
      /\ refund'[r].lists = {r} \cup {q \in Refunds : refund[q].pi = s}
  BY <1>1 DEF IInv, TypeOK
<1>3. /\ refund[r] = NoRefund /\ refund[r].pi = None
      /\ refund[r].amount = 0 /\ ~refund[r].booked
  BY <1>0, <1>1 DEF RefundsMatch
<1>4. \A t \in Sessions : /\ session'[t].state = session[t].state
                          /\ session'[t].of = session[t].of
                          /\ session'[t].amount = session[t].amount
                          /\ session'[t].credited = session[t].credited
                          /\ t # s => session'[t] = session[t]
  BY <1>1 DEF IInv, TypeOK, SessionRow
<1>5. session'[s].returned = session[s].returned + a
  BY <1>1 DEF IInv, TypeOK, SessionRow
<1>6. s # None /\ \A q \in Refunds : refund[q].pi \in Sessions \cup {None}
  BY DEF IInv, TypeOK, RefundRow
<1>7. SessionsMatch'
  <2> SUFFICES ASSUME NEW t \in Sessions
               PROVE  /\ session'[t].state = "free" => session'[t] = NoSession
                      /\ session'[t].state # "free" =>
                           /\ invoice'[session'[t].of].status # "none"
                           /\ session'[t].amount <= invoice'[session'[t].of].total
                      /\ session'[t].returned = SumFunctionOnSet(ReturnedOn(t)', Refunds)
                      /\ session'[t].returned <= session'[t].amount
    BY DEF SessionsMatch, NoSession
  <2>1. session[t].state # "free" => session[t].of \in Invoices
    BY DEF IInv, Standing
  <2>2. /\ session'[t].state = "free" => session'[t] = NoSession
        /\ session'[t].state # "free" =>
             /\ invoice'[session'[t].of].status # "none"
             /\ session'[t].amount <= invoice'[session'[t].of].total
    BY <1>1, <1>4, <2>1 DEF SessionsMatch
  <2>3. CASE t # s
    <3>1. ReturnedOn(t)' = ReturnedOn(t)
      <4>1. ASSUME NEW q \in Refunds
            PROVE  (IF refund'[q].pi = t THEN refund'[q].amount ELSE 0)
                   = (IF refund[q].pi = t THEN refund[q].amount ELSE 0)
        BY <1>2, <1>3, <2>3
      <4> QED BY <4>1 DEF ReturnedOn
    <3> QED BY <1>4, <2>2, <2>3, <3>1 DEF SessionsMatch
  <2>4. CASE t = s
    <3> DEFINE f == ReturnedOn(s)
               g == ReturnedOn(s)'
    <3>1. \A q \in Refunds : f[q] \in Nat
      BY DEF IInv, TypeOK, RefundRow, ReturnedOn
    <3>2. /\ \A q \in Refunds \ {r} : f[q] = g[q]
          /\ f[r] = 0 /\ g[r] = a
      BY <1>2, <1>3 DEF ReturnedOn
    <3>3. \A q \in Refunds : g[q] \in Nat
      BY <3>1, <3>2
    <3>4. session[s].returned = SumFunctionOnSet(f, Refunds)
      BY DEF SessionsMatch
    <3>5. session[s].returned \in Nat
      BY DEF IInv, TypeOK, SessionRow
    <3>6. session'[s].returned <= session'[s].amount
      BY <1>1, <1>4, <1>5
    <3> HIDE DEF f, g
    <3>7. SumFunctionOnSet(g, Refunds) = SumFunctionOnSet(f, Refunds) - f[r] + g[r]
      BY <3>1, <3>2, <3>3, FiniteAssumption, SumOfOneChange
    <3>8. SumFunctionOnSet(g, Refunds) = session'[s].returned
      BY <1>5, <3>2, <3>4, <3>5, <3>7
    <3> QED BY <2>2, <2>4, <3>6, <3>8 DEF g
  <2> QED BY <2>3, <2>4
<1>8. RowsMatch'
  BY <1>4 DEF RowsMatch, IInv, TypeOK, InvoiceRow
<1>9. RefundsMatch'
  <2> SUFFICES ASSUME NEW q \in Refunds
               PROVE  /\ refund'[q].pi # None => session'[refund'[q].pi].state = "paid"
                      /\ refund'[q].pi = None => refund'[q] = NoRefund
                      /\ refund'[q].booked =>
                           invoice'[session'[refund'[q].pi].of].pi = refund'[q].pi
                      /\ \A p \in refund'[q].lists : refund'[p].pi = refund'[q].pi
    BY DEF RefundsMatch, Exists, NoRefund
  <2>1. CASE q = r
    <3>1. session[s].of \in Invoices
      BY <1>1 DEF IInv, Standing
    <3> QED BY <1>1, <1>2, <1>4, <1>6, <2>1, <3>1
  <2>2. CASE q # r
    <3>1. /\ refund[q].pi # None => session[refund[q].pi].state = "paid"
          /\ refund[q].pi = None => refund[q] = NoRefund
          /\ refund[q].booked =>
               invoice[session[refund[q].pi].of].pi = refund[q].pi
          /\ \A p \in refund[q].lists : /\ refund[p].pi = refund[q].pi
                                        /\ refund[p].pi # None /\ p \in Refunds
      BY DEF RefundsMatch, Exists, IInv, Standing, TypeOK, RefundRow
    <3>2. refund[q].booked => refund[q].pi # None
      BY <1>0, <3>1
    <3>3. refund[q].pi # None => /\ refund[q].pi \in Sessions
                                 /\ session[refund[q].pi].of \in Invoices
      BY <1>6, <3>1 DEF IInv, Standing
    <3>4. \A p \in refund[q].lists : p # r
      BY <1>3, <3>1
    <3> QED BY <1>2, <1>4, <2>2, <3>1, <3>2, <3>3, <3>4
  <2> QED BY <2>1, <2>2
<1>10. EventsMatch'
  <2> SUFFICES ASSUME NEW e \in backDone \cup walking
               PROVE  /\ refund'[e].pi # None
                      /\ ~Connect /\ refund'[e].lists = {e} => refund'[e].booked
    BY DEF EventsMatch, Exists
  <2>1. e \in Refunds /\ e # r
    BY <1>1 DEF EventsMatch, IInv, TypeOK
  <2> QED BY <1>2, <2>1 DEF EventsMatch, Exists
<1>11. \A j \in Invoices : CreditsOf(j)' = CreditsOf(j)
  BY <1>4 DEF CreditsOf
<1>12. ASSUME NEW j \in Invoices
       PROVE  /\ BackFrom(j)[r] = 0
              /\ BackFrom(j)'[r] = IF refund'[r].booked /\ session[s].of = j THEN a ELSE 0
              /\ \A q \in Refunds \ {r} : BackFrom(j)'[q] = BackFrom(j)[q]
  <2>1. BackFrom(j)[r] = 0
    BY <1>3 DEF BackFrom
  <2>2. BackFrom(j)'[r] = IF refund'[r].booked /\ session[s].of = j THEN a ELSE 0
    BY <1>2, <1>4 DEF BackFrom
  <2>3. ASSUME NEW q \in Refunds \ {r}  PROVE  BackFrom(j)'[q] = BackFrom(j)[q]
    <3>1. refund[q].booked => refund[q].pi # None
      BY <1>0 DEF RefundsMatch, Exists
    <3>2. refund[q].booked =>
            session'[refund[q].pi].of = session[refund[q].pi].of
      BY <1>4, <1>6, <3>1
    <3> QED BY <1>2, <3>2 DEF BackFrom
  <2> QED BY <2>1, <2>2, <2>3
<1> QED BY <1>7, <1>8, <1>9, <1>10, <1>11, <1>12

LEMMA UnbookedRefundKeepsBooks ==
  ASSUME NEW s \in Sessions, NEW a \in Amounts, NEW r \in Refunds,
         IInv, IInv', Books, StripeRefund(s, a, r, FALSE),
         UNCHANGED <<invoice, backDone, walking>>
  PROVE  Books'
<1>1. a \in Nat \ {0}
  OBVIOUS
<1>2. /\ SessionsMatch' /\ RowsMatch' /\ RefundsMatch' /\ EventsMatch'
      /\ \A j \in Invoices : CreditsOf(j)' = CreditsOf(j)
      /\ \A j \in Invoices : BackGrows(j, s, a, r)
  <2>1. ~refund'[r].booked
    BY DEF StripeRefund, IInv, TypeOK
  <2>2. \A j \in Invoices : RowHolds(j)
    BY DEF RowHolds
  <2>3. backDone' = backDone /\ walking' = walking
    OBVIOUS
  <2> QED BY <1>1, <2>1, <2>2, <2>3, GrantKeepsBooks
<1>3. ASSUME NEW j \in Invoices  PROVE  BackFrom(j)' = BackFrom(j)
  <2>1. \A q \in Refunds : BackFrom(j)'[q] = BackFrom(j)[q]
    <3>1. ~refund'[r].booked
      BY DEF StripeRefund, IInv, TypeOK
    <3> QED BY <1>2, <3>1 DEF BackGrows
  <2> QED BY <2>1 DEF BackFrom
<1>4. LedgersAddUp'
  BY <1>2, <1>3 DEF Books, LedgersAddUp
<1> QED BY <1>2, <1>4 DEF Books

LEMMA RefundInvoiceKeepsBooks ==
  ASSUME NEW i \in Invoices, NEW a \in Amounts, NEW r \in Refunds,
         IInv, IInv', Books, RefundInvoice(i, a, r)
  PROVE  Books'
<1> DEFINE s == invoice[i].pi
<1>1. /\ s \in Sessions /\ StripeRefund(s, a, r, TRUE)
      /\ RefundTarget(invoice[i], a) \in transitions[invoice[i].status]
      /\ invoice' = Booked(i, a) /\ backDone' = backDone /\ walking' = walking
  BY DEF RefundInvoice, MayRefund, IInv, TypeOK, InvoiceRow
<1>2. a \in Nat \ {0}
  OBVIOUS
<1>3. session[s].of = i /\ invoice[session[s].of].pi = s
  BY <1>1 DEF Books, RowsMatch
<1> HIDE DEF s
<1>4. \A j \in Invoices : RowHolds(j)
  BY <1>1, <1>2, BookedRow DEF RowHolds
<1>5. /\ SessionsMatch' /\ RowsMatch' /\ RefundsMatch' /\ EventsMatch'
      /\ \A j \in Invoices : CreditsOf(j)' = CreditsOf(j)
      /\ \A j \in Invoices : BackGrows(j, s, a, r)
  BY <1>1, <1>2, <1>3, <1>4, GrantKeepsBooks
<1>6. ASSUME NEW j \in Invoices \ {i}  PROVE  BackFrom(j)' = BackFrom(j)
  BY <1>3, <1>5 DEF BackFrom, BackGrows
<1>7. refund'[r].booked
  BY <1>1 DEF StripeRefund, IInv, TypeOK
<1>8. /\ BackFrom(i)[r] = 0 /\ BackFrom(i)'[r] = a
      /\ \A q \in Refunds \ {r} : BackFrom(i)'[q] = BackFrom(i)[q]
  BY <1>3, <1>5, <1>7 DEF BackGrows
<1>9. LedgersAddUp'
  BY <1>1, <1>2, <1>5, <1>6, <1>8, BookingAddsUp
<1> QED BY <1>5, <1>9 DEF Books

\* The webhook books a refund on the row that carries its charge.
LEMMA ReconcileOneKeepsBooks ==
  ASSUME NEW e \in Refunds, NEW r \in Refunds, IInv, IInv', Books,
         ReconcileOne(e, r)
  PROVE  Books'
<1> USE DEF Books
<1> DEFINE a == refund[r].amount
           s == refund[e].pi
<1>1. /\ Exists(e) /\ r \in refund[e].lists /\ ~refund[r].booked
      /\ refund' = [refund EXCEPT ![r].booked = TRUE]
      /\ backDone' = backDone \cup {e} /\ walking' = walking \cup {e}
      /\ session' = session
  BY DEF ReconcileOne, Handling, Unbooked
<1>2. /\ refund[r].pi = s /\ s \in Sessions /\ s # None
      /\ a \in Nat \ {0}
      /\ session[s].state = "paid"
  BY <1>1 DEF RefundsMatch, Exists, IInv, Standing, TypeOK, RefundRow
<1>3. PICK i \in Invoices :
        /\ invoice[i].pi = s
        /\ RefundTarget(invoice[i], a) \in transitions[invoice[i].status]
        /\ invoice' = Booked(i, a)
  BY DEF ReconcileOne, Owner
<1> HIDE DEF a, s
<1>4. session[s].of = i
  BY <1>2, <1>3 DEF RowsMatch
<1>5. \A j \in Invoices :
        /\ invoice'[j].paid = invoice[j].paid
        /\ invoice'[j].total = invoice[j].total
        /\ invoice'[j].pi = invoice[j].pi
        /\ invoice'[j].checkout = invoice[j].checkout
        /\ invoice[j].status # "none" => invoice'[j].status # "none"
  BY <1>2, <1>3, BookedRow
<1>6. /\ refund'[r].booked
      /\ \A q \in Refunds : /\ refund'[q].pi = refund[q].pi
                            /\ refund'[q].amount = refund[q].amount
                            /\ refund'[q].lists = refund[q].lists
                            /\ q # r => refund'[q] = refund[q]
  BY <1>1 DEF IInv, TypeOK, RefundRow
<1>7. SessionsMatch'
  <2>1. \A t \in Sessions : ReturnedOn(t)' = ReturnedOn(t)
    BY <1>6 DEF ReturnedOn
  <2>2. \A t \in Sessions : session[t].state # "free" => session[t].of \in Invoices
    BY DEF IInv, Standing
  <2> SUFFICES ASSUME NEW t \in Sessions
               PROVE  /\ session[t].state = "free" => session[t] = NoSession
                      /\ session[t].state # "free" =>
                           /\ invoice'[session[t].of].status # "none"
                           /\ session[t].amount <= invoice'[session[t].of].total
                      /\ session[t].returned = SumFunctionOnSet(ReturnedOn(t)', Refunds)
                      /\ session[t].returned <= session[t].amount
    BY <1>1 DEF SessionsMatch, NoSession
  <2> QED BY <1>5, <2>1, <2>2 DEF SessionsMatch
<1>8. RowsMatch'
  BY <1>1, <1>5 DEF RowsMatch
<1>9. RefundsMatch'
  <2> SUFFICES ASSUME NEW q \in Refunds
               PROVE  /\ refund'[q].pi # None => session[refund'[q].pi].state = "paid"
                      /\ refund'[q].pi = None => refund'[q] = NoRefund
                      /\ refund'[q].booked =>
                           invoice'[session[refund'[q].pi].of].pi = refund'[q].pi
                      /\ \A p \in refund'[q].lists : refund'[p].pi = refund'[q].pi
    BY <1>1 DEF RefundsMatch, Exists, NoRefund
  <2>1. /\ refund[q].pi # None => session[refund[q].pi].state = "paid"
        /\ refund[q].pi = None => refund[q] = NoRefund
        /\ refund[q].booked =>
             invoice[session[refund[q].pi].of].pi = refund[q].pi
        /\ \A p \in refund[q].lists : /\ refund[p].pi = refund[q].pi
                                      /\ p \in Refunds
    BY DEF RefundsMatch, Exists, IInv, TypeOK, RefundRow
  <2>2. CASE q = r
    BY <1>2, <1>3, <1>4, <1>5, <1>6, <2>1, <2>2
  <2>3. CASE q # r
    <3>1. ~NoRefund.booked
      BY DEF NoRefund
    <3>2. refund[q].booked => session[refund[q].pi].of \in Invoices
      BY <2>1, <3>1 DEF IInv, Standing, TypeOK, RefundRow
    <3> QED BY <1>5, <1>6, <2>1, <2>3, <3>2
  <2> QED BY <2>2, <2>3
<1>10. EventsMatch'
  <2> SUFFICES ASSUME NEW d \in backDone \cup walking \cup {e}
               PROVE  /\ refund'[d].pi # None
                      /\ ~Connect /\ refund'[d].lists = {d} => refund'[d].booked
    BY <1>1 DEF EventsMatch, Exists
  <2>1. d \in Refunds
    BY DEF IInv, TypeOK
  <2>2. CASE d = e
    <3>1. refund[e].lists = {e} => r = e
      BY <1>1
    <3> QED BY <1>2, <1>6, <2>1, <2>2, <3>1 DEF s
  <2>3. CASE d # e
    <3>1. /\ refund[d].pi # None
          /\ ~Connect /\ refund[d].lists = {d} => refund[d].booked
      BY <2>3 DEF EventsMatch, Exists
    <3> QED BY <1>6, <2>1, <3>1
  <2> QED BY <2>2, <2>3
<1>11. \A j \in Invoices : CreditsOf(j)' = CreditsOf(j)
  BY <1>1 DEF CreditsOf
<1>12. /\ BackFrom(i)[r] = 0 /\ BackFrom(i)'[r] = a
       /\ \A q \in Refunds \ {r} : BackFrom(i)'[q] = BackFrom(i)[q]
  BY <1>1, <1>2, <1>4, <1>6 DEF BackFrom, a
<1>13. ASSUME NEW j \in Invoices \ {i}  PROVE  BackFrom(j)' = BackFrom(j)
  BY <1>1, <1>2, <1>4, <1>6 DEF BackFrom
<1>14. LedgersAddUp'
  BY <1>2, <1>3, <1>11, <1>12, <1>13, BookingAddsUp
<1> QED BY <1>7, <1>8, <1>9, <1>10, <1>14

LEMMA HandlerEndsKeepsBooks ==
  ASSUME IInv, Books, UNCHANGED <<invoice, session, refund>>,
         \A e \in backDone' \cup walking' :
           \/ e \in backDone \cup walking
           \/ Exists(e) /\ (~Connect /\ refund[e].lists = {e} => refund[e].booked)
  PROVE  Books'
<1>1. EventsMatch'
  BY DEF Books, EventsMatch, Exists
<1>2. \A s \in Sessions : ReturnedOn(s)' = ReturnedOn(s)
  BY DEF ReturnedOn
<1>3. SessionsMatch'
  BY <1>2 DEF Books, SessionsMatch, NoSession
<1>4. RowsMatch'
  BY DEF Books, RowsMatch
<1>5. RefundsMatch'
  BY DEF Books, RefundsMatch, Exists, NoRefund
<1>6. \A i \in Invoices : CreditsOf(i)' = CreditsOf(i) /\ BackFrom(i)' = BackFrom(i)
  BY DEF CreditsOf, BackFrom
<1>7. LedgersAddUp'
  BY <1>6 DEF Books, LedgersAddUp
<1> QED BY <1>1, <1>3, <1>4, <1>5, <1>7 DEF Books

\* With no Connect account an event is acknowledged with nothing booked only
\* when all it lists was booked before.
LEMMA ReconcileEndKeepsBooks ==
  ASSUME NEW e \in Refunds, IInv, Books, ReconcileEnd(e)
  PROVE  Books'
<1>1. /\ Exists(e) /\ backDone' = backDone \cup {e} /\ walking' = walking \ {e}
      /\ UNCHANGED <<invoice, session, refund>>
      /\ \/ e \in walking
         \/ Connect \/ Owner(e) # {}
      /\ Unbooked(e) = {} \/ Owner(e) = {}
  BY DEF ReconcileEnd, Handling
<1>2. CASE e \in walking
  BY <1>1, <1>2, HandlerEndsKeepsBooks
<1>3. CASE e \notin walking
  <2>1. ASSUME ~Connect, refund[e].lists = {e}  PROVE  refund[e].booked
    BY <1>1, <1>3, <2>1 DEF Unbooked
  <2> QED BY <1>1, <2>1, HandlerEndsKeepsBooks
<1> QED BY <1>2, <1>3

-----------------------------------------------------------------------------
LEMMA NextKeepsBooks == IInv /\ IInv' /\ Books /\ [Next]_vars => Books'
<1> SUFFICES ASSUME IInv, IInv', Books, [Next]_vars  PROVE  Books'
  OBVIOUS
<1>1. CASE Customer
  BY <1>1, CustomerKeepsBooks DEF Customer
<1>2. CASE Dashboard
  BY <1>2, UnbookedRefundKeepsBooks DEF Dashboard, DashboardRefund
<1>3. CASE Webhook
  <2>1. ASSUME NEW e \in Refunds, WorkerDies(e)  PROVE  Books'
    BY <2>1, HandlerEndsKeepsBooks DEF WorkerDies
  <2> QED
    BY <1>3, <2>1, CheckoutCompletedKeepsBooks, ReconcileOneKeepsBooks,
       ReconcileEndKeepsBooks DEF Webhook
<1>4. CASE Staff
  <2>1. PICK i \in Invoices :
          \/ \E t \in Amounts : CreateInvoice(i, t)
          \/ \E s \in Sessions \cup {None} : SendInvoice(i, s)
          \/ VoidInvoice(i)
          \/ \E a \in Amounts, r \in Refunds : RefundInvoice(i, a, r)
          \/ \E a \in Amounts, r \in Refunds : RefundAnswerLost(i, a, r)
    BY <1>4 DEF Staff
  <2>2. ASSUME NEW a \in Amounts, NEW r \in Refunds, RefundAnswerLost(i, a, r)
        PROVE  Books'
    <3>1. invoice[i].pi \in Sessions /\ StripeRefund(invoice[i].pi, a, r, FALSE)
      BY <2>2 DEF RefundAnswerLost, MayRefund, IInv, TypeOK, InvoiceRow
    <3> QED BY <2>2, <3>1, UnbookedRefundKeepsBooks DEF RefundAnswerLost
  <2> QED BY <2>1, <2>2, StaffKeepsBooks, RefundInvoiceKeepsBooks
<1>5. CASE UNCHANGED vars
  BY <1>5, HandlerEndsKeepsBooks DEF vars
<1> QED BY <1>1, <1>2, <1>3, <1>4, <1>5 DEF Next

-----------------------------------------------------------------------------
(* What the books say.                                                     *)

\* Everything refunded of the charge a row carries, booked or not, is covered by
\* what the row was paid.
LEMMA RefundsCovered ==
  ASSUME IInv, Books, NEW i \in Invoices
  PROVE  /\ invoice[i].refunded <= invoice[i].paid
         /\ \A r \in Refunds :
              Exists(r) /\ ~refund[r].booked /\ refund[r].pi = invoice[i].pi =>
                invoice[i].refunded + refund[r].amount <= invoice[i].paid
<1> USE DEF Books
<1> DEFINE s == invoice[i].pi
           f == BackFrom(i)
           h == ReturnedOn(s)
<1>1. /\ invoice[i].refunded = SumFunctionOnSet(f, Refunds)
      /\ \A r \in Refunds : f[r] \in Nat /\ h[r] \in Nat
      /\ invoice[i].paid \in Nat /\ s \in Sessions \cup {None}
  <2>1. \A r \in Refunds : h[r] \in Nat
    BY DEF ReturnedOn, IInv, TypeOK, RefundRow
  <2> QED BY <2>1, LedgersAreNat DEF LedgersAddUp, IInv, TypeOK, InvoiceRow
<1>2. \A r \in Refunds : refund[r].booked /\ session[refund[r].pi].of = i =>
                            refund[r].pi = s /\ s # None
  <2>1. ~NoRefund.booked
    BY DEF NoRefund
  <2> QED BY <2>1 DEF RefundsMatch, Exists
<1>3. CASE s = None
  <2>1. \A r \in Refunds : f[r] = 0
    BY <1>2, <1>3 DEF BackFrom
  <2> HIDE DEF f
  <2>2. SumFunctionOnSet(f, Refunds) = 0
    BY <2>1, FiniteAssumption, SumOfZeros
  <2> QED BY <1>1, <1>3, <2>2 DEF Exists
<1>4. CASE s # None
  <2>1. /\ s \in Sessions
        /\ session[s].returned = SumFunctionOnSet(h, Refunds)
        /\ session[s].returned <= session[s].amount
        /\ session[s].amount <= invoice[i].paid
        /\ session[s].returned \in Nat /\ session[s].amount \in Nat
    BY <1>1, <1>4 DEF SessionsMatch, RowsMatch, IInv, TypeOK, SessionRow
  <2>2. \A r \in Refunds : f[r] <= h[r]
    BY <1>1, <1>2 DEF BackFrom, ReturnedOn
  <2>3. SumFunctionOnSet(f, Refunds) <= SumFunctionOnSet(h, Refunds)
    <3> HIDE DEF f, h
    <3> QED BY <1>1, <2>2, FiniteAssumption, SumOfAtMost
  <2>4. SumFunctionOnSet(f, Refunds) \in Nat
    <3> HIDE DEF f
    <3> QED BY <1>1, FiniteAssumption, SumIsNat
  <2>5. invoice[i].refunded <= invoice[i].paid
    <3> HIDE DEF f, h, s
    <3> QED BY <1>1, <2>1, <2>3, <2>4
  <2>6. ASSUME NEW r \in Refunds, Exists(r), ~refund[r].booked, refund[r].pi = s
        PROVE  invoice[i].refunded + refund[r].amount <= invoice[i].paid
    <3> DEFINE a == refund[r].amount
               g == [q \in Refunds |-> IF q = r THEN a ELSE f[q]]
    <3>1. f[r] = 0 /\ a \in Nat /\ h[r] = a
      BY <2>6 DEF BackFrom, ReturnedOn, IInv, TypeOK, RefundRow
    <3>2. \A q \in Refunds : g[q] \in Nat /\ g[q] <= h[q]
      BY <1>1, <2>2, <3>1
    <3>3. g[r] = a /\ \A q \in Refunds \ {r} : f[q] = g[q]
      OBVIOUS
    <3> HIDE DEF f, g, h, s, a
    <3>4. SumFunctionOnSet(g, Refunds) = SumFunctionOnSet(f, Refunds) - f[r] + g[r]
      BY <1>1, <3>2, <3>3, FiniteAssumption, SumOfOneChange
    <3>5. SumFunctionOnSet(g, Refunds) <= SumFunctionOnSet(h, Refunds)
      BY <1>1, <3>2, FiniteAssumption, SumOfAtMost
    <3>6. invoice[i].refunded + a <= invoice[i].paid
      BY <1>1, <2>1, <2>4, <3>1, <3>3, <3>4, <3>5
    <3> QED BY <3>6 DEF a
  <2> QED BY <2>5, <2>6
<1> QED BY <1>1, <1>3, <1>4

LEMMA BooksAreConsistent == IInv /\ Books => LedgerConsistent
<1> SUFFICES ASSUME IInv, Books  PROVE  LedgerConsistent
  OBVIOUS
<1>1. TypeOK /\ LedgersAddUp
  BY DEF IInv, Books
<1>2. NeverOverRefunded
  BY RefundsCovered DEF NeverOverRefunded
<1>3. RefundAlwaysBookable
  <2> SUFFICES ASSUME NEW r \in Refunds, Exists(r), ~refund[r].booked,
                      NEW i \in Owner(r)
               PROVE  RefundTarget(invoice[i], refund[r].amount)
                        \in transitions[invoice[i].status]
    BY DEF RefundAlwaysBookable
  <2> DEFINE row == invoice[i]
             a   == refund[r].amount
  <2>1. /\ i \in Invoices /\ row.pi = refund[r].pi /\ row.pi # None
        /\ row \in InvoiceRow /\ a \in Nat \ {0}
        /\ StatusTellsMoney(row)
    BY DEF Owner, Exists, IInv, Standing, TypeOK, RefundRow, MoneyMatchesStatus
  <2>2. row.refunded + a <= row.paid
    BY <2>1, RefundsCovered
  <2>3. /\ row.paid \in Nat /\ row.refunded \in Nat /\ row.total \in Nat
        /\ row.status \in Statuses
    BY <2>1 DEF InvoiceRow
  <2> HIDE DEF row, a
  <2>4. row.status \in {"partial", "paid", "partially_refunded"}
    BY <2>1, <2>2, <2>3 DEF StatusTellsMoney, Statuses
  <2>5. row.status = "partial" => row.paid # row.total
    BY <2>1, <2>3 DEF StatusTellsMoney
  <2>6. RefundTarget(row, a) \in transitions[row.status]
    BY <2>4, <2>5 DEF RefundTarget, transitions, Statuses
  <2> QED BY <2>6 DEF row, a
<1>4. LoneRefundBooked
  BY DEF LoneRefundBooked, Books, EventsMatch
<1> QED BY <1>1, <1>2, <1>3, <1>4 DEF LedgerConsistent

-----------------------------------------------------------------------------
\* Every behaviour of the ledger satisfies the inductive invariant.
THEOREM Invariance == Spec => []IInv
BY InitEstablishes, NextKeeps, PTL DEF Spec

\* In every order of payments, refunds, events and deaths an invoice's two
\* ledgers are the sums of what was credited and of what was booked on its own
\* charges, no more is refunded than was paid, and every refund Stripe made of
\* the charge a row carries can be booked.
THEOREM LedgersAgree == Spec => []LedgerConsistent
<1>1. Spec => [](IInv /\ Books)
  BY InitEstablishes, NextKeeps, BooksOpen, NextKeepsBooks, PTL DEF Spec
<1> QED BY <1>1, BooksAreConsistent, PTL

\* Every column of the invoices table and every Stripe object keeps its type.
THEOREM TypeCorrect == Spec => []TypeOK
BY Invariance, PTL DEF IInv

\* Whatever the staff, the pay page, the Dashboard and the webhook do in
\* whatever order, an invoice's status tells the truth about its two ledgers.
THEOREM StatusIsTruthful == Spec => []MoneyMatchesStatus
BY Invariance, PTL DEF IInv

\* However often Stripe delivers a checkout.session.completed event, its payment
\* is credited once.
THEOREM NoDoubleCredit == Spec => []CreditedOnce
BY Invariance, PTL DEF IInv
=============================================================================
