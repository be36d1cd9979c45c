------------------------------ MODULE OfficeProofs ------------------------------
(***************************************************************************)
(* What DispatchQueue and Billing keep for every number of jobs,           *)
(* technicians, invoices, payments, sweeps and events at once: a score     *)
(* stays that of a basis, no skill lifts routine work over an emergency, a *)
(* window lets at most its limit through and shuts nobody out without      *)
(* cause; reminders are a cooldown apart, a stablecoin payment is credited *)
(* once by each kind of event, an invoice has been paid what was credited, *)
(* and every Connect account but one has an excuse.                        *)
(*                                                                         *)
(* QueueInv is inductive for the queue.  For Billing, IInv says who holds  *)
(* which row and what events may still do; the sums (PaidAddsUp) and the   *)
(* count of accounts (AccountsOk) are kept given it.                       *)
(***************************************************************************)
EXTENDS Billing, DispatchQueue, Sums, FiniteSetTheorems, SequenceTheorems, TLAPS

-----------------------------------------------------------------------------
(* DispatchQueue: scores, positions and the limit on pings.                 *)

(* A cached score is that of the basis beside it and of some loyalty.        *)
ScoreOf(row) ==
  \E v \in 0 .. 800 :
    row.score = Urgency(row.basis.priority, row.basis.overdue) + Revenue(row.basis.work.revenue)
                  + v + PartsAvailability(row.basis.work.parts)

JobOk(row) ==
  /\ row.status = "none" => row.started = Null
  /\ row.status # "none" => row.profile \in Profiles /\ row.customer \in Customers
  /\ row.status \in {"in_progress", "on_hold", "completed"} => row.started # Null
  /\ row.basis # Null => row.basis \in Basis /\ ScoreOf(row)

JobsOk == \A j \in Jobs : JobOk(job[j])

(* The pings among ps that Redis counted until the time at fall into windows: *)
(* g tells the start of each one's.  A window lets Limit through, and counts  *)
(* the ping that started it.                                                *)
Counted(ps) == {n \in 1 .. Len(ps) : ps[n].redis # "down"}

InWindow(g, ps, x) == {n \in Counted(ps) : ps[n].redis = "answered" /\ g[n] = x}

Later(g, ps, x) == {n \in InWindow(g, ps, x) : ps[n].at > x}

Held(g, ps, x) == {n \in Counted(ps) : g[n] = x}

Start(l, at) == at - (Window - l.ttl)

Windows(g, l, ps, at) ==
  /\ \A n \in Counted(ps) : g[n] \in Int /\ g[n] <= ps[n].at /\ ps[n].at < g[n] + Window
  /\ \A m, n \in Counted(ps) : g[m] = g[n] \/ g[m] + Window <= g[n] \/ g[n] + Window <= g[m]
  /\ \A x \in Int : /\ Cardinality(InWindow(g, ps, x)) <= Limit
                    /\ Cardinality(Later(g, ps, x)) < Limit
  /\ l.count = 0 => \A n \in Counted(ps) : g[n] + Window <= at
  /\ l.count > 0 =>
       /\ l.ttl > 0 /\ Cardinality(InWindow(g, ps, Start(l, at))) <= l.count
       /\ Cardinality(Later(g, ps, Start(l, at))) < l.count
       /\ \/ Cardinality(Held(g, ps, Start(l, at))) >= l.count
          \/ Cardinality(Held(g, ps, Start(l, at))) >= Limit
       /\ \A n \in Counted(ps) : g[n] = Start(l, at) \/ g[n] + Window <= Start(l, at)

FitWindows(l, ps, at) == \E g : Windows(g, l, ps, at)

WindowsOk == \A t \in Technicians : FitWindows(limiter[t], pings[t], now)

QueueInv == QueueTypeOK /\ JobsOk /\ WindowsOk

-----------------------------------------------------------------------------
(* Points.                                                                  *)
LEMMA Halves ==
  /\ \A n \in Int, d \in Nat \ {0} : Quantized(n, d) \in Int
  /\ \A a \in Nat, top \in Nat : Capped(a, top) \in 0 .. top
<1>1. ASSUME NEW n \in Int, NEW d \in Nat \ {0}  PROVE Quantized(n, d) \in Int
  <2>1. 200 * n + d \in Int /\ 2 * d \in Nat \ {0}
    OBVIOUS
  <2> QED
    BY <2>1 DEF Quantized
<1>2. ASSUME NEW a \in Nat, NEW top \in Nat  PROVE Capped(a, top) \in 0 .. top
  BY DEF Capped
<1> QED
  BY <1>1, <1>2

(* An emergency is worth 45 points, however late; work that can wait and is  *)
(* not late 17.5 at most.                                                   *)
LEMMA UrgencyBounds ==
  /\ \A p \in DOMAIN PriorityBase, late \in Nat : Urgency(p, late) \in Int
  /\ \A late \in Nat : Urgency("urgent", late) >= 4500
  /\ \A p \in {"low", "normal"} : Urgency(p, 0) <= 1750
<1>1. ASSUME NEW p \in DOMAIN PriorityBase, NEW late \in Nat  PROVE Urgency(p, late) \in Int
  <2>1. PriorityBase[p] \in Nat
    BY DEF PriorityBase
  <2>2. Capped(late, 60) \in 0 .. 60
    BY Halves
  <2> DEFINE n == 50 * (60 * PriorityBase[p] + (100 - PriorityBase[p]) * Capped(late, 60))
  <2>3. n \in Int
    BY <2>1, <2>2
  <2>4. Urgency(p, late) = Quantized(n, 6000)
    BY DEF Urgency
  <2> HIDE DEF n
  <2> QED
    BY <2>3, <2>4, Halves
<1>2. ASSUME NEW late \in Nat  PROVE Urgency("urgent", late) >= 4500
  <2>1. PICK c \in 0 .. 60 : c = Capped(late, 60)
    BY Halves
  <2>2. Urgency("urgent", late) = Quantized(50 * (60 * 90 + (100 - 90) * c), 6000)
    BY <2>1 DEF Urgency, PriorityBase
  <2>3. Urgency("urgent", late) = (10000 * (5400 + 10 * c) + 6000) \div 12000
    BY <2>2 DEF Quantized
  <2>4. (10000 * (5400 + 10 * c) + 6000) \div 12000 >= 4500
    OBVIOUS
  <2> QED
    BY <2>3, <2>4
<1>3. ASSUME NEW p \in {"low", "normal"}  PROVE Urgency(p, 0) <= 1750
  <2>1. Capped(0, 60) = 0
    BY DEF Capped
  <2>2. PriorityBase[p] = 10 \/ PriorityBase[p] = 35
    BY DEF PriorityBase
  <2>3. Urgency(p, 0) = Quantized(50 * (60 * PriorityBase[p] + (100 - PriorityBase[p]) * 0), 6000)
    BY <2>1 DEF Urgency
  <2>4. CASE PriorityBase[p] = 10
    BY <2>3, <2>4 DEF Quantized
  <2>5. CASE PriorityBase[p] = 35
    BY <2>3, <2>5 DEF Quantized
  <2> QED
    BY <2>2, <2>4, <2>5
<1> QED
  BY <1>1, <1>2, <1>3

LEMMA LoyaltyBounds == ASSUME NEW n \in Nat  PROVE CustomerValue(n) \in 0 .. 800
<1>1. PICK c \in 0 .. 12 : c = Capped(n, 12)
  BY Halves
<1>2. CustomerValue(n) = (200 * (8 * c) + 12) \div 24
  BY <1>1 DEF CustomerValue, Quantized
<1> QED
  BY <1>2

LEMMA RevenueBounds ==
  ASSUME NEW c \in RevenueClasses
  PROVE  Revenue(c) \in 0 .. 3000
BY DEF RevenueClasses, Revenue

LEMMA RevenueSome ==
  ASSUME NEW c \in RevenueClasses
  PROVE  \E r \in Int : r = Revenue(c) /\ 0 <= r
BY DEF RevenueClasses, Revenue

LEMMA RevenueSmall ==
  ASSUME NEW c \in RevenueClasses, Revenue(c) <= Revenue("fiveThousand")
  PROVE  \E r \in Int : r = Revenue(c) /\ r <= 1500
BY DEF RevenueClasses, Revenue

LEMMA PartsBounds == ASSUME NEW s  PROVE PartsAvailability(s) \in {0, 1000}
BY DEF PartsAvailability

-----------------------------------------------------------------------------
(* Windows.                                                                 *)
LEMMA SeqElements ==
  ASSUME NEW T, NEW s \in Seq(T)
  PROVE  /\ DOMAIN s = 1 .. Len(s) /\ Len(s) \in Nat
         /\ \A n \in 1 .. Len(s) : s[n] \in T
OBVIOUS

LEMMA PingFields ==
  ASSUME NEW ps \in Seq(Ping), NEW n \in 1 .. Len(ps)
  PROVE  ps[n].at \in Nat /\ ps[n].redis \in RedisDoes
<1>1. ps[n] \in Ping
  BY SeqElements
<1> QED
  BY <1>1, QueueAssumption DEF Ping

LEMMA WindowFinite ==
  ASSUME NEW ps \in Seq(Ping), NEW g, NEW x
  PROVE  /\ IsFiniteSet(1 .. Len(ps)) /\ Len(ps) \in Nat
         /\ IsFiniteSet(InWindow(g, ps, x)) /\ Cardinality(InWindow(g, ps, x)) \in Nat
         /\ IsFiniteSet(Later(g, ps, x)) /\ Cardinality(Later(g, ps, x)) \in Nat
         /\ IsFiniteSet(Held(g, ps, x)) /\ Cardinality(Held(g, ps, x)) \in Nat
<1>1. PICK m \in Nat : m = Len(ps)
  OBVIOUS
<1>2. IsFiniteSet(1 .. m)
  BY FS_Interval
<1>3. /\ InWindow(g, ps, x) \subseteq 1 .. m /\ Later(g, ps, x) \subseteq 1 .. m
      /\ Held(g, ps, x) \subseteq 1 .. m
  BY <1>1 DEF InWindow, Later, Held, Counted
<1>4. /\ IsFiniteSet(InWindow(g, ps, x)) /\ IsFiniteSet(Later(g, ps, x))
      /\ IsFiniteSet(Held(g, ps, x))
  BY <1>2, <1>3, FS_Subset
<1> QED
  BY <1>1, <1>2, <1>4, FS_CardinalityType

(* A second passes: a window ends or goes on.                               *)
LEMMA WindowTicks ==
  ASSUME NEW ps \in Seq(Ping), NEW at \in Nat, NEW g,
         NEW l \in [count : Nat, ttl : 0 .. Window], Windows(g, l, ps, at),
         NEW l2, l2 = IF l.ttl <= 1 THEN [count |-> 0, ttl |-> 0]
                      ELSE [count |-> l.count, ttl |-> l.ttl - 1]
  PROVE  Windows(g, l2, ps, at + 1)
<1>1. Window \in Nat \ {0} /\ l.count \in Nat /\ l.ttl \in 0 .. Window
  BY QueueAssumption
<1>2. \A n \in Counted(ps) : g[n] \in Int
  BY DEF Windows
<1>3. CASE l.ttl <= 1
  <2>1. l2.count = 0
    BY <1>3
  <2>2. \A n \in Counted(ps) : g[n] + Window <= at + 1
    <3>1. CASE l.count = 0
      BY <1>1, <1>2, <3>1 DEF Windows
    <3>2. CASE l.count # 0
      <4>1. l.ttl = 1
        BY <1>1, <1>3, <3>2 DEF Windows
      <4>2. Start(l, at) = at - (Window - 1)
        BY <4>1 DEF Start
      <4>3. \A n \in Counted(ps) : g[n] = Start(l, at) \/ g[n] + Window <= Start(l, at)
        BY <1>1, <3>2 DEF Windows
      <4> QED
        BY <1>1, <1>2, <4>2, <4>3
    <3> QED
      BY <3>1, <3>2
  <2> QED
    BY <2>1, <2>2 DEF Windows
<1>4. CASE ~(l.ttl <= 1)
  <2>1. l2.count = l.count /\ l2.ttl = l.ttl - 1 /\ l2.ttl > 0
    BY <1>1, <1>4
  <2>2. Start(l2, at + 1) = Start(l, at)
    BY <1>1, <2>1 DEF Start
  <2>3. l.count = 0 => \A n \in Counted(ps) : g[n] + Window <= at + 1
    BY <1>1, <1>2 DEF Windows
  <2> QED
    BY <2>1, <2>2, <2>3 DEF Windows
<1> QED
  BY <1>3, <1>4

(* A ping beyond the limit is counted.                                      *)
LEMMA WindowRefuses ==
  ASSUME NEW ps \in Seq(Ping), NEW at \in Nat, NEW g,
         NEW l \in [count : Nat, ttl : 0 .. Window], Windows(g, l, ps, at),
         l.count >= Limit,
         NEW l2, l2.count = l.count + 1, l2.ttl = l.ttl
  PROVE  Windows(g, l2, ps, at)
<1>1. /\ l.count \in Nat /\ l.count > 0 /\ l2.count \in Nat /\ l2.count > 0
      /\ Limit \in Nat \ {0}
  BY QueueAssumption
<1>2. Start(l2, at) = Start(l, at)
  BY DEF Start
<1>3. PICK a \in Nat, b \in Nat, c \in Nat :
        /\ a = Cardinality(InWindow(g, ps, Start(l, at)))
        /\ b = Cardinality(Later(g, ps, Start(l, at)))
        /\ c = Cardinality(Held(g, ps, Start(l, at)))
  BY WindowFinite
<1>4. l2.ttl > 0 /\ a <= l.count /\ b < l.count /\ (c >= l.count \/ c >= Limit)
  BY <1>1, <1>3 DEF Windows
<1>5. a <= l2.count /\ b < l2.count /\ c >= Limit
  BY <1>1, <1>4
<1> QED
  BY <1>1, <1>2, <1>3, <1>4, <1>5 DEF Windows

(* A ping Redis does not run the script for is in no window.                 *)
LEMMA WindowUnseen ==
  ASSUME NEW ps \in Seq(Ping), NEW at, NEW g, NEW l, Windows(g, l, ps, at),
         NEW p \in Ping, p.redis = "down"
  PROVE  Windows(g, l, Append(ps, p), at)
<1> DEFINE qs == Append(ps, p)
<1>1. /\ Len(qs) = Len(ps) + 1 /\ Len(ps) \in Nat /\ qs[Len(ps) + 1] = p
      /\ \A n \in 1 .. Len(ps) : qs[n] = ps[n] /\ n \in 1 .. Len(qs)
      /\ \A n \in 1 .. Len(qs) : n = Len(ps) + 1 \/ n \in 1 .. Len(ps)
  OBVIOUS
<1> HIDE DEF qs
<1>2. Counted(qs) = Counted(ps) /\ \A n \in Counted(ps) : qs[n] = ps[n]
  <2>1. \A n : n \in Counted(qs) <=> n \in Counted(ps)
    BY <1>1 DEF Counted
  <2> QED
    BY <1>1, <2>1 DEF Counted
<1>3. \A x : /\ InWindow(g, qs, x) = InWindow(g, ps, x)
             /\ Later(g, qs, x) = Later(g, ps, x) /\ Held(g, qs, x) = Held(g, ps, x)
  BY <1>2 DEF InWindow, Later, Held
<1>4. Windows(g, l, qs, at)
  BY <1>2, <1>3 DEF Windows
<1> QED
  BY <1>4 DEF qs

(* A ping that is counted and let through starts a window or falls into the  *)
(* one that is open.                                                        *)
LEMMA WindowAdmits ==
  ASSUME NEW ps \in Seq(Ping), NEW at \in 0 .. MaxNow, NEW g,
         NEW l \in [count : Nat, ttl : 0 .. Window], Windows(g, l, ps, at),
         NEW p \in Ping, p.at = at, p.redis # "down",
         p.redis = "answered" => l.count + 1 <= Limit,
         NEW l2, l2.count = l.count + 1, l2.ttl = IF l.count = 0 THEN Window ELSE l.ttl
  PROVE  FitWindows(l2, Append(ps, p), at)
<1> DEFINE x == Start(l2, at)
           N == Len(ps) + 1
           qs == Append(ps, p)
           h == [n \in 1 .. N |-> IF n = N THEN x ELSE g[n]]
<1>1. /\ Window \in Nat \ {0} /\ Limit \in Nat \ {0} /\ at \in Nat
      /\ l.count \in Nat /\ l.ttl \in 0 .. Window /\ Len(ps) \in Nat
  BY QueueAssumption
<1>2. \A n \in Counted(ps) : g[n] \in Int
  BY DEF Windows
<1>3. PICK a \in Nat, b \in Nat, c \in Nat :
        /\ a = Cardinality(InWindow(g, ps, x)) /\ b = Cardinality(Later(g, ps, x))
        /\ c = Cardinality(Held(g, ps, x))
  BY WindowFinite
<1>4. /\ x \in Int /\ x <= at /\ at < x + Window /\ l2.ttl > 0
      /\ \A n \in Counted(ps) : g[n] = x \/ g[n] + Window <= x
      /\ a <= l.count /\ (c >= l.count \/ c >= Limit)
      /\ l.count = 0 => x = at /\ InWindow(g, ps, x) = {} /\ b = 0
      /\ l.count # 0 => b < l.count
  <2>1. CASE l.count = 0
    <3>1. x = at
      BY <1>1, <2>1 DEF Start
    <3>2. \A n \in Counted(ps) : g[n] + Window <= at
      BY <2>1 DEF Windows
    <3>3. InWindow(g, ps, x) = {} /\ Later(g, ps, x) = {}
      BY <1>1, <1>2, <3>1, <3>2 DEF InWindow, Later
    <3>4. a = 0 /\ b = 0
      BY <1>3, <3>3, FS_EmptySet
    <3> HIDE DEF x
    <3> QED
      BY <1>1, <1>3, <2>1, <3>1, <3>2, <3>3, <3>4
  <2>2. CASE l.count # 0
    <3>1. x = Start(l, at) /\ l2.ttl = l.ttl /\ x = at - (Window - l.ttl)
      BY <2>2 DEF Start
    <3>2. /\ l.ttl > 0 /\ Cardinality(InWindow(g, ps, Start(l, at))) <= l.count
          /\ Cardinality(Later(g, ps, Start(l, at))) < l.count
          /\ \/ Cardinality(Held(g, ps, Start(l, at))) >= l.count
             \/ Cardinality(Held(g, ps, Start(l, at))) >= Limit
          /\ \A n \in Counted(ps) : g[n] = Start(l, at) \/ g[n] + Window <= Start(l, at)
      BY <1>1, <2>2 DEF Windows
    <3> HIDE DEF x
    <3> QED
      BY <1>1, <1>3, <2>2, <3>1, <3>2
  <2> QED
    BY <2>1, <2>2
<1>5. /\ Len(qs) = N /\ N = Len(ps) + 1 /\ N \in Nat /\ qs[N] = p
      /\ \A n \in 1 .. Len(ps) : qs[n] = ps[n] /\ n \in 1 .. N /\ n # N
      /\ \A n \in 1 .. N : n = N \/ n \in 1 .. Len(ps)
  BY <1>1
<1>6. h[N] = x /\ \A n \in 1 .. Len(ps) : h[n] = g[n]
  BY <1>1
<1>7. \A n \in Counted(ps) : g[n] <= ps[n].at /\ ps[n].at < g[n] + Window
  BY DEF Windows
<1>8. x = Start(l2, at)
  BY DEF x
<1> HIDE DEF x, N, qs, h
<1>9. /\ N \in 1 .. N
      /\ \A n : n \in Counted(qs) <=> n = N \/ n \in Counted(ps)
      /\ \A n \in Counted(ps) : qs[n] = ps[n] /\ h[n] = g[n] /\ n # N
  <2>1. N \in 1 .. N
    BY <1>1, <1>5
  <2>2. \A n : n \in 1 .. N <=> n = N \/ n \in 1 .. Len(ps)
    BY <1>1, <1>5, <2>1
  <2> QED
    BY <1>5, <1>6, <2>1, <2>2 DEF Counted
<1>10. \A n \in Counted(qs) : h[n] \in Int /\ h[n] <= qs[n].at /\ qs[n].at < h[n] + Window
  BY <1>2, <1>4, <1>5, <1>6, <1>7, <1>9
<1>11. \A m, n \in Counted(qs) : h[m] = h[n] \/ h[m] + Window <= h[n] \/ h[n] + Window <= h[m]
  <2> SUFFICES ASSUME NEW m \in Counted(qs), NEW n \in Counted(qs)
               PROVE  h[m] = h[n] \/ h[m] + Window <= h[n] \/ h[n] + Window <= h[m]
    OBVIOUS
  <2>1. CASE m = N /\ n = N
    BY <2>1
  <2>2. CASE m = N /\ n \in Counted(ps)
    BY <1>4, <1>6, <1>9, <2>2
  <2>3. CASE m \in Counted(ps) /\ n = N
    BY <1>4, <1>6, <1>9, <2>3
  <2>4. CASE m \in Counted(ps) /\ n \in Counted(ps)
    <3>1. g[m] = g[n] \/ g[m] + Window <= g[n] \/ g[n] + Window <= g[m]
      BY <2>4 DEF Windows
    <3> QED
      BY <1>9, <2>4, <3>1
  <2> QED
    BY <1>9, <2>1, <2>2, <2>3, <2>4
<1>12. PICK a2 \in Nat, b2 \in Nat, c2 \in Nat :
         /\ a2 = Cardinality(InWindow(h, qs, x)) /\ b2 = Cardinality(Later(h, qs, x))
         /\ c2 = Cardinality(Held(h, qs, x))
  <2>1. qs \in Seq(Ping)
    BY DEF qs
  <2> QED
    BY <2>1, WindowFinite
<1>13. c2 = c + 1
  <2>1. Held(h, qs, x) = Held(g, ps, x) \union {N} /\ N \notin Held(g, ps, x)
    BY <1>6, <1>9 DEF Held
  <2>2. IsFiniteSet(Held(g, ps, x))
    BY WindowFinite
  <2> QED
    BY <1>3, <1>12, <2>1, <2>2, FS_AddElement
<1>14. /\ p.redis = "answered" => a2 = a + 1
       /\ p.redis # "answered" => a2 = a
  <2>1. /\ p.redis = "answered" => InWindow(h, qs, x) = InWindow(g, ps, x) \union {N}
        /\ p.redis # "answered" => InWindow(h, qs, x) = InWindow(g, ps, x)
        /\ N \notin InWindow(g, ps, x)
    BY <1>5, <1>6, <1>9 DEF InWindow
  <2>2. IsFiniteSet(InWindow(g, ps, x))
    BY WindowFinite
  <2> QED
    BY <1>3, <1>12, <2>1, <2>2, FS_AddElement
<1>15. /\ l.count = 0 => b2 = 0
       /\ p.redis # "answered" => b2 = b
       /\ b2 <= b + 1
  <2>1. /\ Later(h, qs, x) \subseteq Later(g, ps, x) \union {N}
        /\ p.redis # "answered" => Later(h, qs, x) = Later(g, ps, x)
        /\ N \notin Later(g, ps, x)
    BY <1>5, <1>6, <1>9 DEF Later, InWindow
  <2>2. IsFiniteSet(Later(g, ps, x)) /\ IsFiniteSet(Later(g, ps, x) \union {N})
        /\ Cardinality(Later(g, ps, x) \union {N}) = b + 1
    <3>1. IsFiniteSet(Later(g, ps, x))
      BY WindowFinite
    <3> QED
      BY <1>3, <2>1, <3>1, FS_AddElement
  <2>3. b2 <= b + 1
    BY <1>12, <2>1, <2>2, FS_Subset
  <2>4. ASSUME l.count = 0  PROVE b2 = 0
    <3>1. x = at /\ InWindow(g, ps, x) = {}
      BY <1>4, <2>4
    <3>2. \A n \in Later(h, qs, x) : FALSE
      <4> SUFFICES ASSUME NEW n \in Later(h, qs, x)  PROVE FALSE
        OBVIOUS
      <4>1. n \in Counted(qs) /\ qs[n].redis = "answered" /\ h[n] = x /\ qs[n].at > x
        BY DEF Later, InWindow
      <4>2. CASE n = N
        BY <1>1, <1>5, <3>1, <4>1, <4>2
      <4>3. CASE n \in Counted(ps)
        BY <1>9, <3>1, <4>1, <4>3 DEF InWindow
      <4> QED
        BY <1>9, <4>1, <4>2, <4>3
    <3>3. Later(h, qs, x) = {}
      BY <3>2
    <3> QED
      BY <1>12, <3>3, FS_EmptySet
  <2> QED
    BY <1>3, <1>12, <2>1, <2>3, <2>4
<1>16. PICK k \in Nat : k = l.count
  BY <1>1
<1>17. a <= Limit /\ b < Limit
  BY <1>3, <1>4 DEF Windows
<1>18. /\ a2 <= k + 1 /\ b2 < k + 1 /\ (c2 >= k + 1 \/ c2 >= Limit)
       /\ a2 <= Limit /\ b2 < Limit
  <2>1. p.redis = "answered" => k + 1 <= Limit
    BY <1>16
  <2>2. /\ a <= k /\ (c >= k \/ c >= Limit) /\ (k = 0 => b = 0) /\ (k # 0 => b < k)
        /\ k = 0 => b2 = 0
    BY <1>4, <1>15, <1>16
  <2>3. CASE p.redis = "answered"
    BY <1>1, <1>13, <1>14, <1>15, <2>1, <2>2, <2>3
  <2>4. CASE p.redis # "answered"
    BY <1>1, <1>13, <1>14, <1>15, <1>17, <2>2, <2>4
  <2> QED
    BY <2>3, <2>4
<1>19. ASSUME NEW y \in Int, y # x
       PROVE  Cardinality(InWindow(h, qs, y)) <= Limit /\ Cardinality(Later(h, qs, y)) < Limit
  <2>1. InWindow(h, qs, y) = InWindow(g, ps, y) /\ Later(h, qs, y) = Later(g, ps, y)
    BY <1>5, <1>6, <1>9, <1>19 DEF InWindow, Later
  <2> QED
    BY <2>1 DEF Windows
<1>20. \A y \in Int : Cardinality(InWindow(h, qs, y)) <= Limit /\ Cardinality(Later(h, qs, y)) < Limit
  BY <1>12, <1>18, <1>19
<1>21. \A n \in Counted(qs) : h[n] = x \/ h[n] + Window <= x
  BY <1>4, <1>6, <1>9
<1>22. l2.count > 0 /\ l2.count # 0 /\ l2.count = k + 1
  BY <1>1, <1>16
<1>23. Windows(h, l2, qs, at)
  BY <1>4, <1>8, <1>10, <1>11, <1>12, <1>18, <1>20, <1>21, <1>22 DEF Windows
<1> QED
  BY <1>23 DEF FitWindows, qs

(* A span as long as a window lies in one window, or in one and in another   *)
(* without the ping that started it.                                        *)
LEMMA SpanTouchesTwo ==
  ASSUME NEW ps \in Seq(Ping), NEW at, NEW g, NEW l, Windows(g, l, ps, at),
         NEW start \in Nat
  PROVE  Cardinality({n \in DOMAIN ps :
           ps[n].redis = "answered" /\ ps[n].at \in start .. (start + Window - 1)}) < 2 * Limit
<1> DEFINE A == {n \in DOMAIN ps :
                   ps[n].redis = "answered" /\ ps[n].at \in start .. (start + Window - 1)}
<1>1. Window \in Nat \ {0} /\ Limit \in Nat \ {0}
  BY QueueAssumption
<1>2. DOMAIN ps = 1 .. Len(ps)
  BY SeqElements
<1>3. /\ A \subseteq 1 .. Len(ps) /\ A \subseteq Counted(ps)
      /\ \A n \in A : /\ ps[n].redis = "answered" /\ ps[n].at \in Nat
                      /\ start <= ps[n].at /\ ps[n].at <= start + Window - 1
  BY <1>2, PingFields DEF Counted
<1>4. \A n \in A : g[n] \in Int /\ start - Window < g[n] /\ g[n] < start + Window
  <2> SUFFICES ASSUME NEW n \in A
               PROVE  g[n] \in Int /\ start - Window < g[n] /\ g[n] < start + Window
    OBVIOUS
  <2>1. ps[n].at \in Nat /\ start <= ps[n].at /\ ps[n].at <= start + Window - 1
    BY <1>3
  <2>2. g[n] \in Int /\ g[n] <= ps[n].at /\ ps[n].at < g[n] + Window
    BY <1>3 DEF Windows
  <2> HIDE DEF A
  <2> QED
    BY <1>1, <2>1, <2>2
<1>5. \A m, n \in A : g[m] = g[n] \/ g[m] + Window <= g[n] \/ g[n] + Window <= g[m]
  BY <1>3 DEF Windows
<1>6. IsFiniteSet(1 .. Len(ps))
  BY WindowFinite
<1>7. IsFiniteSet(A) /\ Cardinality(A) \in Nat
  BY <1>3, <1>6, FS_Subset, FS_CardinalityType
<1> HIDE DEF A
<1>8. \E x, y \in Int : A \subseteq Later(g, ps, x) \union InWindow(g, ps, y)
  <2>1. CASE A = {}
    <3>1. A \subseteq Later(g, ps, 0) \union InWindow(g, ps, 0)
      BY <2>1
    <3> QED
      BY <3>1
  <2>2. CASE \E m \in A : \A n \in A : g[n] = g[m]
    <3>1. PICK m \in A : \A n \in A : g[n] = g[m]
      BY <2>2
    <3>2. A \subseteq Later(g, ps, g[m]) \union InWindow(g, ps, g[m])
      BY <1>3, <3>1 DEF InWindow
    <3> QED
      BY <1>4, <3>1, <3>2
  <2>3. CASE \E m, n \in A : g[n] # g[m]
    <3>1. PICK m \in A, n \in A : g[m] + Window <= g[n]
      BY <1>5, <2>3
    <3>2. ASSUME NEW k \in A
          PROVE  g[k] = g[n] \/ (g[k] = g[m] /\ ps[k].at > g[m])
      <4>1. PICK a \in Int, b \in Int, c \in Int : a = g[m] /\ b = g[n] /\ c = g[k]
        BY <1>4
      <4>2. /\ a + Window <= b
            /\ c = a \/ c + Window <= a \/ a + Window <= c
            /\ c = b \/ c + Window <= b \/ b + Window <= c
        BY <1>5, <3>1, <4>1
      <4>3. /\ start - Window < a /\ a < start + Window
            /\ start - Window < b /\ b < start + Window
            /\ start - Window < c /\ c < start + Window
        BY <1>4, <4>1
      <4>4. (c = a \/ c = b) /\ a < start
        BY <1>1, <4>2, <4>3
      <4>5. start <= ps[k].at /\ ps[k].at \in Nat
        BY <1>3
      <4>6. ps[k].at > a
        BY <4>4, <4>5
      <4> QED
        BY <4>1, <4>4, <4>6
    <3>3. A \subseteq Later(g, ps, g[m]) \union InWindow(g, ps, g[n])
      BY <1>3, <3>2 DEF InWindow, Later
    <3> QED
      BY <1>4, <3>3
  <2> QED
    BY <2>1, <2>2, <2>3
<1>9. PICK x \in Int, y \in Int : A \subseteq Later(g, ps, x) \union InWindow(g, ps, y)
  BY <1>8
<1> DEFINE X == Later(g, ps, x)
           Y == InWindow(g, ps, y)
<1>10. /\ IsFiniteSet(X) /\ IsFiniteSet(Y)
       /\ Cardinality(X) \in Nat /\ Cardinality(Y) \in Nat
  BY WindowFinite
<1>11. Cardinality(X) < Limit /\ Cardinality(Y) <= Limit
  BY DEF Windows
<1> HIDE DEF X, Y
<1>12. /\ IsFiniteSet(X \union Y) /\ Cardinality(X \cap Y) \in Nat
       /\ Cardinality(X \union Y) = Cardinality(X) + Cardinality(Y) - Cardinality(X \cap Y)
  <2>1. IsFiniteSet(X \cap Y)
    BY <1>10, FS_Subset
  <2> QED
    BY <1>10, <2>1, FS_Union, FS_CardinalityType
<1>13. Cardinality(A) <= Cardinality(X \union Y)
  BY <1>9, <1>12, FS_Subset DEF X, Y
<1>14. Cardinality(A) < 2 * Limit
  BY <1>1, <1>7, <1>10, <1>11, <1>12, <1>13
<1> QED
  BY <1>14 DEF A

(* A window that is full holds pings of the last Window seconds.             *)
LEMMA FullWindow ==
  ASSUME NEW ps \in Seq(Ping), NEW at \in Nat, NEW g,
         NEW l \in [count : Nat, ttl : 0 .. Window], Windows(g, l, ps, at), l.count >= Limit
  PROVE  Cardinality({n \in DOMAIN ps : ps[n].redis # "down" /\ ps[n].at > at - Window}) >= Limit
<1> DEFINE A == {n \in DOMAIN ps : ps[n].redis # "down" /\ ps[n].at > at - Window}
           H == Held(g, ps, Start(l, at))
<1>1. /\ Window \in Nat \ {0} /\ Limit \in Nat \ {0} /\ l.count \in Nat /\ l.count > 0
      /\ l.ttl \in 0 .. Window
  BY QueueAssumption
<1>2. DOMAIN ps = 1 .. Len(ps)
  BY SeqElements
<1>3. l.ttl > 0 /\ (Cardinality(H) >= l.count \/ Cardinality(H) >= Limit)
  BY <1>1 DEF Windows
<1>4. IsFiniteSet(H) /\ Cardinality(H) \in Nat /\ IsFiniteSet(1 .. Len(ps))
  BY WindowFinite
<1>5. Cardinality(H) >= Limit
  BY <1>1, <1>3, <1>4
<1>6. H \subseteq A
  <2> SUFFICES ASSUME NEW n \in H  PROVE n \in A
    OBVIOUS
  <2>1. n \in Counted(ps) /\ g[n] = at - (Window - l.ttl)
    BY DEF Held, Start
  <2>2. n \in 1 .. Len(ps) /\ ps[n].redis # "down"
    BY <2>1 DEF Counted
  <2>3. g[n] <= ps[n].at /\ ps[n].at \in Nat
    BY <2>1, <2>2, PingFields DEF Windows
  <2>4. ps[n].at > at - Window
    BY <1>1, <1>3, <2>1, <2>3
  <2> QED
    BY <1>2, <2>2, <2>4
<1>7. IsFiniteSet(A) /\ Cardinality(A) \in Nat
  BY <1>2, <1>4, FS_Subset, FS_CardinalityType
<1> HIDE DEF A, H
<1>8. Cardinality(H) <= Cardinality(A)
  BY <1>6, <1>7, FS_Subset
<1>9. Cardinality(A) >= Limit
  BY <1>1, <1>4, <1>5, <1>7, <1>8
<1> QED
  BY <1>9 DEF A

-----------------------------------------------------------------------------
(* Work orders.                                                             *)
LEMMA WorkTypes ==
  ASSUME NEW work \in Work
  PROVE  work.revenue \in RevenueClasses
BY QueueAssumption DEF Work, NoLines, RevenueClasses

LEMMA CompletedIsNat == ASSUME NEW c \in Customers  PROVE CompletedJobs(c) \in Nat
<1> DEFINE S == {j \in Jobs : job[j].customer = c /\ job[j].status = "completed"}
<1>1. IsFiniteSet(S)
  BY QueueAssumption, FS_Subset
<1> HIDE DEF S
<1>2. Cardinality(S) \in Nat
  BY <1>1, FS_CardinalityType
<1>3. CompletedJobs(c) = Earlier[c] + Cardinality(S)
  BY DEF CompletedJobs, S
<1>4. Earlier[c] \in Nat
  BY QueueAssumption
<1> QED
  BY <1>2, <1>3, <1>4

LEMMA OverdueIsTime ==
  ASSUME now \in 0 .. MaxNow, NEW p \in Profiles
  PROVE  /\ Overdue(p) \in 0 .. MaxNow /\ Overdue(p) \in Nat
         /\ p.priority \in DOMAIN PriorityBase
<1>1. p.due \in Nat \union {Null} /\ p.priority \in DOMAIN PriorityBase /\ MaxNow \in Nat
  BY QueueAssumption
<1> QED
  BY <1>1 DEF Overdue

LEMMA JobTypes ==
  ASSUME QueueInv, NEW j \in Jobs
  PROVE  /\ job[j] \in Job /\ JobOk(job[j]) /\ job \in [Jobs -> Job]
         /\ job[j].work \in Work /\ job[j].status \in JobStatus
<1>1. job[j] \in Job
  BY DEF QueueInv, QueueTypeOK
<1> QED
  BY <1>1 DEF QueueInv, QueueTypeOK, JobsOk, Job

(* One row changes, and what requests remember.                             *)
LEMMA JobChanges ==
  ASSUME QueueInv, NEW j \in Jobs, NEW row \in Job, JobOk(row),
         job' = [job EXCEPT ![j] = row], UNCHANGED Trackers,
         request' \in [Handlers -> Asked], left' \in Nat
  PROVE  QueueInv'
<1>1. job \in [Jobs -> Job] /\ JobsOk
  BY DEF QueueInv, QueueTypeOK
<1>2. job' \in [Jobs -> Job] /\ \A k \in Jobs : job'[k] = IF k = j THEN row ELSE job[k]
  BY <1>1
<1>3. JobsOk'
  BY <1>1, <1>2 DEF JobsOk
<1>4. UNCHANGED <<now, active, limiter, located, pings>>
  BY DEF Trackers
<1>5. QueueTypeOK'
  BY <1>2, <1>4 DEF QueueInv, QueueTypeOK
<1>6. WindowsOk'
  BY <1>4 DEF QueueInv, WindowsOk
<1> QED
  BY <1>3, <1>5, <1>6 DEF QueueInv

LEMMA RequestChanges ==
  ASSUME QueueInv, UNCHANGED job, UNCHANGED Trackers,
         request' \in [Handlers -> Asked], left' \in Nat
  PROVE  QueueInv'
<1>1. UNCHANGED <<now, active, limiter, located, pings>>
  BY DEF Trackers
<1>2. QueueTypeOK'
  BY <1>1 DEF QueueInv, QueueTypeOK
<1>3. JobsOk' /\ WindowsOk'
  BY <1>1 DEF QueueInv, JobsOk, WindowsOk
<1> QED
  BY <1>2, <1>3 DEF QueueInv

LEMMA RequestTyped ==
  ASSUME QueueInv, NEW w \in Handlers, NEW new \in Asked, Becomes(w, new)
  PROVE  request' \in [Handlers -> Asked]
BY DEF QueueInv, QueueTypeOK, Becomes

LEMMA AskedIdle == Idle \in Asked
BY DEF Asked

(* What a write may put into the row of a work order.                       *)
LEMMA JobRowStays ==
  ASSUME NEW row \in Job
  PROVE  /\ \A p \in Profiles : [row EXCEPT !.profile = p] \in Job
         /\ \A work \in Work : [row EXCEPT !.work = work] \in Job
         /\ \A t \in Technicians \union {Null} : [row EXCEPT !.tech = t] \in Job
         /\ \A st \in JobStatus, at \in 0 .. MaxNow \union {Null} :
              [row EXCEPT !.status = st, !.started = at] \in Job
         /\ \A b \in Basis, n \in Int : [row EXCEPT !.basis = b, !.score = n] \in Job
BY DEF Job

(* A row that is alike where it matters.                                    *)
LEMMA JobAlike ==
  ASSUME NEW old, JobOk(old), NEW row, row.status = old.status, row.started = old.started,
         row.customer = old.customer, row.profile = old.profile, row.basis = old.basis,
         row.score = old.score
  PROVE  JobOk(row)
<1>1. ScoreOf(old) => ScoreOf(row)
  BY DEF ScoreOf
<1> QED
  BY <1>1 DEF JobOk

LEMMA QueueCreateJob ==
  ASSUME QueueInv, NEW j \in Jobs, NEW c \in Customers, NEW p \in Profiles, CreateJob(j, c, p)
  PROVE  QueueInv'
<1> DEFINE row == [NoJob EXCEPT !.status = "scheduled", !.customer = c, !.profile = p]
<1>1. row \in Job
  <2>1. NoLines \in Work
    BY DEF Work
  <2>2. NoJob \in Job
    BY <2>1 DEF Job, NoJob, JobStatus
  <2> QED
    BY <2>2 DEF Job, JobStatus
<1>2. JobOk(row)
  BY DEF JobOk, NoJob
<1>3. job' = [job EXCEPT ![j] = row] /\ UNCHANGED request /\ UNCHANGED Trackers
  BY DEF CreateJob
<1>4. left' \in Nat /\ request' \in [Handlers -> Asked]
  BY <1>3 DEF CreateJob, Happens, QueueInv, QueueTypeOK
<1> HIDE DEF row
<1> QED
  BY <1>1, <1>2, <1>3, <1>4, JobChanges

LEMMA QueueUpdateJob ==
  ASSUME QueueInv, NEW j \in Jobs, NEW p \in Profiles, UpdateJob(j, p)
  PROVE  QueueInv'
<1> DEFINE row == [job[j] EXCEPT !.profile = p]
<1>1. row \in Job
  BY JobTypes, JobRowStays
<1>2. JobOk(row)
  <2>1. job[j] \in Job /\ JobOk(job[j]) /\ job[j].status # "none"
    BY JobTypes DEF UpdateJob, Exists
  <2>2. /\ row.status = job[j].status /\ row.started = job[j].started
        /\ row.customer = job[j].customer /\ row.basis = job[j].basis
        /\ row.score = job[j].score /\ row.profile = p
    BY <2>1 DEF Job
  <2> HIDE DEF row
  <2> QED
    BY <2>1, <2>2 DEF JobOk, ScoreOf
<1>3. job' = [job EXCEPT ![j] = row] /\ UNCHANGED request /\ UNCHANGED Trackers
  BY DEF UpdateJob
<1>4. left' \in Nat /\ request' \in [Handlers -> Asked]
  BY <1>3 DEF UpdateJob, Happens, QueueInv, QueueTypeOK
<1> HIDE DEF row
<1> QED
  BY <1>1, <1>2, <1>3, <1>4, JobChanges

LEMMA QueueLinesChange ==
  ASSUME QueueInv, NEW j \in Jobs, NEW work \in Works, LinesChange(j, work)
  PROVE  QueueInv'
<1> DEFINE row == [job[j] EXCEPT !.work = work]
<1>1. row \in Job
  <2>1. work \in Work /\ job[j] \in Job
    BY JobTypes DEF Work
  <2> QED
    BY <2>1, JobRowStays
<1>2. JobOk(row)
  <2>1. job[j] \in Job /\ JobOk(job[j])
    BY JobTypes
  <2>2. /\ row.status = job[j].status /\ row.started = job[j].started
        /\ row.customer = job[j].customer /\ row.basis = job[j].basis
        /\ row.score = job[j].score /\ row.profile = job[j].profile
    BY <2>1 DEF Job
  <2> HIDE DEF row
  <2> QED
    BY <2>1, <2>2, JobAlike
<1>3. job' = [job EXCEPT ![j] = row] /\ UNCHANGED <<request, left>> /\ UNCHANGED Trackers
  BY DEF LinesChange
<1>4. left' \in Nat /\ request' \in [Handlers -> Asked]
  BY <1>3 DEF QueueInv, QueueTypeOK
<1> HIDE DEF row
<1> QED
  BY <1>1, <1>2, <1>3, <1>4, JobChanges

LEMMA QueueAssignLooks ==
  ASSUME QueueInv, NEW w \in Handlers, NEW j \in Jobs, NEW t \in Technicians \union {Null},
         AssignLooks(w, j, t)
  PROVE  QueueInv'
<1> DEFINE new == [op |-> "assign", job |-> j, tech |-> t]
<1>1. new \in Asked
  BY DEF Asked
<1>2. Becomes(w, new) /\ UNCHANGED job /\ UNCHANGED Trackers
  BY DEF AssignLooks
<1>3. left' \in Nat
  BY DEF AssignLooks, Happens, QueueInv, QueueTypeOK
<1> HIDE DEF new
<1> QED
  BY <1>1, <1>2, <1>3, RequestTyped, RequestChanges

LEMMA AskedTypes ==
  ASSUME QueueInv, NEW w \in Handlers
  PROVE  /\ request[w].op = "assign" =>
              request[w].job \in Jobs /\ request[w].tech \in Technicians \union {Null}
         /\ request[w].op = "score" =>
              /\ request[w].job \in Jobs /\ request[w].priority \in DOMAIN PriorityBase
              /\ request[w].overdue \in 0 .. MaxNow
         /\ request[w].op = "ping" => request[w].tech \in Technicians /\ request[w].at \in 0 .. MaxNow
<1>1. request[w] \in Asked
  BY DEF QueueInv, QueueTypeOK
<1> QED
  BY <1>1 DEF Asked, Idle

LEMMA QueueAssignWrites ==
  ASSUME QueueInv, NEW w \in Handlers, AssignWrites(w)
  PROVE  QueueInv'
<1> DEFINE j == request[w].job
           row == [job[j] EXCEPT !.tech = request[w].tech]
<1>1. j \in Jobs /\ request[w].tech \in Technicians \union {Null}
  BY AskedTypes DEF AssignWrites
<1>2. job[j] \in Job /\ JobOk(job[j])
  BY <1>1, JobTypes
<1>3. row \in Job
  BY <1>1, <1>2, JobRowStays
<1>4. JobOk(row)
  <2>1. /\ row.status = job[j].status /\ row.started = job[j].started
        /\ row.customer = job[j].customer /\ row.basis = job[j].basis
        /\ row.score = job[j].score /\ row.profile = job[j].profile
    BY <1>2 DEF Job
  <2> HIDE DEF row
  <2> QED
    BY <1>2, <2>1, JobAlike
<1>5. job' = [job EXCEPT ![j] = row] /\ Becomes(w, Idle) /\ UNCHANGED left /\ UNCHANGED Trackers
  BY DEF AssignWrites
<1>6. left' \in Nat /\ request' \in [Handlers -> Asked]
  BY <1>5, RequestTyped, AskedIdle DEF QueueInv, QueueTypeOK
<1> HIDE DEF row, j
<1> QED
  BY <1>1, <1>3, <1>4, <1>5, <1>6, JobChanges

(* What a change of status writes as the start.                             *)
LEMMA StartWritten ==
  ASSUME QueueInv, NEW j \in Jobs, NEW target, target \in Transitions[job[j].status]
  PROVE  /\ job[j].status # "none" /\ target \in JobStatus /\ target # "none"
         /\ Started(j, target) \in 0 .. MaxNow \union {Null}
         /\ job[j].started # Null => Started(j, target) = job[j].started
         /\ target \in {"in_progress", "on_hold", "completed"} => Started(j, target) # Null
<1>1. /\ job[j] \in Job /\ JobOk(job[j]) /\ job[j].status \in JobStatus
      /\ job[j].started \in 0 .. MaxNow \union {Null}
  BY JobTypes DEF Job
<1>2. now \in 0 .. MaxNow /\ now # Null
  BY QueueAssumption DEF QueueInv, QueueTypeOK
<1>3. /\ job[j].status # "none" /\ target \in JobStatus /\ target # "none"
      /\ target \in {"on_hold", "completed"} => job[j].status = "in_progress"
  BY <1>1 DEF Transitions, JobStatus
<1>4. target \in {"on_hold", "completed"} => job[j].started # Null
  BY <1>1, <1>3 DEF JobOk
<1> QED
  BY <1>1, <1>2, <1>3, <1>4 DEF Started

LEMMA QueueSetStatus ==
  ASSUME QueueInv, NEW j \in Jobs, NEW target \in JobStatus, SetStatus(j, target)
  PROVE  QueueInv'
<1> DEFINE at == Started(j, target)
           row == [job[j] EXCEPT !.status = target, !.started = at]
<1>1. target \in Transitions[job[j].status]
  BY DEF SetStatus
<1>2. /\ job[j].status # "none" /\ target # "none" /\ at \in 0 .. MaxNow \union {Null}
      /\ target \in {"in_progress", "on_hold", "completed"} => at # Null
  BY <1>1, StartWritten
<1>3. job[j] \in Job /\ JobOk(job[j])
  BY JobTypes
<1>4. job' = [job EXCEPT ![j] = row] /\ UNCHANGED <<request, left>> /\ UNCHANGED Trackers
  BY DEF SetStatus
<1> HIDE DEF at
<1>5. row \in Job
  BY <1>2, <1>3, JobRowStays
<1>6. JobOk(row)
  <2>1. /\ row.status = target /\ row.started = at
        /\ row.customer = job[j].customer /\ row.basis = job[j].basis
        /\ row.score = job[j].score /\ row.profile = job[j].profile
    BY <1>3 DEF Job
  <2> HIDE DEF row
  <2>2. ScoreOf(job[j]) => ScoreOf(row)
    BY <2>1 DEF ScoreOf
  <2> QED
    BY <1>2, <1>3, <2>1, <2>2 DEF JobOk
<1>7. left' \in Nat /\ request' \in [Handlers -> Asked]
  BY <1>4 DEF QueueInv, QueueTypeOK
<1> HIDE DEF row
<1> QED
  BY <1>4, <1>5, <1>6, <1>7, JobChanges

LEMMA QueueScoreLooks ==
  ASSUME QueueInv, NEW w \in Handlers, NEW j \in Jobs, ScoreLooks(w, j)
  PROVE  QueueInv'
<1> DEFINE new == [op |-> "score", job |-> j, priority |-> job[j].profile.priority,
                   overdue |-> Overdue(job[j].profile)]
<1>1. job[j].profile \in Profiles /\ now \in 0 .. MaxNow
  BY JobTypes DEF ScoreLooks, Exists, JobOk, QueueInv, QueueTypeOK
<1>2. new \in Asked
  BY <1>1, OverdueIsTime DEF Asked
<1>3. Becomes(w, new) /\ UNCHANGED job /\ UNCHANGED Trackers
  BY DEF ScoreLooks
<1>4. left' \in Nat
  BY DEF ScoreLooks, Happens, QueueInv, QueueTypeOK
<1> HIDE DEF new
<1> QED
  BY <1>2, <1>3, <1>4, RequestTyped, RequestChanges

LEMMA QueueScoreWrites ==
  ASSUME QueueInv, NEW w \in Handlers, ScoreWrites(w)
  PROVE  QueueInv'
<1> DEFINE r == request[w]
           old == job[r.job]
           b == [priority |-> r.priority, overdue |-> r.overdue, work |-> old.work]
           v == CustomerValue(CompletedJobs(old.customer))
           u == Urgency(r.priority, r.overdue)
           c == Revenue(old.work.revenue)
           d == PartsAvailability(old.work.parts)
           row == [old EXCEPT !.basis = b, !.score = u + c + v + d]
<1>1. r.job \in Jobs /\ r.priority \in DOMAIN PriorityBase /\ r.overdue \in 0 .. MaxNow
  BY AskedTypes DEF ScoreWrites
<1>2. old \in Job /\ JobOk(old) /\ old.work \in Work
  BY <1>1, JobTypes
<1>3. old.status # "none"
  BY DEF ScoreWrites, Exists
<1>4. job' = [job EXCEPT ![r.job] = row] /\ Becomes(w, Idle) /\ UNCHANGED left /\ UNCHANGED Trackers
  BY DEF ScoreWrites, JobScore
<1> HIDE DEF r, old
<1>5. old.customer \in Customers
  BY <1>2, <1>3 DEF JobOk
<1>6. CompletedJobs(old.customer) \in Nat
  BY <1>5, CompletedIsNat
<1>7. v \in 0 .. 800
  BY <1>6, LoyaltyBounds
<1>8. r.overdue \in Nat
  BY <1>1, QueueAssumption
<1>9. u \in Int
  BY <1>1, <1>8, UrgencyBounds
<1>10. old.work.revenue \in RevenueClasses
  BY <1>2, WorkTypes
<1>11. c \in Int /\ d \in Int
  <2>1. c \in 0 .. 3000
    BY <1>10, RevenueBounds
  <2>2. d \in {0, 1000}
    BY PartsBounds
  <2> HIDE DEF c, d
  <2> QED
    BY <2>1, <2>2
<1>12. b \in Basis
  BY <1>1, <1>2 DEF Basis
<1>13. b.priority = r.priority /\ b.overdue = r.overdue /\ b.work = old.work
  OBVIOUS
<1> HIDE DEF b, c, d, v, u
<1>14. u + c + v + d \in Int
  BY <1>7, <1>9, <1>11
<1>15. row \in Job
  BY <1>2, <1>12, <1>14, JobRowStays
<1>16. /\ row.status = old.status /\ row.started = old.started /\ row.customer = old.customer
       /\ row.profile = old.profile /\ row.basis = b /\ row.score = u + c + v + d
  BY <1>2 DEF Job
<1> HIDE DEF row
<1>17. ScoreOf(row)
  <2>1. row.score = Urgency(row.basis.priority, row.basis.overdue)
                      + Revenue(row.basis.work.revenue) + v
                      + PartsAvailability(row.basis.work.parts)
    BY <1>13, <1>16 DEF u, c, d
  <2> QED
    BY <1>7, <2>1 DEF ScoreOf
<1>18. JobOk(row)
  BY <1>2, <1>12, <1>16, <1>17 DEF JobOk
<1>19. left' \in Nat /\ request' \in [Handlers -> Asked]
  BY <1>4, RequestTyped, AskedIdle DEF QueueInv, QueueTypeOK
<1> QED
  BY <1>1, <1>4, <1>15, <1>18, <1>19, JobChanges

-----------------------------------------------------------------------------
(* Technicians and their pings.                                             *)
LEMMA PingTypes ==
  ASSUME QueueInv, NEW t \in Technicians
  PROVE  /\ limiter[t] \in [count : Nat, ttl : 0 .. Window] /\ limiter[t].count \in Nat
         /\ limiter[t].ttl \in 0 .. Window /\ pings[t] \in Seq(Ping)
         /\ now \in 0 .. MaxNow /\ now \in Nat /\ MaxNow \in Nat
         /\ FitWindows(limiter[t], pings[t], now)
<1>1. MaxNow \in Nat /\ now \in 0 .. MaxNow
  BY QueueAssumption DEF QueueInv, QueueTypeOK
<1>2. limiter[t] \in [count : Nat, ttl : 0 .. Window] /\ pings[t] \in Seq(Ping)
  BY DEF QueueInv, QueueTypeOK
<1> QED
  BY <1>1, <1>2 DEF QueueInv, WindowsOk

LEMMA QueueSetActive ==
  ASSUME QueueInv, NEW t \in Technicians, SetActive(t)
  PROVE  QueueInv'
<1>1. active' \in [Technicians -> BOOLEAN]
  BY DEF SetActive, QueueInv, QueueTypeOK
<1>2. left' \in Nat
  BY DEF SetActive, Happens, QueueInv, QueueTypeOK
<1>3. UNCHANGED <<now, job, limiter, located, request, pings>>
  BY DEF SetActive
<1>4. QueueTypeOK'
  BY <1>1, <1>2, <1>3 DEF QueueInv, QueueTypeOK
<1>5. JobsOk' /\ WindowsOk'
  BY <1>3 DEF QueueInv, JobsOk, WindowsOk
<1> QED
  BY <1>4, <1>5 DEF QueueInv

(* One technician's window and pings change.                                *)
LEMMA PingsChange ==
  ASSUME QueueInv, NEW t \in Technicians, NEW l \in [count : Nat, ttl : 0 .. Window],
         NEW ps \in Seq(Ping), FitWindows(l, ps, now),
         limiter' = [limiter EXCEPT ![t] = l], pings' = [pings EXCEPT ![t] = ps],
         UNCHANGED <<now, job, active, located>>,
         request' \in [Handlers -> Asked], left' \in Nat
  PROVE  QueueInv'
<1>1. /\ limiter \in [Technicians -> [count : Nat, ttl : 0 .. Window]]
      /\ pings \in [Technicians -> Seq(Ping)]
  BY DEF QueueInv, QueueTypeOK
<1>2. limiter' \in [Technicians -> [count : Nat, ttl : 0 .. Window]]
  BY <1>1
<1>3. pings' \in [Technicians -> Seq(Ping)]
  BY <1>1
<1>4. QueueTypeOK'
  BY <1>2, <1>3 DEF QueueInv, QueueTypeOK
<1>5. WindowsOk'
  <2> SUFFICES ASSUME NEW x \in Technicians  PROVE FitWindows(limiter'[x], pings'[x], now)
    BY DEF WindowsOk
  <2>1. CASE x = t
    BY <1>1, <2>1
  <2>2. CASE x # t
    <3>1. limiter'[x] = limiter[x] /\ pings'[x] = pings[x]
      BY <1>1, <2>2
    <3> QED
      BY <3>1 DEF QueueInv, WindowsOk
  <2> QED
    BY <2>1, <2>2
<1>6. JobsOk'
  BY DEF QueueInv, JobsOk
<1> QED
  BY <1>4, <1>5, <1>6 DEF QueueInv

LEMMA QueuePingCounts ==
  ASSUME QueueInv, NEW w \in Handlers, NEW t \in Technicians, PingCounts(w, t)
  PROVE  QueueInv'
<1> DEFINE new == [op |-> "ping", tech |-> t, at |-> now]
           l == limiter[t]
           ps == pings[t]
           l2 == Hit(l)
           Letting(redis) ==
             /\ limiter' = IF redis = "down" THEN limiter ELSE [limiter EXCEPT ![t] = l2]
             /\ redis = "answered" => LetThrough(l2.count)
             /\ pings' = [pings EXCEPT ![t] = Append(ps, [at |-> now, redis |-> redis])]
             /\ Becomes(w, new)
           Refusing ==
             /\ limiter' = [limiter EXCEPT ![t] = l2] /\ ~LetThrough(l2.count)
             /\ UNCHANGED <<pings, request>>
<1>1. /\ l \in [count : Nat, ttl : 0 .. Window] /\ l.count \in Nat /\ l.ttl \in 0 .. Window
      /\ ps \in Seq(Ping) /\ now \in 0 .. MaxNow /\ now \in Nat
      /\ FitWindows(l, ps, now)
  BY PingTypes
<1>2. new \in Asked
  BY <1>1 DEF Asked
<1>3. left' \in Nat /\ UNCHANGED <<now, job, active, located>>
  BY DEF PingCounts, Happens, QueueInv, QueueTypeOK
<1>4. (\E redis \in RedisDoes : Letting(redis)) \/ Refusing
  BY DEF PingCounts
<1>5. /\ limiter \in [Technicians -> [count : Nat, ttl : 0 .. Window]]
      /\ pings \in [Technicians -> Seq(Ping)] /\ request \in [Handlers -> Asked]
  BY DEF QueueInv, QueueTypeOK
<1>6. l2 \in [count : Nat, ttl : 0 .. Window]
  <2>1. l.count + 1 \in Nat /\ Window \in 0 .. Window
    BY <1>1, QueueAssumption
  <2> QED
    BY <1>1, <2>1 DEF Hit
<1>7. l2.count = l.count + 1 /\ l2.ttl = IF l.count = 0 THEN Window ELSE l.ttl
  BY DEF Hit
<1>8. PICK g : Windows(g, l, ps, now)
  BY <1>1 DEF FitWindows
<1>9. limiter = [limiter EXCEPT ![t] = l] /\ pings = [pings EXCEPT ![t] = ps]
  BY <1>5
<1> HIDE DEF new, l, ps, l2
<1>10. ASSUME NEW redis \in RedisDoes, Letting(redis)  PROVE QueueInv'
  <2> DEFINE p == [at |-> now, redis |-> redis]
             qs == Append(ps, p)
  <2>1. p \in Ping /\ p.at = now /\ p.redis = redis
    BY <1>1 DEF Ping
  <2>2. qs \in Seq(Ping)
    BY <1>1, <2>1
  <2>3. request' \in [Handlers -> Asked]
    BY <1>2, <1>10, RequestTyped
  <2>4. pings' = [pings EXCEPT ![t] = qs]
    BY <1>10
  <2> HIDE DEF p
  <2>5. CASE redis = "down"
    <3>1. Windows(g, l, qs, now)
      BY <1>1, <1>8, <2>1, <2>5, WindowUnseen
    <3>2. limiter' = [limiter EXCEPT ![t] = l]
      BY <1>9, <1>10, <2>5
    <3> HIDE DEF qs
    <3>3. FitWindows(l, qs, now)
      BY <3>1 DEF FitWindows
    <3> QED
      BY <1>1, <1>3, <2>2, <2>3, <2>4, <3>2, <3>3, PingsChange
  <2>6. CASE redis # "down"
    <3>1. redis = "answered" => l.count + 1 <= Limit
      BY <1>7, <1>10 DEF LetThrough
    <3>2. FitWindows(l2, qs, now)
      BY <1>1, <1>7, <1>8, <2>1, <2>6, <3>1, WindowAdmits
    <3>3. limiter' = [limiter EXCEPT ![t] = l2]
      BY <1>10, <2>6
    <3> HIDE DEF qs
    <3> QED
      BY <1>3, <1>6, <2>2, <2>3, <2>4, <3>2, <3>3, PingsChange
  <2> QED
    BY <2>5, <2>6
<1>11. CASE Refusing
  <2>1. l.count >= Limit /\ l.count # 0
    BY <1>1, <1>7, <1>11, QueueAssumption DEF LetThrough
  <2>2. l2.ttl = l.ttl
    BY <1>7, <2>1
  <2>3. Windows(g, l2, ps, now)
    BY <1>1, <1>7, <1>8, <2>1, <2>2, WindowRefuses
  <2>4. FitWindows(l2, ps, now)
    BY <2>3 DEF FitWindows
  <2>5. pings' = [pings EXCEPT ![t] = ps] /\ request' \in [Handlers -> Asked]
    BY <1>5, <1>9, <1>11
  <2>6. limiter' = [limiter EXCEPT ![t] = l2]
    BY <1>11
  <2> QED
    BY <1>1, <1>3, <1>6, <2>4, <2>5, <2>6, PingsChange
<1> QED
  BY <1>4, <1>10, <1>11

LEMMA QueuePingWrites ==
  ASSUME QueueInv, NEW w \in Handlers, PingWrites(w)
  PROVE  QueueInv'
<1>1. request[w].tech \in Technicians /\ request[w].at \in 0 .. MaxNow
  BY AskedTypes DEF PingWrites
<1>2. located' \in [Technicians -> 0 .. MaxNow \union {Null}]
  BY <1>1 DEF PingWrites, QueueInv, QueueTypeOK
<1>3. request' \in [Handlers -> Asked] /\ UNCHANGED <<now, job, active, limiter, pings, left>>
  BY RequestTyped, AskedIdle DEF PingWrites
<1>4. QueueTypeOK'
  BY <1>2, <1>3 DEF QueueInv, QueueTypeOK
<1>5. JobsOk' /\ WindowsOk'
  BY <1>3 DEF QueueInv, JobsOk, WindowsOk
<1> QED
  BY <1>4, <1>5 DEF QueueInv

LEMMA QueueTimePasses == ASSUME QueueInv, TimePasses  PROVE QueueInv'
<1>1. /\ now < MaxNow /\ now' = now + 1
      /\ UNCHANGED <<job, active, located, request, pings, left>>
      /\ limiter' = [t \in Technicians |->
           IF limiter[t].ttl <= 1 THEN [count |-> 0, ttl |-> 0]
           ELSE [count |-> limiter[t].count, ttl |-> limiter[t].ttl - 1]]
  BY DEF TimePasses
<1>2. now \in Nat /\ now' \in 0 .. MaxNow
  BY <1>1, QueueAssumption DEF QueueInv, QueueTypeOK
<1>3. ASSUME NEW t \in Technicians
      PROVE  /\ limiter'[t] \in [count : Nat, ttl : 0 .. Window]
             /\ FitWindows(limiter'[t], pings[t], now + 1)
  <2> DEFINE l == limiter[t]
             l2 == IF l.ttl <= 1 THEN [count |-> 0, ttl |-> 0]
                   ELSE [count |-> l.count, ttl |-> l.ttl - 1]
  <2>1. /\ l \in [count : Nat, ttl : 0 .. Window] /\ l.count \in Nat /\ l.ttl \in 0 .. Window
        /\ pings[t] \in Seq(Ping) /\ FitWindows(l, pings[t], now)
    BY PingTypes
  <2>2. limiter'[t] = l2
    BY <1>1
  <2>3. l2 \in [count : Nat, ttl : 0 .. Window]
    <3>1. CASE l.ttl <= 1
      BY <3>1, QueueAssumption
    <3>2. CASE ~(l.ttl <= 1)
      <4>1. l.ttl - 1 \in 0 .. Window
        BY <2>1, <3>2, QueueAssumption
      <4> QED
        BY <2>1, <3>2, <4>1
    <3> QED
      BY <3>1, <3>2
  <2>4. PICK g : Windows(g, l, pings[t], now)
    BY <2>1 DEF FitWindows
  <2>5. Windows(g, l2, pings[t], now + 1)
    <3> DEFINE m2 == l2
    <3>1. m2 = IF l.ttl <= 1 THEN [count |-> 0, ttl |-> 0] ELSE [count |-> l.count, ttl |-> l.ttl - 1]
      OBVIOUS
    <3> HIDE DEF m2, l
    <3>2. Windows(g, m2, pings[t], now + 1)
      BY <1>2, <2>1, <2>4, <3>1, WindowTicks
    <3> QED
      BY <3>2 DEF m2
  <2> HIDE DEF l2
  <2> QED
    BY <2>2, <2>3, <2>5 DEF FitWindows
<1>4. limiter' \in [Technicians -> [count : Nat, ttl : 0 .. Window]]
  BY <1>1, <1>3
<1>5. QueueTypeOK'
  BY <1>1, <1>2, <1>4 DEF QueueInv, QueueTypeOK
<1>6. JobsOk'
  BY <1>1 DEF QueueInv, JobsOk
<1>7. WindowsOk'
  BY <1>1, <1>3 DEF WindowsOk
<1> QED
  BY <1>5, <1>6, <1>7 DEF QueueInv

-----------------------------------------------------------------------------
LEMMA QueueInitEstablishes == QueueInit => QueueInv
<1> SUFFICES ASSUME QueueInit  PROVE QueueInv
  OBVIOUS
<1>1. MaxNow \in Nat /\ Window \in Nat \ {0} /\ Limit \in Nat \ {0} /\ Happenings \in Nat
  BY QueueAssumption
<1>2. NoJob \in Job /\ JobOk(NoJob)
  <2>1. NoLines \in Work
    BY DEF Work
  <2> QED
    BY <2>1 DEF Job, NoJob, JobStatus, JobOk
<1>3. QueueTypeOK
  <2>1. job \in [Jobs -> Job]
    BY <1>2 DEF QueueInit
  <2>2. request \in [Handlers -> Asked]
    BY AskedIdle DEF QueueInit
  <2>3. limiter \in [Technicians -> [count : Nat, ttl : 0 .. Window]]
    BY <1>1 DEF QueueInit
  <2>4. pings \in [Technicians -> Seq(Ping)]
    BY DEF QueueInit
  <2> QED
    BY <1>1, <2>1, <2>2, <2>3, <2>4 DEF QueueInit, QueueTypeOK
<1>4. JobsOk
  BY <1>2 DEF QueueInit, JobsOk
<1>5. WindowsOk
  <2> SUFFICES ASSUME NEW t \in Technicians  PROVE FitWindows(limiter[t], pings[t], now)
    BY DEF WindowsOk
  <2>1. pings[t] = <<>> /\ limiter[t].count = 0
    BY DEF QueueInit
  <2>2. Counted(<<>>) = {}
    BY DEF Counted
  <2>3. \A x : InWindow(<<>>, <<>>, x) = {} /\ Later(<<>>, <<>>, x) = {}
    BY <2>2 DEF InWindow, Later
  <2>4. \A x : /\ Cardinality(InWindow(<<>>, <<>>, x)) = 0
               /\ Cardinality(Later(<<>>, <<>>, x)) = 0
    BY <2>3, FS_EmptySet
  <2>5. Windows(<<>>, limiter[t], <<>>, now)
    BY <1>1, <2>1, <2>2, <2>4 DEF Windows
  <2> QED
    BY <2>1, <2>5 DEF FitWindows
<1> QED
  BY <1>3, <1>4, <1>5 DEF QueueInv

LEMMA QueueStep == QueueInv /\ [QueueNext]_queueVars => QueueInv'
<1> SUFFICES ASSUME QueueInv, [QueueNext]_queueVars  PROVE QueueInv'
  OBVIOUS
<1>1. CASE UNCHANGED queueVars
  BY <1>1 DEF queueVars, QueueInv, QueueTypeOK, JobsOk, WindowsOk
<1>2. CASE TimePasses
  BY <1>2, QueueTimePasses
<1>3. CASE \E t \in Technicians : SetActive(t)
  BY <1>3, QueueSetActive
<1>4. CASE \E j \in Jobs :
             \/ \E c \in Customers, p \in Profiles : CreateJob(j, c, p)
             \/ \E p \in Profiles : UpdateJob(j, p)
             \/ \E work \in Works : LinesChange(j, work)
             \/ \E target \in JobStatus : SetStatus(j, target)
  BY <1>4, QueueCreateJob, QueueUpdateJob, QueueLinesChange, QueueSetStatus
<1>5. CASE \E w \in Handlers :
             \/ \E j \in Jobs : ScoreLooks(w, j)
                               \/ \E t \in Technicians \union {Null} : AssignLooks(w, j, t)
             \/ \E t \in Technicians : PingCounts(w, t)
             \/ AssignWrites(w) \/ ScoreWrites(w) \/ PingWrites(w)
  BY <1>5, QueueScoreLooks, QueueAssignLooks, QueuePingCounts, QueueAssignWrites,
     QueueScoreWrites, QueuePingWrites
<1> QED
  BY <1>1, <1>2, <1>3, <1>4, <1>5 DEF QueueNext

LEMMA QueueInvHolds == QueueSpec => []QueueInv
BY QueueInitEstablishes, QueueStep, PTL DEF QueueSpec

-----------------------------------------------------------------------------
(* What the inductive invariant says of scores, ranks and pings.            *)
LEMMA QueueOutranks == QueueInv => UrgentOutranks
<1> SUFFICES ASSUME QueueInv, NEW j \in Jobs, NEW k \in Jobs,
                    job[j].basis # Null, job[k].basis # Null,
                    job[j].basis.priority = "urgent", job[k].basis.priority \in {"low", "normal"},
                    job[k].basis.overdue = 0,
                    Revenue(job[k].basis.work.revenue) <= Revenue("fiveThousand"),
                    PartsAvailability(job[j].basis.work.parts)
                      >= PartsAvailability(job[k].basis.work.parts)
             PROVE  job[j].score > job[k].score
  BY DEF UrgentOutranks
<1> DEFINE b == job[j].basis
           c == job[k].basis
<1>1. b \in Basis /\ ScoreOf(job[j]) /\ c \in Basis /\ ScoreOf(job[k])
  BY JobTypes DEF JobOk
<1>2. /\ b.overdue \in Nat /\ b.work \in Work /\ c.work \in Work
  BY <1>1, QueueAssumption DEF Basis
<1>3. PICK v \in 0 .. 800 :
        job[j].score = Urgency(b.priority, b.overdue) + Revenue(b.work.revenue)
                         + v + PartsAvailability(b.work.parts)
  BY <1>1 DEF ScoreOf
<1>4. PICK w \in 0 .. 800 :
        job[k].score = Urgency(c.priority, c.overdue) + Revenue(c.work.revenue)
                         + w + PartsAvailability(c.work.parts)
  BY <1>1 DEF ScoreOf
<1>5. PICK u1 \in Int : u1 = Urgency(b.priority, b.overdue) /\ u1 >= 4500
  <2>1. "urgent" \in DOMAIN PriorityBase
    BY DEF PriorityBase
  <2>2. Urgency("urgent", b.overdue) \in Int /\ Urgency("urgent", b.overdue) >= 4500
    BY <1>2, <2>1, UrgencyBounds
  <2> QED
    BY <2>2
<1>6. PICK u2 \in Int : u2 = Urgency(c.priority, c.overdue) /\ u2 <= 1750
  <2>1. {"low", "normal"} \subseteq DOMAIN PriorityBase /\ 0 \in Nat
    BY DEF PriorityBase
  <2>2. Urgency(c.priority, 0) \in Int /\ Urgency(c.priority, 0) <= 1750
    BY <2>1, UrgencyBounds
  <2> QED
    BY <2>2
<1>7. b.work.revenue \in RevenueClasses /\ c.work.revenue \in RevenueClasses
  BY <1>2, WorkTypes
<1> HIDE DEF b, c
<1>8. PICK r1 \in Int, r2 \in Int :
        /\ r1 = Revenue(b.work.revenue) /\ r2 = Revenue(c.work.revenue)
        /\ 0 <= r1 /\ r2 <= 1500
  <2>1. PICK x \in RevenueClasses, y \in RevenueClasses :
          x = b.work.revenue /\ y = c.work.revenue
    BY <1>7
  <2>2. Revenue(y) <= Revenue("fiveThousand")
    BY <2>1 DEF c
  <2>3. PICK r1 \in Int : r1 = Revenue(x) /\ 0 <= r1
    BY RevenueSome
  <2>4. PICK r2 \in Int : r2 = Revenue(y) /\ r2 <= 1500
    BY <2>2, RevenueSmall
  <2> QED
    BY <2>1, <2>3, <2>4
<1>9. PICK p1 \in Int, p2 \in Int :
        /\ p1 = PartsAvailability(b.work.parts) /\ p2 = PartsAvailability(c.work.parts)
        /\ p1 >= p2
  <2>1. PartsAvailability(b.work.parts) \in {0, 1000} /\ PartsAvailability(c.work.parts) \in {0, 1000}
    BY PartsBounds
  <2> QED
    BY <2>1 DEF b, c
<1>10. job[j].score = u1 + r1 + v + p1 /\ job[k].score = u2 + r2 + w + p2
  BY <1>3, <1>4, <1>5, <1>6, <1>8, <1>9
<1>11. u1 + r1 + v + p1 > u2 + r2 + w + p2
  BY <1>5, <1>6, <1>7, <1>8, <1>9
<1> QED
  BY <1>10, <1>11

(* What a technician adds to a job's score.                                 *)
LEMMA FitBounds ==
  ASSUME NEW required, IsFiniteSet(required), NEW skills, IsFiniteSet(skills)
  PROVE  \E n \in Int : n = Fit(required, skills) /\ 0 <= n /\ n <= 1500
<1>1. CASE required = {}
  BY <1>1 DEF Fit
<1>2. CASE required # {} /\ skills = {}
  BY <1>2 DEF Fit
<1>3. CASE required # {} /\ skills # {}
  <2> DEFINE both == required \intersect skills
             either == required \union skills
  <2>1. IsFiniteSet(either) /\ both \subseteq either /\ either # {}
    BY <1>3, FS_Union
  <2>2. Fit(required, skills) = Quantized(15 * Cardinality(both), Cardinality(either))
    BY <1>3 DEF Fit
  <2> HIDE DEF both, either
  <2>3. PICK a \in Nat, b \in Nat \ {0} : a = Cardinality(both) /\ b = Cardinality(either) /\ a <= b
    BY <2>1, FS_Subset, FS_CardinalityType, FS_EmptySet
  <2>4. PICK q \in Int : q = (200 * (15 * a) + b) \div (2 * b)
    BY <2>3
  <2>5. (2 * b) * q <= 3000 * a + b /\ 3000 * a + b < (2 * b) * q + 2 * b
    BY <2>3, <2>4
  <2>6. ~(q >= 1501)
    <3> SUFFICES ASSUME q >= 1501  PROVE FALSE
      OBVIOUS
    <3>1. (2 * b) * q >= (2 * b) * 1501
      BY <2>3
    <3> QED
      BY <2>3, <2>5, <3>1
  <2>7. ~(q <= -1)
    <3> SUFFICES ASSUME q <= -1  PROVE FALSE
      OBVIOUS
    <3>1. (2 * b) * q <= (2 * b) * (-1)
      BY <2>3
    <3> QED
      BY <2>3, <2>5, <3>1
  <2> QED
    BY <2>2, <2>3, <2>4, <2>6, <2>7 DEF Quantized
<1> QED
  BY <1>1, <1>2, <1>3

LEMMA WorkloadBounds ==
  ASSUME NEW t
  PROVE  \E n \in Int : n = Workload(ActiveJobs(t)) /\ -600 <= n /\ n <= 0
<1> DEFINE S == {j \in Jobs : job[j].tech = t /\ job[j].status \in {"scheduled", "in_progress"}}
<1>1. IsFiniteSet(S)
  BY QueueAssumption, FS_Subset
<1>2. ActiveJobs(t) = Cardinality(S)
  BY DEF ActiveJobs
<1> HIDE DEF S
<1>3. ActiveJobs(t) \in Nat
  BY <1>1, <1>2, FS_CardinalityType
<1>4. PICK c \in 0 .. 5 : c = Capped(ActiveJobs(t), 5)
  BY <1>3, Halves
<1> QED
  BY <1>4 DEF Workload

(* Loyalty is worth more, the more jobs were completed.                      *)
LEMMA LoyaltyGrows ==
  ASSUME NEW m \in Nat, NEW n \in Nat, m <= n
  PROVE  CustomerValue(m) <= CustomerValue(n)
<1>1. PICK b \in 0 .. 12, c \in 0 .. 12 : b = Capped(m, 12) /\ c = Capped(n, 12) /\ b <= c
  BY DEF Capped
<1>2. /\ CustomerValue(m) = (200 * (8 * b) + 12) \div 24
      /\ CustomerValue(n) = (200 * (8 * c) + 12) \div 24
  BY <1>1 DEF CustomerValue, Quantized
<1> QED
  BY <1>1, <1>2

LEMMA QueueNoLeapfrog == QueueInv => NoLeapfrog
<1> SUFFICES ASSUME QueueInv, NEW j \in Jobs, NEW k \in Jobs,
                    NEW t \in Technicians, NEW u \in Technicians,
                    NEW s1 \in SUBSET Skills, NEW s2 \in SUBSET Skills,
                    Exists(j), Exists(k), job[j].profile.priority = "urgent",
                    job[k].profile.priority \in {"low", "normal"},
                    Overdue(job[k].profile) = 0,
                    Revenue(job[k].work.revenue) <= Revenue(job[j].work.revenue),
                    CompletedJobs(job[k].customer) <= CompletedJobs(job[j].customer),
                    PartsAvailability(job[k].work.parts) <= PartsAvailability(job[j].work.parts)
             PROVE  Rank(j, t, s1) > Rank(k, u, s2)
  BY DEF NoLeapfrog
<1>1. \A i \in {j, k} :
        /\ job[i].profile \in Profiles /\ job[i].customer \in Customers
        /\ job[i].work.revenue \in RevenueClasses /\ IsFiniteSet(job[i].profile.skills)
  <2> SUFFICES ASSUME NEW i \in {j, k}
               PROVE  /\ job[i].profile \in Profiles /\ job[i].customer \in Customers
                      /\ job[i].work.revenue \in RevenueClasses
                      /\ IsFiniteSet(job[i].profile.skills)
    OBVIOUS
  <2>1. i \in Jobs /\ Exists(i)
    OBVIOUS
  <2>2. job[i].profile \in Profiles /\ job[i].customer \in Customers /\ job[i].work \in Work
    BY <2>1, JobTypes DEF Exists, JobOk
  <2>3. job[i].profile.skills \subseteq Skills
    BY <2>2 DEF Skills
  <2> QED
    BY <2>2, <2>3, WorkTypes, QueueAssumption, FS_Subset
<1>2. IsFiniteSet(s1) /\ IsFiniteSet(s2)
  BY QueueAssumption, FS_Subset
<1>3. PICK u1 \in Int : u1 = Urgency(job[j].profile.priority, Overdue(job[j].profile)) /\ u1 >= 4500
  <2>1. now \in 0 .. MaxNow
    BY DEF QueueInv, QueueTypeOK
  <2>2. Overdue(job[j].profile) \in Nat
    BY <1>1, <2>1, OverdueIsTime
  <2>3. "urgent" \in DOMAIN PriorityBase
    BY DEF PriorityBase
  <2> QED
    BY <2>2, <2>3, UrgencyBounds
<1>4. PICK u2 \in Int : u2 = Urgency(job[k].profile.priority, Overdue(job[k].profile)) /\ u2 <= 1750
  <2>1. {"low", "normal"} \subseteq DOMAIN PriorityBase /\ 0 \in Nat
    BY DEF PriorityBase
  <2> QED
    BY <2>1, UrgencyBounds
<1>5. PICK r1 \in Int, r2 \in Int :
        r1 = Revenue(job[j].work.revenue) /\ r2 = Revenue(job[k].work.revenue) /\ r2 <= r1
  <2>1. PICK x \in RevenueClasses, y \in RevenueClasses :
          x = job[j].work.revenue /\ y = job[k].work.revenue
    BY <1>1
  <2>2. PICK r1 \in Int : r1 = Revenue(x)
    BY RevenueSome
  <2>3. PICK r2 \in Int : r2 = Revenue(y)
    BY RevenueSome
  <2> QED
    BY <2>1, <2>2, <2>3
<1>6. PICK v1 \in Int, v2 \in Int :
        /\ v1 = CustomerValue(CompletedJobs(job[j].customer))
        /\ v2 = CustomerValue(CompletedJobs(job[k].customer)) /\ v2 <= v1
  <2>1. PICK m \in Nat, n \in Nat :
          m = CompletedJobs(job[k].customer) /\ n = CompletedJobs(job[j].customer) /\ m <= n
    BY <1>1, CompletedIsNat
  <2>2. PICK v1 \in 0 .. 800 : v1 = CustomerValue(n)
    BY LoyaltyBounds
  <2>3. PICK v2 \in 0 .. 800 : v2 = CustomerValue(m)
    BY LoyaltyBounds
  <2>4. v2 <= v1
    BY <2>1, <2>2, <2>3, LoyaltyGrows
  <2> QED
    BY <2>1, <2>2, <2>3, <2>4
<1>7. PICK p1 \in Int, p2 \in Int :
        /\ p1 = PartsAvailability(job[j].work.parts)
        /\ p2 = PartsAvailability(job[k].work.parts) /\ p2 <= p1
  BY PartsBounds
<1>8. PICK f1 \in Int : f1 = Fit(job[j].profile.skills, s1) /\ 0 <= f1
  BY <1>1, <1>2, FitBounds
<1>9. PICK f2 \in Int : f2 = Fit(job[k].profile.skills, s2) /\ f2 <= 1500
  BY <1>1, <1>2, FitBounds
<1>10. PICK w1 \in Int : w1 = Workload(ActiveJobs(t)) /\ -600 <= w1
  BY WorkloadBounds
<1>11. PICK w2 \in Int : w2 = Workload(ActiveJobs(u)) /\ w2 <= 0
  BY WorkloadBounds
<1>12. /\ Rank(j, t, s1) = u1 + r1 + v1 + p1 + 0 + f1 + w1
       /\ Rank(k, u, s2) = u2 + r2 + v2 + p2 + 0 + f2 + w2
  BY <1>3, <1>4, <1>5, <1>6, <1>7, <1>8, <1>9, <1>10, <1>11 DEF Rank, JobScore, Distance
<1>13. u1 + r1 + v1 + p1 + 0 + f1 + w1 > u2 + r2 + v2 + p2 + 0 + f2 + w2
  BY <1>3, <1>4, <1>5, <1>6, <1>7, <1>8, <1>9, <1>10, <1>11
<1> QED
  BY <1>12, <1>13

LEMMA QueuePingsBounded == QueueInv => PingsBounded /\ ShutOutForCause
<1>1. ASSUME QueueInv  PROVE PingsBounded
  <2> SUFFICES ASSUME NEW t \in Technicians, NEW start \in 0 .. MaxNow
               PROVE  Cardinality({n \in DOMAIN pings[t] :
                        /\ pings[t][n].redis = "answered"
                        /\ pings[t][n].at \in start .. (start + Window - 1)}) < 2 * Limit
    BY DEF PingsBounded
  <2>1. pings[t] \in Seq(Ping) /\ start \in Nat
    BY <1>1, PingTypes
  <2>2. PICK g : Windows(g, limiter[t], pings[t], now)
    BY <1>1, PingTypes DEF FitWindows
  <2> QED
    BY <2>1, <2>2, SpanTouchesTwo
<1>2. ASSUME QueueInv  PROVE ShutOutForCause
  <2> SUFFICES ASSUME NEW t \in Technicians, limiter[t].count >= Limit
               PROVE  Cardinality({n \in DOMAIN pings[t] :
                        pings[t][n].redis # "down" /\ pings[t][n].at > now - Window}) >= Limit
    BY DEF ShutOutForCause
  <2>1. /\ limiter[t] \in [count : Nat, ttl : 0 .. Window]
        /\ pings[t] \in Seq(Ping) /\ now \in Nat
    BY <1>2, PingTypes
  <2>2. PICK g : Windows(g, limiter[t], pings[t], now)
    BY <1>2, PingTypes DEF FitWindows
  <2> QED
    BY <2>1, <2>2, FullWindow
<1> QED
  BY <1>1, <1>2

(* In any span as long as a window Redis lets fewer than twice the limit of a *)
(* technician's pings through, and nobody is shut out whose pings of the last *)
(* window did not reach the limit: rate_limit.py.                           *)
THEOREM QueueKept == QueueSpec => []QueueConsistent
<1>1. QueueInv => QueueConsistent
  BY QueuePingsBounded DEF QueueInv, QueueConsistent
<1> QED
  BY <1>1, QueueInvHolds, PTL

(* No technician's skill or leisure lifts a routine job over an emergency    *)
(* that is no smaller, in any state of the queue: dispatch.py.              *)
THEOREM SkillDoesNotLeapfrog == QueueSpec => []NoLeapfrog
BY QueueInvHolds, QueueNoLeapfrog, PTL

(* A cached emergency's score exceeds that of routine work with no better a  *)
(* claim, whatever changed between the reads the scores were made of.        *)
THEOREM UrgentFirst == QueueSpec => []UrgentOutranks
BY QueueInvHolds, QueueOutranks, PTL

(* The start of a job is written once and before its completion, whoever     *)
(* writes the row in between: jobs.py.                                      *)
THEOREM StartsKept == QueueSpec => StartKept
<1> DEFINE Kept == \A j \in Jobs :
             /\ job[j].started # Null => job'[j].started = job[j].started
             /\ job'[j].status = "completed" => job'[j].started # Null
<1>1. ASSUME QueueInv, QueueInv', [QueueNext]_queueVars
      PROVE  [Kept]_queueVars
  <2> SUFFICES ASSUME QueueNext, NEW j \in Jobs
               PROVE  /\ job[j].started # Null => job'[j].started = job[j].started
                      /\ job'[j].status = "completed" => job'[j].started # Null
    BY <1>1 DEF Kept
  <2>1. job'[j].status = "completed" => job'[j].started # Null
    BY <1>1 DEF QueueInv, JobsOk, JobOk
  <2>2. /\ job \in [Jobs -> Job] /\ job[j] \in Job /\ JobOk(job[j])
    BY <1>1, JobTypes
  <2>3. ASSUME NEW k \in Jobs, NEW row, job' = [job EXCEPT ![k] = row],
               job[k].started # Null => row.started = job[k].started,
               job[j].started # Null
        PROVE  job'[j].started = job[j].started
    BY <2>2, <2>3
  <2> SUFFICES ASSUME job[j].started # Null  PROVE job'[j].started = job[j].started
    BY <2>1
  <2>4. CASE UNCHANGED job
    BY <2>4
  <2>5. ASSUME NEW k \in Jobs, NEW c \in Customers, NEW p \in Profiles, CreateJob(k, c, p)
        PROVE  job'[j].started = job[j].started
    <3>1. JobOk(job[k]) /\ job[k].status = "none"
      BY <1>1, <2>5, JobTypes DEF CreateJob, Exists
    <3>2. job[k].started = Null
      BY <3>1 DEF JobOk
    <3> QED
      BY <2>3, <2>5, <3>2 DEF CreateJob
  <2>6. ASSUME NEW k \in Jobs, NEW p \in Profiles, UpdateJob(k, p)
        PROVE  job'[j].started = job[j].started
    <3>1. job[k] \in Job
      BY <1>1, JobTypes
    <3>2. [job[k] EXCEPT !.profile = p].started = job[k].started
      BY <3>1 DEF Job
    <3> QED
      BY <2>3, <2>6, <3>2 DEF UpdateJob
  <2>7. ASSUME NEW k \in Jobs, NEW work \in Works, LinesChange(k, work)
        PROVE  job'[j].started = job[j].started
    <3>1. job[k] \in Job
      BY <1>1, JobTypes
    <3>2. [job[k] EXCEPT !.work = work].started = job[k].started
      BY <3>1 DEF Job
    <3> QED
      BY <2>3, <2>7, <3>2 DEF LinesChange
  <2>8. ASSUME NEW k \in Jobs, NEW target \in JobStatus, SetStatus(k, target)
        PROVE  job'[j].started = job[j].started
    <3>1. job[k] \in Job
      BY <1>1, JobTypes
    <3>2. job[k].started # Null => Started(k, target) = job[k].started
      BY <1>1, <2>8, StartWritten DEF SetStatus
    <3>3. [job[k] EXCEPT !.status = target, !.started = Started(k, target)].started
            = Started(k, target)
      BY <3>1 DEF Job
    <3> QED
      BY <2>3, <2>8, <3>2, <3>3 DEF SetStatus
  <2>9. ASSUME NEW w \in Handlers, AssignWrites(w)
        PROVE  job'[j].started = job[j].started
    <3> DEFINE k == request[w].job
    <3>1. k \in Jobs
      BY <1>1, <2>9, AskedTypes DEF AssignWrites
    <3>2. job[k] \in Job
      BY <1>1, <3>1, JobTypes
    <3>3. [job[k] EXCEPT !.tech = request[w].tech].started = job[k].started
      BY <3>2 DEF Job
    <3>4. job' = [job EXCEPT ![k] = [job[k] EXCEPT !.tech = request[w].tech]]
      BY <2>9 DEF AssignWrites
    <3> HIDE DEF k
    <3> QED
      BY <2>3, <3>1, <3>3, <3>4
  <2>10. ASSUME NEW w \in Handlers, ScoreWrites(w)
         PROVE  job'[j].started = job[j].started
    <3> DEFINE k == request[w].job
               row == job'[k]
    <3>1. k \in Jobs
      BY <1>1, <2>10, AskedTypes DEF ScoreWrites
    <3>2. job[k] \in Job
      BY <1>1, <3>1, JobTypes
    <3>3. job'[k].started = job[k].started /\ \A i \in Jobs : i # k => job'[i] = job[i]
      BY <2>2, <2>10, <3>1, <3>2 DEF ScoreWrites, Job
    <3> QED
      BY <3>3
  <2> QED
    BY <2>4, <2>5, <2>6, <2>7, <2>8, <2>9, <2>10
    DEF QueueNext, TimePasses, SetActive, ScoreLooks, AssignLooks, PingCounts, PingWrites
<1>2. QueueInv /\ QueueInv' /\ [QueueNext]_queueVars => [Kept]_queueVars
  BY <1>1
<1>3. QueueSpec => [][Kept]_queueVars
  BY <1>2, QueueInvHolds, PTL DEF QueueSpec
<1> QED
  BY <1>3 DEF StartKept

-----------------------------------------------------------------------------
(* Billing: payments, sweeps and Connect.                                   *)

(* A sweep holds what it found, and it is still due; a payment that waits    *)
(* for its provider holds its invoice.                                       *)
SweepsOk ==
  \A w \in Workers :
    /\ sweep[w].stage = "idle" => sweep[w].found = {}
    /\ \A i \in sweep[w].found : lock[i] = w /\ Due(i, Cutoff(w))

IntentsOk ==
  \A p \in Payments : crypto[p].status # "none" =>
    /\ crypto[p].of \in Invoices
    /\ crypto[p].status = "asking" => lock[crypto[p].of] = p

(* How the money of a payment may have been applied: by the webhook before   *)
(* Stripe, never after it.                                                   *)
BeforeStripe == {<<>>, <<"webhook">>}

Ways == BeforeStripe \union {<<"stripe">>, <<"webhook", "stripe">>}

(* What the events of a payment may still do to it.                          *)
CreditsOk ==
  \A p \in Payments :
    /\ credited[p] \in Ways
    /\ crypto[p].status \in {"none", "asking", "pending"} => credited[p] = <<>>
    /\ crypto[p].status = "confirmed" => credited[p] # <<>>
    /\ [about |-> p, type |-> Completed] \notin applied => credited[p] \in BeforeStripe

EventsOk ==
  \A e \in sent : e \in PaymentEvents => crypto[e.about].status \notin {"none", "asking"}

IInv == TypeOK /\ SweepsOk /\ IntentsOk /\ CreditsOk /\ EventsOk

USE BillingAssumption

-----------------------------------------------------------------------------
LEMMA InitEstablishes == Init => IInv
<1> SUFFICES ASSUME Init  PROVE IInv
  OBVIOUS
<1>1. TypeOK
  BY DEF Init, TypeOK, Invoice, CryptoPayment, NoPayment, Sweep, NoSweep, None
<1>2. SweepsOk /\ IntentsOk /\ CreditsOk /\ EventsOk
  BY DEF Init, SweepsOk, IntentsOk, CreditsOk, EventsOk, NoPayment, NoSweep, Ways, BeforeStripe
<1> QED
  BY <1>1, <1>2 DEF IInv

(* Whoever holds a lock is one payment or one sweep.                         *)
LEMMA NotBoth ==
  /\ None \notin Payments /\ None \notin Workers
  /\ \A p \in Payments, w \in Workers : p # w
  BY BillingAssumption DEF None

LEMMA Holders ==
  ASSUME IInv, NEW i \in Invoices
  PROVE  lock[i] = None => /\ \A w \in Workers : i \notin sweep[w].found
                           /\ \A p \in Payments : crypto[p].status = "asking" => crypto[p].of # i
<1>1. None \notin Payments /\ None \notin Workers
  BY NotBoth
<1>2. \A w \in Workers : \A k \in sweep[w].found : lock[k] = w
  BY DEF IInv, SweepsOk
<1>3. \A p \in Payments : crypto[p].status = "asking" => lock[crypto[p].of] = p
  BY DEF IInv, IntentsOk
<1> QED
  BY <1>1, <1>2, <1>3

(* The invariant one sweep, one payment and one event at a time.             *)
LEMMA Parts ==
  ASSUME IInv
  PROVE  /\ \A w \in Workers : sweep[w] \in Sweep /\ sweep[w].found \subseteq Invoices
         /\ \A e \in sent : e \in PaymentEvents => e.about \in Payments
         /\ \A p \in Payments : crypto[p] \in CryptoPayment
         /\ \A i \in Invoices : invoice[i] \in Invoice
  BY DEF IInv, TypeOK, Sweep, PaymentEvents

(* Sweeps mind the locks they hold and what makes an invoice due.            *)
LEMMA SweepsUntouched ==
  ASSUME IInv, UNCHANGED sweep,
         \A w \in Workers : \A i \in sweep[w].found :
           /\ lock'[i] = lock[i] /\ invoice'[i].status = invoice[i].status
           /\ invoice'[i].paid = invoice[i].paid /\ invoice'[i].reminded = invoice[i].reminded
  PROVE  SweepsOk'
  BY DEF IInv, SweepsOk, Due, Cutoff, Balance

LEMMA EventsUntouched ==
  ASSUME IInv, UNCHANGED sent,
         \A q \in Payments : crypto[q].status \notin {"none", "asking"} =>
           crypto'[q].status \notin {"none", "asking"}
  PROVE  EventsOk'
  BY Parts DEF IInv, EventsOk

-----------------------------------------------------------------------------
(* Payments.                                                                 *)

LEMMA IntentAsksKeeps ==
  ASSUME IInv, NEW p \in Payments, NEW i \in Invoices, NEW a \in 1 .. Total,
         IntentAsks(p, i, a)
  PROVE  IInv'
<1> DEFINE new == [status |-> "asking", of |-> i, amount |-> a]
<1>1. /\ crypto[p].status = "none" /\ lock[i] = None /\ budget' \in Nat
      /\ crypto' = Set(crypto, p, new) /\ lock' = Set(lock, i, p)
      /\ UNCHANGED <<invoice, sent, applied, credited>>
      /\ UNCHANGED <<clock, sweep, onboard, account, sub, mailed>>
  BY DEF IntentAsks, Least, Event, Rest, IInv, TypeOK
<1>2. new \in CryptoPayment /\ new.status = "asking" /\ new.of = i
  BY DEF CryptoPayment
<1> HIDE DEF new
<1>3. /\ crypto' \in [Payments -> CryptoPayment] /\ crypto'[p] = new
      /\ \A q \in Payments \ {p} : crypto'[q] = crypto[q]
  BY <1>1, <1>2 DEF IInv, TypeOK, Set
<1>4. /\ lock' \in [Invoices -> Payments \union Workers \union {None}] /\ lock'[i] = p
      /\ \A k \in Invoices \ {i} : lock'[k] = lock[k]
  BY <1>1 DEF IInv, TypeOK, Set
<1>5. TypeOK'
  BY <1>1, <1>3, <1>4 DEF IInv, TypeOK
<1>6. SweepsOk'
  BY <1>1, <1>4, Holders, Parts, SweepsUntouched
<1>7. IntentsOk'
  <2>1. \A q \in Payments \ {p} : crypto[q].status = "asking" => crypto[q].of # i
    BY <1>1, Holders
  <2> SUFFICES ASSUME NEW q \in Payments, crypto'[q].status # "none"
               PROVE  /\ crypto'[q].of \in Invoices
                      /\ crypto'[q].status = "asking" => lock'[crypto'[q].of] = q
    BY DEF IntentsOk
  <2>2. CASE q = p
    BY <1>2, <1>3, <1>4, <2>2
  <2>3. CASE q # p
    <3>1. crypto'[q] = crypto[q] /\ q \in Payments \ {p}
      BY <1>3, <2>3
    <3>2. crypto[q].of \in Invoices /\ (crypto[q].status = "asking" => lock[crypto[q].of] = q)
      BY <3>1 DEF IInv, IntentsOk
    <3> QED
      BY <1>4, <2>1, <3>1, <3>2
  <2> QED
    BY <2>2, <2>3
<1>8. CreditsOk'
  BY <1>1, <1>2, <1>3 DEF IInv, CreditsOk
<1>9. EventsOk'
  BY <1>1, <1>3, EventsUntouched
<1> QED
  BY <1>5, <1>6, <1>7, <1>8, <1>9 DEF IInv

LEMMA IntentAnsweredKeeps ==
  ASSUME IInv, NEW p \in Payments, IntentAnswered(p)
  PROVE  IInv'
<1> DEFINE i == crypto[p].of
<1>1. /\ crypto[p].status = "asking" /\ lock' = Set(lock, i, None)
      /\ UNCHANGED <<sent, applied, credited, budget>>
      /\ UNCHANGED <<clock, sweep, onboard, account, sub, mailed>>
  BY DEF IntentAnswered, Rest
<1>2. i \in Invoices /\ lock[i] = p /\ crypto[p] \in CryptoPayment /\ invoice[i] \in Invoice
  BY <1>1 DEF IInv, IntentsOk, TypeOK
<1>3. /\ lock' \in [Invoices -> Payments \union Workers \union {None}] /\ lock'[i] = None
      /\ \A k \in Invoices \ {i} : lock'[k] = lock[k]
  BY <1>1, <1>2 DEF IInv, TypeOK, Set
<1>4. PICK new \in CryptoPayment :
        /\ crypto' = Set(crypto, p, new)
        /\ \/ new.status = "none"
           \/ new.status = "pending" /\ new.of = i
  <2>1. NoPayment \in CryptoPayment /\ NoPayment.status = "none"
    BY DEF NoPayment, CryptoPayment, None
  <2> DEFINE stamped == [crypto[p] EXCEPT !.status = "pending"]
  <2>2. /\ stamped \in CryptoPayment /\ stamped.status = "pending" /\ stamped.of = i
    BY <1>2 DEF CryptoPayment
  <2>3. crypto' = Set(crypto, p, stamped) \/ crypto' = Set(crypto, p, NoPayment)
    BY DEF IntentAnswered
  <2> HIDE DEF stamped
  <2> QED
    BY <2>1, <2>2, <2>3
<1>5. /\ crypto' \in [Payments -> CryptoPayment] /\ crypto'[p] = new
      /\ \A q \in Payments \ {p} : crypto'[q] = crypto[q]
  BY <1>4 DEF IInv, TypeOK, Set
<1>6. /\ invoice' \in [Invoices -> Invoice]
      /\ \A k \in Invoices : /\ invoice'[k].status = invoice[k].status
                            /\ invoice'[k].paid = invoice[k].paid
                            /\ invoice'[k].reminded = invoice[k].reminded
  <2> DEFINE stamped == [invoice[i] EXCEPT !.checkout = p]
  <2>1. /\ stamped \in Invoice /\ stamped.status = invoice[i].status
        /\ stamped.paid = invoice[i].paid /\ stamped.reminded = invoice[i].reminded
    BY <1>2 DEF Invoice
  <2>2. invoice' = Set(invoice, i, stamped) \/ invoice' = invoice
    BY DEF IntentAnswered
  <2>3. invoice \in [Invoices -> Invoice]
    BY DEF IInv, TypeOK
  <2> HIDE DEF stamped
  <2> QED
    BY <1>2, <2>1, <2>2, <2>3 DEF Set
<1>7. TypeOK'
  BY <1>1, <1>3, <1>5, <1>6 DEF IInv, TypeOK
<1>8. SweepsOk'
  <2>1. \A w \in Workers : i \notin sweep[w].found
    BY <1>2, NotBoth DEF IInv, SweepsOk
  <2> QED
    BY <1>1, <1>3, <1>6, <2>1, Parts, SweepsUntouched
<1>9. IntentsOk'
  <2>1. \A q \in Payments \ {p} : crypto[q].status = "asking" => crypto[q].of # i
    BY <1>2 DEF IInv, IntentsOk
  <2> SUFFICES ASSUME NEW q \in Payments, crypto'[q].status # "none"
               PROVE  /\ crypto'[q].of \in Invoices
                      /\ crypto'[q].status = "asking" => lock'[crypto'[q].of] = q
    BY DEF IntentsOk
  <2>2. CASE q = p
    BY <1>2, <1>4, <1>5, <2>2
  <2>3. CASE q # p
    <3>1. crypto'[q] = crypto[q] /\ q \in Payments \ {p}
      BY <1>5, <2>3
    <3>2. crypto[q].of \in Invoices /\ (crypto[q].status = "asking" => lock[crypto[q].of] = q)
      BY <3>1 DEF IInv, IntentsOk
    <3> QED
      BY <1>3, <2>1, <3>1, <3>2
  <2> QED
    BY <2>2, <2>3
<1>10. CreditsOk'
  BY <1>1, <1>4, <1>5 DEF IInv, CreditsOk
<1>11. EventsOk'
  BY <1>1, <1>5, EventsUntouched
<1> QED
  BY <1>7, <1>8, <1>9, <1>10, <1>11 DEF IInv

LEMMA ProcessorSendsKeeps ==
  ASSUME IInv, NEW p \in Payments, NEW type \in Confirmed \union Ended \union {Completed},
         ProcessorSends(p, type)
  PROVE  IInv'
<1> DEFINE new == [about |-> p, type |-> type]
<1>1. /\ crypto[p].status \notin {"none", "asking"} /\ sent' = sent \union {new}
      /\ budget' \in Nat
      /\ UNCHANGED <<invoice, lock, crypto, applied, credited>>
      /\ UNCHANGED <<clock, sweep, onboard, account, sub, mailed>>
  BY DEF ProcessorSends, Event, Rest, IInv, TypeOK
<1>2. new \in PaymentEvents /\ new.about = p /\ new.type = type
  BY DEF PaymentEvents
<1> HIDE DEF new
<1>3. TypeOK'
  BY <1>1, <1>2 DEF IInv, TypeOK
<1>4. SweepsOk' /\ IntentsOk' /\ CreditsOk'
  BY <1>1 DEF IInv, SweepsOk, IntentsOk, CreditsOk, Due, Cutoff, Balance
<1>5. EventsOk'
  BY <1>1, <1>2 DEF IInv, EventsOk
<1> QED
  BY <1>3, <1>4, <1>5 DEF IInv

Rails == {"webhook", "stripe"}

LEMMA WaysAreSequences == Ways \subseteq Seq(Rails)
<1>1. /\ <<>> \in Seq(Rails) /\ <<"webhook">> \in Seq(Rails) /\ <<"stripe">> \in Seq(Rails)
      /\ <<"webhook", "stripe">> \in Seq(Rails)
  BY DEF Rails
<1> QED
  BY <1>1 DEF Ways, BeforeStripe

LEMMA AppendRail ==
  ASSUME NEW s \in Seq(Rails), NEW e \in Rails
  PROVE  /\ Append(s, e) \in Seq(Rails) /\ Len(Append(s, e)) = Len(s) + 1
         /\ \A k \in 1 .. Len(s) : Append(s, e)[k] = s[k]
         /\ Append(s, e)[Len(s) + 1] = e
  BY AppendProperties

LEMMA OneMoreWay ==
  /\ Append(<<>>, "webhook") = <<"webhook">> /\ Append(<<>>, "stripe") = <<"stripe">>
  /\ Append(<<"webhook">>, "stripe") = <<"webhook", "stripe">>
<1>1. \A by \in Rails : Append(<<>>, by) = <<by>>
  <2> SUFFICES ASSUME NEW by \in Rails  PROVE Append(<<>>, by) = <<by>>
    OBVIOUS
  <2>1. <<>> \in Seq(Rails) /\ Len(<<>>) = 0
    OBVIOUS
  <2>2. /\ Append(<<>>, by) \in Seq(Rails) /\ Len(Append(<<>>, by)) = 1
        /\ Append(<<>>, by)[1] = by
    BY <2>1, AppendProperties
  <2>3. <<by>> \in Seq(Rails) /\ Len(<<by>>) = 1 /\ <<by>>[1] = by
    OBVIOUS
  <2>4. \A k \in 1 .. Len(Append(<<>>, by)) : Append(<<>>, by)[k] = <<by>>[k]
    BY <2>2, <2>3
  <2> QED
    BY <2>2, <2>3, <2>4, SeqEqual
<1>2. Append(<<"webhook">>, "stripe") = <<"webhook", "stripe">>
  <2> DEFINE one == <<"webhook">>
             two == <<"webhook", "stripe">>
  <2>1. one \in Seq(Rails) /\ Len(one) = 1 /\ one[1] = "webhook" /\ "stripe" \in Rails
    BY DEF Rails
  <2>2. two \in Seq(Rails) /\ Len(two) = 2 /\ two[1] = "webhook" /\ two[2] = "stripe"
    BY DEF Rails
  <2> HIDE DEF one, two
  <2>3. /\ Append(one, "stripe") \in Seq(Rails) /\ Len(Append(one, "stripe")) = 2
        /\ Append(one, "stripe")[1] = "webhook" /\ Append(one, "stripe")[2] = "stripe"
    <3>1. /\ Append(one, "stripe") \in Seq(Rails) /\ Len(Append(one, "stripe")) = Len(one) + 1
          /\ \A k \in 1 .. Len(one) : Append(one, "stripe")[k] = one[k]
          /\ Append(one, "stripe")[Len(one) + 1] = "stripe"
      <4>1. one \in Seq(Rails) /\ "stripe" \in Rails
        BY <2>1
      <4> QED
        BY <4>1, AppendRail
    <3>2. Len(one) + 1 = 2 /\ 1 \in 1 .. Len(one)
      BY <2>1
    <3> QED
      BY <2>1, <3>1, <3>2, Zenon
  <2>4. \A k \in 1 .. Len(Append(one, "stripe")) : Append(one, "stripe")[k] = two[k]
    BY <2>2, <2>3
  <2>5. Append(one, "stripe") = two
    BY <2>2, <2>3, <2>4, SeqEqual
  <2> QED
    BY <2>5 DEF one, two
<1> QED
  BY <1>1, <1>2 DEF Rails

LEMMA LengthOfWay ==
  /\ Len(<<>>) = 0 /\ Len(<<"webhook">>) = 1 /\ Len(<<"stripe">>) = 1
  /\ Len(<<"webhook", "stripe">>) = 2
  OBVIOUS

(* An event of a payment, and what it may make of the payment.               *)
LEMMA PaymentEventKeeps ==
  ASSUME IInv, NEW p \in Payments, NEW e \in sent, NEW new \in CryptoPayment, NEW c \in Ways,
         applied' = applied \union {e}, UNCHANGED <<lock, sent, budget>>, UNCHANGED Rest,
         crypto[p].status \notin {"none", "asking"},
         crypto' = Set(crypto, p, new), new.of = crypto[p].of,
         new.status \notin {"none", "asking"},
         credited' = Set(credited, p, c),
         new.status = "pending" => c = <<>>, new.status = "confirmed" => c # <<>>,
         [about |-> p, type |-> Completed] \notin applied' => c \in BeforeStripe,
         invoice' \in [Invoices -> Invoice],
         \A i \in Invoices : lock[i] = None \/ invoice'[i] = invoice[i]
  PROVE  IInv'
<1>1. UNCHANGED <<clock, sweep, onboard, account, sub, mailed>>
  BY DEF Rest
<1>2. /\ crypto' \in [Payments -> CryptoPayment] /\ crypto'[p] = new
      /\ \A q \in Payments \ {p} : crypto'[q] = crypto[q]
  BY DEF IInv, TypeOK, Set
<1>3. /\ credited' \in [Payments -> Seq(Rails)] /\ credited'[p] = c
      /\ \A q \in Payments \ {p} : credited'[q] = credited[q]
  BY WaysAreSequences DEF IInv, TypeOK, Set, Rails
<1>4. TypeOK'
  BY <1>1, <1>2, <1>3 DEF IInv, TypeOK, Rails
<1>5. SweepsOk'
  <2>1. \A w \in Workers : \A i \in sweep[w].found : i \in Invoices /\ lock[i] # None
    <3> SUFFICES ASSUME NEW w \in Workers, NEW i \in sweep[w].found
                 PROVE  i \in Invoices /\ lock[i] # None
      OBVIOUS
    <3>1. lock[i] = w /\ w # None
      BY NotBoth DEF IInv, SweepsOk
    <3> QED
      BY <3>1, Parts
  <2> QED
    BY <1>1, <2>1, SweepsUntouched
<1>6. IntentsOk'
  <2> SUFFICES ASSUME NEW q \in Payments, crypto'[q].status # "none"
               PROVE  /\ crypto'[q].of \in Invoices
                      /\ crypto'[q].status = "asking" => lock'[crypto'[q].of] = q
    BY DEF IntentsOk
  <2>1. crypto[q].status # "none" => /\ crypto[q].of \in Invoices
                                     /\ crypto[q].status = "asking" => lock[crypto[q].of] = q
    BY DEF IInv, IntentsOk
  <2>2. CASE q = p
    BY <1>2, <2>1, <2>2
  <2>3. CASE q # p
    BY <1>2, <2>1, <2>3
  <2> QED
    BY <2>2, <2>3
<1>7. CreditsOk'
  <2> SUFFICES ASSUME NEW q \in Payments
               PROVE  /\ credited'[q] \in Ways
                      /\ crypto'[q].status \in {"none", "asking", "pending"} =>
                           credited'[q] = <<>>
                      /\ crypto'[q].status = "confirmed" => credited'[q] # <<>>
                      /\ [about |-> q, type |-> Completed] \notin applied' =>
                           credited'[q] \in BeforeStripe
    BY DEF CreditsOk
  <2>1. CASE q = p
    BY <1>2, <1>3, <2>1
  <2>2. CASE q # p
    BY <1>2, <1>3, <2>2 DEF IInv, CreditsOk
  <2> QED
    BY <2>1, <2>2
<1>8. EventsOk'
  BY <1>2, EventsUntouched
<1> QED
  BY <1>4, <1>5, <1>6, <1>7, <1>8 DEF IInv

(* What MarkPaid leaves: an invoice no sweep holds has changed.              *)
LEMMA MarkPaidTypes ==
  ASSUME IInv, NEW p \in Payments, NEW by, crypto[p].status # "none", MarkPaid(p, by)
  PROVE  /\ invoice' \in [Invoices -> Invoice]
         /\ \A i \in Invoices : lock[i] = None \/ invoice'[i] = invoice[i]
         /\ credited' = Set(credited, p, Append(credited[p], by))
<1> DEFINE i == crypto[p].of
           paid == NowPaid(i, crypto[p].amount)
           target == IF paid >= Total THEN "paid" ELSE "partial"
           new == [invoice[i] EXCEPT !.status = target, !.paid = paid, !.checkout = p]
<1>1. i \in Invoices /\ invoice[i] \in Invoice /\ crypto[p].amount \in 0 .. Total
  BY DEF IInv, IntentsOk, TypeOK, CryptoPayment
<1>2. paid \in 0 .. Total /\ target \in {"paid", "partial"}
  BY <1>1 DEF NowPaid, Smaller, Invoice
<1>3. lock[i] = None /\ invoice' = Set(invoice, i, new)
      /\ credited' = Set(credited, p, Append(credited[p], by))
  BY DEF MarkPaid
<1> HIDE DEF paid, target
<1>4. new \in Invoice
  BY <1>1, <1>2 DEF Invoice
<1> HIDE DEF new, i
<1>5. /\ invoice' \in [Invoices -> Invoice]
      /\ \A k \in Invoices \ {i} : invoice'[k] = invoice[k]
  BY <1>1, <1>3, <1>4 DEF IInv, TypeOK, Set
<1> QED
  BY <1>3, <1>5

(* What IInv says of the event that arrives.                                 *)
LEMMA Arrival ==
  ASSUME IInv, NEW p \in Payments, NEW types, Fresh(p, types)
  PROVE  \E e \in sent \ applied :
           /\ e \in PaymentEvents /\ e = [about |-> p, type |-> e.type] /\ e.type \in types
           /\ applied' = applied \union {e}
           /\ crypto[p].status \notin {"none", "asking"}
<1>1. PICK e \in sent \ applied : /\ e \in PaymentEvents /\ e.about = p /\ e.type \in types
                                  /\ applied' = applied \union {e}
  BY DEF Fresh
<1>2. e = [about |-> p, type |-> e.type]
  BY <1>1 DEF PaymentEvents
<1>3. crypto[p].status \notin {"none", "asking"}
  BY <1>1 DEF IInv, EventsOk
<1> QED
  BY <1>1, <1>2, <1>3

LEMMA StripeConfirmsKeeps ==
  ASSUME IInv, NEW p \in Payments, StripeConfirms(p)
  PROVE  IInv'
<1> DEFINE confirmed == [crypto[p] EXCEPT !.status = "confirmed"]
           c == Append(credited[p], "stripe")
<1>1. PICK e \in sent \ applied :
        /\ e = [about |-> p, type |-> Completed] /\ applied' = applied \union {e}
        /\ crypto[p].status \notin {"none", "asking"}
  BY Arrival DEF StripeConfirms
<1>2. crypto[p] \in CryptoPayment
  BY DEF IInv, TypeOK
<1>3. credited[p] \in BeforeStripe
  BY <1>1 DEF IInv, CreditsOk
<1>4. /\ MarkPaid(p, "stripe")
      /\ crypto' = IF crypto[p].status = "pending" THEN Set(crypto, p, confirmed) ELSE crypto
      /\ UNCHANGED <<lock, sent, budget>> /\ UNCHANGED Rest
  BY DEF StripeConfirms
<1>5. confirmed \in CryptoPayment /\ confirmed.status = "confirmed" /\ confirmed.of = crypto[p].of
  BY <1>2 DEF CryptoPayment
<1>6. crypto = Set(crypto, p, crypto[p])
  BY DEF IInv, TypeOK, Set
<1> HIDE DEF confirmed
<1>7. PICK new \in CryptoPayment :
        /\ crypto' = Set(crypto, p, new) /\ new.of = crypto[p].of
        /\ new.status \notin {"none", "asking", "pending"}
  <2>1. CASE crypto[p].status = "pending"
    BY <1>4, <1>5, <2>1
  <2>2. CASE crypto[p].status # "pending"
    BY <1>1, <1>2, <1>4, <1>6, <2>2
  <2> QED
    BY <2>1, <2>2
<1>8. c \in Ways /\ c # <<>>
  <2>1. c \in {<<"stripe">>, <<"webhook", "stripe">>}
    BY <1>3, OneMoreWay DEF BeforeStripe
  <2>2. <<"stripe">> # <<>> /\ <<"webhook", "stripe">> # <<>>
    BY LengthOfWay
  <2> QED
    BY <2>1, <2>2 DEF Ways
<1>9. /\ credited' = Set(credited, p, c) /\ invoice' \in [Invoices -> Invoice]
      /\ \A i \in Invoices : lock[i] = None \/ invoice'[i] = invoice[i]
  BY <1>1, <1>4, MarkPaidTypes
<1> HIDE DEF c
<1>10. e \in sent /\ [about |-> p, type |-> Completed] \in applied'
  BY <1>1
<1> QED
  BY <1>1, <1>4, <1>7, <1>8, <1>9, <1>10, PaymentEventKeeps

(* An event of a payment that leaves its money alone.                        *)
LEMMA PaymentUncredited ==
  ASSUME IInv, NEW p \in Payments, NEW e \in sent, NEW new \in CryptoPayment,
         applied' = applied \union {e}, UNCHANGED <<lock, sent, budget, invoice, credited>>,
         UNCHANGED Rest, crypto[p].status \notin {"none", "asking"},
         crypto' = Set(crypto, p, new), new.of = crypto[p].of,
         new = crypto[p] \/ new.status \in {"failed", "expired"}
  PROVE  IInv'
<1> DEFINE c == credited[p]
<1>1. /\ c \in Ways /\ (crypto[p].status = "pending" => c = <<>>)
      /\ crypto[p].status = "confirmed" => c # <<>>
      /\ [about |-> p, type |-> Completed] \notin applied => c \in BeforeStripe
  BY DEF IInv, CreditsOk
<1>2. credited' = Set(credited, p, c) /\ invoice' \in [Invoices -> Invoice]
      /\ \A i \in Invoices : lock[i] = None \/ invoice'[i] = invoice[i]
  BY DEF IInv, TypeOK, Set
<1> HIDE DEF c
<1>3. /\ new.status = "pending" => c = <<>>
      /\ new.status = "confirmed" => c # <<>>
      /\ new.status \notin {"none", "asking"}
      /\ [about |-> p, type |-> Completed] \notin applied' => c \in BeforeStripe
  BY <1>1
<1>4. UNCHANGED <<lock, sent, budget>>
  OBVIOUS
<1> QED
  BY <1>1, <1>2, <1>3, <1>4, PaymentEventKeeps

LEMMA ProcessorConfirmsKeeps ==
  ASSUME IInv, NEW p \in Payments, ProcessorConfirms(p)
  PROVE  IInv'
<1> DEFINE new == [crypto[p] EXCEPT !.status = "confirmed"]
<1>1. PICK e \in sent \ applied :
        applied' = applied \union {e} /\ crypto[p].status \notin {"none", "asking"}
  BY Arrival DEF ProcessorConfirms
<1>2. crypto[p] \in CryptoPayment /\ invoice \in [Invoices -> Invoice]
      /\ UNCHANGED <<lock, sent, budget>> /\ UNCHANGED Rest
  BY DEF IInv, TypeOK, ProcessorConfirms
<1>3. CASE crypto[p].status = "pending"
  <2>1. MarkPaid(p, "webhook") /\ crypto' = Set(crypto, p, new) /\ credited[p] = <<>>
    BY <1>3 DEF ProcessorConfirms, IInv, CreditsOk
  <2>2. new \in CryptoPayment /\ new.status = "confirmed" /\ new.of = crypto[p].of
    BY <1>2 DEF CryptoPayment
  <2> HIDE DEF new
  <2>3. /\ credited' = Set(credited, p, <<"webhook">>)
        /\ invoice' \in [Invoices -> Invoice]
        /\ \A i \in Invoices : lock[i] = None \/ invoice'[i] = invoice[i]
    BY <1>1, <2>1, MarkPaidTypes, OneMoreWay
  <2>4. <<"webhook">> \in BeforeStripe /\ <<"webhook">> \in Ways /\ <<"webhook">> # <<>>
    BY LengthOfWay DEF Ways, BeforeStripe
  <2> QED
    BY <1>1, <1>2, <2>1, <2>2, <2>3, <2>4, PaymentEventKeeps
<1>4. CASE crypto[p].status # "pending"
  <2>1. UNCHANGED <<crypto, invoice, credited>>
    BY <1>4 DEF ProcessorConfirms
  <2> QED
    <3>1. crypto' = Set(crypto, p, crypto[p]) /\ UNCHANGED <<lock, sent, budget, invoice, credited>>
      BY <1>2, <2>1 DEF IInv, TypeOK, Set
    <3> QED
      BY <1>1, <1>2, <3>1, PaymentUncredited
<1> QED
  BY <1>3, <1>4

LEMMA ProcessorEndsKeeps ==
  ASSUME IInv, NEW p \in Payments, ProcessorEnds(p)
  PROVE  IInv'
<1>1. PICK s \in {"failed", "expired"} :
        /\ Fresh(p, Ended) /\ crypto' = Set(crypto, p, [crypto[p] EXCEPT !.status = s])
  BY DEF ProcessorEnds, Fresh, Ended
<1> DEFINE new == [crypto[p] EXCEPT !.status = s]
<1>2. PICK e \in sent \ applied :
        applied' = applied \union {e} /\ crypto[p].status \notin {"none", "asking"}
  BY <1>1, Arrival
<1>3. crypto[p] \in CryptoPayment
  BY DEF IInv, TypeOK
<1>4. new \in CryptoPayment /\ new.status = s /\ new.of = crypto[p].of
      /\ crypto' = Set(crypto, p, new)
  BY <1>1, <1>3 DEF CryptoPayment
<1> HIDE DEF new
<1>5. UNCHANGED <<lock, sent, budget, invoice, credited>> /\ UNCHANGED Rest
  BY DEF ProcessorEnds
<1> QED
  BY <1>2, <1>4, <1>5, PaymentUncredited

-----------------------------------------------------------------------------
(* Sweeps.                                                                   *)

(* A sweep's step leaves the payments alone.                                 *)
LEMMA SweepStepKeeps ==
  ASSUME IInv, UNCHANGED Money, TypeOK', SweepsOk',
         \A p \in Payments : \A i \in Invoices : lock[i] = p => lock'[i] = p
  PROVE  IInv'
<1>1. IntentsOk'
  <2> SUFFICES ASSUME NEW p \in Payments, crypto'[p].status # "none"
               PROVE  /\ crypto'[p].of \in Invoices
                      /\ crypto'[p].status = "asking" => lock'[crypto'[p].of] = p
    BY DEF IntentsOk
  <2>1. crypto' = crypto
    BY DEF Money
  <2>2. crypto[p].of \in Invoices /\ (crypto[p].status = "asking" => lock[crypto[p].of] = p)
    BY <2>1 DEF IInv, IntentsOk
  <2> QED
    BY <2>1, <2>2
<1>2. CreditsOk' /\ EventsOk'
  BY DEF IInv, CreditsOk, EventsOk, Money
<1> QED
  BY <1>1, <1>2 DEF IInv

LEMMA SweepStartsKeeps ==
  ASSUME IInv, NEW w \in Workers, SweepStarts(w)
  PROVE  IInv'
<1> DEFINE new == [stage |-> "locking", began |-> clock, found |-> {},
                   left |-> {i \in Invoices : Due(i, clock - Cooldown)}]
<1>1. /\ sweep' = Set(sweep, w, new) /\ UNCHANGED <<invoice, lock, mailed>>
      /\ UNCHANGED Money /\ budget' \in Nat
  BY DEF SweepStarts, Event, IInv, TypeOK
<1>2. new \in Sweep /\ new.found = {}
  BY DEF Sweep, IInv, TypeOK
<1> HIDE DEF new
<1>3. /\ sweep' \in [Workers -> Sweep] /\ sweep'[w] = new
      /\ \A v \in Workers \ {w} : sweep'[v] = sweep[v]
  BY <1>1, <1>2 DEF IInv, TypeOK, Set
<1>4. TypeOK'
  BY <1>1, <1>3 DEF IInv, TypeOK, Money
<1>5. SweepsOk'
  <2> SUFFICES ASSUME NEW v \in Workers
               PROVE  /\ sweep'[v].stage = "idle" => sweep'[v].found = {}
                      /\ \A i \in sweep'[v].found : lock'[i] = v /\ Due(i, Cutoff(v))'
    BY DEF SweepsOk
  <2>1. CASE v = w
    BY <1>2, <1>3, <2>1
  <2>2. CASE v # w
    BY <1>1, <1>3, <2>2 DEF IInv, SweepsOk, Due, Cutoff, Balance
  <2> QED
    BY <2>1, <2>2
<1> QED
  BY <1>1, <1>4, <1>5, SweepStepKeeps

LEMMA SweepLocksKeeps ==
  ASSUME IInv, NEW w \in Workers, SweepLocks(w)
  PROVE  IInv'
<1>1. PICK i \in Invoices :
        /\ sweep[w].stage = "locking" /\ lock[i] = None /\ lock' = Set(lock, i, w)
        /\ sweep' = Set(sweep, w, [sweep[w] EXCEPT !.left = sweep[w].left \ {i},
                      !.found = sweep[w].found \union {j \in {i} : Due(j, Cutoff(w))}])
        /\ UNCHANGED <<invoice, mailed, budget>> /\ UNCHANGED Money
  BY DEF SweepLocks
<1> DEFINE more == {j \in {i} : Due(j, Cutoff(w))}
           new == [sweep[w] EXCEPT !.left = sweep[w].left \ {i},
                                   !.found = sweep[w].found \union more]
<1>2. sweep' = Set(sweep, w, new) /\ more \subseteq {i} /\ \A j \in more : Due(j, Cutoff(w))
  BY <1>1
<1> HIDE DEF more
<1>3. /\ new \in Sweep /\ new.stage = "locking" /\ new.began = sweep[w].began
      /\ new.found = sweep[w].found \union more
  BY <1>1, <1>2, Parts DEF Sweep
<1> HIDE DEF new
<1>4. /\ sweep' \in [Workers -> Sweep] /\ sweep'[w] = new
      /\ \A v \in Workers \ {w} : sweep'[v] = sweep[v]
  BY <1>2, <1>3 DEF IInv, TypeOK, Set
<1>5. /\ lock' \in [Invoices -> Payments \union Workers \union {None}] /\ lock'[i] = w
      /\ \A k \in Invoices \ {i} : lock'[k] = lock[k]
  BY <1>1 DEF IInv, TypeOK, Set
<1>6. TypeOK'
  BY <1>1, <1>4, <1>5 DEF IInv, TypeOK, Money
<1>7. SweepsOk'
  <2> SUFFICES ASSUME NEW v \in Workers
               PROVE  /\ sweep'[v].stage = "idle" => sweep'[v].found = {}
                      /\ \A k \in sweep'[v].found : lock'[k] = v /\ Due(k, Cutoff(v))'
    BY DEF SweepsOk
  <2>1. \A k \in sweep[v].found : k \in Invoices \ {i} /\ lock'[k] = v /\ Due(k, Cutoff(v))
    <3>1. i \notin sweep[v].found
      BY <1>1, Holders
    <3> QED
      BY <1>5, <3>1, Parts DEF IInv, SweepsOk
  <2>2. \A k : Due(k, Cutoff(v)) => Due(k, Cutoff(v))'
    BY <1>1, <1>3, <1>4 DEF Due, Cutoff, Balance
  <2>3. CASE v = w
    BY <1>2, <1>3, <1>4, <1>5, <2>1, <2>2, <2>3
  <2>4. CASE v # w
    <3>1. sweep'[v] = sweep[v]
      BY <1>4, <2>4
    <3> QED
      BY <2>1, <2>2, <3>1 DEF IInv, SweepsOk
  <2> QED
    BY <2>3, <2>4
<1>8. \A p \in Payments : \A k \in Invoices : lock[k] = p => lock'[k] = p
  BY <1>1, <1>5, NotBoth
<1> QED
  BY <1>1, <1>6, <1>7, <1>8, SweepStepKeeps

(* A sweep that ends lets go of its rows, whatever it wrote to them.         *)
LEMMA SweepEndKeeps ==
  ASSUME IInv, NEW w \in Workers, lock' = Unlocked(w), sweep' = Set(sweep, w, NoSweep),
         UNCHANGED Money, invoice' \in [Invoices -> Invoice], mailed' \in [Invoices -> Nat],
         budget' \in Nat,
         \A i \in Invoices : i \notin sweep[w].found => invoice'[i] = invoice[i]
  PROVE  IInv'
<1>1. /\ sweep' \in [Workers -> Sweep] /\ sweep'[w] = NoSweep
      /\ \A v \in Workers \ {w} : sweep'[v] = sweep[v]
  <2>1. NoSweep \in Sweep
    BY DEF NoSweep, Sweep
  <2> QED
    BY <2>1 DEF IInv, TypeOK, Set
<1>2. /\ lock' \in [Invoices -> Payments \union Workers \union {None}]
      /\ \A i \in Invoices : lock[i] # w => lock'[i] = lock[i]
  BY DEF Unlocked, IInv, TypeOK
<1>3. TypeOK'
  BY <1>1, <1>2 DEF IInv, TypeOK, Money
<1>4. SweepsOk'
  <2> SUFFICES ASSUME NEW v \in Workers
               PROVE  /\ sweep'[v].stage = "idle" => sweep'[v].found = {}
                      /\ \A k \in sweep'[v].found : lock'[k] = v /\ Due(k, Cutoff(v))'
    BY DEF SweepsOk
  <2>1. CASE v = w
    BY <1>1, <2>1 DEF NoSweep
  <2>2. CASE v # w
    <3>1. sweep'[v] = sweep[v]
      BY <1>1, <2>2
    <3>2. sweep[v].stage = "idle" => sweep[v].found = {}
      BY DEF IInv, SweepsOk
    <3>3. ASSUME NEW k \in sweep[v].found
          PROVE  lock'[k] = v /\ Due(k, Cutoff(v))'
      <4>1. k \in Invoices /\ lock[k] = v /\ Due(k, Cutoff(v))
        BY Parts DEF IInv, SweepsOk
      <4>2. lock'[k] = v /\ k \notin sweep[w].found
        BY <1>2, <2>2, <4>1 DEF IInv, SweepsOk
      <4> QED
        BY <3>1, <4>1, <4>2 DEF Due, Cutoff, Balance
    <3> QED
      BY <3>1, <3>2, <3>3
  <2> QED
    BY <2>1, <2>2
<1>5. \A p \in Payments : \A k \in Invoices : lock[k] = p => lock'[k] = p
  BY <1>2, NotBoth
<1> QED
  BY <1>3, <1>4, <1>5, SweepStepKeeps

LEMMA SweepCommitsKeeps ==
  ASSUME IInv, NEW w \in Workers, SweepCommits(w)
  PROVE  IInv'
<1>1. /\ lock' = Unlocked(w) /\ sweep' = Set(sweep, w, NoSweep) /\ UNCHANGED Money
      /\ budget' \in Nat
  BY DEF SweepCommits, IInv, TypeOK
<1>2. mailed' \in [Invoices -> Nat]
  BY DEF SweepCommits, IInv, TypeOK
<1>3. ASSUME NEW i \in Invoices
      PROVE  invoice'[i] \in Invoice /\ (i \notin sweep[w].found => invoice'[i] = invoice[i])
  <2>1. invoice[i] \in Invoice /\ sweep[w].began \in 0 .. MaxClock
    BY Parts DEF Sweep
  <2>2. [invoice[i] EXCEPT !.reminded = sweep[w].began] \in Invoice
    BY <2>1 DEF Invoice
  <2> QED
    BY <2>1, <2>2 DEF SweepCommits
<1>4. invoice' \in [Invoices -> Invoice]
  BY <1>3 DEF SweepCommits
<1> QED
  BY <1>1, <1>2, <1>3, <1>4, SweepEndKeeps

LEMMA SweepDiesKeeps ==
  ASSUME IInv, NEW w \in Workers, SweepDies(w)
  PROVE  IInv'
<1>1. /\ lock' = Unlocked(w) /\ sweep' = Set(sweep, w, NoSweep) /\ UNCHANGED Money
      /\ budget' \in Nat /\ UNCHANGED <<invoice, mailed>>
  BY DEF SweepDies, Event, IInv, TypeOK
<1>2. invoice' \in [Invoices -> Invoice] /\ mailed' \in [Invoices -> Nat]
  BY <1>1 DEF IInv, TypeOK
<1> QED
  BY <1>1, <1>2, SweepEndKeeps

-----------------------------------------------------------------------------
(* The rest: invoices and payments stay as they are.                         *)
LEMMA ElsewhereKeeps ==
  ASSUME IInv, TypeOK', UNCHANGED <<invoice, lock, crypto, sweep, credited>>,
         sent \subseteq sent', \A e \in sent' \ sent : e \notin PaymentEvents,
         applied \subseteq applied'
  PROVE  IInv'
<1>1. SweepsOk' /\ IntentsOk' /\ CreditsOk'
  BY DEF IInv, SweepsOk, IntentsOk, CreditsOk, Due, Cutoff, Balance
<1>2. EventsOk'
  BY DEF IInv, EventsOk
<1> QED
  BY <1>1, <1>2 DEF IInv

LEMMA OnboardKeeps ==
  ASSUME IInv, NEW w \in Workers, OnboardAsks(w) \/ OnboardAnswered(w)
  PROVE  IInv'
<1>1. UNCHANGED <<clock, invoice, lock, crypto, sent, applied, sweep, credited, mailed, sub>>
      /\ budget' \in Nat
  BY DEF OnboardAsks, OnboardAnswered, Event, Ledger, IInv, TypeOK
<1>2. onboard[w].has \in Nat /\ account \in [stored : Nat, made : Nat, excused : Nat]
      /\ account.stored \in Nat /\ account.made \in Nat /\ account.excused \in Nat
  BY DEF IInv, TypeOK
<1>3. onboard' \in [Workers -> [waits : BOOLEAN, has : Nat]]
  <2>1. PICK new \in [waits : BOOLEAN, has : Nat] : onboard' = Set(onboard, w, new)
    <3>1. /\ [waits |-> TRUE, has |-> account.stored] \in [waits : BOOLEAN, has : Nat]
          /\ [waits |-> FALSE, has |-> 0] \in [waits : BOOLEAN, has : Nat]
      BY <1>2
    <3> QED
      BY <3>1 DEF OnboardAsks, OnboardAnswered
  <2> QED
    BY <2>1 DEF Set, IInv, TypeOK
<1>4. account' \in [stored : Nat, made : Nat, excused : Nat]
  <2>1. CASE OnboardAsks(w)
    BY <1>2, <2>1 DEF OnboardAsks
  <2>2. CASE OnboardAnswered(w)
    <3> DEFINE made == IF onboard[w].has = 0 THEN account.made + 1 ELSE account.made
               id == IF onboard[w].has = 0 THEN made ELSE onboard[w].has
               excused == IF onboard[w].has = 0 THEN account.excused + 1 ELSE account.excused
    <3>1. made \in Nat /\ id \in Nat /\ excused \in Nat
      BY <1>2
    <3>2. \/ account' = [account EXCEPT !.made = made, !.stored = id]
          \/ account' = [account EXCEPT !.made = made, !.excused = excused]
      BY <2>2 DEF OnboardAnswered
    <3> HIDE DEF made, id, excused
    <3> QED
      BY <1>2, <3>1, <3>2
  <2> QED
    BY <2>1, <2>2
<1>5. TypeOK'
  BY <1>1, <1>3, <1>4 DEF IInv, TypeOK
<1> QED
  BY <1>1, <1>5, ElsewhereKeeps

LEMMA TickKeeps ==
  ASSUME IInv, Tick
  PROVE  IInv'
<1>1. TypeOK'
  BY DEF Tick, IInv, TypeOK
<1> QED
  BY <1>1, ElsewhereKeeps DEF Tick

LEMMA StripeBillsKeeps ==
  ASSUME IInv, NEW e \in ChargeEvents \union SubscriptionEvents, StripeBills(e)
  PROVE  IInv'
<1>1. /\ UNCHANGED <<clock, invoice, lock, crypto, sweep, onboard, account, credited, mailed>>
      /\ UNCHANGED <<applied, sub>> /\ sent' = sent \union {e} /\ budget' \in Nat
  BY DEF StripeBills, Event, Shop, IInv, TypeOK
<1>2. TypeOK'
  BY <1>1 DEF IInv, TypeOK
<1>3. e \notin PaymentEvents
  BY DEF ChargeEvents, SubscriptionEvents, PaymentEvents, Confirmed, Ended, Completed
<1> QED
  BY <1>1, <1>2, <1>3, ElsewhereKeeps

LEMMA SubscriptionKeeps ==
  ASSUME IInv,
         SubscriptionCheckout \/ \E c \in Charges : SubscriptionPaid(c) \/ SubscriptionFailed(c)
  PROVE  IInv'
<1>1. /\ UNCHANGED <<clock, invoice, lock, crypto, sweep, onboard, account, credited, mailed>>
      /\ UNCHANGED <<sent, budget>> /\ applied \subseteq applied' /\ applied' \subseteq sent'
  BY DEF SubscriptionCheckout, SubscriptionPaid, SubscriptionFailed, Delivered, Shop, IInv, TypeOK
<1>2. sub' \in [status : {"trialing", "active", "past_due"}, known : BOOLEAN,
                period : Charges \union {None}]
  BY DEF SubscriptionCheckout, SubscriptionPaid, SubscriptionFailed, IInv, TypeOK
<1>3. TypeOK'
  BY <1>1, <1>2 DEF IInv, TypeOK
<1> QED
  BY <1>1, <1>3, ElsewhereKeeps

-----------------------------------------------------------------------------
LEMMA NextKeeps == IInv /\ [Next]_vars => IInv'
<1> SUFFICES ASSUME IInv, [Next]_vars  PROVE IInv'
  OBVIOUS
<1>1. CASE UNCHANGED vars
  <2>1. TypeOK'
    BY <1>1 DEF vars, IInv, TypeOK
  <2> QED
    BY <1>1, <2>1, ElsewhereKeeps DEF vars
<1>2. CASE Tick
  BY <1>2, TickKeeps
<1>3. ASSUME NEW p \in Payments,
             \/ \E i \in Invoices, a \in 1 .. Total : IntentAsks(p, i, a)
             \/ \E t \in Confirmed \union Ended \union {Completed} : ProcessorSends(p, t)
             \/ IntentAnswered(p) \/ StripeConfirms(p) \/ ProcessorConfirms(p)
             \/ ProcessorEnds(p)
      PROVE  IInv'
  BY <1>3, IntentAsksKeeps, ProcessorSendsKeeps, IntentAnsweredKeeps, StripeConfirmsKeeps,
     ProcessorConfirmsKeeps, ProcessorEndsKeeps
<1>4. ASSUME NEW w \in Workers,
             \/ SweepStarts(w) \/ SweepLocks(w) \/ SweepCommits(w) \/ SweepDies(w)
             \/ OnboardAsks(w) \/ OnboardAnswered(w)
      PROVE  IInv'
  BY <1>4, SweepStartsKeeps, SweepLocksKeeps, SweepCommitsKeeps, SweepDiesKeeps, OnboardKeeps
<1>5. ASSUME NEW e \in ChargeEvents \union SubscriptionEvents, StripeBills(e)
      PROVE  IInv'
  BY <1>5, StripeBillsKeeps
<1>6. CASE SubscriptionCheckout \/ \E c \in Charges : SubscriptionPaid(c) \/ SubscriptionFailed(c)
  BY <1>6, SubscriptionKeeps
<1> QED
  BY <1>1, <1>2, <1>3, <1>4, <1>5, <1>6 DEF Next

LEMMA Invariance == Spec => []IInv
  BY InitEstablishes, NextKeeps, PTL DEF Spec

-----------------------------------------------------------------------------
(* What invoices were paid.                                                  *)

USE FiniteAssumption

(* What payment p adds to what was applied to invoice i. *)
Share(p, i) == IF crypto[p].of = i THEN Len(credited[p]) * crypto[p].amount ELSE 0

LEMMA ShareIsNat ==
  ASSUME IInv, NEW p \in Payments, NEW i
  PROVE  Share(p, i) \in Nat /\ (credited[p] = <<>> => Share(p, i) = 0)
<1>1. Len(credited[p]) \in {0, 1, 2} /\ (credited[p] = <<>> => Len(credited[p]) = 0)
  BY LengthOfWay DEF IInv, CreditsOk, Ways, BeforeStripe
<1>2. crypto[p].amount \in Nat
  BY DEF IInv, TypeOK, CryptoPayment
<1> QED
  BY <1>1, <1>2 DEF Share

LEMMA NextShareIsNat ==
  ASSUME IInv', NEW p \in Payments, NEW i
  PROVE  Share(p, i)' \in Nat /\ (credited'[p] = <<>> => Share(p, i)' = 0)
<1>1. Len(credited'[p]) \in {0, 1, 2} /\ (credited'[p] = <<>> => Len(credited'[p]) = 0)
  BY LengthOfWay DEF IInv, CreditsOk, Ways, BeforeStripe
<1>2. crypto'[p].amount \in Nat
  BY DEF IInv, TypeOK, CryptoPayment
<1> QED
  BY <1>1, <1>2 DEF Share

(* Only one payment's share of an invoice changes. *)
LEMMA OneShareChanges ==
  ASSUME IInv, IInv', NEW p \in Payments, NEW i,
         \A q \in Payments \ {p} : Share(q, i)' = Share(q, i)
  PROVE  /\ Applied(i) \in Nat
         /\ Applied(i)' = Applied(i) - Share(p, i) + Share(p, i)'
<1> DEFINE f == [q \in Payments |-> Share(q, i)]
           g == [q \in Payments |-> Share(q, i)']
<1>1. \A q \in Payments : f[q] \in Nat /\ g[q] \in Nat
  BY ShareIsNat, NextShareIsNat
<1>2. \A q \in Payments \ {p} : f[q] = g[q]
  OBVIOUS
<1>3. f[p] = Share(p, i) /\ g[p] = Share(p, i)'
  OBVIOUS
<1>4. Applied(i) = SumFunctionOnSet(f, Payments) /\ Applied(i)' = SumFunctionOnSet(g, Payments)
  BY DEF Applied, Share
<1> HIDE DEF f, g
<1>5. SumFunctionOnSet(f, Payments) \in Nat
  BY <1>1, SumIsNat
<1>6. SumFunctionOnSet(g, Payments) = SumFunctionOnSet(f, Payments) - f[p] + g[p]
  <2>1. ChangesAt(f, g, Payments, p)
    BY <1>1, <1>2 DEF ChangesAt
  <2> QED
    BY <2>1, SumChanges
<1> QED
  BY <1>3, <1>4, <1>5, <1>6

(* Nothing is applied: a payment changes only before it was.                 *)
LEMMA NothingApplied ==
  ASSUME IInv, IInv', PaidAddsUp, UNCHANGED credited,
         \A i \in Invoices : invoice'[i].paid = invoice[i].paid,
         \A p \in Payments : \/ credited[p] = <<>>
                             \/ /\ crypto'[p].of = crypto[p].of
                                /\ crypto'[p].amount = crypto[p].amount
  PROVE  PaidAddsUp'
<1> SUFFICES ASSUME NEW i \in Invoices  PROVE Applied(i)' = Applied(i)
  BY DEF PaidAddsUp
<1>1. \A p \in Payments : credited[p] = <<>> => Share(p, i) = 0 /\ Share(p, i)' = 0
  <2>1. \A p \in Payments : credited[p] = <<>> => Share(p, i) = 0
    BY ShareIsNat
  <2>2. \A p \in Payments : credited'[p] = <<>> => Share(p, i)' = 0
    BY NextShareIsNat
  <2> QED
    BY <2>1, <2>2
<1>2. \A p \in Payments : Share(p, i)' = Share(p, i)
  BY <1>1 DEF Share
<1>3. [p \in Payments |-> Share(p, i)'] = [p \in Payments |-> Share(p, i)]
  BY <1>2
<1> QED
  BY <1>3 DEF Applied, Share

(* The money of a payment is applied. *)
LEMMA PaymentApplied ==
  ASSUME IInv, IInv', PaidAddsUp, NEW p \in Payments, NEW by,
         crypto[p].status # "none", MarkPaid(p, by),
         Len(Append(credited[p], by)) = Len(credited[p]) + 1,
         \A q \in Payments : /\ crypto'[q].of = crypto[q].of
                             /\ crypto'[q].amount = crypto[q].amount
  PROVE  PaidAddsUp'
<1>0. PICK i \in Invoices : i = crypto[p].of
  BY DEF IInv, IntentsOk
<1>1. PICK a \in Nat : a = crypto[p].amount
  BY DEF IInv, TypeOK, CryptoPayment
<1>2. /\ credited' = Set(credited, p, Append(credited[p], by)) /\ invoice[i] \in Invoice
      /\ invoice'[i].paid = NowPaid(i, a)
      /\ \A k \in Invoices \ {i} : invoice'[k] = invoice[k]
  BY <1>0, <1>1 DEF MarkPaid, Set, IInv, TypeOK, Invoice
<1>3. /\ Len(credited'[p]) = Len(credited[p]) + 1
      /\ \A q \in Payments \ {p} : credited'[q] = credited[q]
  BY <1>2 DEF Set, IInv, TypeOK
<1>4. \A k \in Invoices : \A q \in Payments \ {p} : Share(q, k)' = Share(q, k)
  BY <1>3 DEF Share
<1>5. ASSUME NEW k \in Invoices
      PROVE  /\ Applied(k) \in Nat
             /\ Applied(k)' = Applied(k) - Share(p, k) + Share(p, k)'
  BY <1>4, OneShareChanges
<1>6. Share(p, i)' = Share(p, i) + a
  <2>1. PICK n \in {0, 1, 2} : n = Len(credited[p])
    BY LengthOfWay DEF IInv, CreditsOk, Ways, BeforeStripe
  <2>2. Share(p, i) = n * a /\ Share(p, i)' = (n + 1) * a
    BY <1>0, <1>1, <1>3, <2>1 DEF Share
  <2>3. (n + 1) * a = n * a + a
    BY <1>1
  <2> QED
    BY <2>2, <2>3
<1>7. \A k \in Invoices \ {i} : Share(p, k)' = Share(p, k)
  BY <1>0 DEF Share
<1>8. invoice'[i].paid = Smaller(Total, Applied(i)')
  <2>1. invoice[i].paid = Smaller(Total, Applied(i))
    BY DEF PaidAddsUp
  <2>2. PICK n \in Nat, t \in Nat : n = Applied(i) /\ t = Share(p, i)
    BY <1>5, ShareIsNat
  <2>3. Applied(i)' = n + a
    BY <1>5, <1>6, <2>2
  <2> QED
    BY <1>2, <2>1, <2>2, <2>3 DEF NowPaid, Smaller
<1>9. \A k \in Invoices \ {i} : invoice'[k].paid = Smaller(Total, Applied(k)')
  <2> SUFFICES ASSUME NEW k \in Invoices \ {i}  PROVE Applied(k)' = Applied(k)
    BY <1>2 DEF PaidAddsUp
  <2>1. PICK n \in Nat, t \in Nat : n = Applied(k) /\ t = Share(p, k)
    BY <1>5, ShareIsNat
  <2>2. Applied(k)' = n - t + t
    BY <1>5, <1>7, <2>1
  <2> QED
    BY <2>1, <2>2
<1> QED
  BY <1>8, <1>9 DEF PaidAddsUp

(* Every step. *)
LEMMA PaidKeeps ==
  ASSUME IInv, IInv', PaidAddsUp, [Next]_vars
  PROVE  PaidAddsUp'
<1> DEFINE Quiet == /\ UNCHANGED credited
                    /\ \A i \in Invoices : invoice'[i].paid = invoice[i].paid
                    /\ \A p \in Payments : \/ credited[p] = <<>>
                                            \/ /\ crypto'[p].of = crypto[p].of
                                               /\ crypto'[p].amount = crypto[p].amount
           Same(p, q) == /\ crypto'[q].of = crypto[q].of
                         /\ crypto'[q].amount = crypto[q].amount
<1>0. /\ \A p \in Payments : crypto[p] \in CryptoPayment
      /\ crypto \in [Payments -> CryptoPayment]
      /\ \A i \in Invoices : invoice[i] \in Invoice
      /\ invoice \in [Invoices -> Invoice]
  BY DEF IInv, TypeOK
<1>1. ASSUME NEW p \in Payments, NEW s, NEW q \in Payments,
             crypto' = Set(crypto, p, [crypto[p] EXCEPT !.status = s])
      PROVE  Same(p, q)
  BY <1>0, <1>1 DEF Set, CryptoPayment
<1>2. ASSUME NEW p \in Payments, NEW i \in Invoices, NEW a \in 1 .. Total,
             IntentAsks(p, i, a)
      PROVE  Quiet
  <2>1. crypto[p].status = "none" /\ UNCHANGED <<credited, invoice>>
        /\ \A q \in Payments \ {p} : crypto'[q] = crypto[q]
    BY <1>0, <1>2 DEF IntentAsks, Least, Set
  <2>2. credited[p] = <<>>
    BY <2>1 DEF IInv, CreditsOk
  <2> QED
    BY <2>1, <2>2
<1>3. ASSUME NEW p \in Payments, IntentAnswered(p)
      PROVE  Quiet
  <2>1. crypto[p].status = "asking" /\ UNCHANGED credited
        /\ \A q \in Payments \ {p} : crypto'[q] = crypto[q]
    BY <1>0, <1>3 DEF IntentAnswered, Set
  <2>2. credited[p] = <<>> /\ crypto[p].of \in Invoices
    BY <2>1 DEF IInv, CreditsOk, IntentsOk
  <2>3. \A i \in Invoices : invoice'[i].paid = invoice[i].paid
    <3> DEFINE k == crypto[p].of
               stamped == [invoice[k] EXCEPT !.checkout = p]
    <3>1. stamped.paid = invoice[k].paid
      BY <1>0, <2>2 DEF Invoice
    <3>2. invoice' = Set(invoice, k, stamped) \/ invoice' = invoice
      BY <1>3 DEF IntentAnswered
    <3> HIDE DEF stamped, k
    <3> QED
      BY <1>0, <3>1, <3>2 DEF Set
  <2> QED
    BY <2>1, <2>2, <2>3
<1>4. ASSUME NEW p \in Payments, StripeConfirms(p) \/ ProcessorConfirms(p)
      PROVE  Quiet \/ PaidAddsUp'
  <2>1. CASE UNCHANGED <<crypto, invoice, credited>>
    BY <2>1
  <2>2. CASE ~UNCHANGED <<crypto, invoice, credited>>
    <3>1. PICK by \in Rails : MarkPaid(p, by)
      BY <1>4, <2>2 DEF StripeConfirms, ProcessorConfirms, Rails
    <3>2. \/ UNCHANGED crypto
          \/ crypto' = Set(crypto, p, [crypto[p] EXCEPT !.status = "confirmed"])
      BY <1>4 DEF StripeConfirms, ProcessorConfirms
    <3>3. \A q \in Payments : Same(p, q)
      BY <1>1, <3>2
    <3>4. crypto[p].status # "none"
      BY <1>4, Arrival DEF StripeConfirms, ProcessorConfirms
    <3>5. Len(Append(credited[p], by)) = Len(credited[p]) + 1
      <4>1. credited[p] \in Seq(Rails)
        BY DEF IInv, TypeOK, Rails
      <4> QED
        BY <4>1
    <3> QED
      BY <3>1, <3>3, <3>4, <3>5, PaymentApplied
  <2> QED
    BY <2>1, <2>2
<1>5. ASSUME NEW p \in Payments, ProcessorEnds(p)
      PROVE  Quiet
  <2>1. /\ \E s : crypto' = Set(crypto, p, [crypto[p] EXCEPT !.status = s])
        /\ UNCHANGED <<credited, invoice>>
    BY <1>5 DEF ProcessorEnds
  <2>2. \A q \in Payments : Same(p, q)
    BY <1>1, <2>1
  <2> QED
    BY <2>1, <2>2
<1>6. ASSUME NEW w \in Workers, SweepCommits(w)
      PROVE  Quiet
  <2>1. UNCHANGED <<credited, crypto>>
    BY <1>6 DEF SweepCommits, Money
  <2>2. \A i \in Invoices : invoice'[i].paid = invoice[i].paid
    BY <1>0, <1>6 DEF SweepCommits, Invoice
  <2> QED
    BY <2>1, <2>2
<1>7. ASSUME UNCHANGED <<crypto, invoice, credited>>
      PROVE  Quiet
  BY <1>7
<1>8. \/ UNCHANGED <<crypto, invoice, credited>>
      \/ \E p \in Payments :
           \/ \E i \in Invoices, a \in 1 .. Total : IntentAsks(p, i, a)
           \/ IntentAnswered(p) \/ StripeConfirms(p) \/ ProcessorConfirms(p)
           \/ ProcessorEnds(p)
      \/ \E w \in Workers : SweepCommits(w)
  BY DEF Next, vars, Tick, ProcessorSends, Rest, SweepStarts, SweepLocks, SweepDies, Money,
     OnboardAsks, OnboardAnswered, Ledger, StripeBills, SubscriptionCheckout,
     SubscriptionPaid, SubscriptionFailed, Delivered, Shop
<1> HIDE DEF Quiet
<1>9. Quiet \/ PaidAddsUp'
  BY <1>2, <1>3, <1>4, <1>5, <1>6, <1>7, <1>8
<1> QED
  BY <1>9, NothingApplied DEF Quiet

LEMMA InitPaid == Init => PaidAddsUp
<1> SUFFICES ASSUME Init, NEW i \in Invoices
             PROVE  invoice[i].paid = Smaller(Total, Applied(i))
  BY DEF PaidAddsUp
<1> DEFINE f == [p \in Payments |-> Share(p, i)]
<1>1. IInv
  BY InitEstablishes
<1>2. \A p \in Payments : f[p] = 0
  BY <1>1, ShareIsNat DEF Init
<1>3. Applied(i) = SumFunctionOnSet(f, Payments)
  BY DEF Applied, Share
<1> HIDE DEF f
<1>4. Applied(i) = 0
  BY <1>2, <1>3, SumOfZeros
<1> QED
  BY <1>4 DEF Init, Smaller

-----------------------------------------------------------------------------
(* Connect accounts.                                                         *)

(* Clicks under way that will make an account. *)
Newcomers == {w \in Workers : onboard[w].waits /\ onboard[w].has = 0}

(* Accounts made and to be made: one is free once it is stored or asked for, *)
(* the others have an excuse.                                                *)
AccountsOk ==
  account.made + Cardinality(Newcomers)
    <= account.excused + (IF account.stored = 0 /\ Newcomers = {} THEN 0 ELSE 1)

LEMMA NewcomersAreFew == IsFiniteSet(Newcomers) /\ Cardinality(Newcomers) \in Nat
<1>1. Newcomers \subseteq Workers
  BY DEF Newcomers
<1> QED
  BY <1>1, FS_Subset, FS_CardinalityType

LEMMA OnboardAsksCounts ==
  ASSUME IInv, AccountsOk, NEW w \in Workers, OnboardAsks(w)
  PROVE  AccountsOk'
<1> DEFINE new == [waits |-> TRUE, has |-> account.stored]
<1>1. /\ ~onboard[w].waits /\ onboard' = Set(onboard, w, new)
      /\ account' = IF account.stored = 0 /\ \E v \in Workers : onboard[v].waits
                    THEN [account EXCEPT !.excused = account.excused + 1] ELSE account
  BY DEF OnboardAsks, Least
<1>2. new.waits /\ new.has = account.stored
  OBVIOUS
<1> HIDE DEF new
<1>3. /\ onboard'[w] = new /\ \A v \in Workers \ {w} : onboard'[v] = onboard[v]
      /\ account.made \in Nat /\ account.excused \in Nat
  BY <1>1 DEF Set, IInv, TypeOK
<1>4. w \notin Newcomers
  BY <1>1 DEF Newcomers
<1>5. account'.made = account.made /\ account'.stored = account.stored
      /\ account'.excused \in Nat /\ account'.excused >= account.excused
  BY <1>1, <1>3 DEF IInv, TypeOK
<1>6. CASE account.stored = 0
  <2>1. Newcomers' = Newcomers \union {w}
    BY <1>2, <1>3, <1>6 DEF Newcomers
  <2>2. Cardinality(Newcomers') = Cardinality(Newcomers) + 1
    BY <1>4, <2>1, NewcomersAreFew, FS_AddElement
  <2>3. Newcomers # {} => account'.excused = account.excused + 1
    BY <1>1, <1>6 DEF Newcomers, IInv, TypeOK
  <2>4. CASE Newcomers = {}
    <3>1. account.made + Cardinality(Newcomers) <= account.excused
      BY <1>3, <1>6, <2>4 DEF AccountsOk
    <3> QED
      BY <1>3, <1>5, <2>1, <2>2, <3>1, NewcomersAreFew DEF AccountsOk
  <2>5. CASE Newcomers # {}
    <3>1. account.made + Cardinality(Newcomers) <= account.excused + 1
      BY <1>3, <1>6, <2>5 DEF AccountsOk
    <3> QED
      BY <1>3, <1>5, <2>1, <2>2, <2>3, <2>5, <3>1, NewcomersAreFew DEF AccountsOk
  <2> QED
    BY <2>4, <2>5
<1>7. CASE account.stored # 0
  <2>1. Newcomers' = Newcomers
    BY <1>1, <1>2, <1>3, <1>7 DEF Newcomers
  <2> QED
    BY <1>3, <1>5, <1>7, <2>1, NewcomersAreFew DEF AccountsOk
<1> QED
  BY <1>6, <1>7

LEMMA OnboardAnsweredCounts ==
  ASSUME IInv, AccountsOk, NEW w \in Workers, OnboardAnswered(w)
  PROVE  AccountsOk'
<1> DEFINE new == [waits |-> FALSE, has |-> 0]
           made == IF onboard[w].has = 0 THEN account.made + 1 ELSE account.made
           id == IF onboard[w].has = 0 THEN made ELSE onboard[w].has
           excused == IF onboard[w].has = 0 THEN account.excused + 1 ELSE account.excused
<1>1. /\ onboard[w].waits /\ onboard' = Set(onboard, w, new)
      /\ \/ account' = [account EXCEPT !.made = made, !.stored = id]
         \/ account' = [account EXCEPT !.made = made, !.excused = excused]
  BY DEF OnboardAnswered
<1>2. ~new.waits
  OBVIOUS
<1> HIDE DEF new
<1>3. /\ onboard'[w] = new /\ \A v \in Workers \ {w} : onboard'[v] = onboard[v]
      /\ account.made \in Nat /\ account.excused \in Nat /\ onboard[w].has \in Nat
  BY <1>1 DEF Set, IInv, TypeOK
<1>4. id # 0
  BY <1>3
<1>5. Newcomers' = Newcomers \ {w}
  BY <1>2, <1>3 DEF Newcomers
<1>6. /\ account'.made = made
      /\ \/ account'.stored = id /\ account'.excused = account.excused
         \/ account'.stored = account.stored /\ account'.excused = excused
  <2> HIDE DEF made, id, excused
  <2> QED
    BY <1>1 DEF IInv, TypeOK
<1>7. CASE onboard[w].has = 0
  <2>1. w \in Newcomers
    BY <1>1, <1>7 DEF Newcomers
  <2>2. Cardinality(Newcomers') = Cardinality(Newcomers) - 1
    BY <1>5, <2>1, NewcomersAreFew, FS_RemoveElement
  <2>3. made = account.made + 1 /\ excused = account.excused + 1
    BY <1>7
  <2> HIDE DEF made, id, excused
  <2> QED
    BY <1>3, <1>4, <1>6, <2>1, <2>2, <2>3, NewcomersAreFew DEF AccountsOk
<1>8. CASE onboard[w].has # 0
  <2>1. Newcomers' = Newcomers
    BY <1>5, <1>8 DEF Newcomers
  <2>2. made = account.made /\ excused = account.excused
    BY <1>8
  <2> HIDE DEF made, id, excused
  <2> QED
    BY <1>3, <1>4, <1>6, <2>1, <2>2, NewcomersAreFew DEF AccountsOk
<1> QED
  BY <1>7, <1>8

LEMMA AccountsKeep ==
  ASSUME IInv, AccountsOk, [Next]_vars
  PROVE  AccountsOk'
<1>1. \/ UNCHANGED <<onboard, account>>
      \/ \E w \in Workers : OnboardAsks(w) \/ OnboardAnswered(w)
  BY DEF Next, vars, Tick, IntentAsks, IntentAnswered, ProcessorSends, StripeConfirms,
     ProcessorConfirms, ProcessorEnds, Rest, SweepStarts, SweepLocks, SweepCommits, SweepDies,
     Money, StripeBills, SubscriptionCheckout, SubscriptionPaid, SubscriptionFailed, Delivered,
     Shop
<1>2. CASE UNCHANGED <<onboard, account>>
  BY <1>2 DEF AccountsOk, Newcomers
<1> QED
  BY <1>1, <1>2, OnboardAsksCounts, OnboardAnsweredCounts

LEMMA InitAccounts == Init => AccountsOk
<1> SUFFICES ASSUME Init  PROVE AccountsOk
  OBVIOUS
<1>1. Newcomers = {}
  BY DEF Init, Newcomers
<1>2. Cardinality(Newcomers) = 0
  BY <1>1, FS_EmptySet
<1> QED
  BY <1>1, <1>2 DEF Init, AccountsOk

-----------------------------------------------------------------------------
(* A payment's money is applied at most once by the generic webhook and once *)
(* by Stripe's completion, never by the webhook after Stripe, and one shown  *)
(* as confirmed was applied: confirm_crypto_payment and                      *)
(* _on_crypto_invoice_payment_completed.                                     *)
THEOREM PaymentsCreditedOnce == Spec => []CreditedOncePerRail
<1>1. IInv => CreditedOncePerRail
  BY DEF IInv, CreditsOk, CreditedOncePerRail, Ways, BeforeStripe
<1> QED
  BY <1>1, Invariance, PTL

(* However many sweeps run at once, reminders of an invoice are more than a  *)
(* cooldown apart, and only of unpaid invoices: run_dunning_sweep.           *)
THEOREM RemindersApart == Spec => RemindersSpaced
<1> DEFINE Apart ==
      \A i \in Invoices : mailed'[i] # mailed[i] =>
        /\ mailed'[i] = mailed[i] + 1 /\ invoice[i].status # "paid"
        /\ invoice[i].reminded = 0
             \/ invoice'[i].reminded - invoice[i].reminded > Cooldown
<1>1. ASSUME IInv, NEW w \in Workers, SweepCommits(w), NEW i \in Invoices,
             mailed'[i] # mailed[i]
      PROVE  /\ mailed'[i] = mailed[i] + 1 /\ invoice[i].status # "paid"
             /\ invoice[i].reminded = 0
                  \/ invoice'[i].reminded - invoice[i].reminded > Cooldown
  <2>1. i \in sweep[w].found /\ mailed'[i] = mailed[i] + 1
    BY <1>1 DEF SweepCommits
  <2>2. Due(i, Cutoff(w))
    BY <1>1, <2>1 DEF IInv, SweepsOk
  <2>3. /\ sweep[w].began \in Int /\ invoice[i] \in Invoice /\ invoice[i].reminded \in Int
    <3>1. sweep[w] \in Sweep /\ invoice[i] \in Invoice
      BY <1>1, Parts
    <3>2. sweep[w].began \in 0 .. MaxClock /\ invoice[i].reminded \in 0 .. MaxClock
      BY <3>1 DEF Sweep, Invoice
    <3> QED
      BY <3>1, <3>2
  <2>4. invoice'[i].reminded = sweep[w].began
    BY <1>1, <2>1, <2>3 DEF SweepCommits, Invoice
  <2> QED
    BY <2>1, <2>2, <2>3, <2>4 DEF Due, Cutoff
<1>2. ASSUME Next, mailed' # mailed
      PROVE  \E w \in Workers : SweepCommits(w)
  BY <1>2 DEF Next, Tick, IntentAsks, IntentAnswered, ProcessorSends, StripeConfirms,
     ProcessorConfirms, ProcessorEnds, Rest, SweepStarts, SweepLocks, SweepDies,
     OnboardAsks, OnboardAnswered, Ledger, StripeBills, SubscriptionCheckout,
     SubscriptionPaid, SubscriptionFailed, Delivered, Shop
<1>3. IInv /\ [Next]_vars => [Apart]_vars
  BY <1>1, <1>2 DEF vars
<1> QED
  BY <1>3, Invariance, PTL DEF Spec, RemindersSpaced

(* Payments, invoices and accounts agree whatever sweeps, clicks and events  *)
(* overlap: an invoice has been paid what was applied to it, and a shop has  *)
(* more than one Connect account only where clicks overlapped or a link      *)
(* failed (crypto_payments.py, invoices.py, billing.py).                     *)
THEOREM PaymentsAgree == Spec => []PaymentsConsistent
<1> DEFINE Whole == IInv /\ PaidAddsUp /\ AccountsOk
<1>1. Init => Whole
  BY InitEstablishes, InitPaid, InitAccounts
<1>2. Whole /\ [Next]_vars => Whole'
  BY NextKeeps, PaidKeeps, AccountsKeep
<1>3. Whole => PaymentsConsistent
  <2> SUFFICES ASSUME Whole  PROVE PaymentsConsistent
    OBVIOUS
  <2>1. TypeOK /\ CreditedOncePerRail /\ PaidAddsUp
    BY DEF IInv, CreditsOk, CreditedOncePerRail, Ways, BeforeStripe
  <2>2. account.made \in Nat /\ account.excused \in Nat
    BY DEF IInv, TypeOK
  <2>3. DuplicatesExplained
    BY <2>2, NewcomersAreFew DEF AccountsOk, DuplicatesExplained
  <2> QED
    BY <2>1, <2>3 DEF PaymentsConsistent
<1> HIDE DEF Whole
<1> QED
  BY <1>1, <1>2, <1>3, PTL DEF Spec
=============================================================================
