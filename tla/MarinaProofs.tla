------------------------------ MODULE MarinaProofs ------------------------------
(***************************************************************************)
(* What the records of a marina keep, for every number of rows, callers    *)
(* and requests at once.  Its slips: no day of one is promised twice, a    *)
(* sweep leaves none of the reservations it has dealt with unpaid, and a   *)
(* second charge only comes of callers that cross between check and insert.*)
(* Its yard: a job's boat is its customer's and coordinates are those of   *)
(* the address beside them, unless what a request rests on changed under   *)
(* it.                                                                     *)
(***************************************************************************)
EXTENDS SlipReservations, Yard, TLAPS

(* A booking that exists has a slip and a stay. *)
Placed ==
  \A r \in Reservations :
    booking[r].status # "none" => /\ booking[r].slip \in Slips
                                  /\ booking[r].stay \in Stays

(* What a caller at work relies on: the reservations of a sweep touch its   *)
(* month and were accepted; the one that is about to be charged exists and  *)
(* has not been charged since the check, or the charge is on record as one  *)
(* that callers crossed in.                                                 *)
Accepted == {"confirmed", "checked_in", "checked_out", "cancelled"}

Touches(r, m) == /\ booking[r].stay.from < FirstOf(m + 1)
                 /\ FirstOf(m) <= booking[r].stay.to

Working ==
  \A b \in Billers :
    /\ biller[b].job = "stay" => biller[b].at \in Reservations
    /\ biller[b].job = "sweep" =>
         \A r \in biller[b].ids : /\ booking[r].status \in Accepted
                                  /\ Touches(r, biller[b].month)
    /\ biller[b].at # Null =>
         /\ biller[b].job = "stay" =>
              stayLine[biller[b].at] = 0 \/ biller[b].at \in stayRaced
         /\ biller[b].job = "sweep" =>
              \/ rentLine[biller[b].at][biller[b].month] = 0
              \/ <<biller[b].at, biller[b].month>> \in rentRaced

SlipInv ==
  /\ SlipTypeOK
  /\ Placed
  /\ NoDoubleBooking
  /\ Working
  /\ SweepKeepsUp
  /\ SecondChargeRaced

USE CalendarAssumption, ConstantsAssumption

LEMMA SlipInitEstablishes == SlipInit => SlipInv
<1> SUFFICES ASSUME SlipInit  PROVE  SlipInv
  OBVIOUS
<1>1. MonthOf(0) \in Months
  BY DEF Months
<1>2. SlipTypeOK
  BY <1>1 DEF SlipInit, SlipTypeOK, Booking, Biller, Vacant, SlipStatuses, transitions
<1> QED
  BY <1>2 DEF SlipInit, SlipInv, Placed, NoDoubleBooking, Standing, Working,
              SweepKeepsUp, SecondChargeRaced, Vacant

-----------------------------------------------------------------------------
(* Bookings.  Two stays that do not overlap share no day. *)
LEMMA ApartShareNoDay ==
  ASSUME NEW a \in Stays, NEW b \in Stays, ~Overlap(a, b)
  PROVE  Days(a) \cap Days(b) = {}
BY DEF Overlap, Days

LEMMA CreateKeeps ==
  ASSUME NEW r \in Reservations, NEW s \in Slips, NEW st \in Stays, SlipInv,
         Create(r, s, st)
  PROVE  SlipInv'
<1> USE DEF SlipInv
<1>1. /\ booking[r].status = "none"
      /\ IsAvailable(s, st)
      /\ booking' = [booking EXCEPT ![r] =
                       [status |-> "pending", slip |-> s, stay |-> st]]
      /\ UNCHANGED <<slip, stayLine, rentLine, biller, today, deaths>>
      /\ UNCHANGED <<stayRaced, rentRaced>>
  BY DEF Create, races
<1>2. /\ booking'[r] = [status |-> "pending", slip |-> s, stay |-> st]
      /\ \A q \in Reservations \ {r} : booking'[q] = booking[q]
  BY <1>1 DEF SlipTypeOK
<1>3. SlipTypeOK'
  BY <1>1 DEF SlipTypeOK, Booking, transitions
<1>4. Placed'
  BY <1>2 DEF Placed
<1>5. NoDoubleBooking'
  <2>1. ASSUME NEW q \in Reservations \ {r}, Standing(q), booking[q].slip = s
        PROVE  Days(booking[q].stay) \cap Days(st) = {}
    <3>1. booking[q].stay \in Stays /\ ~Overlap(booking[q].stay, st)
      BY <1>1, <2>1 DEF Placed, IsAvailable, Standing
    <3> QED BY <3>1, ApartShareNoDay
  <2> QED BY <1>2, <2>1 DEF NoDoubleBooking, Standing
<1>6. Working'
  <2>1. ASSUME NEW b \in Billers, biller[b].job = "sweep", NEW q \in biller[b].ids
        PROVE  q # r /\ q \in Reservations
    BY <1>1, <2>1 DEF Working, Accepted, SlipTypeOK, Biller
  <2> QED BY <1>1, <1>2, <2>1 DEF Working, Touches
<1>7. SweepKeepsUp'
  <2>1. ASSUME NEW b \in Billers, biller[b].job = "sweep", NEW q \in biller[b].ids
        PROVE  q # r /\ q \in Reservations
    BY <1>1, <2>1 DEF Working, Accepted, SlipTypeOK, Biller
  <2> QED BY <1>1, <1>2, <2>1 DEF SweepKeepsUp
<1>8. SecondChargeRaced'
  BY <1>1 DEF SecondChargeRaced
<1> QED BY <1>3, <1>4, <1>5, <1>6, <1>7, <1>8

LEMMA TransitionKeeps ==
  ASSUME NEW r \in Reservations, NEW target \in DOMAIN transitions, SlipInv,
         Transition(r, target)
  PROVE  SlipInv'
<1> USE DEF SlipInv
<1>1. /\ target \in transitions[booking[r].status]
      /\ booking' = [booking EXCEPT ![r].status = target]
      /\ UNCHANGED <<stayLine, rentLine, biller, today, deaths>>
      /\ UNCHANGED <<stayRaced, rentRaced>>
  BY DEF Transition, races
<1>2. /\ booking[r].status \notin {"none", "cancelled"}
      /\ booking[r].status \in Accepted =>
           target \in {"checked_in", "checked_out", "cancelled"}
      /\ booking[r].status \in {"checked_out", "cancelled"} => FALSE
      /\ target # "none"
  BY <1>1 DEF transitions, SlipTypeOK, Booking, Accepted
<1>3. /\ booking'[r].status = target /\ booking'[r].slip = booking[r].slip
      /\ booking'[r].stay = booking[r].stay
      /\ \A q \in Reservations \ {r} : booking'[q] = booking[q]
  BY <1>1 DEF SlipTypeOK, Booking
<1>4. SlipTypeOK'
  <2>1. booking' \in [Reservations -> Booking]
    <3>1. ASSUME NEW row \in Booking  PROVE  [row EXCEPT !.status = target] \in Booking
      BY DEF Booking
    <3> QED BY <1>1, <3>1 DEF SlipTypeOK
  <2>2. slip' \in [Slips -> SlipStatuses]
    BY DEF Transition, SlipTypeOK, SlipStatuses
  <2> QED BY <1>1, <2>1, <2>2 DEF SlipTypeOK
<1>5. Placed'
  BY <1>2, <1>3 DEF Placed
<1>6. NoDoubleBooking'
  <2>1. \A q \in Reservations : Standing(q)' => Standing(q)
    BY <1>2, <1>3 DEF Standing
  <2>2. \A q \in Reservations : /\ booking'[q].slip = booking[q].slip
                                /\ booking'[q].stay = booking[q].stay
    BY <1>3
  <2> QED BY <2>1, <2>2 DEF NoDoubleBooking
<1>7. \A b \in Billers : biller[b].ids \subseteq Reservations
  BY DEF SlipTypeOK, Biller
<1>8. Working'
  BY <1>1, <1>2, <1>3, <1>7 DEF Working, Touches, Accepted
<1>9. SweepKeepsUp'
  BY <1>1, <1>2, <1>3, <1>7 DEF SweepKeepsUp
<1>10. SecondChargeRaced'
  BY <1>1 DEF SecondChargeRaced
<1> QED BY <1>4, <1>5, <1>6, <1>8, <1>9, <1>10

(* What touches no booking and no charge. *)
LEMMA OthersKeep ==
  ASSUME SlipInv, UNCHANGED <<booking, stayLine, rentLine, biller, stayRaced, rentRaced>>,
         slip' \in [Slips -> SlipStatuses], today' \in 0 .. LastDay,
         deaths' \in Nat
  PROVE  SlipInv'
BY DEF SlipInv, SlipTypeOK, Placed, NoDoubleBooking, Standing, Working, Touches,
       SweepKeepsUp, SecondChargeRaced, Booking, Biller

-----------------------------------------------------------------------------
(* Charging.  A caller that stops, whatever it was at, leaves its lines. *)
LEMMA StopKeeps ==
  ASSUME NEW b \in Billers, SlipInv, biller' = [biller EXCEPT ![b] = Vacant],
         UNCHANGED <<booking, slip, stayLine, rentLine, today, stayRaced, rentRaced>>,
         deaths' \in Nat
  PROVE  SlipInv'
<1> USE DEF SlipInv
<1>1. /\ biller'[b] = Vacant
      /\ \A c \in Billers \ {b} : biller'[c] = biller[c]
  BY DEF SlipTypeOK
<1>2. SlipTypeOK'
  <2>1. Vacant \in Biller
    <3>1. MonthOf(0) \in Months
      BY DEF Months
    <3> QED BY <3>1 DEF Vacant, Biller
  <2> QED BY <2>1 DEF SlipTypeOK
<1>3. Placed' /\ NoDoubleBooking' /\ SecondChargeRaced'
  BY DEF Placed, NoDoubleBooking, Standing, SecondChargeRaced
<1>4. Working'
  BY <1>1 DEF Working, Touches, Vacant
<1>5. SweepKeepsUp'
  BY <1>1 DEF SweepKeepsUp, Vacant
<1> QED BY <1>2, <1>3, <1>4, <1>5

(* What a caller may write into its own row. *)
LEMMA RowStays ==
  ASSUME NEW row \in Biller, NEW at \in Reservations \cup {Null},
         NEW off
  PROVE  /\ [row EXCEPT !.job = "stay", !.at = at] \in Biller
         /\ [row EXCEPT !.todo = row.todo \ off, !.at = at] \in Biller
         /\ [row EXCEPT !.at = at] \in Biller
<1>1. row.todo \ off \in SUBSET Reservations
  BY DEF Biller
<1> QED BY <1>1 DEF Biller

LEMMA CheckStayChargeKeeps ==
  ASSUME NEW b \in Billers, NEW r \in Reservations, SlipInv, CheckStayCharge(b, r)
  PROVE  SlipInv'
<1> USE DEF SlipInv
<1>1. /\ stayLine[r] = 0
      /\ biller' = [biller EXCEPT ![b].job = "stay", ![b].at = r]
      /\ UNCHANGED <<booking, slip, stayLine, rentLine, today, deaths>>
      /\ UNCHANGED <<stayRaced, rentRaced>>
  BY DEF CheckStayCharge, races
<1>2. /\ biller'[b].job = "stay" /\ biller'[b].at = r
      /\ \A c \in Billers \ {b} : biller'[c] = biller[c]
  BY <1>1 DEF SlipTypeOK, Biller
<1>3. SlipTypeOK'
  <2>1. biller' \in [Billers -> Biller]
    BY <1>1, RowStays DEF SlipTypeOK
  <2> QED BY <1>1, <2>1 DEF SlipTypeOK
<1>4. Placed' /\ NoDoubleBooking' /\ SecondChargeRaced'
  BY <1>1 DEF Placed, NoDoubleBooking, Standing, SecondChargeRaced
<1>5. Working'
  <2>1. ASSUME NEW c \in Billers
        PROVE  /\ biller'[c].job = "stay" => biller'[c].at \in Reservations
               /\ biller'[c].job = "sweep" =>
                    \A q \in biller'[c].ids : /\ booking[q].status \in Accepted
                                              /\ Touches(q, biller'[c].month)
    <3>1. CASE c = b
      BY <1>2, <3>1
    <3>2. CASE c # b
      BY <1>2, <3>2 DEF Working
    <3> QED BY <3>1, <3>2
  <2>2. ASSUME NEW c \in Billers, biller'[c].at # Null
        PROVE  /\ biller'[c].job = "stay" =>
                    stayLine[biller'[c].at] = 0 \/ biller'[c].at \in stayRaced
               /\ biller'[c].job = "sweep" =>
                    \/ rentLine[biller'[c].at][biller'[c].month] = 0
                    \/ <<biller'[c].at, biller'[c].month>> \in rentRaced
    <3>1. CASE c = b
      BY <1>1, <1>2, <3>1
    <3>2. CASE c # b
      BY <1>2, <2>2, <3>2 DEF Working
    <3> QED BY <3>1, <3>2
  <2> QED BY <1>1, <2>1, <2>2 DEF Working, Touches
<1>6. SweepKeepsUp'
  <2>1. \A c \in Billers : biller'[c].job = "sweep" => c # b /\ biller'[c] = biller[c]
    BY <1>2
  <2> QED BY <1>1, <2>1 DEF SweepKeepsUp
<1> QED BY <1>3, <1>4, <1>5, <1>6

LEMMA InsertStayChargeKeeps ==
  ASSUME NEW b \in Billers, SlipInv, InsertStayCharge(b)
  PROVE  SlipInv'
<1> USE DEF SlipInv
<1> DEFINE r == biller[b].at
<1>1. /\ r \in Reservations
      /\ stayLine[r] = 0 \/ r \in stayRaced
  BY DEF InsertStayCharge, Working
<1>2. /\ biller' = [biller EXCEPT ![b] = Vacant]
      /\ stayLine' = [stayLine EXCEPT ![r] = stayLine[r] + 1]
      /\ stayRaced' = IF \E c \in Billers \ {b} : StayPending(c, r)
                        THEN stayRaced \cup {r} ELSE stayRaced
      /\ UNCHANGED <<booking, slip, rentLine, today, deaths, rentRaced>>
  BY DEF InsertStayCharge
<1>3. /\ biller'[b] = Vacant
      /\ \A c \in Billers \ {b} : biller'[c] = biller[c]
  BY <1>2 DEF SlipTypeOK
<1>4. /\ stayLine'[r] = stayLine[r] + 1
      /\ \A q \in Reservations : stayLine'[q] >= stayLine[q]
      /\ \A q \in Reservations \ {r} : stayLine'[q] = stayLine[q]
  BY <1>1, <1>2 DEF SlipTypeOK
<1>5. SlipTypeOK'
  <2>1. Vacant \in Biller
    <3>1. MonthOf(0) \in Months
      BY DEF Months
    <3> QED BY <3>1 DEF Vacant, Biller
  <2> QED BY <1>1, <1>2, <2>1 DEF SlipTypeOK
<1>6. Placed' /\ NoDoubleBooking'
  BY <1>2 DEF Placed, NoDoubleBooking, Standing
<1>7. SecondChargeRaced'
  BY <1>1, <1>2, <1>4 DEF SecondChargeRaced, SlipTypeOK
<1>8. Working'
  <2>1. ASSUME NEW c \in Billers, c # b, biller[c].job = "stay", biller[c].at = r
        PROVE  r \in stayRaced'
    BY <1>2, <2>1 DEF StayPending
  <2>2. ASSUME NEW c \in Billers, biller'[c].at # Null
        PROVE  /\ biller'[c].job = "stay" =>
                    stayLine'[biller'[c].at] = 0 \/ biller'[c].at \in stayRaced'
               /\ biller'[c].job = "sweep" =>
                    \/ rentLine'[biller'[c].at][biller'[c].month] = 0
                    \/ <<biller'[c].at, biller'[c].month>> \in rentRaced'
    <3>1. c # b /\ biller'[c] = biller[c] /\ biller[c].at \in Reservations
      BY <1>3, <2>2 DEF Vacant, SlipTypeOK, Biller
    <3>2. stayRaced \subseteq stayRaced'
      BY <1>2
    <3> QED BY <1>2, <1>4, <2>1, <2>2, <3>1, <3>2 DEF Working
  <2>3. ASSUME NEW c \in Billers
        PROVE  /\ biller'[c].job = "stay" => biller'[c].at \in Reservations
               /\ biller'[c].job = "sweep" =>
                    (\A q \in biller[c].ids : /\ booking[q].status \in Accepted
                                               /\ Touches(q, biller[c].month))'
    <3>1. CASE c = b
      BY <1>3, <3>1 DEF Vacant
    <3>2. CASE c # b
      BY <1>2, <1>3, <3>2 DEF Working, Touches
    <3> QED BY <3>1, <3>2
  <2> QED BY <2>2, <2>3 DEF Working, Touches
<1>9. SweepKeepsUp'
  <2>1. \A c \in Billers : biller[c].ids \subseteq Reservations
    BY DEF SlipTypeOK, Biller
  <2>2. \A q \in Reservations : stayLine[q] \in Nat
    BY DEF SlipTypeOK
  <2> QED BY <1>2, <1>3, <1>4, <2>1, <2>2 DEF SweepKeepsUp, Vacant, SlipTypeOK
<1> QED BY <1>5, <1>6, <1>7, <1>8, <1>9

LEMMA SweepStartsKeeps ==
  ASSUME NEW b \in Billers, SlipInv, SweepStarts(b)
  PROVE  SlipInv'
<1> USE DEF SlipInv
<1> DEFINE m   == MonthOf(today)
           ids == {r \in Reservations : Billable(r, m)}
           new == [job |-> "sweep", month |-> m, ids |-> ids, todo |-> ids,
                   at |-> Null]
<1>1. /\ biller' = [biller EXCEPT ![b] = new]
      /\ UNCHANGED <<booking, slip, stayLine, rentLine, today, deaths>>
      /\ UNCHANGED <<stayRaced, rentRaced>>
  BY DEF SweepStarts, races
<1>2. /\ biller'[b] = new
      /\ \A c \in Billers \ {b} : biller'[c] = biller[c]
  BY <1>1 DEF SlipTypeOK
<1>3. SlipTypeOK'
  <2>1. new \in Biller
    <3>1. m \in Months
      BY DEF Months, SlipTypeOK
    <3> QED BY <3>1 DEF Biller
  <2> QED BY <1>1, <2>1 DEF SlipTypeOK
<1>4. Placed' /\ NoDoubleBooking' /\ SecondChargeRaced'
  BY <1>1 DEF Placed, NoDoubleBooking, Standing, SecondChargeRaced
<1>5. Working'
  <2>1. ASSUME NEW c \in Billers
        PROVE  /\ biller'[c].job = "stay" => biller'[c].at \in Reservations
               /\ biller'[c].job = "sweep" =>
                    \A q \in biller'[c].ids : /\ booking[q].status \in Accepted
                                              /\ Touches(q, biller'[c].month)
               /\ biller'[c].at # Null =>
                    /\ biller'[c].job = "stay" =>
                         stayLine[biller'[c].at] = 0 \/ biller'[c].at \in stayRaced
                    /\ biller'[c].job = "sweep" =>
                         \/ rentLine[biller'[c].at][biller'[c].month] = 0
                         \/ <<biller'[c].at, biller'[c].month>> \in rentRaced
    <3>1. CASE c = b
      BY <1>2, <3>1 DEF Touches, Billable, Accepted
    <3>2. CASE c # b
      BY <1>2, <3>2 DEF Working
    <3> QED BY <3>1, <3>2
  <2> QED BY <1>1, <2>1 DEF Working, Touches
<1>6. SweepKeepsUp'
  BY <1>1, <1>2 DEF SweepKeepsUp
<1> QED BY <1>3, <1>4, <1>5, <1>6

LEMMA SweepChecksKeeps ==
  ASSUME NEW b \in Billers, NEW r \in Reservations, SlipInv, SweepChecks(b, r)
  PROVE  SlipInv'
<1> USE DEF SlipInv
<1> DEFINE m == biller[b].month
           chosen == IF Billable(r, m) /\ ~HasRent(r, m) THEN r ELSE Null
<1>1. /\ biller[b].job = "sweep" /\ biller[b].at = Null /\ r \in biller[b].todo
      /\ biller' = [biller EXCEPT ![b].todo = biller[b].todo \ {r}, ![b].at = chosen]
      /\ UNCHANGED <<booking, slip, stayLine, rentLine, today, deaths>>
      /\ UNCHANGED <<stayRaced, rentRaced>>
  BY DEF SweepChecks, races
<1>2. /\ m \in Months
      /\ biller[b].ids \subseteq Reservations
      /\ chosen \in Reservations \cup {Null}
  BY DEF SlipTypeOK, Biller
<1> HIDE DEF chosen
<1>3. /\ biller'[b].job = "sweep" /\ biller'[b].month = m
      /\ biller'[b].ids = biller[b].ids /\ biller'[b].at = chosen
      /\ biller'[b].todo = biller[b].todo \ {r}
      /\ \A c \in Billers \ {b} : biller'[c] = biller[c]
  BY <1>1 DEF SlipTypeOK, Biller
<1>4. SlipTypeOK'
  <2>1. biller' \in [Billers -> Biller]
    BY <1>1, <1>2, RowStays DEF SlipTypeOK
  <2> QED BY <1>1, <2>1 DEF SlipTypeOK
<1>5. Placed' /\ NoDoubleBooking' /\ SecondChargeRaced'
  BY <1>1 DEF Placed, NoDoubleBooking, Standing, SecondChargeRaced
<1>6. chosen # Null => chosen = r /\ rentLine[r][m] = 0
  <2>1. rentLine[r][m] \in Nat
    BY <1>2 DEF SlipTypeOK
  <2> QED BY <2>1 DEF chosen, HasRent
<1>7. Working'
  <2>1. ASSUME NEW c \in Billers, c # b
        PROVE  biller'[c] = biller[c]
    BY <1>3, <2>1
  <2>2. \A q \in biller[b].ids : /\ booking[q].status \in Accepted
                                 /\ Touches(q, m)
    BY <1>1 DEF Working
  <2>3. ASSUME NEW c \in Billers
        PROVE  /\ biller'[c].job = "stay" => biller'[c].at \in Reservations
               /\ biller'[c].job = "sweep" =>
                    \A q \in biller'[c].ids : /\ booking[q].status \in Accepted
                                              /\ Touches(q, biller'[c].month)
    <3>1. CASE c = b
      BY <1>3, <2>2, <3>1
    <3>2. CASE c # b
      BY <1>3, <3>2 DEF Working
    <3> QED BY <3>1, <3>2
  <2>4. ASSUME NEW c \in Billers, biller'[c].at # Null
        PROVE  /\ biller'[c].job = "stay" =>
                    stayLine[biller'[c].at] = 0 \/ biller'[c].at \in stayRaced
               /\ biller'[c].job = "sweep" =>
                    \/ rentLine[biller'[c].at][biller'[c].month] = 0
                    \/ <<biller'[c].at, biller'[c].month>> \in rentRaced
    <3>1. CASE c = b
      BY <1>3, <1>6, <2>4, <3>1
    <3>2. CASE c # b
      BY <2>1, <2>4, <3>2 DEF Working
    <3> QED BY <3>1, <3>2
  <2> QED BY <1>1, <2>3, <2>4 DEF Working, Touches
<1>8. r \in biller[b].ids /\ chosen = Null =>
        \/ rentLine[r][m] > 0 \/ stayLine[r] > 0
        \/ booking[r].status \in {"checked_out", "cancelled"}
  BY <1>1, <1>2 DEF chosen, Working, Touches, Accepted, Billable, HasRent
<1>9. SweepKeepsUp'
  <2>1. ASSUME NEW c \in Billers, biller'[c].job = "sweep",
               NEW q \in (biller'[c].ids \ biller'[c].todo) \ {biller'[c].at}
        PROVE  \/ rentLine[q][biller'[c].month] > 0
               \/ stayLine[q] > 0
               \/ booking[q].status \in {"checked_out", "cancelled"}
    <3>1. CASE c # b
      BY <1>3, <2>1, <3>1 DEF SweepKeepsUp
    <3>2. CASE c = b /\ q = r
      BY <1>3, <1>6, <1>8, <2>1, <3>2
    <3>3. CASE c = b /\ q # r
      <4>1. q \in (biller[b].ids \ biller[b].todo) \ {biller[b].at}
        BY <1>1, <1>2, <1>3, <2>1, <3>3
      <4> QED BY <1>1, <1>3, <3>3, <4>1 DEF SweepKeepsUp
    <3> QED BY <3>1, <3>2, <3>3
  <2> QED BY <1>1, <2>1 DEF SweepKeepsUp
<1> QED BY <1>4, <1>5, <1>7, <1>9

LEMMA SweepInsertsKeeps ==
  ASSUME NEW b \in Billers, SlipInv, SweepInserts(b)
  PROVE  SlipInv'
<1> USE DEF SlipInv
<1> DEFINE m == biller[b].month
           r == biller[b].at
<1>1. /\ biller[b].job = "sweep" /\ r # Null
      /\ rentLine' = [rentLine EXCEPT ![r][m] = rentLine[r][m] + 1]
      /\ biller' = [biller EXCEPT ![b].at = Null]
      /\ rentRaced' = IF \E c \in Billers \ {b} : RentPending(c, r, m)
                        THEN rentRaced \cup {<<r, m>>} ELSE rentRaced
      /\ UNCHANGED <<booking, slip, stayLine, today, deaths, stayRaced>>
  BY DEF SweepInserts
<1>2. /\ r \in Reservations /\ m \in Months
      /\ rentLine[r][m] \in Nat
      /\ rentLine[r][m] = 0 \/ <<r, m>> \in rentRaced
  BY <1>1 DEF SlipTypeOK, Biller, Working
<1>3. /\ biller'[b].job = "sweep" /\ biller'[b].month = m /\ biller'[b].at = Null
      /\ biller'[b].ids = biller[b].ids /\ biller'[b].todo = biller[b].todo
      /\ \A c \in Billers \ {b} : biller'[c] = biller[c]
  BY <1>1 DEF SlipTypeOK, Biller
<1>4. /\ rentLine'[r][m] = rentLine[r][m] + 1
      /\ \A q \in Reservations, n \in Months :
           q # r \/ n # m => rentLine'[q][n] = rentLine[q][n]
      /\ rentLine' \in [Reservations -> [Months -> Nat]]
  BY <1>1, <1>2 DEF SlipTypeOK
<1> HIDE DEF r, m
<1>5. SlipTypeOK'
  <2>1. biller' \in [Billers -> Biller]
    BY <1>1, RowStays DEF SlipTypeOK
  <2> QED BY <1>1, <1>4, <2>1 DEF SlipTypeOK
<1>6. Placed' /\ NoDoubleBooking'
  BY <1>1 DEF Placed, NoDoubleBooking, Standing
<1>7. SecondChargeRaced'
  <2>1. ASSUME NEW q \in Reservations, NEW n \in Months, rentLine'[q][n] > 1
        PROVE  <<q, n>> \in rentRaced'
    <3>1. CASE q = r /\ n = m
      BY <1>1, <1>2, <1>4, <2>1, <3>1
    <3>2. CASE ~(q = r /\ n = m)
      BY <1>1, <1>4, <2>1, <3>2 DEF SecondChargeRaced
    <3> QED BY <3>1, <3>2
  <2>2. \A q \in Reservations : stayLine'[q] > 1 => q \in stayRaced'
    BY <1>1 DEF SecondChargeRaced
  <2> QED BY <2>1, <2>2 DEF SecondChargeRaced
<1>8. Working'
  <2>1. ASSUME NEW c \in Billers, c # b, biller[c].job = "sweep",
               biller[c].at = r, biller[c].month = m
        PROVE  <<r, m>> \in rentRaced'
    BY <1>1, <2>1 DEF RentPending
  <2>2. ASSUME NEW c \in Billers, biller'[c].at # Null
        PROVE  /\ biller'[c].job = "stay" =>
                    stayLine[biller'[c].at] = 0 \/ biller'[c].at \in stayRaced
               /\ biller'[c].job = "sweep" =>
                    \/ rentLine'[biller'[c].at][biller'[c].month] = 0
                    \/ <<biller'[c].at, biller'[c].month>> \in rentRaced'
    <3>1. /\ c # b /\ biller'[c] = biller[c]
          /\ biller[c].at \in Reservations /\ biller[c].month \in Months
      BY <1>3, <2>2 DEF SlipTypeOK, Biller
    <3>2. rentRaced \subseteq rentRaced'
      BY <1>1
    <3>3. CASE biller[c].at = r /\ biller[c].month = m
      BY <2>1, <2>2, <3>1, <3>3 DEF Working
    <3>4. CASE ~(biller[c].at = r /\ biller[c].month = m)
      <4>1. rentLine'[biller[c].at][biller[c].month] = rentLine[biller[c].at][biller[c].month]
        BY <1>4, <3>1, <3>4
      <4> QED BY <2>2, <3>1, <3>2, <4>1 DEF Working
    <3> QED BY <3>3, <3>4
  <2>3. ASSUME NEW c \in Billers
        PROVE  /\ biller'[c].job = "stay" => biller'[c].at \in Reservations
               /\ biller'[c].job = "sweep" =>
                    \A q \in biller'[c].ids : /\ booking[q].status \in Accepted
                                              /\ Touches(q, biller'[c].month)
    <3>1. CASE c = b
      BY <1>1, <1>3, <3>1 DEF Working, m
    <3>2. CASE c # b
      BY <1>3, <3>2 DEF Working
    <3> QED BY <3>1, <3>2
  <2> QED BY <1>1, <2>2, <2>3 DEF Working, Touches
<1>9. SweepKeepsUp'
  <2>1. ASSUME NEW c \in Billers, biller'[c].job = "sweep",
               NEW q \in (biller'[c].ids \ biller'[c].todo) \ {biller'[c].at}
        PROVE  \/ rentLine'[q][biller'[c].month] > 0
               \/ stayLine'[q] > 0
               \/ booking'[q].status \in {"checked_out", "cancelled"}
    <3>1. /\ biller'[c].month = biller[c].month /\ biller'[c].ids = biller[c].ids
          /\ biller'[c].todo = biller[c].todo /\ biller[c].job = "sweep"
          /\ q \in Reservations /\ biller[c].month \in Months
      BY <1>1, <1>3, <2>1 DEF SlipTypeOK, Biller, m
    <3>2. CASE q = r /\ biller[c].month = m
      BY <1>2, <1>4, <3>1, <3>2
    <3>3. CASE ~(q = r /\ biller[c].month = m)
      <4>1. q # biller[c].at
        BY <1>3, <2>1, <3>3 DEF r, m
      <4>2. rentLine'[q][biller[c].month] = rentLine[q][biller[c].month]
        BY <1>4, <3>1, <3>3
      <4> QED BY <1>1, <2>1, <3>1, <4>1, <4>2 DEF SweepKeepsUp
    <3> QED BY <3>2, <3>3
  <2> QED BY <2>1 DEF SweepKeepsUp
<1> QED BY <1>5, <1>6, <1>7, <1>8, <1>9

-----------------------------------------------------------------------------
LEMMA SlipNextKeeps == SlipInv /\ [SlipNext]_slipVars => SlipInv'
<1> SUFFICES ASSUME SlipInv, [SlipNext]_slipVars  PROVE  SlipInv'
  OBVIOUS
<1>1. CASE Desk
  <2>1. ASSUME NEW s \in Slips, NEW status \in SlipStatuses,
               StaffSetsSlip(s, status)
        PROVE  SlipInv'
    BY <2>1, OthersKeep DEF StaffSetsSlip, races, SlipInv, SlipTypeOK
  <2>2. {"confirmed", "checked_in", "checked_out", "cancelled"}
          \subseteq DOMAIN transitions
    BY DEF transitions
  <2> QED BY <1>1, <2>1, <2>2, CreateKeeps, TransitionKeeps DEF Desk
<1>2. ASSUME NEW b \in Billers, Bill(b)  PROVE  SlipInv'
  <2>1. CASE SweepEnds(b) \/ BillerDies(b)
    BY <2>1, StopKeeps DEF SweepEnds, BillerDies, races, SlipInv, SlipTypeOK
  <2> QED
    BY <1>2, <2>1, CheckStayChargeKeeps, SweepChecksKeeps, InsertStayChargeKeeps,
       SweepStartsKeeps, SweepInsertsKeeps DEF Bill
<1>3. CASE NextDay
  BY <1>3, OthersKeep DEF NextDay, races, SlipInv, SlipTypeOK
<1>4. CASE UNCHANGED slipVars
  BY <1>4, OthersKeep DEF slipVars, races, SlipInv, SlipTypeOK
<1> QED BY <1>1, <1>2, <1>3, <1>4 DEF SlipNext

\* Every behaviour of the marina satisfies the inductive invariant.
THEOREM SlipInvariance == SlipSpec => []SlipInv
BY SlipInitEstablishes, SlipNextKeeps, PTL DEF SlipSpec

\* Every table and every caller keeps its type.
THEOREM TypeCorrect == SlipSpec => []SlipTypeOK
BY SlipInvariance, PTL DEF SlipInv

\* No day of a slip is promised to two standing bookings.
THEOREM NeverDoubleBooked == SlipSpec => []NoDoubleBooking
BY SlipInvariance, PTL DEF SlipInv

\* A sweep leaves none of the reservations it has dealt with unpaid, however
\* many callers are charging and whatever the desk does meanwhile.
THEOREM SweepIsThorough == SlipSpec => []SweepKeepsUp
BY SlipInvariance, PTL DEF SlipInv

\* However many callers charge at once: a month or a stay gets a second charge
\* only if a first was inserted while another caller stood between its own
\* check and its insert.
THEOREM SecondChargesRaced == SlipSpec => []SecondChargeRaced
BY SlipInvariance, PTL DEF SlipInv

-----------------------------------------------------------------------------
(* The yard.                                                                *)

Rows == Customers \union Vessels \union Jobs

AddressRequest ==
  [op : {"address"}, read : SUBSET Customers, stale : SUBSET Rows,
   part : Part, value : 1 .. 2, geocoded : Address \union {None}]

BackfillRequest ==
  [op : {"backfill"}, read : SUBSET Customers, stale : SUBSET Rows,
   todo : SUBSET Customers, held : SUBSET Customers,
   found : UNION {[rows -> Address] : rows \in SUBSET Customers}]

CreateRequest ==
  [op : {"create"}, read : SUBSET Vessels, stale : SUBSET Rows,
   customer : Customers, vessel : Vessels \union {None}]

UpdateRequest ==
  [op : {"update"}, read : SUBSET (Jobs \union Vessels), stale : SUBSET Rows,
   job : Jobs, customer : Customers \union {Keep}, vessel : Vessels \union {None, Keep}]

IdleRequest == [op : {"idle"}, read : {{}}, stale : {{}}]

Request == AddressRequest \union BackfillRequest \union CreateRequest
             \union UpdateRequest \union IdleRequest

(* What a request may rely on at its write: coordinates are of the address   *)
(* as its edit makes it, ..                                                  *)
AddressSound(r) ==
  r.op = "address" =>
    /\ r.read \subseteq Present \union gone
    /\ \A c \in r.read \ r.stale :
         c \in Present =>
           r.geocoded \in {[customer[c].address EXCEPT ![r.part] = r.value], None}

(* .. the backfill holds rows that are there and knows their addresses, ..   *)
BackfillSound(r) ==
  r.op = "backfill" =>
    /\ r.read \subseteq Present \union gone
    /\ r.todo \union r.held \subseteq r.read /\ r.held \subseteq Present
    /\ r.found \in [r.read -> Address]
    /\ \A c \in r.read \ r.stale : c \in Present => r.found[c] = customer[c].address

(* .. and a boat that was read is still the customer's.                      *)
CreateSound(r) ==
  r.op = "create" =>
    /\ r.read = {r.vessel} \ {None}
    /\ r.stale = {} /\ r.vessel \in Afloat => vessel[r.vessel] = r.customer

UpdateSound(r) ==
  LET j == r.job
      boat == Or(r.vessel, job[j].vessel)
  IN r.op = "update" =>
       /\ j \in r.read /\ j \in Ordered \union gone
       /\ r.stale = {} /\ j \in Ordered =>
            /\ boat # None => boat \in r.read
            /\ boat \in Afloat => vessel[boat] = Or(r.customer, job[j].customer)

Sound(r) == /\ r \in Request
            /\ AddressSound(r)
            /\ BackfillSound(r)
            /\ CreateSound(r)
            /\ UpdateSound(r)

RequestsSound == /\ request \in [Workers -> Request]
                 /\ \A w \in Workers : Sound(request[w])

IInv == /\ TypeOK
        /\ CoordinatesOfAddress
        /\ BoatOfCustomer
        /\ RequestsSound

USE YardAssumption

-----------------------------------------------------------------------------
LEMMA InitEstablishes == Init => IInv
<1> SUFFICES ASSUME Init  PROVE  IInv
  OBVIOUS
<1>1. Idle \in Request /\ Idle.op = "idle"
  BY DEF Idle, Request, IdleRequest
<1>2. RequestsSound
  BY <1>1 DEF Init, RequestsSound, Sound, AddressSound, BackfillSound, CreateSound, UpdateSound
<1>3. Somewhere \in Address
  BY DEF Somewhere, Address
<1>4. TypeOK
  BY <1>3 DEF Init, TypeOK, Customer, Job, NoJob, Present, Afloat, Ordered
<1>5. CoordinatesOfAddress
  BY DEF Init, CoordinatesOfAddress
<1>6. BoatOfCustomer
  BY DEF Init, BoatOfCustomer, Ordered, NoJob
<1> QED
  BY <1>2, <1>4, <1>5, <1>6 DEF IInv

(* What becomes of a request when a row it may have read changes.            *)
LEMMA OutdatedIs ==
  ASSUME RequestsSound, NEW w, NEW x \in Rows, NEW v \in Workers
  PROVE  LET r == request[v]
             q == Outdated(w, x)[v]
         IN \/ q = Idle
            \/ q = r /\ x \notin r.read
            \/ /\ q = [r EXCEPT !.stale = r.stale \union {x}]
               /\ x \in r.read
  BY DEF Outdated

(* A request that is marked is of the same kind.                             *)
LEMMA MarkedKeepsRequest ==
  ASSUME NEW r \in Request, NEW x \in Rows, x \in r.read
  PROVE  LET q == [r EXCEPT !.stale = r.stale \union {x}]
         IN /\ q \in Request
            /\ q.op = r.op /\ q.read = r.read /\ q.stale = r.stale \union {x}
            /\ r.op = "address" => /\ q.part = r.part /\ q.value = r.value
                                   /\ q.geocoded = r.geocoded
            /\ r.op = "backfill" => /\ q.todo = r.todo /\ q.held = r.held
                                    /\ q.found = r.found
            /\ r.op = "create" => q.customer = r.customer /\ q.vessel = r.vessel
            /\ r.op = "update" => /\ q.job = r.job /\ q.customer = r.customer
                                  /\ q.vessel = r.vessel
<1> DEFINE q == [r EXCEPT !.stale = r.stale \union {x}]
<1>1. CASE r \in AddressRequest
  BY <1>1 DEF Request, AddressRequest
<1>2. CASE r \in BackfillRequest
  BY <1>2 DEF Request, BackfillRequest
<1>3. CASE r \in CreateRequest
  BY <1>3 DEF Request, CreateRequest
<1>4. CASE r \in UpdateRequest
  BY <1>4 DEF Request, UpdateRequest
<1>5. CASE r \in IdleRequest
  BY <1>5 DEF IdleRequest
<1> QED
  BY <1>1, <1>2, <1>3, <1>4, <1>5 DEF Request

(* A request is sound after a step that leaves alone what it relies on.      *)
LEMMA OtherRequestsSound ==
  ASSUME IInv, UNCHANGED <<customer, vessel, job, gone>>, NEW w \in Workers,
         NEW new \in Request, request' = [request EXCEPT ![w] = new],
         AddressSound(new), BackfillSound(new), CreateSound(new), UpdateSound(new)
  PROVE  RequestsSound'
<1>1. \A v \in Workers : request'[v] = new \/ request'[v] = request[v]
  BY DEF IInv, RequestsSound
<1>2. request' \in [Workers -> Request]
  BY DEF IInv, RequestsSound
<1>3. ASSUME NEW v \in Workers  PROVE  Sound(request[v])'
  <2> DEFINE q == request'[v]
  <2>1. q \in Request
    BY <1>2
  <2>2. AddressSound(q) /\ BackfillSound(q) /\ CreateSound(q) /\ UpdateSound(q)
    BY <1>1 DEF IInv, RequestsSound, Sound
  <2>3. Present' = Present /\ Afloat' = Afloat /\ Ordered' = Ordered
    BY DEF Present, Afloat, Ordered
  <2> QED
    BY <2>1, <2>2, <2>3 DEF Sound, AddressSound, BackfillSound, CreateSound, UpdateSound
<1> QED
  BY <1>2, <1>3 DEF RequestsSound

LEMMA IdleSound == /\ Idle \in Request /\ Idle.op = "idle"
                   /\ AddressSound(Idle) /\ BackfillSound(Idle)
                   /\ CreateSound(Idle) /\ UpdateSound(Idle)
  BY DEF Idle, Request, IdleRequest, AddressSound, BackfillSound, CreateSound, UpdateSound

(* The steps that change nothing but one request keep the invariant.         *)
LEMMA OneRequestKeeps ==
  ASSUME IInv, UNCHANGED <<customer, vessel, job, disturbed, crossed, gone>>,
         budget' \in Nat, RequestsSound'
  PROVE  IInv'
  BY DEF IInv, TypeOK, CoordinatesOfAddress, BoatOfCustomer, Belongs,
         Present, Afloat, Ordered

-----------------------------------------------------------------------------
(* Customers. *)

LEMMA CreateCustomerKeeps ==
  ASSUME IInv, NEW c \in Customers, NEW address \in Address, CreateCustomer(c, address)
  PROVE  IInv'
<1>1. PICK found \in {address, None} :
        customer' = [customer EXCEPT ![c] = [here |-> TRUE, address |-> address, geocoded |-> found]]
  BY DEF CreateCustomer, Geocode
<1>2. /\ customer' \in [Customers -> Customer]
      /\ customer'[c] = [here |-> TRUE, address |-> address, geocoded |-> found]
      /\ \A d \in Customers \ {c} : customer'[d] = customer[d]
  BY <1>1 DEF IInv, TypeOK, Customer
<1>3. c \notin Present \union gone /\ Present' = Present \union {c}
  BY <1>2 DEF CreateCustomer, Present
<1>4. TypeOK'
  BY <1>2, <1>3 DEF IInv, TypeOK, CreateCustomer, Event, Afloat, Ordered
<1>5. CoordinatesOfAddress'
  BY <1>2 DEF IInv, CoordinatesOfAddress, CreateCustomer
<1>6. BoatOfCustomer'
  BY DEF IInv, BoatOfCustomer, CreateCustomer, Belongs, Ordered
<1>7. ASSUME NEW w \in Workers  PROVE  Sound(request[w])'
  <2> DEFINE r == request[w]
  <2>1. r' = r /\ Sound(r)
    BY DEF IInv, RequestsSound, CreateCustomer
  <2>2. AddressSound(r)'
    BY <1>2, <1>3, <2>1 DEF Sound, AddressSound, CreateCustomer
  <2>3. BackfillSound(r)'
    BY <1>2, <1>3, <2>1 DEF Sound, BackfillSound, CreateCustomer
  <2>4. CreateSound(r)' /\ UpdateSound(r)'
    BY <2>1 DEF Sound, CreateSound, UpdateSound, CreateCustomer, Afloat, Ordered
  <2> QED
    BY <2>1, <2>2, <2>3, <2>4 DEF Sound
<1> QED
  BY <1>4, <1>5, <1>6, <1>7 DEF IInv, RequestsSound, CreateCustomer

LEMMA AddressLooksKeeps ==
  ASSUME IInv, NEW w \in Workers, NEW c \in Customers, NEW part \in Part,
         NEW value \in 1 .. 2, AddressLooks(w, c, part, value)
  PROVE  IInv'
<1>1. PICK found \in {[customer[c].address EXCEPT ![part] = value], None} :
        request' = [request EXCEPT ![w] =
          [op |-> "address", read |-> {c}, stale |-> {}, part |-> part,
           value |-> value, geocoded |-> found]]
  BY DEF AddressLooks, Geocode, Merged, Becomes
<1> DEFINE new == [op |-> "address", read |-> {c}, stale |-> {}, part |-> part,
                   value |-> value, geocoded |-> found]
<1>2. customer[c].address \in Address
  BY DEF IInv, TypeOK, Customer
<1>3. [customer[c].address EXCEPT ![part] = value] \in Address
  BY <1>2 DEF Address
<1>4. new \in Request
  BY <1>3 DEF Request, AddressRequest
<1>5. AddressSound(new) /\ BackfillSound(new) /\ CreateSound(new) /\ UpdateSound(new)
  BY DEF AddressLooks, AddressSound, BackfillSound, CreateSound, UpdateSound
<1>6. RequestsSound'
  BY <1>1, <1>4, <1>5, OtherRequestsSound DEF AddressLooks
<1> QED
  BY <1>6, OneRequestKeeps DEF AddressLooks, Event, IInv, TypeOK

LEMMA AddressWritesKeeps ==
  ASSUME IInv, NEW w \in Workers, AddressWrites(w)
  PROVE  IInv'
<1> DEFINE r == request[w]
<1>1. PICK c \in r.read :
        /\ r.op = "address" /\ c \in Present /\ ~Held(c)
        /\ customer' = [customer EXCEPT ![c] =
             [here |-> TRUE, address |-> [customer[c].address EXCEPT ![r.part] = r.value],
              geocoded |-> r.geocoded]]
        /\ crossed' = Marked(crossed, c, c \in r.stale)
        /\ request' = Outdated(w, c)
        /\ UNCHANGED <<vessel, job, disturbed, gone, budget>>
  BY DEF AddressWrites
<1> DEFINE next == [customer[c].address EXCEPT ![r.part] = r.value]
<1>2. r \in Request /\ AddressSound(r)
  BY DEF IInv, RequestsSound, Sound
<1>3. r \in AddressRequest
  BY <1>1, <1>2 DEF Request, AddressRequest, BackfillRequest, CreateRequest,
                    UpdateRequest, IdleRequest
<1>4. c \in Customers /\ next \in Address /\ r.geocoded \in Address \union {None}
  <2>1. c \in Customers /\ r.part \in Part /\ r.value \in 1 .. 2
        /\ r.geocoded \in Address \union {None}
    BY <1>3 DEF AddressRequest
  <2>2. customer[c].address \in Address
    BY <2>1 DEF IInv, TypeOK, Customer
  <2> QED
    BY <2>1, <2>2 DEF Address
<1>5. /\ customer' \in [Customers -> Customer]
      /\ customer'[c] = [here |-> TRUE, address |-> next, geocoded |-> r.geocoded]
      /\ \A d \in Customers \ {c} : customer'[d] = customer[d]
  BY <1>1, <1>4 DEF IInv, TypeOK, Customer
<1>6. Present' = Present
  BY <1>1, <1>5 DEF Present
<1>7. TypeOK'
  BY <1>1, <1>4, <1>5, <1>6 DEF IInv, TypeOK, Afloat, Ordered, Marked
<1>8. CoordinatesOfAddress'
  <2>1. c \notin r.stale => r.geocoded \in {next, None}
    BY <1>1, <1>2 DEF AddressSound
  <2> QED
    BY <1>1, <1>5, <2>1 DEF IInv, CoordinatesOfAddress, Marked
<1>9. BoatOfCustomer'
  BY <1>1 DEF IInv, BoatOfCustomer, Belongs, Ordered
<1>10. ASSUME NEW v \in Workers  PROVE  Sound(request[v])'
  <2> DEFINE q == request'[v]
  <2>1. \/ q = Idle
        \/ q = request[v] /\ c \notin request[v].read
        \/ /\ q = [request[v] EXCEPT !.stale = request[v].stale \union {c}]
           /\ c \in request[v].read
    BY <1>1, <1>4, OutdatedIs DEF IInv, Rows
  <2>2. Sound(request[v])
    BY DEF IInv, RequestsSound
  <2>3. CASE q = Idle
    BY <2>3, IdleSound DEF Sound, AddressSound, BackfillSound, CreateSound, UpdateSound
  <2>4. CASE q = request[v] /\ c \notin request[v].read
    <3>1. AddressSound(request[v])'
      BY <1>1, <1>5, <1>6, <2>2, <2>4 DEF Sound, AddressSound, Present
    <3>2. BackfillSound(request[v])'
      BY <1>1, <1>5, <1>6, <2>2, <2>4 DEF Sound, BackfillSound, Present
    <3>3. CreateSound(request[v])' /\ UpdateSound(request[v])'
      BY <1>1, <2>2, <2>4 DEF Sound, CreateSound, UpdateSound, Afloat, Ordered
    <3> QED
      BY <2>2, <2>4, <3>1, <3>2, <3>3 DEF Sound
  <2>5. CASE /\ q = [request[v] EXCEPT !.stale = request[v].stale \union {c}]
             /\ c \in request[v].read
    <3>1. /\ q \in Request
          /\ q.op = request[v].op /\ q.read = request[v].read
          /\ q.stale = request[v].stale \union {c}
          /\ q.op = "address" => /\ q.part = request[v].part /\ q.value = request[v].value
                                 /\ q.geocoded = request[v].geocoded
          /\ q.op = "backfill" => /\ q.todo = request[v].todo /\ q.held = request[v].held
                                  /\ q.found = request[v].found
          /\ q.op = "create" => q.vessel = request[v].vessel
          /\ q.op = "update" => q.job = request[v].job
      BY <1>4, <2>2, <2>5, MarkedKeepsRequest DEF Sound, Rows
    <3>2. AddressSound(request[v])'
      BY <1>1, <1>5, <1>6, <2>2, <3>1 DEF Sound, AddressSound, Present
    <3>3. BackfillSound(request[v])'
      BY <1>1, <1>5, <1>6, <2>2, <3>1 DEF Sound, BackfillSound, Present
    <3>4. CreateSound(request[v])' /\ UpdateSound(request[v])'
      BY <1>1, <2>2, <3>1 DEF Sound, CreateSound, UpdateSound, Afloat, Ordered
    <3> QED
      BY <3>1, <3>2, <3>3, <3>4 DEF Sound
  <2> QED
    BY <2>1, <2>3, <2>4, <2>5
<1>11. request' \in [Workers -> Request]
  BY <1>1, <1>10 DEF Sound, Outdated
<1> QED
  BY <1>7, <1>8, <1>9, <1>10, <1>11 DEF IInv, RequestsSound

LEMMA DeleteCustomerKeeps ==
  ASSUME IInv, NEW c \in Customers, DeleteCustomer(c)
  PROVE  IInv'
<1>1. /\ customer' \in [Customers -> Customer]
      /\ customer'[c] = [here |-> FALSE, address |-> Somewhere, geocoded |-> None]
      /\ \A d \in Customers \ {c} : customer'[d] = customer[d]
  <2>1. Somewhere \in Address
    BY DEF Somewhere, Address
  <2> QED
    BY <2>1 DEF DeleteCustomer, IInv, TypeOK, Customer
<1>2. Present' = Present \ {c} /\ Afloat' = Afloat /\ Ordered' = Ordered
  BY <1>1 DEF DeleteCustomer, Present, Afloat, Ordered
<1>3. c \notin Vessels /\ c \notin Jobs /\ Afloat \subseteq Vessels /\ Ordered \subseteq Jobs
  BY DEF Afloat, Ordered
<1>4. TypeOK'
  BY <1>1, <1>2, <1>3 DEF IInv, TypeOK, DeleteCustomer, Event
<1>5. CoordinatesOfAddress'
  BY <1>1 DEF IInv, CoordinatesOfAddress, DeleteCustomer
<1>6. BoatOfCustomer'
  BY DEF IInv, BoatOfCustomer, DeleteCustomer, Belongs, Ordered
<1>7. ASSUME NEW w \in Workers  PROVE  Sound(request[w])'
  <2> DEFINE r == request[w]
  <2>1. r' = r /\ Sound(r)
    BY DEF IInv, RequestsSound, DeleteCustomer
  <2>2. AddressSound(r)'
    BY <1>1, <1>2, <2>1 DEF Sound, AddressSound, DeleteCustomer
  <2>3. BackfillSound(r)'
    <3>1. r.op = "backfill" => c \notin r.held
      BY DEF DeleteCustomer, Held
    <3> QED
      BY <1>1, <1>2, <2>1, <3>1 DEF Sound, BackfillSound, DeleteCustomer
  <2>4. CreateSound(r)' /\ UpdateSound(r)'
    BY <1>2, <2>1 DEF Sound, CreateSound, UpdateSound, DeleteCustomer
  <2> QED
    BY <2>1, <2>2, <2>3, <2>4 DEF Sound
<1> QED
  BY <1>4, <1>5, <1>6, <1>7 DEF IInv, RequestsSound, DeleteCustomer

-----------------------------------------------------------------------------
(* The backfill. *)

LEMMA BackfillReadsKeeps ==
  ASSUME IInv, NEW w \in Workers, NEW force \in BOOLEAN, BackfillReads(w, force)
  PROVE  IInv'
<1> DEFINE rows == {c \in Present : force \/ customer[c].geocoded = None}
           new == [op |-> "backfill", read |-> rows, stale |-> {}, todo |-> rows,
                   held |-> {}, found |-> [c \in rows |-> customer[c].address]]
<1>1. rows \in SUBSET Customers /\ rows \subseteq Present
  BY DEF Present
<1>2. new.found \in [rows -> Address]
  BY <1>1 DEF IInv, TypeOK, Customer
<1>3. new \in Request
  BY <1>1, <1>2 DEF Request, BackfillRequest
<1>4. AddressSound(new) /\ BackfillSound(new) /\ CreateSound(new) /\ UpdateSound(new)
  BY <1>1, <1>2 DEF AddressSound, BackfillSound, CreateSound, UpdateSound
<1>5. request' = [request EXCEPT ![w] = new]
  BY DEF BackfillReads, Becomes
<1>6. RequestsSound'
  BY <1>3, <1>4, <1>5, OtherRequestsSound DEF BackfillReads
<1> QED
  BY <1>6, OneRequestKeeps DEF BackfillReads, Event, IInv, TypeOK

LEMMA BackfillFindsKeeps ==
  ASSUME IInv, NEW w \in Workers, NEW c \in Customers, BackfillFinds(w, c)
  PROVE  IInv'
<1> DEFINE r == request[w]
<1>1. r.op = "backfill" /\ c \in r.todo /\ Sound(r)
  BY DEF BackfillFinds, IInv, RequestsSound
<1>2. r \in BackfillRequest
  BY <1>1 DEF Sound, Request, AddressRequest, BackfillRequest, CreateRequest,
              UpdateRequest, IdleRequest
<1> DEFINE With(held) == [r EXCEPT !.todo = r.todo \ {c}, !.held = held]
<1>3. PICK held \in {r.held, r.held \union {c}} :
        /\ request' = [request EXCEPT ![w] = With(held)]
        /\ held = r.held \/ c \in Present
  <2>1. CASE request' = [request EXCEPT ![w] = [r EXCEPT !.todo = r.todo \ {c}]]
    <3>1. [r EXCEPT !.todo = r.todo \ {c}] = With(r.held)
      BY <1>2 DEF BackfillRequest
    <3>2. request' = [request EXCEPT ![w] = With(r.held)]
      BY <2>1, <3>1
    <3> QED
      BY <3>2
  <2>2. CASE c \in Present /\ request' = [request EXCEPT ![w] = With(r.held \union {c})]
    <3> HIDE DEF With
    <3> QED
      BY <2>2
  <2> QED
    BY <2>1, <2>2 DEF BackfillFinds, Becomes
<1> DEFINE new == [r EXCEPT !.todo = r.todo \ {c}, !.held = held]
<1>4. /\ new \in BackfillRequest
      /\ new.op = "backfill" /\ new.read = r.read /\ new.stale = r.stale
      /\ new.todo = r.todo \ {c} /\ new.held = held /\ new.found = r.found
  BY <1>2, <1>3 DEF BackfillRequest
<1>5. AddressSound(new) /\ CreateSound(new) /\ UpdateSound(new)
  BY <1>4 DEF AddressSound, CreateSound, UpdateSound
<1>6. BackfillSound(new)
  BY <1>1, <1>3, <1>4 DEF Sound, BackfillSound
<1>7. new \in Request
  BY <1>4 DEF Request
<1>8. RequestsSound'
  BY <1>3, <1>5, <1>6, <1>7, OtherRequestsSound DEF BackfillFinds
<1> QED
  BY <1>8, OneRequestKeeps DEF BackfillFinds, IInv, TypeOK

LEMMA BackfillCommitsKeeps ==
  ASSUME IInv, NEW w \in Workers, BackfillCommits(w)
  PROVE  IInv'
<1> DEFINE r == request[w]
<1>1. r.op = "backfill" /\ Sound(r)
  BY DEF BackfillCommits, IInv, RequestsSound
<1>2. /\ r.held \subseteq Present /\ r.held \subseteq r.read /\ r.found \in [r.read -> Address]
      /\ \A c \in r.held \ r.stale : r.found[c] = customer[c].address
  BY <1>1 DEF Sound, BackfillSound
<1>3. /\ customer' \in [Customers -> Customer]
      /\ \A c \in Customers : /\ customer'[c].here = customer[c].here
                              /\ customer'[c].address = customer[c].address
      /\ \A c \in Customers :
           customer'[c].geocoded = IF c \in r.held THEN r.found[c] ELSE customer[c].geocoded
  BY <1>2 DEF BackfillCommits, IInv, TypeOK, Customer, Present
<1>4. Present' = Present /\ Afloat' = Afloat /\ Ordered' = Ordered
  BY <1>3 DEF BackfillCommits, Present, Afloat, Ordered
<1>5. TypeOK'
  <2>1. r.held \subseteq Customers
    BY <1>2 DEF Present
  <2> QED
    BY <1>3, <1>4, <2>1 DEF IInv, TypeOK, BackfillCommits
<1>6. CoordinatesOfAddress'
  BY <1>2, <1>3 DEF IInv, CoordinatesOfAddress, BackfillCommits
<1>7. BoatOfCustomer'
  BY DEF IInv, BoatOfCustomer, BackfillCommits, Belongs, Ordered
<1>8. ASSUME NEW v \in Workers  PROVE  Sound(request[v])'
  <2>1. request'[v] = Idle \/ request'[v] = request[v]
    BY DEF BackfillCommits, Becomes, IInv, RequestsSound
  <2>2. CASE request'[v] = Idle
    BY <2>2, IdleSound DEF Sound, AddressSound, BackfillSound, CreateSound, UpdateSound
  <2>3. CASE request'[v] = request[v]
    <3>1. Sound(request[v])
      BY DEF IInv, RequestsSound
    <3>2. AddressSound(request[v])' /\ BackfillSound(request[v])'
      BY <1>3, <1>4, <2>3, <3>1 DEF Sound, AddressSound, BackfillSound, BackfillCommits, Present
    <3>3. CreateSound(request[v])' /\ UpdateSound(request[v])'
      BY <1>4, <2>3, <3>1 DEF Sound, CreateSound, UpdateSound, BackfillCommits
    <3> QED
      BY <2>3, <3>1, <3>2, <3>3 DEF Sound
  <2> QED
    BY <2>1, <2>2, <2>3
<1>9. request' \in [Workers -> Request]
  BY IdleSound DEF BackfillCommits, Becomes, IInv, RequestsSound
<1> QED
  BY <1>5, <1>6, <1>7, <1>8, <1>9 DEF IInv, RequestsSound

-----------------------------------------------------------------------------
(* Boats. *)

LEMMA VesselGoesToKeeps ==
  ASSUME IInv, NEW v \in Vessels, NEW c \in Customers, VesselGoesTo(v, c)
  PROVE  IInv'
<1>1. /\ vessel' \in [Vessels -> Customers \union {None}]
      /\ vessel'[v] = c /\ \A b \in Vessels \ {v} : vessel'[b] = vessel[b]
      /\ v \notin gone /\ c \in Present
  BY DEF VesselGoesTo, IInv, TypeOK
<1>2. Present' = Present /\ Afloat' = Afloat \union {v} /\ Ordered' = Ordered
  BY <1>1 DEF VesselGoesTo, Present, Afloat, Ordered
<1>3. TypeOK'
  <2>1. disturbed' \subseteq Jobs /\ budget' \in Nat
    BY DEF VesselGoesTo, Event, IInv, TypeOK, Ordered
  <2>2. gone' \intersect (Present \union Afloat \union Ordered)' = {}
    BY <1>1, <1>2 DEF VesselGoesTo, IInv, TypeOK
  <2> QED
    BY <1>1, <1>2, <2>1, <2>2 DEF VesselGoesTo, IInv, TypeOK
<1>4. CoordinatesOfAddress'
  BY DEF IInv, CoordinatesOfAddress, VesselGoesTo
<1>5. BoatOfCustomer'
  <2> SUFFICES ASSUME NEW j \in Ordered \ disturbed'
               PROVE  Belongs(job[j].vessel, job[j].customer)'
    BY <1>2 DEF BoatOfCustomer
  <2>1. j \notin disturbed /\ job[j].vessel # v
    BY DEF VesselGoesTo
  <2>2. Belongs(job[j].vessel, job[j].customer)
    BY <2>1 DEF IInv, BoatOfCustomer
  <2> QED
    BY <1>1, <2>1, <2>2 DEF Belongs, VesselGoesTo
<1>6. ASSUME NEW w \in Workers  PROVE  Sound(request[w])'
  <2> DEFINE q == request'[w]
  <2>1. \/ q = Idle
        \/ q = request[w] /\ v \notin request[w].read
        \/ /\ q = [request[w] EXCEPT !.stale = request[w].stale \union {v}]
           /\ v \in request[w].read
    BY OutdatedIs DEF VesselGoesTo, IInv, Rows
  <2>2. Sound(request[w])
    BY DEF IInv, RequestsSound
  <2>3. CASE q = Idle
    BY <2>3, IdleSound DEF Sound, AddressSound, BackfillSound, CreateSound, UpdateSound
  <2>4. CASE q = request[w] /\ v \notin request[w].read
    <3>1. AddressSound(request[w])' /\ BackfillSound(request[w])'
      BY <1>2, <2>2, <2>4 DEF Sound, AddressSound, BackfillSound, VesselGoesTo
    <3>2. CreateSound(request[w])'
      <4>1. request[w].op = "create" => request[w].vessel # v
        BY <2>2, <2>4 DEF Sound, CreateSound
      <4> QED
        BY <1>1, <1>2, <2>2, <2>4, <4>1 DEF Sound, CreateSound, Afloat
    <3>3. UpdateSound(request[w])'
      BY <1>1, <1>2, <2>2, <2>4 DEF Sound, UpdateSound, VesselGoesTo, Afloat
    <3> QED
      BY <2>2, <2>4, <3>1, <3>2, <3>3 DEF Sound
  <2>5. CASE /\ q = [request[w] EXCEPT !.stale = request[w].stale \union {v}]
             /\ v \in request[w].read
    <3>1. /\ q \in Request
          /\ q.op = request[w].op /\ q.read = request[w].read
          /\ q.stale = request[w].stale \union {v}
          /\ q.op = "address" => /\ q.part = request[w].part /\ q.value = request[w].value
                                 /\ q.geocoded = request[w].geocoded
          /\ q.op = "backfill" => /\ q.todo = request[w].todo /\ q.held = request[w].held
                                  /\ q.found = request[w].found
          /\ q.op = "create" => q.vessel = request[w].vessel
          /\ q.op = "update" => q.job = request[w].job
      BY <2>2, <2>5, MarkedKeepsRequest DEF Sound, Rows
    <3>2. AddressSound(request[w])' /\ BackfillSound(request[w])'
      BY <1>2, <2>2, <3>1 DEF Sound, AddressSound, BackfillSound, VesselGoesTo
    <3>3. CreateSound(request[w])' /\ UpdateSound(request[w])'
      BY <1>2, <2>2, <3>1 DEF Sound, CreateSound, UpdateSound, VesselGoesTo
    <3> QED
      BY <3>1, <3>2, <3>3 DEF Sound
  <2> QED
    BY <2>1, <2>3, <2>4, <2>5
<1>7. request' \in [Workers -> Request]
  BY <1>6 DEF Sound, VesselGoesTo, Outdated
<1> QED
  BY <1>3, <1>4, <1>5, <1>6, <1>7 DEF IInv, RequestsSound

LEMMA DeleteVesselKeeps ==
  ASSUME IInv, NEW v \in Vessels, DeleteVessel(v)
  PROVE  IInv'
<1>1. /\ vessel' \in [Vessels -> Customers \union {None}]
      /\ vessel'[v] = None /\ \A b \in Vessels \ {v} : vessel'[b] = vessel[b]
  BY DEF DeleteVessel, IInv, TypeOK
<1>2. Present' = Present /\ Afloat' = Afloat \ {v} /\ Ordered' = Ordered
  BY <1>1 DEF DeleteVessel, Present, Afloat, Ordered
<1>3. v \notin Present /\ v \notin Ordered
  BY DEF Present, Ordered
<1>4. TypeOK'
  BY <1>1, <1>2, <1>3 DEF DeleteVessel, Event, IInv, TypeOK
<1>5. CoordinatesOfAddress'
  BY DEF IInv, CoordinatesOfAddress, DeleteVessel
<1>6. BoatOfCustomer'
  BY <1>1, <1>2 DEF DeleteVessel, IInv, BoatOfCustomer, Belongs, Ordered
<1>7. ASSUME NEW w \in Workers  PROVE  Sound(request[w])'
  <2> DEFINE r == request[w]
  <2>1. r' = r /\ Sound(r)
    BY DEF IInv, RequestsSound, DeleteVessel
  <2>2. AddressSound(r)' /\ BackfillSound(r)'
    BY <1>2, <2>1 DEF Sound, AddressSound, BackfillSound, DeleteVessel
  <2>3. CreateSound(r)' /\ UpdateSound(r)'
    BY <1>1, <1>2, <2>1 DEF Sound, CreateSound, UpdateSound, DeleteVessel, Afloat
  <2> QED
    BY <2>1, <2>2, <2>3 DEF Sound
<1> QED
  BY <1>4, <1>5, <1>6, <1>7 DEF IInv, RequestsSound, DeleteVessel

-----------------------------------------------------------------------------
(* Work orders. *)

LEMMA CreateLooksKeeps ==
  ASSUME IInv, NEW w \in Workers, NEW c \in Customers, NEW v \in Vessels \union {None},
         CreateLooks(w, c, v)
  PROVE  IInv'
<1> DEFINE new == [op |-> "create", read |-> {v} \ {None}, stale |-> {},
                   customer |-> c, vessel |-> v]
<1>1. new \in Request
  BY DEF Request, CreateRequest
<1>2. AddressSound(new) /\ BackfillSound(new) /\ CreateSound(new) /\ UpdateSound(new)
  BY DEF CreateLooks, Belongs, Afloat, AddressSound, BackfillSound, CreateSound, UpdateSound
<1>3. request' = [request EXCEPT ![w] = new]
  BY DEF CreateLooks, Becomes
<1>4. RequestsSound'
  BY <1>1, <1>2, <1>3, OtherRequestsSound DEF CreateLooks
<1> QED
  BY <1>4, OneRequestKeeps DEF CreateLooks, IInv, TypeOK

LEMMA CreateInsertsKeeps ==
  ASSUME IInv, NEW w \in Workers, NEW j \in Jobs, CreateInserts(w, j)
  PROVE  IInv'
<1> DEFINE r == request[w]
<1>1. r.op = "create" /\ Sound(r) /\ j \notin Ordered \union gone
      /\ r.customer \in Present /\ r.vessel \in Afloat \union {None}
  BY DEF CreateInserts, IInv, RequestsSound
<1>2. r.customer \in Customers /\ r.vessel \in Vessels \union {None}
  BY <1>1 DEF Present, Afloat
<1>3. /\ job' \in [Jobs -> Job]
      /\ job'[j] = [here |-> TRUE, customer |-> r.customer, vessel |-> r.vessel]
      /\ \A k \in Jobs \ {j} : job'[k] = job[k]
  BY <1>2 DEF CreateInserts, IInv, TypeOK, Job
<1>4. Present' = Present /\ Afloat' = Afloat /\ Ordered' = Ordered \union {j}
  BY <1>3 DEF CreateInserts, Present, Afloat, Ordered
<1>5. TypeOK'
  <2>1. disturbed' \subseteq Jobs /\ gone' \intersect (Present \union Afloat \union Ordered)' = {}
    BY <1>1, <1>4 DEF CreateInserts, Marked, IInv, TypeOK
  <2>2. \A k \in Ordered' : job'[k].customer \in Present /\ job'[k].vessel \in Afloat \union {None}
    BY <1>1, <1>3, <1>4 DEF IInv, TypeOK, Ordered
  <2> QED
    BY <1>3, <1>4, <2>1, <2>2 DEF CreateInserts, IInv, TypeOK
<1>6. CoordinatesOfAddress'
  BY DEF IInv, CoordinatesOfAddress, CreateInserts
<1>7. BoatOfCustomer'
  <2> SUFFICES ASSUME NEW k \in Ordered' \ disturbed'
               PROVE  Belongs(job[k].vessel, job[k].customer)'
    BY DEF BoatOfCustomer
  <2>1. CASE k = j
    <3>1. r.stale = {}
      BY <2>1 DEF CreateInserts, Marked
    <3>2. r.vessel \in Afloat => vessel[r.vessel] = r.customer
      BY <1>1, <3>1 DEF Sound, CreateSound
    <3> QED
      BY <1>1, <1>2, <1>3, <2>1, <3>2 DEF Belongs, CreateInserts
  <2>2. CASE k # j
    <3>1. k \in Ordered \ disturbed /\ job'[k] = job[k]
      BY <1>3, <1>4, <2>2 DEF CreateInserts, Marked, Ordered
    <3> QED
      BY <3>1 DEF IInv, BoatOfCustomer, Belongs, CreateInserts
  <2> QED
    BY <2>1, <2>2
<1>8. ASSUME NEW v \in Workers  PROVE  Sound(request[v])'
  <2>1. request'[v] = Idle \/ request'[v] = request[v]
    BY DEF CreateInserts, Becomes, IInv, RequestsSound
  <2>2. CASE request'[v] = Idle
    BY <2>2, IdleSound DEF Sound, AddressSound, BackfillSound, CreateSound, UpdateSound
  <2>3. CASE request'[v] = request[v]
    <3>1. Sound(request[v])
      BY DEF IInv, RequestsSound
    <3>2. AddressSound(request[v])' /\ BackfillSound(request[v])' /\ CreateSound(request[v])'
      BY <1>4, <2>3, <3>1 DEF Sound, AddressSound, BackfillSound, CreateSound, CreateInserts
    <3>3. UpdateSound(request[v])'
      BY <1>1, <1>3, <1>4, <2>3, <3>1 DEF Sound, UpdateSound, CreateInserts, Ordered
    <3> QED
      BY <2>3, <3>1, <3>2, <3>3 DEF Sound
  <2> QED
    BY <2>1, <2>2, <2>3
<1>9. request' \in [Workers -> Request]
  BY IdleSound DEF CreateInserts, Becomes, IInv, RequestsSound
<1> QED
  BY <1>5, <1>6, <1>7, <1>8, <1>9 DEF IInv, RequestsSound

LEMMA UpdateLooksKeeps ==
  ASSUME IInv, NEW w \in Workers, NEW j \in Jobs, NEW c \in Customers \union {Keep},
         NEW v \in Vessels \union {None, Keep}, UpdateLooks(w, j, c, v)
  PROVE  IInv'
<1> DEFINE boat == Or(v, job[j].vessel)
           new == [op |-> "update", read |-> {j} \union ({boat} \ {None}), stale |-> {},
                   job |-> j, customer |-> c, vessel |-> v]
<1>1. j \in Ordered /\ Belongs(boat, Or(c, job[j].customer))
  BY DEF UpdateLooks, PairingAsked
<1>2. boat \in Vessels \union {None}
  BY DEF Or, IInv, TypeOK, Job
<1>3. new \in Request
  BY <1>2 DEF Request, UpdateRequest
<1>4. UpdateSound(new)
  BY <1>1, <1>2 DEF UpdateSound, Belongs, Afloat
<1>5. AddressSound(new) /\ BackfillSound(new) /\ CreateSound(new)
  BY DEF AddressSound, BackfillSound, CreateSound
<1>6. request' = [request EXCEPT ![w] = new]
  BY DEF UpdateLooks, Becomes
<1>7. RequestsSound'
  BY <1>3, <1>4, <1>5, <1>6, OtherRequestsSound DEF UpdateLooks
<1> QED
  BY <1>7, OneRequestKeeps DEF UpdateLooks, Event, IInv, TypeOK

LEMMA UpdateWritesKeeps ==
  ASSUME IInv, NEW w \in Workers, UpdateWrites(w)
  PROVE  IInv'
<1> DEFINE r == request[w]
           j == r.job
           owner == Or(r.customer, job[j].customer)
           boat == Or(r.vessel, job[j].vessel)
<1>1. r.op = "update" /\ Sound(r) /\ j \in Ordered
  BY DEF UpdateWrites, IInv, RequestsSound
<1>2. j \in Jobs
  BY <1>1 DEF Ordered
<1>3. owner \in Present /\ boat \in Afloat \union {None}
  BY <1>1 DEF UpdateWrites, Or, IInv, TypeOK
<1>4. owner \in Customers /\ boat \in Vessels \union {None}
  BY <1>3 DEF Present, Afloat
<1>5. /\ job' \in [Jobs -> Job]
      /\ job'[j] = [here |-> TRUE, customer |-> owner, vessel |-> boat]
      /\ \A k \in Jobs \ {j} : job'[k] = job[k]
  BY <1>2, <1>4 DEF UpdateWrites, IInv, TypeOK, Job
<1>6. Present' = Present /\ Afloat' = Afloat /\ Ordered' = Ordered
  BY <1>1, <1>5 DEF UpdateWrites, Present, Afloat, Ordered
<1>7. TypeOK'
  <2>1. disturbed' \subseteq Jobs
    BY <1>2 DEF UpdateWrites, Marked, IInv, TypeOK
  <2>2. \A k \in Ordered' : job'[k].customer \in Present /\ job'[k].vessel \in Afloat \union {None}
    BY <1>3, <1>5, <1>6 DEF IInv, TypeOK, Ordered
  <2> QED
    BY <1>5, <1>6, <2>1, <2>2 DEF UpdateWrites, IInv, TypeOK
<1>8. CoordinatesOfAddress'
  BY DEF IInv, CoordinatesOfAddress, UpdateWrites
<1>9. BoatOfCustomer'
  <2> SUFFICES ASSUME NEW k \in Ordered' \ disturbed'
               PROVE  Belongs(job[k].vessel, job[k].customer)'
    BY DEF BoatOfCustomer
  <2>1. CASE k = j
    <3>1. r.stale = {}
      BY <2>1 DEF UpdateWrites, Marked
    <3>2. boat \in Afloat => vessel[boat] = owner
      BY <1>1, <3>1 DEF Sound, UpdateSound
    <3> QED
      BY <1>3, <1>4, <1>5, <2>1, <3>2 DEF Belongs, UpdateWrites
  <2>2. CASE k # j
    <3>1. k \in Ordered \ disturbed /\ job'[k] = job[k]
      BY <1>5, <1>6, <2>2 DEF UpdateWrites, Marked, Ordered
    <3> QED
      BY <3>1 DEF IInv, BoatOfCustomer, Belongs, UpdateWrites
  <2> QED
    BY <2>1, <2>2
<1>10. ASSUME NEW v \in Workers  PROVE  Sound(request[v])'
  <2> DEFINE q == request'[v]
  <2>1. \/ q = Idle
        \/ q = request[v] /\ j \notin request[v].read
        \/ /\ q = [request[v] EXCEPT !.stale = request[v].stale \union {j}]
           /\ j \in request[v].read
    BY <1>2, OutdatedIs DEF UpdateWrites, IInv, Rows
  <2>2. Sound(request[v])
    BY DEF IInv, RequestsSound
  <2>3. CASE q = Idle
    BY <2>3, IdleSound DEF Sound, AddressSound, BackfillSound, CreateSound, UpdateSound
  <2>4. CASE q = request[v] /\ j \notin request[v].read
    <3>1. AddressSound(request[v])' /\ BackfillSound(request[v])' /\ CreateSound(request[v])'
      BY <1>6, <2>2, <2>4 DEF Sound, AddressSound, BackfillSound, CreateSound, UpdateWrites
    <3>2. UpdateSound(request[v])'
      <4>1. request[v].op = "update" => request[v].job \in Jobs \ {j}
                                        \/ request[v].job \notin Ordered
        BY <2>2, <2>4 DEF Sound, UpdateSound, Ordered
      <4> QED
        BY <1>5, <1>6, <2>2, <2>4, <4>1 DEF Sound, UpdateSound, UpdateWrites
    <3> QED
      BY <2>2, <2>4, <3>1, <3>2 DEF Sound
  <2>5. CASE /\ q = [request[v] EXCEPT !.stale = request[v].stale \union {j}]
             /\ j \in request[v].read
    <3>1. /\ q \in Request
          /\ q.op = request[v].op /\ q.read = request[v].read
          /\ q.stale = request[v].stale \union {j}
          /\ q.op = "address" => /\ q.part = request[v].part /\ q.value = request[v].value
                                 /\ q.geocoded = request[v].geocoded
          /\ q.op = "backfill" => /\ q.todo = request[v].todo /\ q.held = request[v].held
                                  /\ q.found = request[v].found
          /\ q.op = "create" => q.vessel = request[v].vessel
          /\ q.op = "update" => q.job = request[v].job
      BY <1>2, <2>2, <2>5, MarkedKeepsRequest DEF Sound, Rows
    <3>2. AddressSound(request[v])' /\ BackfillSound(request[v])'
      BY <1>6, <2>2, <3>1 DEF Sound, AddressSound, BackfillSound, UpdateWrites
    <3>3. CreateSound(request[v])' /\ UpdateSound(request[v])'
      BY <1>6, <2>2, <3>1 DEF Sound, CreateSound, UpdateSound, UpdateWrites
    <3> QED
      BY <3>1, <3>2, <3>3 DEF Sound
  <2> QED
    BY <2>1, <2>3, <2>4, <2>5
<1>11. request' \in [Workers -> Request]
  BY <1>10 DEF Sound, UpdateWrites, Outdated
<1> QED
  BY <1>7, <1>8, <1>9, <1>10, <1>11 DEF IInv, RequestsSound

LEMMA DeleteJobKeeps ==
  ASSUME IInv, NEW j \in Jobs, DeleteJob(j)
  PROVE  IInv'
<1>1. /\ job' \in [Jobs -> Job]
      /\ job'[j] = NoJob /\ \A k \in Jobs \ {j} : job'[k] = job[k]
  BY DEF DeleteJob, IInv, TypeOK, Job, NoJob
<1>2. Present' = Present /\ Afloat' = Afloat /\ Ordered' = Ordered \ {j}
  BY <1>1 DEF DeleteJob, Present, Afloat, Ordered, NoJob
<1>3. j \notin Present /\ j \notin Afloat
  BY DEF Present, Afloat
<1>4. TypeOK'
  BY <1>1, <1>2, <1>3 DEF DeleteJob, Event, IInv, TypeOK, Ordered
<1>5. CoordinatesOfAddress'
  BY DEF IInv, CoordinatesOfAddress, DeleteJob
<1>6. BoatOfCustomer'
  BY <1>1, <1>2 DEF DeleteJob, IInv, BoatOfCustomer, Belongs, Ordered
<1>7. ASSUME NEW w \in Workers  PROVE  Sound(request[w])'
  <2> DEFINE r == request[w]
  <2>1. r' = r /\ Sound(r)
    BY DEF IInv, RequestsSound, DeleteJob
  <2>2. AddressSound(r)' /\ BackfillSound(r)' /\ CreateSound(r)'
    BY <1>2, <2>1 DEF Sound, AddressSound, BackfillSound, CreateSound, DeleteJob
  <2>3. UpdateSound(r)'
    BY <1>1, <1>2, <2>1 DEF Sound, UpdateSound, DeleteJob, Ordered
  <2> QED
    BY <2>1, <2>2, <2>3 DEF Sound
<1> QED
  BY <1>4, <1>5, <1>6, <1>7 DEF IInv, RequestsSound, DeleteJob

LEMMA RequestEndsKeeps ==
  ASSUME IInv, NEW w \in Workers, RequestFails(w) \/ WorkerDies(w)
  PROVE  IInv'
<1>1. RequestsSound'
  BY IdleSound, OtherRequestsSound DEF RequestFails, WorkerDies, Becomes
<1> QED
  BY <1>1, OneRequestKeeps DEF RequestFails, WorkerDies, Event, IInv, TypeOK

-----------------------------------------------------------------------------
LEMMA NextKeeps == IInv /\ [Next]_vars => IInv'
<1> SUFFICES ASSUME IInv, [Next]_vars  PROVE  IInv'
  OBVIOUS
<1>1. ASSUME NEW c \in Customers, DeleteCustomer(c)  PROVE  IInv'
  BY <1>1, DeleteCustomerKeeps
<1>2. ASSUME NEW c \in Customers, NEW address \in Address, CreateCustomer(c, address)
      PROVE  IInv'
  BY <1>2, CreateCustomerKeeps
<1>3. ASSUME NEW c \in Customers, NEW v \in Vessels, VesselGoesTo(v, c)  PROVE  IInv'
  BY <1>3, VesselGoesToKeeps
<1>4. ASSUME NEW v \in Vessels, DeleteVessel(v)  PROVE  IInv'
  BY <1>4, DeleteVesselKeeps
<1>5. ASSUME NEW j \in Jobs, DeleteJob(j)  PROVE  IInv'
  BY <1>5, DeleteJobKeeps
<1>6. ASSUME NEW w \in Workers, NEW c \in Customers, NEW part \in Part, NEW value \in 1 .. 2,
             AddressLooks(w, c, part, value)
      PROVE  IInv'
  BY <1>6, AddressLooksKeeps
<1>7. ASSUME NEW w \in Workers, NEW c \in Customers, NEW v \in Vessels \union {None},
             CreateLooks(w, c, v)
      PROVE  IInv'
  BY <1>7, CreateLooksKeeps
<1>8. ASSUME NEW w \in Workers, NEW j \in Jobs, CreateInserts(w, j)  PROVE  IInv'
  BY <1>8, CreateInsertsKeeps
<1>9. ASSUME NEW w \in Workers, NEW j \in Jobs, NEW c \in Customers \union {Keep},
             NEW v \in Vessels \union {None, Keep}, UpdateLooks(w, j, c, v)
      PROVE  IInv'
  BY <1>9, UpdateLooksKeeps
<1>10. ASSUME NEW w \in Workers, NEW force \in BOOLEAN, BackfillReads(w, force)  PROVE  IInv'
  BY <1>10, BackfillReadsKeeps
<1>11. ASSUME NEW w \in Workers, NEW c \in Customers, BackfillFinds(w, c)  PROVE  IInv'
  BY <1>11, BackfillFindsKeeps
<1>12. ASSUME NEW w \in Workers, BackfillCommits(w)  PROVE  IInv'
  BY <1>12, BackfillCommitsKeeps
<1>13. ASSUME NEW w \in Workers, AddressWrites(w)  PROVE  IInv'
  BY <1>13, AddressWritesKeeps
<1>14. ASSUME NEW w \in Workers, UpdateWrites(w)  PROVE  IInv'
  BY <1>14, UpdateWritesKeeps
<1>15. ASSUME NEW w \in Workers, RequestFails(w) \/ WorkerDies(w)  PROVE  IInv'
  BY <1>15, RequestEndsKeeps
<1>16. CASE UNCHANGED vars
  <2>1. UNCHANGED <<customer, vessel, job, request, disturbed, crossed, gone, budget>>
    BY <1>16 DEF vars
  <2>2. RequestsSound'
    BY <2>1 DEF IInv, RequestsSound, Sound, AddressSound, BackfillSound, CreateSound,
                UpdateSound, Present, Afloat, Ordered
  <2> QED
    BY <2>1, <2>2, OneRequestKeeps DEF IInv, TypeOK
<1> QED
  BY <1>1, <1>2, <1>3, <1>4, <1>5, <1>6, <1>7, <1>8, <1>9, <1>10, <1>11, <1>12,
     <1>13, <1>14, <1>15, <1>16 DEF Next

LEMMA Invariance == Spec => []IInv
<1> QED
  BY InitEstablishes, NextKeeps, PTL DEF Spec

(* What rows refer to exists, a deleted id never comes back, and coordinates *)
(* are those of the address beside them unless it changed under the          *)
(* geocoder's answer: customers.py, vessels.py, jobs.py, geocode_backfill.py. *)
THEOREM ReferencesAndCoordinatesHold == Spec => []YardConsistent
<1>1. IInv => YardConsistent
  BY DEF IInv, YardConsistent
<1> QED
  BY <1>1, Invariance, PTL

(* A job's boat is one of its customer's, whichever side an edit changed,    *)
(* unless the pairing was changed behind a check's back.  jobs.create and    *)
(* jobs.update, for every number of requests at once. *)
THEOREM PairingHolds == Spec => []BoatOfCustomer
<1>1. IInv => BoatOfCustomer
  BY DEF IInv
<1> QED
  BY <1>1, Invariance, PTL

===============================================================================
