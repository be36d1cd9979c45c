--------------------------- MODULE SlipReservations ---------------------------
(***************************************************************************)
(* A marina's berths: app/services/slip_reservations.py, the bookings of a *)
(* slip from request to departure, and the charges for them, which staff   *)
(* ask for once per stay and a daily sweep writes once per calendar month. *)
(*                                                                         *)
(* Booking holds the slip's advisory lock over its availability check, and *)
(* a transition holds its reservation's row lock, so each is one action.   *)
(* A charge is not: it is checked with plain reads and inserted later, and *)
(* nothing in the database forbids a second one.                           *)
(***************************************************************************)
EXTENDS Integers

CONSTANTS
  Slips, Reservations,
  Stays,         \* the [from, to] ranges of days that are asked for
  DaysPerMonth,  \* how many days a calendar month has
  LastDay,       \* bound: the model's calendar ends here
  Billers,       \* callers that may be charging at the same time
  Beat,          \* the one that Celery beat starts
  Null,          \* "no such thing": a NULL column
  StaffEdits,    \* TRUE iff staff also set a slip's status by hand
  Deaths         \* bound: how many billers may die at work

ASSUME CalendarAssumption ==
  /\ DaysPerMonth \in Nat \ {0} /\ LastDay \in Nat
  /\ Stays \subseteq [from : Nat, to : Nat]
  /\ \A st \in Stays : st.from <= st.to
ASSUME ConstantsAssumption ==
  Beat \in Billers /\ Null \notin Reservations /\ StaffEdits \in BOOLEAN /\ Deaths \in Nat

VARIABLES
  booking,   \* slip_reservations
  slip,      \* slips.status
  stayLine,  \* job_line_items written by generate_storage_charge, counted
  rentLine,  \* those written by the monthly sweep, counted per month
  biller,    \* what each caller is in the middle of
  today,     \* the calendar
  deaths,    \* billers that have died
  stayRaced, \* history: reservations whose stay was charged while another caller
             \*   stood between its own check and its insert of that charge
  rentRaced  \* history: the same of a reservation's rent for a month

races    == <<stayRaced, rentRaced>>
slipVars == <<booking, slip, stayLine, rentLine, biller, today, deaths, races>>

\* SlipReservationSM.transitions
transitions ==
  [s \in {"none", "pending", "confirmed", "checked_in", "checked_out",
          "cancelled"} |->
     CASE s = "pending"    -> {"confirmed", "cancelled"}
       [] s = "confirmed"  -> {"checked_in", "cancelled"}
       [] s = "checked_in" -> {"checked_out"}
       [] OTHER            -> {}]

SlipStatuses == {"available", "occupied", "reserved", "maintenance"}

\* _month_bounds
MonthOf(day)   == day \div DaysPerMonth
FirstOf(month) == month * DaysPerMonth
Months == {MonthOf(day) : day \in 0 .. LastDay}

Vacant == [job |-> "idle", month |-> MonthOf(0), ids |-> {}, todo |-> {}, at |-> Null]

SlipInit ==
  /\ booking = [r \in Reservations |->
                  [status |-> "none", slip |-> Null, stay |-> Null]]
  /\ slip = [s \in Slips |-> "available"]
  /\ stayLine = [r \in Reservations |-> 0]
  /\ rentLine = [r \in Reservations |-> [m \in Months |-> 0]]
  /\ biller = [b \in Billers |-> Vacant]
  /\ today = 0
  /\ deaths = 0
  /\ stayRaced = {}
  /\ rentRaced = {}

-----------------------------------------------------------------------------
(* Bookings *)

\* Mutant: half-open ranges, so that a departure day may be an arrival day.
HalfOpenOverlap(a, b) == a.from < b.to /\ b.from < a.to

\* stay_range: both days of a stay count.
Overlap(a, b) == a.from <= b.to /\ b.from <= a.to

\* is_available and the EXCLUDE constraint, which ask for the same.
IsAvailable(s, st) ==
  \A r \in Reservations :
    booking[r].status \notin {"none", "cancelled"} /\ booking[r].slip = s
      => ~Overlap(booking[r].stay, st)

\* create
Create(r, s, st) ==
  /\ booking[r].status = "none"
  /\ IsAvailable(s, st)
  /\ booking' = [booking EXCEPT ![r] =
                   [status |-> "pending", slip |-> s, stay |-> st]]
  /\ UNCHANGED <<slip, stayLine, rentLine, biller, today, deaths, races>>

\* _transition: confirm, check_in, check_out, cancel.  Whatever booking it was,
\* its departure or its cancellation frees the slip.
Transition(r, target) ==
  /\ target \in transitions[booking[r].status]
  /\ booking' = [booking EXCEPT ![r].status = target]
  /\ slip' = [slip EXCEPT ![booking[r].slip] =
       IF target = "checked_in" THEN "occupied"
       ELSE IF target \in {"checked_out", "cancelled"} /\ @ = "occupied"
            THEN "available"
       ELSE @]
  /\ UNCHANGED <<stayLine, rentLine, biller, today, deaths, races>>

\* slips.update: status is an ordinary column.
StaffSetsSlip(s, status) ==
  /\ StaffEdits
  /\ slip' = [slip EXCEPT ![s] = status]
  /\ UNCHANGED <<booking, stayLine, rentLine, biller, today, deaths, races>>

-----------------------------------------------------------------------------
(* Charges *)

\* Caller b stands between its check and its insert of this very charge.
StayPending(b, r) == biller[b].job = "stay" /\ biller[b].at = r
RentPending(b, r, m) ==
  biller[b].job = "sweep" /\ biller[b].at = r /\ biller[b].month = m

\* generate_storage_charge: any line of the reservation is in the way; its
\* status is not looked at.
CheckStayCharge(b, r) ==
  /\ biller[b].job = "idle"
  /\ booking[r].status # "none"
  /\ stayLine[r] = 0 /\ \A m \in Months : rentLine[r][m] = 0
  /\ biller' = [biller EXCEPT ![b].job = "stay", ![b].at = r]
  /\ UNCHANGED <<booking, slip, stayLine, rentLine, today, deaths, races>>

InsertStayCharge(b) ==
  /\ biller[b].job = "stay"
  /\ stayLine' = [stayLine EXCEPT ![biller[b].at] = @ + 1]
  /\ biller' = [biller EXCEPT ![b] = Vacant]
  /\ stayRaced' = IF \E c \in Billers \ {b} : StayPending(c, biller[b].at)
                    THEN stayRaced \cup {biller[b].at} ELSE stayRaced
  /\ UNCHANGED <<booking, slip, rentLine, today, deaths, rentRaced>>

\* RECURRING_BILLABLE_STATUSES, and the stay touches the month.
Billable(r, m) ==
  /\ booking[r].status \in {"confirmed", "checked_in"}
  /\ booking[r].stay.from < FirstOf(m + 1)
  /\ FirstOf(m) <= booking[r].stay.to

\* Mutant: looks for any line that was written, whatever its month.
HasSomeRent(r, m) == \E n \in Months : rentLine[r][n] > 0

\* Mutant: forgets to look for the month's line.
HasNoMarker(r, m) == stayLine[r] > 0

\* The search for "<first of month> to <first of next month>" at the end of a
\* description: the month's own line, or the line of a stay with these dates.
HasRent(r, m) ==
  \/ rentLine[r][m] > 0
  \/ stayLine[r] > 0 /\ booking[r].stay = [from |-> FirstOf(m), to |-> FirstOf(m + 1)]

\* generate_recurring_monthly_charges_for_company: list what to bill.
SweepStarts(b) ==
  LET m == MonthOf(today)
      ids == {r \in Reservations : Billable(r, m)}
  IN /\ biller[b].job = "idle"
     /\ biller' = [biller EXCEPT ![b] =
          [job |-> "sweep", month |-> m, ids |-> ids, todo |-> ids, at |-> Null]]
     /\ UNCHANGED <<booking, slip, stayLine, rentLine, today, deaths, races>>

\* generate_recurring_monthly_charge, up to the INSERT.
SweepChecks(b, r) ==
  /\ biller[b].job = "sweep" /\ biller[b].at = Null /\ r \in biller[b].todo
  /\ biller' = [biller EXCEPT
       ![b].todo = @ \ {r},
       ![b].at = IF Billable(r, biller[b].month) /\ ~HasRent(r, biller[b].month)
                 THEN r ELSE Null]
  /\ UNCHANGED <<booking, slip, stayLine, rentLine, today, deaths, races>>

\* ... and the INSERT with its commit.
SweepInserts(b) ==
  /\ biller[b].job = "sweep" /\ biller[b].at # Null
  /\ rentLine' = [rentLine EXCEPT ![biller[b].at][biller[b].month] = @ + 1]
  /\ biller' = [biller EXCEPT ![b].at = Null]
  /\ rentRaced' =
       IF \E c \in Billers \ {b} : RentPending(c, biller[b].at, biller[b].month)
         THEN rentRaced \cup {<<biller[b].at, biller[b].month>>} ELSE rentRaced
  /\ UNCHANGED <<booking, slip, stayLine, today, deaths, stayRaced>>

SweepEnds(b) ==
  /\ biller[b].job = "sweep" /\ biller[b].at = Null /\ biller[b].todo = {}
  /\ biller' = [biller EXCEPT ![b] = Vacant]
  /\ UNCHANGED <<booking, slip, stayLine, rentLine, today, deaths, races>>

BillerDies(b) ==
  /\ deaths < Deaths
  /\ biller[b].job # "idle"
  /\ biller' = [biller EXCEPT ![b] = Vacant]
  /\ deaths' = deaths + 1
  /\ UNCHANGED <<booking, slip, stayLine, rentLine, today, races>>

NextDay ==
  /\ today < LastDay
  /\ today' = today + 1
  /\ UNCHANGED <<booking, slip, stayLine, rentLine, biller, deaths, races>>

-----------------------------------------------------------------------------
Desk ==
  \/ \E r \in Reservations, s \in Slips, st \in Stays : Create(r, s, st)
  \/ \E r \in Reservations :
       \E target \in {"confirmed", "checked_in", "checked_out", "cancelled"} :
         Transition(r, target)
  \/ \E s \in Slips, status \in SlipStatuses : StaffSetsSlip(s, status)

Bill(b) == \/ \E r \in Reservations : CheckStayCharge(b, r) \/ SweepChecks(b, r)
           \/ InsertStayCharge(b)
           \/ SweepStarts(b)
           \/ SweepInserts(b)
           \/ SweepEnds(b)
           \/ BillerDies(b)

SlipNext == Desk \/ (\E b \in Billers : Bill(b)) \/ NextDay

SlipSpec == SlipInit /\ [][SlipNext]_slipVars

\* Celery beat starts the sweep every day, and a sweep whose worker lives goes
\* on to its end; nobody need start another.
SlipFairness ==
  /\ WF_slipVars(SweepStarts(Beat))
  /\ WF_slipVars(\E r \in Reservations : SweepChecks(Beat, r))
  /\ WF_slipVars(SweepInserts(Beat))
  /\ WF_slipVars(SweepEnds(Beat))
  /\ WF_slipVars(InsertStayCharge(Beat))

-----------------------------------------------------------------------------
(* Properties *)

Booking == [status : DOMAIN transitions, slip : Slips \cup {Null},
            stay : Stays \cup {Null}]
Biller  == [job : {"idle", "stay", "sweep"}, month : Months,
            ids : SUBSET Reservations, todo : SUBSET Reservations,
            at : Reservations \cup {Null}]

\* Every table and every caller has its type.
SlipTypeOK ==
  /\ booking \in [Reservations -> Booking]
  /\ slip \in [Slips -> SlipStatuses]
  /\ stayLine \in [Reservations -> Nat]
  /\ rentLine \in [Reservations -> [Months -> Nat]]
  /\ biller \in [Billers -> Biller]
  /\ today \in 0 .. LastDay
  /\ deaths \in Nat
  /\ stayRaced \subseteq Reservations
  /\ rentRaced \subseteq Reservations \X Months

Days(st) == st.from .. st.to

Standing(r) == booking[r].status \notin {"none", "cancelled"}

\* ex_slip_reservations_no_overlap: no day of a slip is promised twice, however
\* bookings are made, cancelled and made again.
NoDoubleBooking ==
  \A q, r \in Reservations :
    q # r /\ Standing(q) /\ Standing(r) /\ booking[q].slip = booking[r].slip
      => Days(booking[q].stay) \cap Days(booking[r].stay) = {}

\* A reservation's month, and its stay, get a second charge only if a first was
\* inserted while another caller stood between its own check and its insert:
\* calls that follow one another charge once, however often the sweep runs,
\* whoever starts it and wherever it dies.  slip_storage_billing_sweep.py
\* promises more, also of calls that overlap.
SecondChargeRaced ==
  \A r \in Reservations :
    /\ stayLine[r] > 1 => r \in stayRaced
    /\ \A m \in Months : rentLine[r][m] > 1 => <<r, m>> \in rentRaced

\* A sweep leaves none of the reservations it has dealt with unpaid, whatever
\* was charged for other months and whatever happens to them meanwhile.
SweepKeepsUp ==
  \A b \in Billers :
    biller[b].job = "sweep" =>
      \A r \in (biller[b].ids \ biller[b].todo) \ {biller[b].at} :
        \/ rentLine[r][biller[b].month] > 0
        \/ stayLine[r] > 0
        \/ booking[r].status \in {"checked_out", "cancelled"}

\* Whoever has an accepted booking in the current month is charged for it while
\* the month and the booking last, even if workers die.
RentIsCharged ==
  \A r \in Reservations, m \in Months :
    (Billable(r, m) /\ MonthOf(today) = m)
      ~> \/ rentLine[r][m] > 0 \/ stayLine[r] > 0
         \/ booking[r].status \in {"checked_out", "cancelled"}
         \/ MonthOf(today) # m

=============================================================================
