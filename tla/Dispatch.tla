-------------------------------- MODULE Dispatch --------------------------------
(***************************************************************************)
(* The dispatch engine's scores (services/dispatch.py), in hundredths of a *)
(* point.  Amounts of money are classes on the logarithmic curve, days and *)
(* miles whole numbers.                                                    *)
(***************************************************************************)
EXTENDS Integers, FiniteSets

Capped(a, b) == IF a <= b THEN a ELSE b

(* _quantize2 of n / d points, half up. *)
Quantized(n, d) == (200 * n + d) \div (2 * d)

(* _PRIORITY_BASE, in hundredths. *)
PriorityBase == [low |-> 10, normal |-> 35, high |-> 65, urgent |-> 90]

(* _score_urgency: a day overdue adds 0.10 / 6 of what is left to the top. *)
Urgency(priority, daysOverdue) ==
  LET base == PriorityBase[priority]
      late == Capped(daysOverdue, 60)
  IN Quantized(50 * (60 * base + (100 - base) * late), 6000)

RevenueClasses == {"none", "fifty", "fiveThousand", "fifteenThousand"}

(* Mutant: the lift of revenue is linear. *)
RevenueLinear(class) ==
  [none |-> 0, fifty |-> 15, fiveThousand |-> 3500, fifteenThousand |-> 4500][class]

(* _score_revenue: 15 ln(1 + amount / 5000) / ln 2. *)
Revenue(class) ==
  [none |-> 0, fifty |-> 22, fiveThousand |-> 1500, fifteenThousand |-> 3000][class]

(* _score_customer_value *)
CustomerValue(completed) == Quantized(8 * Capped(completed, 12), 12)

(* _score_parts_availability *)
PartsAvailability(shortfall) == IF shortfall = "short" THEN 0 ELSE 1000

(* _score_distance: 12 / (1 + miles / 15). *)
Distance(miles) == IF miles = "unknown" THEN 0 ELSE Quantized(12 * 15, 15 + miles)

(* Mutant: skills count in full, not by their weight. *)
FitUnweighted(required, skills) ==
  IF required = {} THEN 10000
  ELSE IF skills = {} THEN 0
  ELSE Quantized(100 * Cardinality(required \intersect skills), Cardinality(required \union skills))

(* _score_technician_fit *)
Fit(required, skills) ==
  IF required = {} THEN 1500
  ELSE IF skills = {} THEN 0
  ELSE Quantized(15 * Cardinality(required \intersect skills), Cardinality(required \union skills))

(* _score_workload *)
Workload(active) == -120 * Capped(active, 5)

(* score_job without a technician. *)
JobScore(urgency, revenue, completed, shortfall) ==
  urgency + Revenue(revenue) + CustomerValue(completed) + PartsAvailability(shortfall)
=============================================================================
