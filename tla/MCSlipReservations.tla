-------------------------- MODULE MCSlipReservations --------------------------
(* SlipReservations for TLC: months of two days; one stay from month to month, *)
(* one that fills a month up to the first of the next, and the one after it.   *)
EXTENDS SlipReservations, TLC

CONSTANTS b2, r2

SomeStays == {[from |-> 1, to |-> 2], [from |-> 0, to |-> 2], [from |-> 2, to |-> 3]}

\* The two reservations, and the two callers, are explored one pair at a time:
\* b2 is at work while r2 is not booked, and r2 is booked while b2 rests and
\* there was no race.  Nothing that beat's caller does is kept from it.
OneContest == booking[r2].status # "none" => biller[b2].job = "idle" /\ races = <<{}, {}>>

ContestSpec == SlipInit /\ [][SlipNext /\ OneContest']_slipVars /\ SlipFairness
=============================================================================
