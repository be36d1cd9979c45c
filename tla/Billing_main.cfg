SPECIFICATION FairSpec
CONSTANTS
  Invoices = {1, 2}
  Payments = {1, 2}
  Charges = {c1}
  Workers = {3, 4}
  Total = 2
  Cooldown = 1
  MaxClock = 3
  Events = 4
INVARIANTS PaymentsConsistent
PROPERTIES RemindersSpaced SweepsEnd ChargesLand
CHECK_DEADLOCK FALSE
