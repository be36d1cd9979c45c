CONSTANTS
  Slips = {A}
  Reservations = {r1, r2}
  Stays <- SomeStays
  DaysPerMonth = 2
  LastDay = 3
  Billers = {b1, b2}
  Beat = b1
  b2 = b2
  r2 = r2
  Null = Null
  StaffEdits = TRUE
  Deaths = 1
SPECIFICATION ContestSpec
INVARIANTS NoDoubleBooking SecondChargeRaced SweepKeepsUp
PROPERTIES RentIsCharged
CHECK_DEADLOCK FALSE
