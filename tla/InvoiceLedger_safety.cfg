CONSTANTS
  Invoices = {i1, i2}
  Sessions = {s1, s2}
  Refunds = {r1, r2}
  None = None
  Amounts = {1, 2, 3}
  Connect = FALSE
  Crashes = TRUE
SPECIFICATION FairSpec
INVARIANTS LedgerConsistent MoneyMatchesStatus CreditedOnce
PROPERTIES CapturedIsCredited RefundIsBooked
CHECK_DEADLOCK FALSE
