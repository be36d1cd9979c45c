SPECIFICATION Spec
CONSTANTS
  Emails = {e1}
  Invites = {i1, i2}
  Resets = {t1, t2}
  Workers = {w1, w2}
  None = None
  MaxAttempts = 2
  CodeCount = 1
  MaxBatches = 2
  Events = 6
INVARIANTS AccountsConsistent GuessesBounded CodeAdmitsOnce
CHECK_DEADLOCK FALSE
