SPECIFICATION ApartSpec
CONSTANTS
  c1 = c1
  Null = Null
  Customers = {c1}
  Jobs = {j1, j2}
  Technicians = {t1}
  Handlers = {w1, w2}
  Profiles <- TwoProfiles
  Works <- OneWork
  Earlier <- Regular
  Limit = 2
  Window = 2
  MaxNow = 4
  Happenings = 6
SYMMETRY Symmetry
INVARIANTS QueueConsistent UrgentOutranks 
PROPERTIES StartKept
CHECK_DEADLOCK FALSE
