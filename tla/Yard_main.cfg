SPECIFICATION Spec
CONSTANTS
  None = None
  Keep = Keep
  Customers = {c1, c2}
  Vessels = {v1, v2}
  Jobs = {j1}
  Workers = {w1, w2}
  Events = 3
SYMMETRY Symmetry
INVARIANTS YardConsistent BoatOfCustomer
CHECK_DEADLOCK FALSE
