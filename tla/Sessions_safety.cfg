SPECIFICATION Spec
CONSTANTS
  Users = {u1}
  Sessions = {s1, s2, s3}
  Workers = {w1, w2}
  None = None
  Events = 3
SYMMETRY Symmetry
INVARIANTS SessionsEnd EndedAccessStaysEnded
PROPERTIES PromiseKept
CHECK_DEADLOCK FALSE
