SPECIFICATION Spec
CONSTANTS
  Jobs = {j1}
  Lines = {l1, l2, l3}
  Invoices = {i1, i2}
  Estimates = {e1}
  Tokens = {t1, t2}
  Workers = {w1, w2}
  None = None
  Prices = {1, 2}
  Events = 7
SYMMETRY Symmetry
INVARIANTS LinesConsistent ConversionBillsApproval
PROPERTIES FrozenLinesStay
CHECK_DEADLOCK FALSE
