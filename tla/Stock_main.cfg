SPECIFICATION StockSpec
CONSTANTS
  a = a
  b = b
  Items <- MCItems
  Orders = {p1, p2}
  Vendors = {v1}
  Workers = {w1, w2}
  Null = Null
  Baskets <- MCBaskets
  Deliveries <- MCDeliveries
  MaxQty = 2
  Events = 5
INVARIANTS StockConsistent DeliveriesWhole
CHECK_DEADLOCK FALSE
