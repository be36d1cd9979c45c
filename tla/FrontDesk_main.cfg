SPECIFICATION DeskSpec
CONSTANTS
  Null = Null
  Customers = {1, 2}
  OptedOut = {}
  Phones = {p1}
  Tokens = {t1}
  Workers = {w1, w2}
  MaxMessages = 3
  Happenings = 2
  Posts = {s1, s2, s3}
  Other = s3
  Email <- Addresses
SYMMETRY Symmetry
INVARIANTS DeskConsistent ReplyFollowsCustomer
CHECK_DEADLOCK FALSE
