SPECIFICATION Spec
CONSTANTS
  Orders = {o1, o2}
  Plans = {1, 2}
  Grants = {}
  Tasks = {t1}
  NoOrder = NoOrder
  Shops = {"npd"}
  RefundParts = {"whole"}
  Month = 2
  GrantDays = 3
  MayBlock = FALSE
  Foreign = FALSE
  MaxTime = 2
  MaxPayments = 2
INVARIANT PrepaidIsReviewed
