SPECIFICATION Spec
CONSTANTS
  Orders = {o1, o2}
  Plans = {1, 2}
  Grants = {}
  Tasks = {t1, t2}
  NoOrder = NoOrder
  Shops = {"54fz"}
  RefundParts = {"whole"}
  Month = 2
  GrantDays = 3
  MayBlock = FALSE
  Foreign = FALSE
  MaxTime = 0
  MaxPayments = 2
PROPERTY CaptureKept
