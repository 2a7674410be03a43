SPECIFICATION FairSpec
CONSTANTS
  Orders = {o1}
  Plans = {1}
  Grants = {}
  Tasks = {t1, t2}
  NoOrder = NoOrder
  Shops = {"npd"}
  RefundParts = {"whole", "half1", "half2"}
  Month = 2
  GrantDays = 3
  MayBlock = TRUE
  Foreign = TRUE
  MaxTime = 0
  MaxPayments = 2
INVARIANTS OnePayment ReceiptsFollowMoney
PROPERTIES CaptureKept SettledStays DecisionArrives
