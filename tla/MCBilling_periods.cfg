SPECIFICATION Spec
CONSTANTS
  Orders = {o1, o2}
  Plans = {1, 2}
  Grants = {g1, g2}
  Tasks = {t1}
  NoOrder = NoOrder
  Shops = {"54fz", "test"}
  RefundParts = {"whole"}
  Month = 1
  GrantDays = 1
  MayBlock = FALSE
  Foreign = FALSE
  MaxTime = 1
  MaxPayments = 2
SYMMETRY Symmetry
INVARIANTS PeriodsDisjoint AccessIsCovered
