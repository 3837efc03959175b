SPECIFICATION Spec
CONSTANTS
  Null = Null
  Coupon = {c1, c2}
  Order = {o1, o2}
  User = {o1, o2}
  Device = {}
  Adder = {w1}
  Consumer = {k1, k2}
  Owner <- OwnCustomer
  InitialQuantity <- LastUnit
  Limit <- NoLimit
  UploadQuantity <- UploadOthers
  WhitelistedUser = {}
  WhitelistedDevice = {}
  CheckEnabled = FALSE
  MaxUsersPerDevice = 1
  StrayDelete = TRUE
  MaxCalls = 5
INVARIANT TypeOK
INVARIANT NoOversell
INVARIANT OneUsagePerOrder
INVARIANT NothingLost
PROPERTY ImplementsLedger
CHECK_DEADLOCK FALSE
