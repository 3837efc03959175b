SPECIFICATION Spec
CONSTANTS
  Null = Null
  Coupon = {c1}
  Order = {o1, o2, o3}
  User = {o1, o2, o3}
  Device = {}
  Adder = {w1, w2}
  Consumer = {}
  Owner <- OwnCustomer
  InitialQuantity <- LastUnit
  Limit <- NoLimit
  UploadQuantity <- NoUpload
  WhitelistedUser = {}
  WhitelistedDevice = {}
  CheckEnabled = FALSE
  MaxUsersPerDevice = 1
  StrayDelete = FALSE
  MaxCalls = 3
INVARIANT NoOversell
CHECK_DEADLOCK FALSE
