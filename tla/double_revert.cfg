SPECIFICATION Spec
CONSTANTS
  Null = Null
  Coupon = {c1}
  Order = {o1}
  User = {o1}
  Device = {}
  Adder = {w1}
  Consumer = {k1}
  Owner <- OwnCustomer
  InitialQuantity <- LastUnit
  Limit <- NoLimit
  UploadQuantity <- NoUpload
  WhitelistedUser = {}
  WhitelistedDevice = {}
  CheckEnabled = FALSE
  MaxUsersPerDevice = 1
  StrayDelete = FALSE
  MaxCalls = 4
PROPERTY RevertRemovesUsage
CHECK_DEADLOCK FALSE
