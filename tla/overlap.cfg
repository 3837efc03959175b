SPECIFICATION Spec
CONSTANTS
  Null = Null
  Coupon = {c1}
  Order = {o1, o2, o3, o4, o5, o6}
  User = {o4, o5, o6, u1}
  Device = {d1}
  Adder = {w1, w2}
  Consumer = {k1}
  Owner <- Customers
  InitialQuantity <- NoLimit
  Limit <- LimitOne
  UploadQuantity <- NoUpload
  WhitelistedUser = {u1}
  WhitelistedDevice = {}
  CheckEnabled = TRUE
  MaxUsersPerDevice = 1
  StrayDelete = FALSE
  MaxCalls = 5
SYMMETRY OverlapSymmetry
INVARIANT AntifraudBound
 
CHECK_DEADLOCK FALSE
