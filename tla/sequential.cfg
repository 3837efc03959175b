SPECIFICATION SequentialSpec
CONSTANTS
  Null = Null
  Coupon = {c1, c2}
  Order = {o1, o2, o3}
  User = {u1}
  Device = {}
  Adder = {w1}
  Consumer = {k1}
  Owner <- OneCustomer
  InitialQuantity <- FirstScarce
  Limit <- LimitOne
  UploadQuantity <- NoUpload
  WhitelistedUser = {}
  WhitelistedDevice = {}
  CheckEnabled = FALSE
  MaxUsersPerDevice = 1
  StrayDelete = FALSE
  MaxCalls = 7
INVARIANT UnitsConserved
PROPERTY PaidMessageMarksUsage
PROPERTY ImplementsStrictLedger
CHECK_DEADLOCK FALSE
