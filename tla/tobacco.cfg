SPECIFICATION Spec
CONSTANTS
  Null = Null
  Item = {i1, i2, i3}
  Cart <- Carts
  CouponTerms <- Terms
  MinOrderAmount = 50
INVARIANT NoTobaccoDiscount
CHECK_DEADLOCK FALSE
