SPECIFICATION Spec
CONSTANTS
  Null = Null
  Item = {i1, i2, i3}
  Cart <- CartsWithNoMargin
  CouponTerms <- Terms
  MinOrderAmount = 50
INVARIANT MinimumLeftToPay
INVARIANT MaxDiscountRespected
INVARIANT NoCentLost
INVARIANT FairDistribution
INVARIANT AlcoholNotBelowPurchasePrice
INVARIANT AnswerableWithMargin
CHECK_DEADLOCK FALSE
