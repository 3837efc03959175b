------------------------- MODULE CouponDiscountMC -------------------------
(* Small instances of CouponDiscount for TLC. *)
EXTENDS CouponDiscount

CONSTANT Item

Kind(type, price, quantity, purchase, permitted) ==
  [type |-> type, price |-> price, quantity |-> quantity,
   purchase |-> purchase, permitted |-> permitted]

(* Prices that do not divide each other, an item that is free, alcohol with *)
(* a large margin, a small one, an unknown purchase price and none.         *)
Kinds == {
  Kind("regular", 1, 1, 0, TRUE),   Kind("regular", 29, 3, 0, TRUE),
  Kind("regular", 20, 2, 0, FALSE), Kind("regular", 0, 1, 0, TRUE),
  Kind("alcohol", 100, 1, 40, TRUE), Kind("alcohol", 70, 2, 60, FALSE),
  Kind("alcohol", 33, 1, 0, TRUE),
  Kind("tobacco", 45, 1, 0, TRUE) }

NoMargin == Kind("alcohol", 50, 1, 60, TRUE)

Carts == [Item -> Kinds]
CartsWithNoMargin == [Item -> Kinds \cup {NoMargin}]

Terms ==
  [kind : {"percent"}, value : {15, 50, 100}, max : {Null, 25}, restricted : BOOLEAN]
    \cup [kind : {"fixed"}, value : {7, 120}, max : {Null, 25}, restricted : BOOLEAN]
=============================================================================
