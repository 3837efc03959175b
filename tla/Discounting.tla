---------------------------- MODULE Discounting ----------------------------
(***************************************************************************)
(* calculate_order_distributed_discount: how a discount on an order is     *)
(* divided among its items, in cents, by the largest-remainder method, and *)
(* how the part that falls on alcohol is capped.                           *)
(*                                                                         *)
(* An order is a function from item ids to items; an item has a type, a    *)
(* price, a quantity and the purchase price of its product, 0 when the     *)
(* pricing service does not know it.                                       *)
(***************************************************************************)
EXTENDS Integers, FiniteSets, Functions

ItemType == {"regular", "alcohol", "tobacco"}

Amount(item) == item.price * item.quantity

Subtotal(order) == SumFunction([i \in DOMAIN order |-> Amount(order[i])])

(* An item's exact share is d * Amount / Subtotal; the division is exact    *)
(* here, in the code it has 28 digits.  A share that falls short for that   *)
(* reason has the largest remainder and is the first to get a cent back.    *)
RoundedDown(d, order, i) == (d * Amount(order[i])) \div Subtotal(order)

Remainder(d, order, i) == (d * Amount(order[i])) % Subtotal(order)

RemainedCents(d, order) ==
  d - SumFunction([i \in DOMAIN order |-> RoundedDown(d, order, i)])

(* Mutant of RoundedUp: the smallest remainders first.                      *)
RoundedUpSmallest(d, order) ==
  {S \in SUBSET DOMAIN order :
     /\ Cardinality(S) = RemainedCents(d, order)
     /\ \A i \in S, j \in DOMAIN order \ S : Remainder(d, order, i) <= Remainder(d, order, j)}

(* Mutant of RoundedUp: the remaining cents are not handed out.             *)
RoundedUpNone(d, order) == {{}}

(* The items that get one cent more: as many as there are cents left, the   *)
(* largest remainders first.  Which of two equal remainders comes first is  *)
(* left open: the code compares the amounts, after the rounding noise.      *)
RoundedUp(d, order) ==
  {S \in SUBSET DOMAIN order :
     /\ Cardinality(S) = RemainedCents(d, order)
     /\ \A i \in S, j \in DOMAIN order \ S : Remainder(d, order, i) >= Remainder(d, order, j)}

Least(a, b) == IF a <= b THEN a ELSE b

(* Mutant of MaxDiscount: the purchase price is not looked at.              *)
MaxDiscountOfPrice(item) == ((item.price * 35) \div 100) * item.quantity

(* What may be taken off an alcohol item at most: the margin or 35% of the  *)
(* price, whichever is less, per unit.  It is zero or negative when there   *)
(* is no margin.  (price * 0.35 in floating point: a cent lower for some    *)
(* multiples of 20, the first of them 180; the runs use smaller prices.)    *)
MaxDiscount(item) ==
  Least(item.price - item.purchase, (item.price * 35) \div 100) * item.quantity

Capped(item, x) == IF item.type = "alcohol" THEN Least(x, MaxDiscount(item)) ELSE x

(* The possible results: the discount of each item.                         *)
Distributions(d, order) ==
  IF Subtotal(order) = 0
  THEN {[i \in DOMAIN order |-> 0]}
  ELSE {[i \in DOMAIN order |->
           Capped(order[i], RoundedDown(d, order, i) + (IF i \in S THEN 1 ELSE 0))]
          : S \in RoundedUp(d, order)}

(* CalculatedDistributedDiscount.value                                      *)
DiscountValue(distribution) == SumFunction(distribution)
=============================================================================
