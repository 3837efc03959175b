--------------------------- MODULE CouponDiscount ---------------------------
(***************************************************************************)
(* What a coupon takes off an order: the part of CouponService.add_coupon  *)
(* and CouponService.recalculate_coupon_discount that selects the items,   *)
(* computes the discount, distributes it and limits it to max_discount.    *)
(* It reads no table, so one request is modelled, for every cart and       *)
(* coupon in a given set; an action is one step of the handler.            *)
(***************************************************************************)
EXTENDS Discounting

CONSTANTS
  Cart,             \* the orders: functions from item ids to items
  CouponTerms,      \* kinds, values and limits of coupons
  MinOrderAmount,   \* settings.min_order_amount
  Null

(* In a cart an item also says whether it is in a category that the coupon  *)
(* is restricted to, if it is restricted.                                   *)
ASSUME CartAssumption ==
  \A cart \in Cart :
    /\ IsFiniteSet(DOMAIN cart)
    /\ \A i \in DOMAIN cart :
         /\ cart[i].type \in ItemType /\ cart[i].permitted \in BOOLEAN
         /\ cart[i].price \in Nat /\ cart[i].quantity \in Nat /\ cart[i].purchase \in Nat
ASSUME TermsAssumption ==
  /\ Null \notin Int
  /\ \A c \in CouponTerms :
       /\ c.kind \in {"percent", "fixed"} /\ c.value \in Nat
       /\ c.max \in Nat \cup {Null} /\ c.restricted \in BOOLEAN
ASSUME MinOrderAssumption == MinOrderAmount \in Nat

VARIABLES
  pc,             \* the step the handler is at
  operation,      \* which of the two handlers it is
  cart,           \* coupon_request.order_items
  coupon,         \* the coupon, its value already that of the order's number
  items,          \* order_items: the part of the cart the discount is for
  discount,       \* base_coupon_discount
  distribution    \* distributed_discount.items

input == <<operation, cart, coupon>>
vars == <<pc, input, items, discount, distribution>>

Nothing == [i \in {} |-> 0]

Init ==
  /\ pc = "filter"
  /\ operation \in {"add", "recalculate"}
  /\ cart \in Cart
  /\ coupon \in CouponTerms
  /\ items = Nothing
  /\ discount = 0
  /\ distribution = Nothing

NoTobacco == {i \in DOMAIN cart : cart[i].type # "tobacco"}

Permitted(S) == {i \in S : cart[i].permitted}

(* recalculate_coupon_discount first asks whether the coupon still exists   *)
(* and is for this customer's number of orders, this subtotal and this      *)
(* warehouse, any of which may not be so; add_coupon has asked before.      *)
RejectTerms ==
  /\ pc = "filter" /\ operation = "recalculate"
  /\ pc' = "rejected"
  /\ UNCHANGED <<input, items, discount, distribution>>

(* The items a coupon without categories applies to, or a restricted coupon *)
(* on a cart that has nothing but tobacco.                                  *)
KeepAll ==
  /\ pc = "filter"
  /\ NoTobacco = {} \/ ~coupon.restricted
  /\ items' = Restrict(cart, NoTobacco)
  /\ pc' = "discount"
  /\ UNCHANGED <<input, discount, distribution>>

(* A restricted coupon: add_coupon looks for permitted items in the whole   *)
(* cart, recalculate_coupon_discount in what is left without tobacco.       *)
Eligible == IF operation = "add" THEN Permitted(DOMAIN cart) ELSE Permitted(NoTobacco)

KeepPermitted ==
  /\ pc = "filter"
  /\ NoTobacco # {} /\ coupon.restricted /\ Eligible # {}
  /\ items' = Restrict(cart, Eligible)
  /\ pc' = "discount"
  /\ UNCHANGED <<input, discount, distribution>>

(* CouponNotPermittedCategoryError                                          *)
RejectCategories ==
  /\ pc = "filter"
  /\ NoTobacco # {} /\ coupon.restricted /\ Eligible = {}
  /\ pc' = "rejected"
  /\ UNCHANGED <<input, items, discount, distribution>>

(* The percentage of the subtotal, half a cent rounded up, or the value.    *)
NominalDiscount(subtotal) ==
  IF coupon.kind = "percent" THEN (2 * subtotal * coupon.value + 100) \div 200
                             ELSE coupon.value

(* Mutant of CouponDiscountOf: the smallest order amount is not kept back.  *)
CouponDiscountUnbounded(subtotal) ==
  IF subtotal <= 0 THEN 0 ELSE Least(NominalDiscount(subtotal), subtotal)

(* Mutant of CouponDiscountOf: a subtotal below MinOrderAmount is not       *)
(* treated apart.                                                           *)
CouponDiscountBelowZero(subtotal) ==
  IF subtotal - NominalDiscount(subtotal) >= MinOrderAmount
  THEN NominalDiscount(subtotal)
  ELSE subtotal - MinOrderAmount

(* get_coupon_discount: the customer pays at least MinOrderAmount.          *)
CouponDiscountOf(subtotal) ==
  IF subtotal <= 0 THEN 0
  ELSE IF subtotal - NominalDiscount(subtotal) >= MinOrderAmount
       THEN NominalDiscount(subtotal)
       ELSE IF subtotal <= MinOrderAmount THEN 0 ELSE subtotal - MinOrderAmount

ComputeDiscount ==
  /\ pc = "discount"
  /\ discount' = CouponDiscountOf(Subtotal(items))
  /\ pc' = "distribute"
  /\ UNCHANGED <<input, items, distribution>>

Distribute ==
  /\ pc = "distribute"
  /\ distribution' \in Distributions(discount, items)
  /\ pc' = "limit"
  /\ UNCHANGED <<input, items, discount>>

(* Mutant of MaxDiscountExceeded: the wrong kind is limited.                *)
MaxDiscountExceededFixed ==
  /\ coupon.max # Null /\ coupon.kind = "fixed"
  /\ DiscountValue(distribution) > coupon.max

(* is_max_discount_exceeded: only a percentage is limited.                  *)
MaxDiscountExceeded ==
  /\ coupon.max # Null /\ coupon.kind = "percent"
  /\ DiscountValue(distribution) > coupon.max

(* The answer says discount_amount: NonNegativeInt; another value raises.   *)
Answer ==
  pc' = IF DiscountValue(distribution') < 0 THEN "failed" ELSE "done"

LimitDiscount ==
  /\ pc = "limit"
  /\ IF MaxDiscountExceeded
     THEN distribution' \in Distributions(coupon.max, items)
     ELSE UNCHANGED distribution
  /\ Answer
  /\ UNCHANGED <<input, items, discount>>

Next ==
  \/ RejectTerms \/ KeepAll \/ KeepPermitted \/ RejectCategories
  \/ ComputeDiscount \/ Distribute \/ LimitDiscount

Spec == Init /\ [][Next]_vars

-----------------------------------------------------------------------------
(* Properties *)

(* The handler has a distribution, the first or the final one.              *)
Distributed == pc \in {"limit", "done", "failed"}

(* The rounding never takes more than the customer may be given: at least   *)
(* the smallest order amount is left to pay, also after the cents that the  *)
(* rounding hands out and after the second distribution.                    *)
MinimumLeftToPay ==
  Distributed /\ DiscountValue(distribution) > 0 =>
    Subtotal(items) - DiscountValue(distribution) >= MinOrderAmount

(* Two distributions, each with its own rounding and caps, never exceed     *)
(* the coupon's max_discount.                                               *)
MaxDiscountRespected ==
  pc = "done" /\ coupon.kind = "percent" /\ coupon.max # Null =>
    DiscountValue(distribution) <= coupon.max

(* Without alcohol no cent gets lost in the distribution: the items' shares *)
(* add up to the discount, or to max_discount when that is less.            *)
NoCentLost ==
  (/\ pc = "done" /\ Subtotal(items) > 0
   /\ \A i \in DOMAIN items : items[i].type # "alcohol") =>
      DiscountValue(distribution) =
        IF coupon.kind = "percent" /\ coupon.max # Null THEN Least(discount, coupon.max)
                                                        ELSE discount

(* The distribution is fair: no item is more than a cent away from its      *)
(* share, and of two items the one with the larger amount never gets less.  *)
FairDistribution ==
  pc = "limit" =>
    \A i, j \in DOMAIN items :
      /\ (items[i].type # "alcohol" /\ Subtotal(items) > 0) =>
           LET difference == distribution[i] * Subtotal(items) - discount * Amount(items[i])
           IN  difference < Subtotal(items) /\ -difference < Subtotal(items)
      /\ (/\ items[i].type # "alcohol" /\ items[j].type # "alcohol"
           /\ Amount(items[i]) > Amount(items[j])) => distribution[i] >= distribution[j]

(* Alcohol is never sold below its purchase price because of a coupon.  (Of *)
(* items that cost nothing nothing is taken, and nothing added to them.)    *)
AlcoholNotBelowPurchasePrice ==
  Distributed /\ Subtotal(items) > 0 => \A i \in DOMAIN items :
    items[i].type = "alcohol" =>
      Amount(items[i]) - distribution[i] >= items[i].purchase * items[i].quantity

(* No discount is given on tobacco.                                         *)
NoTobaccoDiscount ==
  Distributed => \A i \in DOMAIN items : items[i].type = "tobacco" => distribution[i] = 0

(* The handler can answer.  A total that the model of the answer refuses    *)
(* comes from alcohol that is sold below its purchase price, whose cap is   *)
(* negative, and from nothing else: no coupon, rounding, minimum or second  *)
(* distribution makes the discount of another cart negative.                *)
SoldBelowPurchasePrice(item) == item.type = "alcohol" /\ item.purchase > item.price

AnswerableWithMargin == pc = "failed" => \E i \in DOMAIN items : SoldBelowPurchasePrice(items[i])
=============================================================================
