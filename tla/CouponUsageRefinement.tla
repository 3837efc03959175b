----------------------- MODULE CouponUsageRefinement -----------------------
(***************************************************************************)
(* The rows of users_coupons and the column coupons.quantity, seen as the  *)
(* ledger of CouponLedger.                                                 *)
(***************************************************************************)
EXTENDS CouponUsage

Holding(o) == {u \in usages : u.order = o}

appliedCoupon ==
  [o \in Order |-> IF Holding(o) = {} THEN Null ELSE (CHOOSE u \in Holding(o) : TRUE).coupon]

paidOrder == [o \in Order |-> \E u \in Holding(o) : u.paid]

(* Repeated reverts of the same usage are possible.                         *)
Ledger == INSTANCE CouponLedger WITH
  remaining <- quantity, applied <- appliedCoupon, paid <- paidOrder, CreditAllowed <- TRUE

(* Every unit that comes back was held.                                     *)
StrictLedger == INSTANCE CouponLedger WITH
  remaining <- quantity, applied <- appliedCoupon, paid <- paidOrder, CreditAllowed <- FALSE

(* With one add_coupon request at a time every round trip of the service is *)
(* a step of the ledger or none, whatever deletes, messages and uploads do  *)
(* at the same time.                                                        *)
ImplementsLedger == Ledger!Spec

(* When handlers do not overlap at all, no revert gives back a unit that no *)
(* order held.                                                              *)
ImplementsStrictLedger == StrictLedger!Spec
=============================================================================
