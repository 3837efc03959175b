---------------------------- MODULE CouponTableMC ----------------------------
(* Instances of ReferralCoupon, and with it of BulkUpload, for TLC. *)
EXTENDS ReferralCoupon

CONSTANTS a, b, c, d, u1, u2, w1, w2, c1, r1, r2, ann, bob

Only(users, warehouses, categories) ==
    [kind \in Kind |-> CASE kind = "users" -> users [] kind = "warehouses" -> warehouses [] OTHER -> categories]

Coupon(k, spelling, active, only) == [name |-> <<k, spelling>>, active |-> active, only |-> only]
Value(k, spelling, number, value) == [name |-> <<k, spelling>>, number |-> number, value |-> value]

\* Of the ids 1 to 3 the other services do not know 3.
MCKnown == {1, 2}

MCInitialCoupons == [k \in Key |->
    IF k = a THEN Coupon(k, "lower", TRUE, Only({1}, {2}, {})) ELSE Null]

\* Two coupons in either order, two spellings of one name, an inactive coupon on
\* a new name, a list of which no id is known.
MCCouponRequests ==
    {<<Coupon(a, "lower", TRUE, Only({2}, {1, 2}, {1})), Coupon(b, "lower", TRUE, Only({}, {}, {}))>>,
     <<Coupon(b, "lower", TRUE, Only({2}, {}, {})), Coupon(a, "UPPER", TRUE, Only({1}, {}, {2}))>>,
     <<Coupon(a, "lower", TRUE, Only({1}, {1}, {})), Coupon(a, "UPPER", TRUE, Only({3}, {2}, {1}))>>,
     <<Coupon(c, "lower", FALSE, Only({1, 2}, {}, {3}))>>}

MCValueRequests ==
    {<<Value(a, "lower", 1, 5), Value(b, "lower", 1, 5), Value(c, "lower", 1, 5)>>,
     <<Value(a, "lower", 2, 7), Value(a, "UPPER", 2, 8)>>}

MCOrders == {[coupon |-> a, of |-> [kind \in Kind |-> IF kind = "warehouses" THEN 2 ELSE 1]]}
=============================================================================
