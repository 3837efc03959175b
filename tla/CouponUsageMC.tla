--------------------------- MODULE CouponUsageMC ---------------------------
(* Small instances of CouponUsage for TLC. *)
EXTENDS CouponUsageRefinement, TLC

(* All orders belong to one customer. *)
OneCustomer == [o \in Order |-> CHOOSE u \in User : TRUE]

(* Each order has a customer of its own, named like the order. *)
OwnCustomer == [o \in Order |-> o]

(* One unit of every coupon. *)
LastUnit == [c \in Coupon |-> 1]

(* One unit of the first coupon, no limit on the others. *)
First == CHOOSE c \in Coupon : TRUE
FirstScarce == [c \in Coupon |-> IF c = First THEN 1 ELSE Null]

NoLimit == [c \in Coupon |-> Null]
LimitOne == [c \in Coupon |-> 1]

NoUpload == [c \in Coupon |-> {}]

(* The first coupon keeps its quantity, the others are uploaded again.      *)
UploadOthers == [c \in Coupon |-> IF c = First THEN {} ELSE {2, Null}]

(* One customer has several orders, the others one each.                    *)
Customers == [o \in Order |-> IF o \in User THEN o ELSE CHOOSE u \in User : u \notin Order]

OverlapSymmetry ==
  Permutations(Adder) \cup Permutations(Order \cap User) \cup Permutations(Order \ User)
=============================================================================
