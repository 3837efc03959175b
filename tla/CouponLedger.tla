---------------------------- MODULE CouponLedger ----------------------------
(***************************************************************************)
(* What coupon usages promise, without requests, messages and round trips: *)
(* a ledger in which an order holds at most one unit of one coupon, a unit *)
(* is taken only while one is left, and is given back when the order lets  *)
(* the coupon go.                                                          *)
(***************************************************************************)
EXTENDS Integers

CONSTANTS
  Coupon, Order,
  InitialQuantity,  \* units of each coupon at the start, Null when unlimited
  UploadQuantity,   \* what an administrator may set the units left of each to
  CreditAllowed,    \* may a unit be given back that no order held?
  Null

VARIABLES
  remaining,        \* units left of each coupon
  applied,          \* the coupon each order holds, Null for none
  paid              \* has the order been paid with the coupon it holds?

vars == <<remaining, applied, paid>>

Add(q, n) == IF q = Null THEN Null ELSE q + n

Init ==
  /\ remaining = InitialQuantity
  /\ applied = [o \in Order |-> Null]
  /\ paid = [o \in Order |-> FALSE]

Available(c) == remaining[c] = Null \/ remaining[c] > 0

Apply(o, c) ==
  /\ applied[o] = Null /\ Available(c)
  /\ remaining' = [remaining EXCEPT ![c] = Add(@, -1)]
  /\ applied' = [applied EXCEPT ![o] = c]
  /\ UNCHANGED paid

Release(o, c) ==
  /\ applied[o] = c
  /\ remaining' = [remaining EXCEPT ![c] = Add(@, 1)]
  /\ applied' = [applied EXCEPT ![o] = Null]
  /\ paid' = [paid EXCEPT ![o] = FALSE]

Pay(o) ==
  /\ applied[o] # Null
  /\ paid' = [paid EXCEPT ![o] = TRUE]
  /\ UNCHANGED <<remaining, applied>>

(* A revert that comes twice: a unit nobody held comes back.                *)
Credit(c) ==
  /\ CreditAllowed
  /\ remaining' = [remaining EXCEPT ![c] = Add(@, 1)]
  /\ UNCHANGED <<applied, paid>>

Upload(c, q) ==
  /\ remaining' = [remaining EXCEPT ![c] = q]
  /\ UNCHANGED <<applied, paid>>

Next ==
  \/ \E o \in Order, c \in Coupon : Apply(o, c) \/ Release(o, c)
  \/ \E o \in Order : Pay(o)
  \/ \E c \in Coupon : Credit(c)
  \/ \E c \in Coupon : \E q \in UploadQuantity[c] : Upload(c, q)

Spec == Init /\ [][Next]_vars
=============================================================================
