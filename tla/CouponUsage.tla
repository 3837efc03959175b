---------------------------- MODULE CouponUsage ----------------------------
(***************************************************************************)
(* The life of coupon usages in the promotion service: the request         *)
(* handlers that apply a coupon to an order (CouponService.add_coupon) or  *)
(* take it off (delete_coupon), the Kafka consumers that mark a usage paid *)
(* or give it back (process_paid, process_cancelled), and the bulk upload  *)
(* that overwrites a coupon's quantity, all over one Postgres database.    *)
(*                                                                         *)
(* Every worker process runs its own handlers and its own consumer, so the *)
(* handlers interleave freely between two database round trips.  An action *)
(* is one round trip: a statement that reads (READ COMMITTED, so each sees *)
(* what is committed when it runs), or one `async with uow.begin()` block, *)
(* which is atomic because its first UPDATE locks the coupon's row until   *)
(* the commit.  The code between two round trips belongs to the action     *)
(* before it.                                                              *)
(***************************************************************************)
EXTENDS Integers, FiniteSets

CONSTANTS
  Coupon,             \* ids of the coupons in the table
  Order,              \* ids of the orders of the order service
  User,               \* ids of the customers
  Device,             \* values of unique_identifier
  Adder,              \* add_coupon requests that can be in flight at once
  Consumer,           \* Kafka consumers, one per worker process
  Owner,              \* the customer of each order (fixed by the order service)
  InitialQuantity,    \* coupons.quantity at the start, Null when unlimited
  Limit,              \* coupons.limit, Null when there is none
  UploadQuantity,     \* what bulk uploads may write to the quantity of each coupon
  WhitelistedUser,    \* customers the antifraud check lets through
  WhitelistedDevice,  \* devices the antifraud check lets through
  CheckEnabled,       \* settings.user_antifraud.check_enabled
  MaxUsersPerDevice,  \* settings.user_antifraud.amount_of_users_per_fingerprint
  StrayDelete,        \* may a DELETE name a coupon its order does not use?
  MaxCalls,           \* bound on the requests and messages handled
  Null                \* SQL NULL, Python None

ASSUME AdderAssumption == IsFiniteSet(Adder) /\ Adder # {}
ASSUME HandlerAssumption == Adder \cap Consumer = {}
ASSUME OwnerAssumption == Owner \in [Order -> User]
ASSUME NullAssumption == Null \notin Int /\ Null \notin Coupon /\ Null \notin Device
ASSUME QuantityAssumption ==
  /\ InitialQuantity \in [Coupon -> Nat \cup {Null}]
  /\ Limit \in [Coupon -> Nat \cup {Null}]
  /\ \A c \in Coupon : UploadQuantity[c] \subseteq (Nat \ {0}) \cup {Null}  \* Optional[PositiveInt]
ASSUME BoundAssumption == MaxCalls \in Nat /\ MaxUsersPerDevice \in Nat
ASSUME FlagAssumption == StrayDelete \in BOOLEAN /\ CheckEnabled \in BOOLEAN

VARIABLES
  quantity,     \* coupons.quantity
  usages,       \* the rows of users_coupons
  registered,   \* for each device, the customers recorded with it
  now,          \* clock that stamps created_at and updated_at
  calls,        \* requests and messages handled so far
  pc,           \* where each add_coupon request is
  request,      \* what it was asked
  snapshot,     \* coupon.quantity as its get_active_coupon_by_name saw it
  oldCoupon,    \* the id get_current_order_coupon returned to it
  task          \* the message each consumer has read the coupon for

database == <<quantity, usages, registered, now>>
handlers == <<pc, request, snapshot, oldCoupon>>
vars == <<database, handlers, calls, task>>

-----------------------------------------------------------------------------
(* A row of users_coupons.  Its user_id is Owner[order]. *)
Usage == [coupon : Coupon, order : Order, paid : BOOLEAN, created : Nat, updated : Nat]

(* The parts of AddOrderCouponRequest that decide what is written. *)
Request == [coupon : Coupon, order : Order, device : Device \cup {Null}]

(* An order message and the coupon its handler found for the order. *)
Task == [topic : {"paid", "canceled"}, order : Order, coupon : Coupon]

(* An add_coupon request is waiting for the round trip its label names, or  *)
(* has given its answer: the coupon, an ApiError, or neither (an exception, *)
(* a dropped client, a killed worker).                                      *)
Waiting == {"read", "readOld", "revert", "check", "store", "price"}
Answered == {"ok", "rejected", "failed"}
Stage == Waiting \cup Answered

Row(c, o) == {u \in usages : u.coupon = c /\ u.order = o}

(* get_current_order_coupon: the rows of the order, the newest first.       *)
Newest(o) ==
  {u \in usages : u.order = o /\ \A v \in usages : v.order = o => v.updated <= u.updated}

(* get_user_coupon_usage_count: the customer's paid usages of a coupon.     *)
PaidUsages(c, user) ==
  {u \in usages : u.coupon = c /\ Owner[u.order] = user /\ u.paid}

(* quantity + n as SQL computes it: NULL stays NULL.                        *)
Plus(q, n) == IF q = Null THEN Null ELSE q + n

(* Mutant of Banned: `>` for `>=`.                                          *)
BannedLate(user, d) ==
  /\ CheckEnabled /\ d # Null
  /\ user \notin WhitelistedUser /\ d \notin WhitelistedDevice
  /\ Cardinality(registered[d] \ {user}) > MaxUsersPerDevice

(* get_amount_of_users_by_identifier and the test on it in antifraud_check. *)
Banned(user, d) ==
  /\ CheckEnabled /\ d # Null
  /\ user \notin WhitelistedUser /\ d \notin WhitelistedDevice
  /\ Cardinality(registered[d] \ {user}) >= MaxUsersPerDevice

Init ==
  /\ quantity = InitialQuantity
  /\ usages = {}
  /\ registered = [d \in Device |-> {}]
  /\ now = 0
  /\ calls = 0
  /\ pc = [w \in Adder |-> "ok"]
  /\ request = [w \in Adder |-> Null]
  /\ snapshot = [w \in Adder |-> Null]
  /\ oldCoupon = [w \in Adder |-> Null]
  /\ task = [k \in Consumer |-> Null]

Call == calls < MaxCalls /\ calls' = calls + 1

Goto(w, stage) == pc' = [pc EXCEPT ![w] = stage]

(* The request is over; the local variables of its handler are gone.        *)
Answer(w, outcome) ==
  /\ Goto(w, outcome)
  /\ request' = [request EXCEPT ![w] = Null]
  /\ snapshot' = [snapshot EXCEPT ![w] = Null]
  /\ oldCoupon' = [oldCoupon EXCEPT ![w] = Null]

-----------------------------------------------------------------------------
(* add_coupon *)

(* The request arrives and antifraud_check counts the other customers of    *)
(* its device.                                                              *)
BeginAdd(w, c, o, d) ==
  /\ pc[w] \in Answered
  /\ Call
  /\ IF Banned(Owner[o], d)
     THEN Answer(w, "rejected")
     ELSE /\ Goto(w, "read")
          /\ request' = [request EXCEPT ![w] = [coupon |-> c, order |-> o, device |-> d]]
          /\ UNCHANGED <<snapshot, oldCoupon>>
  /\ UNCHANGED <<database, task>>

(* get_active_coupon_by_name: from here the handler works on its own copy   *)
(* of the coupon.                                                           *)
ReadCoupon(w) ==
  /\ pc[w] = "read"
  /\ snapshot' = [snapshot EXCEPT ![w] = quantity[request[w].coupon]]
  /\ Goto(w, "readOld")
  /\ UNCHANGED <<database, request, oldCoupon, calls, task>>

(* The coupon is inactive or expired, a referral of the customer's own, not *)
(* permitted for the customer, the warehouse or the categories, or the      *)
(* subtotal is too small: facts of the request and of tables that no action *)
(* here writes, so the outcome is left open.                                *)
RejectNotValid(w) ==
  /\ pc[w] \in {"read", "readOld"}
  /\ Answer(w, "rejected")
  /\ UNCHANGED <<database, calls, task>>

(* Mutant of ReadOldCoupon: `old_coupon is not None` is not tested.         *)
ReadOldCouponUntested(w) ==
  /\ pc[w] = "readOld"
  /\ Goto(w, "revert")
  /\ \/ Newest(request[w].order) = {} /\ UNCHANGED oldCoupon
     \/ \E u \in Newest(request[w].order) : oldCoupon' = [oldCoupon EXCEPT ![w] = u.coupon]
  /\ UNCHANGED <<database, request, snapshot, calls, task>>

(* Mutant of ReadOldCoupon: the old coupon is not looked up.                *)
ReadOldCouponSkipped(w) ==
  /\ pc[w] = "readOld"
  /\ Goto(w, "check")
  /\ UNCHANGED <<database, request, snapshot, oldCoupon, calls, task>>

(* get_current_order_coupon: the coupon the order has now, if any.          *)
ReadOldCoupon(w) ==
  /\ pc[w] = "readOld"
  /\ \/ /\ Newest(request[w].order) = {}
        /\ Goto(w, "check")
        /\ UNCHANGED oldCoupon
     \/ \E u \in Newest(request[w].order) :
          /\ oldCoupon' = [oldCoupon EXCEPT ![w] = u.coupon]
          /\ Goto(w, "revert")
  /\ UNCHANGED <<database, request, snapshot, calls, task>>

(* Mutant of Revert: the quantity is not incremented.                       *)
RevertRows(c, o) ==
  /\ usages' = usages \ Row(c, o)
  /\ UNCHANGED <<quantity, registered, now>>

(* Mutant of Revert: the rows are not deleted.                              *)
RevertUnits(c, o) ==
  /\ quantity' = [quantity EXCEPT ![c] = Plus(@, 1)]
  /\ UNCHANGED <<usages, registered, now>>

(* revert_coupon_usage: give the unit back and delete the rows, however     *)
(* many there are.                                                          *)
Revert(c, o) ==
  /\ quantity' = [quantity EXCEPT ![c] = Plus(@, 1)]
  /\ usages' = usages \ Row(c, o)
  /\ UNCHANGED <<registered, now>>

(* The old coupon is reverted, and committed, before the new one is known   *)
(* to be acceptable.                                                        *)
RevertOldCoupon(w) ==
  /\ pc[w] = "revert"
  /\ Revert(oldCoupon[w], request[w].order)
  /\ Goto(w, "check")
  /\ UNCHANGED <<request, snapshot, oldCoupon, calls, task>>

(* Mutant of LimitReached: `>` for `>=`.                                    *)
LimitExceeded(w) ==
  LET c == request[w].coupon
  IN  /\ Limit[c] # Null
      /\ Cardinality(PaidUsages(c, Owner[request[w].order])) > Limit[c]

(* Mutant of Redeemed: the quantity is not tested.                          *)
RedeemedNever(w) == FALSE

(* The limit check counts the paid usages in the database; the quantity     *)
(* check looks at the handler's copy of the coupon.                         *)
LimitReached(w) ==
  LET c == request[w].coupon
  IN  /\ Limit[c] # Null
      /\ Cardinality(PaidUsages(c, Owner[request[w].order])) >= Limit[c]

Redeemed(w) == snapshot[w] # Null /\ snapshot[w] = 0

AcceptCoupon(w) ==
  /\ pc[w] = "check"
  /\ ~LimitReached(w) /\ ~Redeemed(w)
  /\ Goto(w, "store")
  /\ UNCHANGED <<database, request, snapshot, oldCoupon, calls, task>>

(* CouponRedeemedLimitError or CouponRedeemedError.                         *)
RejectRedeemed(w) ==
  /\ pc[w] = "check"
  /\ LimitReached(w) \/ Redeemed(w)
  /\ Answer(w, "rejected")
  /\ UNCHANGED <<database, calls, task>>

(* The request's paid_orders_count is outside orders_from .. orders_to.     *)
RejectOrdersCount(w) ==
  /\ pc[w] = "check"
  /\ ~LimitReached(w)
  /\ Answer(w, "rejected")
  /\ UNCHANGED <<database, calls, task>>

(* create_user_coupon: the row that a request adds to users_coupons.        *)
NewUsage(r) ==
  [coupon |-> r.coupon, order |-> r.order, paid |-> FALSE, created |-> now, updated |-> now]

(* Mutant of StoreUsage: the row without the decrement.                     *)
StoreUsageUncounted(w) ==
  /\ pc[w] = "store"
  /\ usages' = usages \cup {NewUsage(request[w])}
  /\ now' = now + 1
  /\ Goto(w, "price")
  /\ UNCHANGED <<quantity, registered, request, snapshot, oldCoupon, calls, task>>

(* store_coupon_usage: the row, the unit and the fingerprint in one         *)
(* transaction.                                                             *)
StoreUsage(w) ==
  LET r == request[w]
  IN  /\ pc[w] = "store"
      /\ usages' = usages \cup {NewUsage(r)}
      /\ quantity' = [quantity EXCEPT ![r.coupon] = Plus(@, -1)]
      /\ registered' = [d \in Device |->
                          IF d = r.device THEN registered[d] \cup {Owner[r.order]}
                                          ELSE registered[d]]
      /\ now' = now + 1
      /\ Goto(w, "price")
      /\ UNCHANGED <<request, snapshot, oldCoupon, calls, task>>

(* The purchase prices are there and the discount is returned.              *)
ReturnDiscount(w) ==
  /\ pc[w] = "price"
  /\ Answer(w, "ok")
  /\ UNCHANGED <<database, calls, task>>

(* The handler ends between two transactions without an answer of its own:  *)
(* the pricing service fails, the discount is not a valid response, the     *)
(* connection or the worker dies.  What it has committed stays.             *)
FailAdd(w) ==
  /\ pc[w] \in Waiting
  /\ Answer(w, "failed")
  /\ UNCHANGED <<database, calls, task>>

-----------------------------------------------------------------------------
(* delete_coupon, bulk upload, consumers *)

(* delete_coupon reverts without looking whether the order has the coupon;  *)
(* its get_coupon always succeeds, coupons are never deleted.               *)
DeleteCoupon(c, o) ==
  /\ StrayDelete \/ Row(c, o) # {}
  /\ Call
  /\ Revert(c, o)
  /\ UNCHANGED <<handlers, task>>

(* bulk_upsert: the uploaded quantity replaces the stored one.              *)
BulkUpsert(c, q) ==
  /\ Call
  /\ quantity' = [quantity EXCEPT ![c] = q]
  /\ UNCHANGED <<usages, registered, now, handlers, task>>

(* A message is delivered, possibly again, and its handler looks up the     *)
(* order's coupon; without one there is nothing to do.                      *)
ReceiveMessage(k, topic, o) ==
  /\ task[k] = Null
  /\ Call
  /\ \/ Newest(o) = {} /\ UNCHANGED task
     \/ \E u \in Newest(o) :
          task' = [task EXCEPT ![k] = [topic |-> topic, order |-> o, coupon |-> u.coupon]]
  /\ UNCHANGED <<database, handlers>>

(* Mutant of MarkedPaid: only updated_at is written.                        *)
MarkedUpdated(u) == [u EXCEPT !.updated = now]

(* user_coupon_set_order_paid: every row of the pair, found or not.         *)
MarkedPaid(u) == [u EXCEPT !.paid = TRUE, !.updated = now]

SetOrderPaid(c, o) ==
  /\ usages' = (usages \ Row(c, o)) \cup {MarkedPaid(u) : u \in Row(c, o)}
  /\ now' = now + 1
  /\ UNCHANGED <<quantity, registered>>

ProcessMessage(k) ==
  /\ task[k] # Null
  /\ \/ task[k].topic = "paid" /\ SetOrderPaid(task[k].coupon, task[k].order)
     \/ task[k].topic = "canceled" /\ Revert(task[k].coupon, task[k].order)
  /\ task' = [task EXCEPT ![k] = Null]
  /\ UNCHANGED <<handlers, calls>>

(* The handler raises and the loop goes on to the next message, or the      *)
(* worker dies before the transaction.                                      *)
FailMessage(k) ==
  /\ task[k] # Null
  /\ task' = [task EXCEPT ![k] = Null]
  /\ UNCHANGED <<database, handlers, calls>>

-----------------------------------------------------------------------------
AddStep(w) ==
  \/ \E c \in Coupon, o \in Order, d \in Device \cup {Null} : BeginAdd(w, c, o, d)
  \/ ReadCoupon(w)
  \/ RejectNotValid(w)
  \/ ReadOldCoupon(w)
  \/ RevertOldCoupon(w)
  \/ AcceptCoupon(w)
  \/ RejectRedeemed(w)
  \/ RejectOrdersCount(w)
  \/ StoreUsage(w)
  \/ ReturnDiscount(w)
  \/ FailAdd(w)

ConsumerStep(k) ==
  \/ \E topic \in {"paid", "canceled"}, o \in Order : ReceiveMessage(k, topic, o)
  \/ ProcessMessage(k)
  \/ FailMessage(k)

Next ==
  \/ \E w \in Adder : AddStep(w)
  \/ \E k \in Consumer : ConsumerStep(k)
  \/ \E c \in Coupon, o \in Order : DeleteCoupon(c, o)
  \/ \E c \in Coupon : \E q \in UploadQuantity[c] : BulkUpsert(c, q)

Spec == Init /\ [][Next]_vars

(* One handler at a time: what the service does when no two requests or     *)
(* messages overlap.                                                        *)
Idle(w) == pc[w] \in Answered

Busy == {w \in Adder : ~Idle(w)} \cup {k \in Consumer : task[k] # Null}

Alone == \A x, y \in Busy : x = y

Calm == Busy # {} => calls' = calls   \* nothing arrives while one is at work

SequentialSpec == Init /\ [][Next /\ Alone' /\ Calm]_vars

-----------------------------------------------------------------------------
(* Properties *)

(* Types of the tables and of the handlers' local variables; a request that *)
(* is waiting has a request, and a revert has an old coupon.                *)
TypeOK ==
  /\ quantity \in [Coupon -> Int \cup {Null}]
  /\ usages \subseteq Usage
  /\ registered \in [Device -> SUBSET User]
  /\ now \in Nat
  /\ calls \in 0..MaxCalls
  /\ pc \in [Adder -> Stage]
  /\ request \in [Adder -> Request \cup {Null}]
  /\ snapshot \in [Adder -> Int \cup {Null}]
  /\ oldCoupon \in [Adder -> Coupon \cup {Null}]
  /\ task \in [Consumer -> Task \cup {Null}]
  /\ \A w \in Adder : pc[w] \in Waiting => request[w] \in Request
  /\ \A w \in Adder : pc[w] = "revert" => oldCoupon[w] \in Coupon

(* A coupon is never given out more often than its quantity allows: the     *)
(* test on the copy of the quantity, read several round trips earlier, and  *)
(* the later decrement never take the stored quantity below zero, whatever  *)
(* deletes, messages and uploads do in between.                             *)
NoOversell == \A c \in Coupon : quantity[c] # Null => quantity[c] >= 0

(* An order carries at most one coupon usage: add_coupon replaces the old   *)
(* usage, also when it fails half way, is retried, or finds that someone    *)
(* else has reverted the old usage first.                                   *)
OneUsagePerOrder == \A u, v \in usages : u.order = v.order => u = v

Held(c) == {u \in usages : u.coupon = c}

(* No unit of a coupon is lost, unless an upload overwrites the quantity:   *)
(* what is left plus what orders hold is never less than what there was,    *)
(* through replacements, failures between two transactions and repeated     *)
(* reverts.                                                                 *)
NothingLost ==
  \A c \in Coupon : UploadQuantity[c] = {} /\ InitialQuantity[c] # Null =>
    /\ quantity[c] # Null
    /\ quantity[c] + Cardinality(Held(c)) >= InitialQuantity[c]

(* When handlers do not overlap the units are conserved exactly: a revert   *)
(* gives back one unit for the one usage it deletes, and no other.          *)
UnitsConserved ==
  \A c \in Coupon : InitialQuantity[c] # Null =>
    quantity[c] + Cardinality(Held(c)) = InitialQuantity[c]

(* A unit comes back only with the deletion of a usage of that coupon.      *)
RevertRemovesUsage ==
  [][\A c \in Coupon :
       quantity[c] # Null /\ quantity'[c] = Plus(quantity[c], 1)
         => \E u \in usages : u.coupon = c /\ u \notin usages']_vars

(* When the message that an order was paid has been processed, a usage the  *)
(* order has is marked paid.                                                *)
PaidMessageMarksUsage ==
  [][\A k \in Consumer :
       task[k] # Null /\ task[k].topic = "paid" /\ ProcessMessage(k)
         => \A u \in usages' : u.order = task[k].order => u.paid]_vars

(* The usages that were stored although their customer had reached the      *)
(* coupon's limit already: the rows say when each was stored and marked.  A *)
(* repeated message marks a row again, and it counts only from then on.     *)
PaidBefore(u) ==
  {v \in PaidUsages(u.coupon, Owner[u.order]) : v.updated < u.created}

Late(c, user) ==
  {u \in usages : /\ u.coupon = c /\ Owner[u.order] = user
                  /\ Cardinality(PaidBefore(u)) >= Limit[c]}

(* The limit per customer counts what is marked paid, and the marks come    *)
(* with messages, while requests are between their check and their store.   *)
(* A customer gets beyond the limit only by requests that were past the     *)
(* check when it was reached: one usage for each that can be in flight,     *)
(* whatever is marked, reverted and asked again afterwards.                 *)
LimitOvershoot ==
  \A c \in Coupon, user \in User : Limit[c] # Null =>
    Cardinality(Late(c, user)) <= Cardinality(Adder)

(* A device never serves more customers who are subject to the check than   *)
(* the setting allows, but for the requests that overlap: each of them may  *)
(* have counted before the others recorded theirs.                          *)
AntifraudBound ==
  CheckEnabled => \A d \in Device \ WhitelistedDevice :
    Cardinality(registered[d] \ WhitelistedUser) <= MaxUsersPerDevice + Cardinality(Adder) - 1
=============================================================================
