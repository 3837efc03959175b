-------------------------- MODULE CouponUsageProofs -------------------------
(***************************************************************************)
(* Theorems about CouponUsage for every value of its constants: its types  *)
(* and its rows, its ledger with one add_coupon request at a time, the     *)
(* overshoot of the antifraud setting and of a coupon's limit by           *)
(* overlapping requests, and what holds when no two handlers overlap.      *)
(***************************************************************************)
EXTENDS CouponUsageRefinement, FiniteSetTheorems, TLAPS

USE OwnerAssumption, NullAssumption, QuantityAssumption, BoundAssumption, FlagAssumption

-----------------------------------------------------------------------------
(* Type correctness *)

(* The facts about the request and the old coupon that TypeOK adds to the   *)
(* types of the variables, and the types themselves.                        *)
LEMMA TypeInit == Init => TypeOK
  BY DEF Init, TypeOK, Stage, Answered, Waiting

LEMMA TypeAdd ==
  ASSUME TypeOK, NEW w \in Adder, AddStep(w)
  PROVE  TypeOK'
  <1> USE DEF TypeOK, Stage, Waiting, Answered, database, Goto, Answer
  <1>1. ASSUME NEW c \in Coupon, NEW o \in Order, NEW d \in Device \cup {Null}, BeginAdd(w, c, o, d)
        PROVE  TypeOK'
    <2>1. [coupon |-> c, order |-> o, device |-> d] \in Request
      BY DEF Request
    <2>2. QED BY <1>1, <2>1 DEF BeginAdd, Call
  <1>2. CASE ReadCoupon(w)
    BY <1>2 DEF ReadCoupon, Request
  <1>3. CASE RejectNotValid(w)
    BY <1>3 DEF RejectNotValid
  <1>4. CASE ReadOldCoupon(w)
    BY <1>4 DEF ReadOldCoupon, Newest, Usage
  <1>5. CASE RevertOldCoupon(w)
    BY <1>5 DEF RevertOldCoupon, Revert, Row, Plus
  <1>6. CASE AcceptCoupon(w)
    BY <1>6 DEF AcceptCoupon
  <1>7. CASE RejectRedeemed(w)
    BY <1>7 DEF RejectRedeemed
  <1>8. CASE RejectOrdersCount(w)
    BY <1>8 DEF RejectOrdersCount
  <1>9. CASE StoreUsage(w)
    <2>1. /\ request[w] \in Request
          /\ Owner[request[w].order] \in User
      BY <1>9 DEF StoreUsage, Request
    <2>2. usages' \subseteq Usage /\ now' \in Nat
      <3>1. NewUsage(request[w]) \in Usage
        BY <2>1 DEF NewUsage, Usage, Request
      <3>2. QED BY <1>9, <3>1 DEF StoreUsage
    <2>3. quantity' \in [Coupon -> Int \cup {Null}]
      BY <1>9, <2>1 DEF StoreUsage, Request, Plus
    <2>4. registered' \in [Device -> SUBSET User]
      BY <1>9, <2>1 DEF StoreUsage
    <2>5. QED BY <1>9, <2>2, <2>3, <2>4 DEF StoreUsage
  <1>10. CASE ReturnDiscount(w)
    BY <1>10 DEF ReturnDiscount
  <1>11. CASE FailAdd(w)
    BY <1>11 DEF FailAdd
  <1>12. QED
    BY <1>1, <1>2, <1>3, <1>4, <1>5, <1>6, <1>7, <1>8, <1>9, <1>10, <1>11 DEF AddStep

LEMMA MarkedPaidType ==
  ASSUME now \in Nat, NEW u \in Usage
  PROVE  /\ MarkedPaid(u) \in Usage
         /\ MarkedPaid(u).coupon = u.coupon /\ MarkedPaid(u).order = u.order
         /\ MarkedPaid(u).paid = TRUE /\ MarkedPaid(u).created = u.created
  BY DEF MarkedPaid, Usage

LEMMA TypeConsumer ==
  ASSUME TypeOK, NEW k \in Consumer, ConsumerStep(k)
  PROVE  TypeOK'
  <1> USE DEF TypeOK, database, handlers
  <1>1. ASSUME NEW topic \in {"paid", "canceled"}, NEW o \in Order, ReceiveMessage(k, topic, o)
        PROVE  TypeOK'
    <2>1. \A u \in Newest(o) : [topic |-> topic, order |-> o, coupon |-> u.coupon] \in Task
      BY DEF Newest, Usage, Task
    <2>2. QED BY <1>1, <2>1 DEF ReceiveMessage, Call
  <1>2. CASE ProcessMessage(k)
    <2>1. task[k] \in Task /\ UNCHANGED <<handlers, calls>> /\ task' = [task EXCEPT ![k] = Null]
      BY <1>2 DEF ProcessMessage
    <2>2. CASE SetOrderPaid(task[k].coupon, task[k].order)
      <3>1. \A u \in Usage : MarkedPaid(u) \in Usage
        BY MarkedPaidType
      <3>2. usages' \subseteq Usage
        BY <2>2, <3>1 DEF SetOrderPaid, Row
      <3>3. now' \in Nat /\ UNCHANGED <<quantity, registered>>
        BY <2>2 DEF SetOrderPaid
      <3>4. QED BY <2>1, <3>2, <3>3
    <2>3. CASE Revert(task[k].coupon, task[k].order)
      BY <2>1, <2>3 DEF Revert, Row, Plus, Task
    <2>4. QED BY <1>2, <2>2, <2>3 DEF ProcessMessage
  <1>3. CASE FailMessage(k)
    BY <1>3 DEF FailMessage
  <1>4. QED BY <1>1, <1>2, <1>3 DEF ConsumerStep

LEMMA TypeOther ==
  ASSUME TypeOK, NEW c \in Coupon,
         \/ \E o \in Order : DeleteCoupon(c, o)
         \/ \E q \in UploadQuantity[c] : BulkUpsert(c, q)
  PROVE  TypeOK'
  BY DEF TypeOK, DeleteCoupon, BulkUpsert, Revert, Row, Plus, Call, database, handlers

LEMMA TypeNext == TypeOK /\ [Next]_vars => TypeOK'
  <1> SUFFICES ASSUME TypeOK, [Next]_vars PROVE TypeOK'
    OBVIOUS
  <1>1. CASE Next
    BY <1>1, TypeAdd, TypeConsumer, TypeOther DEF Next
  <1>2. CASE UNCHANGED vars
    BY <1>2 DEF TypeOK, vars, database, handlers, Row
  <1>3. QED BY <1>1, <1>2

(* Every reachable state has the types of TypeOK, and a handler that waits  *)
(* for a round trip has what the round trip needs.                          *)
THEOREM TypeCorrect == Spec => []TypeOK
  <1>1. Init => TypeOK
    BY TypeInit
  <1>2. TypeOK /\ [Next]_vars => TypeOK'
    BY TypeNext
  <1>3. QED BY <1>1, <1>2, PTL DEF Spec

-----------------------------------------------------------------------------
(* One add_coupon request at a time *)

OneAdder == \A v, w \in Adder : v = w

InStock(c) == quantity[c] # Null => quantity[c] >= 1

(* What the copy of the quantity that a request holds still says about the  *)
(* stored one: a copy that passes the quantity check comes from a coupon    *)
(* that has not run out since.                                              *)
Reserved(w) ==
  /\ pc[w] \in {"readOld", "revert", "check"} /\ ~Redeemed(w) => InStock(request[w].coupon)
  /\ pc[w] = "store" => InStock(request[w].coupon)

StockInv == TypeOK /\ NoOversell /\ \A w \in Adder : Reserved(w)

(* A revert never takes a unit away.                                        *)
LEMMA RevertAdds ==
  ASSUME TypeOK, NEW c \in Coupon, NEW o, Revert(c, o)
  PROVE  \A d \in Coupon : /\ quantity'[d] = Null <=> quantity[d] = Null
                           /\ quantity[d] # Null => quantity'[d] >= quantity[d]
  BY DEF TypeOK, Revert, Plus

LEMMA StockAdd ==
  ASSUME StockInv, TypeOK', NEW w \in Adder, AddStep(w)
  PROVE  NoOversell' /\ Reserved(w)'
  <1> USE DEF StockInv, TypeOK, NoOversell, Reserved, InStock, Redeemed, database, Goto, Answer,
              Stage, Waiting, Answered
  <1>1. ASSUME NEW c \in Coupon, NEW o \in Order, NEW d \in Device \cup {Null}, BeginAdd(w, c, o, d)
        PROVE  NoOversell' /\ Reserved(w)'
    BY <1>1 DEF BeginAdd
  <1>2. CASE ReadCoupon(w)
    BY <1>2 DEF ReadCoupon, Request
  <1>3. CASE RejectNotValid(w)
    BY <1>3 DEF RejectNotValid
  <1>4. CASE ReadOldCoupon(w)
    BY <1>4 DEF ReadOldCoupon
  <1>5. CASE RevertOldCoupon(w)
    <2>1. request[w] \in Request /\ oldCoupon[w] \in Coupon
      BY <1>5 DEF RevertOldCoupon
    <2>2. \A d \in Coupon : /\ quantity'[d] = Null <=> quantity[d] = Null
                            /\ quantity[d] # Null => quantity'[d] >= quantity[d]
      BY <1>5, <2>1, RevertAdds DEF RevertOldCoupon
    <2>3. QED BY <1>5, <2>1, <2>2 DEF RevertOldCoupon, Request
  <1>6. CASE AcceptCoupon(w)
    BY <1>6 DEF AcceptCoupon
  <1>7. CASE RejectRedeemed(w)
    BY <1>7 DEF RejectRedeemed
  <1>8. CASE RejectOrdersCount(w)
    BY <1>8 DEF RejectOrdersCount
  <1>9. CASE StoreUsage(w)
    BY <1>9 DEF StoreUsage, Request, Plus
  <1>10. CASE ReturnDiscount(w)
    BY <1>10 DEF ReturnDiscount
  <1>11. CASE FailAdd(w)
    BY <1>11 DEF FailAdd
  <1>12. QED
    BY <1>1, <1>2, <1>3, <1>4, <1>5, <1>6, <1>7, <1>8, <1>9, <1>10, <1>11 DEF AddStep

(* Deletes, messages and uploads leave the handlers alone and every stored  *)
(* quantity in stock if it was: they add units or write a positive number.  *)
LEMMA StockOther ==
  ASSUME StockInv, TypeOK', UNCHANGED <<pc, request, snapshot>>,
         \A d \in Coupon : \/ quantity'[d] = quantity[d]
                           \/ quantity'[d] = Null
                           \/ /\ quantity'[d] # Null /\ quantity'[d] >= 1
                           \/ /\ quantity[d] # Null /\ quantity'[d] >= quantity[d]
  PROVE  NoOversell' /\ \A w \in Adder : Reserved(w)'
  <1> USE DEF StockInv, TypeOK, NoOversell, InStock
  <1>1. \A d \in Coupon : InStock(d) => InStock(d)'
    OBVIOUS
  <1>2. ASSUME NEW w \in Adder PROVE Reserved(w)'
    BY <1>1 DEF Reserved, Redeemed, Waiting, Request
  <1>3. NoOversell'
    OBVIOUS
  <1>4. QED BY <1>2, <1>3

LEMMA StockNext == OneAdder /\ StockInv /\ [Next]_vars => StockInv'
  <1> SUFFICES ASSUME OneAdder, StockInv, [Next]_vars PROVE StockInv'
    OBVIOUS
  <1>0. TypeOK /\ TypeOK'
    BY TypeNext DEF StockInv
  <1>1. CASE \E w \in Adder : AddStep(w)
    BY <1>0, <1>1, StockAdd DEF StockInv, OneAdder
  <1>2. ASSUME NEW k \in Consumer, ConsumerStep(k) PROVE StockInv'
    <2> USE <1>0 DEF StockInv, database, handlers
    <2>1. UNCHANGED <<pc, request, snapshot>>
      BY <1>2 DEF ConsumerStep, ReceiveMessage, ProcessMessage, FailMessage
    <2>2. CASE UNCHANGED quantity
      BY <2>1, <2>2, StockOther
    <2>3. CASE task[k] # Null /\ Revert(task[k].coupon, task[k].order)
      <3>1. task[k].coupon \in Coupon
        BY <2>3 DEF TypeOK, Task
      <3>2. QED BY <2>1, <2>3, <3>1, RevertAdds, StockOther
    <2>4. QED
      BY <1>2, <2>2, <2>3 DEF ConsumerStep, ReceiveMessage, ProcessMessage, FailMessage, SetOrderPaid
  <1>3. ASSUME NEW c \in Coupon, NEW o \in Order, DeleteCoupon(c, o) PROVE StockInv'
    BY <1>0, <1>3, RevertAdds, StockOther DEF DeleteCoupon, handlers, StockInv
  <1>4. ASSUME NEW c \in Coupon, NEW q \in UploadQuantity[c], BulkUpsert(c, q) PROVE StockInv'
    BY <1>0, <1>4, StockOther DEF BulkUpsert, handlers, StockInv, TypeOK
  <1>5. CASE UNCHANGED vars
    BY <1>0, <1>5, StockOther DEF vars, database, handlers, StockInv
  <1>6. QED BY <1>1, <1>2, <1>3, <1>4, <1>5 DEF Next

LEMMA StockInvariant ==
  ASSUME OneAdder
  PROVE  Spec => []StockInv
  <1>1. Init => StockInv
    BY TypeInit DEF Init, StockInv, NoOversell, Reserved
  <1>2. StockInv /\ [Next]_vars => StockInv'
    BY StockNext
  <1>3. QED BY <1>1, <1>2, PTL DEF Spec

(* With one add_coupon request at a time no coupon is given out more often  *)
(* than its quantity allows, whatever deletes, messages and bulk uploads    *)
(* run beside it.                                                           *)
THEOREM NoOversellOneAdder ==
  ASSUME OneAdder
  PROVE  Spec => []NoOversell
  <1>1. StockInv => NoOversell
    BY DEF StockInv
  <1>2. Spec => []StockInv
    BY StockInvariant
  <1>3. QED BY <1>1, <1>2, PTL

-----------------------------------------------------------------------------
(* One usage per order *)

(* A request that knows the old coupon knows the only one the order can     *)
(* have, and a request past the revert has an order without a usage.        *)
Cleared(w) ==
  /\ pc[w] = "revert" =>
       \A u \in usages : u.order = request[w].order => u.coupon = oldCoupon[w]
  /\ pc[w] \in {"check", "store"} => \A u \in usages : u.order # request[w].order

UsageInv == TypeOK /\ OneUsagePerOrder /\ \A w \in Adder : Cleared(w)

(* A usage that is the only one of its order is the newest.                 *)
LEMMA OnlyIsNewest ==
  ASSUME TypeOK, OneUsagePerOrder, NEW u \in usages
  PROVE  u \in Newest(u.order)
  BY DEF TypeOK, OneUsagePerOrder, Newest, Usage

LEMMA UsageAdd ==
  ASSUME UsageInv, TypeOK', NEW w \in Adder, AddStep(w)
  PROVE  OneUsagePerOrder' /\ Cleared(w)'
  <1> USE DEF UsageInv, TypeOK, OneUsagePerOrder, Cleared, database, Goto, Answer,
              Stage, Waiting, Answered
  <1>1. ASSUME NEW c \in Coupon, NEW o \in Order, NEW d \in Device \cup {Null}, BeginAdd(w, c, o, d)
        PROVE  OneUsagePerOrder' /\ Cleared(w)'
    BY <1>1 DEF BeginAdd
  <1>2. CASE ReadCoupon(w)
    BY <1>2 DEF ReadCoupon
  <1>3. CASE RejectNotValid(w)
    BY <1>3 DEF RejectNotValid
  <1>4. CASE ReadOldCoupon(w)
    <2>1. /\ pc[w] = "readOld"
          /\ UNCHANGED <<usages, request>>
          /\ pc' = [pc EXCEPT ![w] = "check"] \/ pc' = [pc EXCEPT ![w] = "revert"]
      BY <1>4 DEF ReadOldCoupon
    <2>2. CASE Newest(request[w].order) = {} /\ pc' = [pc EXCEPT ![w] = "check"]
      <3>1. \A u \in usages : u.order # request[w].order
        BY <2>2, OnlyIsNewest
      <3>2. QED BY <2>1, <2>2, <3>1
    <2>3. ASSUME NEW u \in Newest(request[w].order),
                 oldCoupon' = [oldCoupon EXCEPT ![w] = u.coupon],
                 pc' = [pc EXCEPT ![w] = "revert"]
          PROVE  OneUsagePerOrder' /\ Cleared(w)'
      <3>1. u \in usages /\ u.order = request[w].order
        BY DEF Newest
      <3>2. QED BY <2>1, <2>3, <3>1
    <2>4. QED BY <1>4, <2>2, <2>3 DEF ReadOldCoupon
  <1>5. CASE RevertOldCoupon(w)
    BY <1>5 DEF RevertOldCoupon, Revert, Row
  <1>6. CASE AcceptCoupon(w)
    BY <1>6 DEF AcceptCoupon
  <1>7. CASE RejectRedeemed(w)
    BY <1>7 DEF RejectRedeemed
  <1>8. CASE RejectOrdersCount(w)
    BY <1>8 DEF RejectOrdersCount
  <1>9. CASE StoreUsage(w)
    <2>1. NewUsage(request[w]).order = request[w].order
      BY DEF NewUsage
    <2>2. QED BY <1>9, <2>1 DEF StoreUsage
  <1>10. CASE ReturnDiscount(w)
    BY <1>10 DEF ReturnDiscount
  <1>11. CASE FailAdd(w)
    BY <1>11 DEF FailAdd
  <1>12. QED
    BY <1>1, <1>2, <1>3, <1>4, <1>5, <1>6, <1>7, <1>8, <1>9, <1>10, <1>11 DEF AddStep

(* Nobody else adds a usage; marking one paid keeps its coupon and order.   *)
LEMMA UsageOther ==
  ASSUME UsageInv, UNCHANGED <<pc, request, oldCoupon>>,
         NEW c, NEW o, usages' \subseteq usages \/ SetOrderPaid(c, o)
  PROVE  OneUsagePerOrder' /\ \A w \in Adder : Cleared(w)'
  <1>1. \A v \in usages' : \E u \in usages : v.coupon = u.coupon /\ v.order = u.order
    <2>1. CASE usages' \subseteq usages
      BY <2>1
    <2>2. CASE SetOrderPaid(c, o)
      <3>1. \A x \in usages : MarkedPaid(x).coupon = x.coupon /\ MarkedPaid(x).order = x.order
        BY MarkedPaidType DEF UsageInv, TypeOK
      <3>2. \A x \in usages' : x \in usages \/ \E y \in usages : x = MarkedPaid(y)
        BY <2>2 DEF SetOrderPaid, Row
      <3>3. QED BY <3>1, <3>2
    <2>3. QED BY <2>1, <2>2
  <1>2. OneUsagePerOrder'
    <2>1. CASE usages' \subseteq usages
      BY <2>1 DEF UsageInv, OneUsagePerOrder
    <2>2. CASE SetOrderPaid(c, o)
      <3> SUFFICES ASSUME NEW u \in usages', NEW v \in usages', u.order = v.order PROVE u = v
        BY DEF OneUsagePerOrder
      <3>1. \A x \in usages : MarkedPaid(x).order = x.order
        BY MarkedPaidType DEF UsageInv, TypeOK
      <3>2. \A x \in usages' : \/ x \in usages /\ x \notin Row(c, o)
                               \/ \E y \in Row(c, o) : x = MarkedPaid(y)
        BY <2>2 DEF SetOrderPaid
      <3>3. QED BY <3>1, <3>2 DEF Row, UsageInv, OneUsagePerOrder
    <2>3. QED BY <2>1, <2>2
  <1>3. ASSUME NEW w \in Adder PROVE Cleared(w)'
    BY <1>1 DEF UsageInv, Cleared
  <1>4. QED BY <1>2, <1>3

LEMMA UsageNext == OneAdder /\ UsageInv /\ [Next]_vars => UsageInv'
  <1> SUFFICES ASSUME OneAdder, UsageInv, [Next]_vars PROVE UsageInv'
    OBVIOUS
  <1>0. TypeOK /\ TypeOK'
    BY TypeNext DEF UsageInv
  <1>1. CASE \E w \in Adder : AddStep(w)
    BY <1>0, <1>1, UsageAdd DEF UsageInv, OneAdder
  <1>2. ASSUME NEW k \in Consumer, ConsumerStep(k) PROVE UsageInv'
    <2>1. UNCHANGED <<pc, request, oldCoupon>>
      BY <1>2 DEF ConsumerStep, ReceiveMessage, ProcessMessage, FailMessage, handlers
    <2>2. usages' \subseteq usages \/ SetOrderPaid(task[k].coupon, task[k].order)
      BY <1>2 DEF ConsumerStep, ReceiveMessage, ProcessMessage, FailMessage, database, Revert
    <2>3. QED BY <1>0, <2>1, <2>2, UsageOther DEF UsageInv
  <1>3. ASSUME NEW c \in Coupon, NEW o \in Order, DeleteCoupon(c, o) PROVE UsageInv'
    BY <1>0, <1>3, UsageOther DEF DeleteCoupon, Revert, handlers, UsageInv
  <1>4. ASSUME NEW c \in Coupon, NEW q \in UploadQuantity[c], BulkUpsert(c, q) PROVE UsageInv'
    BY <1>0, <1>4, UsageOther DEF BulkUpsert, handlers, UsageInv
  <1>5. CASE UNCHANGED vars
    BY <1>0, <1>5, UsageOther DEF vars, database, handlers, UsageInv
  <1>6. QED BY <1>1, <1>2, <1>3, <1>4, <1>5 DEF Next

LEMMA UsageInvariant ==
  ASSUME OneAdder
  PROVE  Spec => []UsageInv
  <1>1. Init => UsageInv
    BY TypeInit DEF Init, UsageInv, OneUsagePerOrder, Cleared
  <1>2. UsageInv /\ [Next]_vars => UsageInv'
    BY UsageNext
  <1>3. QED BY <1>1, <1>2, PTL DEF Spec

(* With one add_coupon request at a time an order never carries two usages. *)
THEOREM OneUsagePerOrderOneAdder ==
  ASSUME OneAdder
  PROVE  Spec => []OneUsagePerOrder
  <1>1. UsageInv => OneUsagePerOrder
    BY DEF UsageInv
  <1>2. Spec => []UsageInv
    BY UsageInvariant
  <1>3. QED BY <1>1, <1>2, PTL

-----------------------------------------------------------------------------
(* No unit is lost *)

KeptInv == UsageInv /\ IsFiniteSet(usages) /\ NothingLost

(* A step keeps the units of a coupon when what it takes from the quantity  *)
(* it adds to the usages, and what it takes from the usages, at most one,   *)
(* it adds to the quantity.                                                 *)
Keeps(c) ==
  /\ quantity'[c] = Null <=> quantity[c] = Null
  /\ quantity[c] # Null =>
       quantity'[c] + Cardinality(Held(c)') >= quantity[c] + Cardinality(Held(c))

(* It balances them when it takes and adds the same.                        *)
Balances(c) ==
  /\ quantity'[c] = Null <=> quantity[c] = Null
  /\ quantity[c] # Null =>
       quantity'[c] + Cardinality(Held(c)') = quantity[c] + Cardinality(Held(c))

LEMMA HeldFinite ==
  ASSUME IsFiniteSet(usages), NEW c
  PROVE  IsFiniteSet(Held(c)) /\ Cardinality(Held(c)) \in Nat
  BY FS_Subset, FS_CardinalityType DEF Held

LEMMA BalancesKeeps ==
  ASSUME TypeOK, TypeOK', IsFiniteSet(usages), IsFiniteSet(usages'), NEW c \in Coupon, Balances(c)
  PROVE  Keeps(c)
  <1>1. Cardinality(Held(c)) \in Nat
    BY HeldFinite
  <1>2. Cardinality(Held(c)') \in Nat
    BY FS_Subset, FS_CardinalityType DEF Held
  <1>3. QED BY <1>1, <1>2 DEF Balances, Keeps, TypeOK

(* A revert gives back one unit and deletes the order's one usage, if it is *)
(* still there.                                                             *)
LEMMA RevertBalances ==
  ASSUME UsageInv, IsFiniteSet(usages), NEW c \in Coupon, NEW o, Revert(c, o)
  PROVE  /\ IsFiniteSet(usages')
         /\ \A d \in Coupon : Keeps(d)
         /\ Row(c, o) # {} => \A d \in Coupon : Balances(d)
  <1>1. usages' = usages \ Row(c, o) /\ quantity' = [quantity EXCEPT ![c] = Plus(@, 1)]
    BY DEF Revert
  <1>2. IsFiniteSet(usages')
    BY <1>1, FS_Subset
  <1>3. ASSUME NEW d \in Coupon, d # c PROVE Keeps(d) /\ Balances(d)
    <2>1. Held(d)' = Held(d)
      BY <1>1, <1>3 DEF Held, Row
    <2>2. quantity'[d] = quantity[d]
      BY <1>1, <1>3 DEF UsageInv, TypeOK
    <2>3. QED BY <2>1, <2>2, HeldFinite DEF Keeps, Balances, UsageInv, TypeOK
  <1>4. /\ quantity'[c] = Plus(quantity[c], 1) /\ quantity[c] \in Int \cup {Null}
        /\ Held(c)' = Held(c) \ Row(c, o)
        /\ IsFiniteSet(Held(c)) /\ Cardinality(Held(c)) \in Nat
    <2>1. quantity'[c] = Plus(quantity[c], 1) /\ quantity[c] \in Int \cup {Null}
      BY <1>1 DEF UsageInv, TypeOK
    <2>2. Held(c)' = Held(c) \ Row(c, o)
      BY <1>1 DEF Held
    <2>3. QED BY <2>1, <2>2, HeldFinite
  <1>5. CASE Row(c, o) = {}
    <2>1. Held(c)' = Held(c)
      BY <1>4, <1>5
    <2>2. Cardinality(Held(c)') = Cardinality(Held(c))
      BY <2>1
    <2>3. Keeps(c)
      BY <1>4, <2>2 DEF Keeps, Plus
    <2>4. QED BY <1>2, <1>3, <1>5, <2>3
  <1>6. ASSUME NEW x \in Row(c, o)
        PROVE  \A d \in Coupon : Keeps(d) /\ Balances(d)
    <2>1. Row(c, o) = {x} /\ x \in Held(c)
      BY <1>6 DEF Row, Held, UsageInv, OneUsagePerOrder
    <2>2. Cardinality(Held(c)') = Cardinality(Held(c)) - 1
      <3>1. Held(c)' = Held(c) \ {x}
        BY <1>4, <2>1
      <3>2. Cardinality(Held(c) \ {x}) = Cardinality(Held(c)) - 1
        BY <1>4, <2>1, FS_RemoveElement
      <3>3. QED BY <3>1, <3>2
    <2>3. Keeps(c) /\ Balances(c)
      BY <1>4, <2>2 DEF Keeps, Balances, Plus
    <2>4. QED BY <1>3, <2>3
  <1>7. QED BY <1>2, <1>5, <1>6

LEMMA StoreBalances ==
  ASSUME UsageInv, IsFiniteSet(usages), NEW w \in Adder, StoreUsage(w)
  PROVE  IsFiniteSet(usages') /\ \A d \in Coupon : Balances(d)
  <1> DEFINE r == request[w]
             u == NewUsage(r)
  <1>1. /\ pc[w] = "store" /\ r.coupon \in Coupon
        /\ usages' = usages \cup {u}
        /\ quantity' = [quantity EXCEPT ![r.coupon] = Plus(@, -1)]
    BY DEF StoreUsage, UsageInv, TypeOK, Waiting, Request
  <1>2. u.coupon = r.coupon /\ u.order = r.order
    BY DEF NewUsage
  <1>3. u \notin usages
    BY <1>1, <1>2 DEF UsageInv, Cleared
  <1>4. IsFiniteSet(usages')
    BY <1>1, FS_AddElement
  <1>5. ASSUME NEW d \in Coupon, d # r.coupon PROVE Balances(d)
    <2> HIDE DEF u
    <2>1. Held(d)' = Held(d)
      BY <1>1, <1>2, <1>5 DEF Held
    <2>2. quantity'[d] = quantity[d]
      BY <1>1, <1>5 DEF UsageInv, TypeOK
    <2>3. QED BY <2>1, <2>2, HeldFinite DEF Balances, UsageInv, TypeOK
  <1>6. ASSUME NEW d \in Coupon, d = r.coupon PROVE Balances(d)
    <2> HIDE DEF u
    <2>1. quantity'[d] = Plus(quantity[d], -1) /\ quantity[d] \in Int \cup {Null}
      BY <1>1, <1>6 DEF UsageInv, TypeOK
    <2>2. Held(d)' = Held(d) \cup {u} /\ u \notin Held(d)
      BY <1>1, <1>2, <1>3, <1>6 DEF Held
    <2>3. Cardinality(Held(d)') = Cardinality(Held(d)) + 1
      BY <2>2, HeldFinite, FS_AddElement
    <2>4. QED BY <2>1, <2>3, HeldFinite DEF Balances, Plus
  <1>7. QED BY <1>4, <1>5, <1>6

LEMMA PaidBalances ==
  ASSUME UsageInv, IsFiniteSet(usages), NEW c \in Coupon, NEW o, SetOrderPaid(c, o)
  PROVE  IsFiniteSet(usages') /\ \A d \in Coupon : Balances(d)
  <1>1. /\ usages' = (usages \ Row(c, o)) \cup {MarkedPaid(x) : x \in Row(c, o)}
        /\ quantity' = quantity
    BY DEF SetOrderPaid
  <1>2. CASE Row(c, o) = {}
    <2>1. usages' = usages
      BY <1>1, <1>2
    <2>2. ASSUME NEW d \in Coupon PROVE Balances(d)
      <3>1. Held(d)' = Held(d)
        BY <2>1 DEF Held
      <3>2. QED BY <1>1, <3>1, HeldFinite DEF Balances, UsageInv, TypeOK
    <2>3. QED BY <2>1, <2>2
  <1>3. ASSUME NEW x \in usages, Row(c, o) = {x}, x.coupon = c
        PROVE  IsFiniteSet(usages') /\ \A d \in Coupon : Balances(d)
    <2>1. usages' = (usages \ {x}) \cup {MarkedPaid(x)}
      BY <1>1, <1>3
    <2>2. MarkedPaid(x).coupon = x.coupon /\ MarkedPaid(x).order = x.order
      BY MarkedPaidType DEF UsageInv, TypeOK
    <2>3. MarkedPaid(x) \notin usages \ {x}
      BY <2>2 DEF UsageInv, OneUsagePerOrder
    <2>4. IsFiniteSet(usages')
      BY <2>1, FS_RemoveElement, FS_AddElement
    <2>5. ASSUME NEW d \in Coupon PROVE Cardinality(Held(d)') = Cardinality(Held(d))
      <3>1. CASE d = c
        <4>1. Held(c)' = (Held(c) \ {x}) \cup {MarkedPaid(x)} /\ x \in Held(c)
          BY <1>3, <2>1, <2>2 DEF Held
        <4>2. MarkedPaid(x) \notin Held(c) \ {x}
          BY <2>3 DEF Held
        <4>3. /\ IsFiniteSet(Held(c) \ {x})
              /\ Cardinality(Held(c) \ {x}) = Cardinality(Held(c)) - 1
          BY <4>1, HeldFinite, FS_RemoveElement
        <4>4. Cardinality((Held(c) \ {x}) \cup {MarkedPaid(x)}) = Cardinality(Held(c) \ {x}) + 1
          BY <4>2, <4>3, FS_AddElement
        <4>5. QED BY <3>1, <4>1, <4>3, <4>4, HeldFinite
      <3>2. CASE d # c
        BY <1>3, <2>1, <2>2, <3>2 DEF Held
      <3>3. QED BY <3>1, <3>2
    <2>6. QED BY <1>1, <2>4, <2>5, HeldFinite DEF Balances, UsageInv, TypeOK
  <1>4. QED
    BY <1>2, <1>3 DEF Row, UsageInv, OneUsagePerOrder

LEMMA KeptNext ==
  ASSUME OneAdder
  PROVE  KeptInv /\ [Next]_vars => KeptInv'
  <1> SUFFICES ASSUME KeptInv, [Next]_vars PROVE KeptInv'
    OBVIOUS
  <1>0. UsageInv /\ UsageInv'
    BY UsageNext DEF KeptInv
  <1>1. ASSUME IsFiniteSet(usages'), \A d \in Coupon : Keeps(d)
        PROVE  KeptInv'
    <2>1. ASSUME NEW c \in Coupon, UploadQuantity[c] = {}, InitialQuantity[c] # Null
          PROVE  /\ quantity'[c] # Null
                 /\ quantity'[c] + Cardinality(Held(c)') >= InitialQuantity[c]
      <3>1. quantity[c] # Null /\ quantity[c] + Cardinality(Held(c)) >= InitialQuantity[c]
        BY <2>1 DEF KeptInv, NothingLost
      <3>2. quantity[c] \in Int /\ quantity'[c] \in Int /\ quantity'[c] # Null
        BY <1>0, <1>1, <3>1 DEF UsageInv, TypeOK, Keeps
      <3>3. Cardinality(Held(c)) \in Nat
        BY HeldFinite DEF KeptInv
      <3>4. Cardinality(Held(c)') \in Nat
        BY <1>1, FS_Subset, FS_CardinalityType DEF Held
      <3>5. QED BY <1>1, <2>1, <3>1, <3>2, <3>3, <3>4 DEF Keeps
    <2>2. QED BY <1>0, <1>1, <2>1 DEF KeptInv, NothingLost
  <1>2. CASE UNCHANGED <<quantity, usages>>
    <2>1. \A d \in Coupon : Held(d)' = Held(d)
      BY <1>2 DEF Held
    <2>2. QED BY <1>0, <1>2, <2>1 DEF KeptInv, NothingLost
  <1>3. ASSUME NEW c \in Coupon, NEW o, Revert(c, o) \/ SetOrderPaid(c, o)
        PROVE  KeptInv'
    BY <1>0, <1>1, <1>3, RevertBalances, PaidBalances, BalancesKeeps DEF KeptInv, UsageInv
  <1>4. ASSUME NEW w \in Adder, AddStep(w) PROVE KeptInv'
    <2>1. CASE RevertOldCoupon(w)
      <3>1. oldCoupon[w] \in Coupon
        BY <1>0, <2>1 DEF RevertOldCoupon, UsageInv, TypeOK
      <3>2. QED BY <1>3, <2>1, <3>1 DEF RevertOldCoupon
    <2>2. CASE StoreUsage(w)
      BY <1>0, <1>1, <2>2, StoreBalances, BalancesKeeps DEF KeptInv, UsageInv
    <2>3. CASE UNCHANGED database
      BY <1>2, <2>3 DEF database
    <2>4. QED
      BY <1>4, <2>1, <2>2, <2>3
      DEF AddStep, BeginAdd, ReadCoupon, RejectNotValid, ReadOldCoupon, AcceptCoupon,
          RejectRedeemed, RejectOrdersCount, ReturnDiscount, FailAdd
  <1>5. ASSUME NEW k \in Consumer, ConsumerStep(k) PROVE KeptInv'
    <2>1. CASE ProcessMessage(k)
      <3>1. task[k].coupon \in Coupon
        BY <1>0, <2>1 DEF ProcessMessage, UsageInv, TypeOK, Task
      <3>2. QED BY <1>3, <2>1, <3>1 DEF ProcessMessage
    <2>2. CASE UNCHANGED database
      BY <1>2, <2>2 DEF database
    <2>3. QED BY <1>5, <2>1, <2>2 DEF ConsumerStep, ReceiveMessage, FailMessage
  <1>6. ASSUME NEW c \in Coupon, NEW o \in Order, DeleteCoupon(c, o) PROVE KeptInv'
    BY <1>3, <1>6 DEF DeleteCoupon
  <1>7. ASSUME NEW c \in Coupon, NEW q \in UploadQuantity[c], BulkUpsert(c, q) PROVE KeptInv'
    <2>1. \A d \in Coupon : UploadQuantity[d] = {} => quantity'[d] = quantity[d]
      BY <1>0, <1>7 DEF BulkUpsert, UsageInv, TypeOK
    <2>2. usages' = usages /\ \A d \in Coupon : Held(d)' = Held(d)
      BY <1>7 DEF BulkUpsert, Held
    <2>3. QED BY <1>0, <2>1, <2>2 DEF KeptInv, NothingLost
  <1>8. CASE UNCHANGED vars
    BY <1>2, <1>8 DEF vars, database
  <1>9. QED BY <1>4, <1>5, <1>6, <1>7, <1>8 DEF Next

(* With one add_coupon request at a time a coupon that is not uploaded      *)
(* again loses no unit: each is left, or held by an order.                  *)
THEOREM NothingLostOneAdder ==
  ASSUME OneAdder
  PROVE  Spec => []NothingLost
  <1>1. Init => KeptInv
    <2> SUFFICES ASSUME Init PROVE KeptInv
      OBVIOUS
    <2>1. UsageInv
      BY TypeInit DEF Init, UsageInv, OneUsagePerOrder, Cleared
    <2>2. usages = {} /\ quantity = InitialQuantity
      BY DEF Init
    <2>3. \A c \in Coupon : Held(c) = {}
      BY <2>2 DEF Held
    <2>4. \A c \in Coupon : Cardinality(Held(c)) = 0
      BY <2>3, FS_EmptySet
    <2>5. NothingLost
      BY <2>2, <2>4 DEF NothingLost
    <2>6. QED BY <2>1, <2>2, <2>5, FS_EmptySet DEF KeptInv
  <1>2. KeptInv /\ [Next]_vars => KeptInv'
    BY KeptNext
  <1>3. KeptInv => NothingLost
    BY DEF KeptInv
  <1>4. QED BY <1>1, <1>2, <1>3, PTL DEF Spec

-----------------------------------------------------------------------------
(***************************************************************************)
(* With one add_coupon request at a time, CouponUsage implements the       *)
(* ledger of CouponLedger.                                                 *)
(***************************************************************************)

(* What an order holds is the row of its only usage.                        *)
LEMMA HoldingOne ==
  ASSUME UsageInv, NEW u \in usages
  PROVE  /\ Holding(u.order) = {u}
         /\ u.order \in Order /\ u.coupon \in Coupon
         /\ appliedCoupon[u.order] = u.coupon
         /\ paidOrder[u.order] = u.paid
         /\ u.paid \in BOOLEAN
  <1>1. Holding(u.order) = {u}
    BY DEF Holding, UsageInv, OneUsagePerOrder
  <1>2. u.order \in Order /\ u.coupon \in Coupon /\ u.paid \in BOOLEAN
    BY DEF UsageInv, TypeOK, Usage
  <1>3. (CHOOSE v \in Holding(u.order) : TRUE) = u
    BY <1>1
  <1>4. QED BY <1>1, <1>2, <1>3 DEF appliedCoupon, paidOrder

LEMMA HoldingNone ==
  ASSUME NEW o \in Order, \A u \in usages : u.order # o
  PROVE  appliedCoupon[o] = Null /\ paidOrder[o] = FALSE
  <1>1. Holding(o) = {}
    BY DEF Holding
  <1>2. QED BY <1>1 DEF appliedCoupon, paidOrder

(* An order whose rows a step does not touch holds what it held.            *)
LEMMA HoldingSame ==
  ASSUME NEW o \in Order, \A u : u.order = o => (u \in usages <=> u \in usages')
  PROVE  appliedCoupon'[o] = appliedCoupon[o] /\ paidOrder'[o] = paidOrder[o]
  <1>1. Holding(o)' = Holding(o)
    BY DEF Holding
  <1>2. QED BY <1>1 DEF appliedCoupon, paidOrder

LEMMA Domains ==
  /\ appliedCoupon = [o \in Order |-> appliedCoupon[o]]
  /\ paidOrder = [o \in Order |-> paidOrder[o]]
  /\ appliedCoupon' = [o \in Order |-> appliedCoupon'[o]]
  /\ paidOrder' = [o \in Order |-> paidOrder'[o]]
  BY DEF appliedCoupon, paidOrder

LEMMA SameRows ==
  ASSUME usages' = usages
  PROVE  UNCHANGED <<appliedCoupon, paidOrder>>
  BY Domains, HoldingSame

(* A revert releases the usage it deletes, or credits a unit when somebody  *)
(* else has deleted it before.                                              *)
LEMMA RevertImplements ==
  ASSUME UsageInv, NEW c \in Coupon, NEW o \in Order, Revert(c, o)
  PROVE  IF Row(c, o) = {} THEN Ledger!Credit(c) ELSE Ledger!Release(o, c)
  <1>1. quantity' = [quantity EXCEPT ![c] = Ledger!Add(@, 1)] /\ usages' = usages \ Row(c, o)
    BY DEF Revert, Plus, Ledger!Add
  <1>2. CASE Row(c, o) = {}
    BY <1>1, <1>2, SameRows DEF Ledger!Credit
  <1>3. ASSUME NEW x \in Row(c, o) PROVE Ledger!Release(o, c)
    <2>1. x \in usages /\ x.coupon = c /\ x.order = o
      BY DEF Row
    <2>2. Row(c, o) = {x}
      BY <2>1 DEF Row, UsageInv, OneUsagePerOrder
    <2>3. \A u \in usages' : u.order # o
      BY <1>1, <2>1, <2>2 DEF UsageInv, OneUsagePerOrder
    <2>4. appliedCoupon'[o] = Null /\ paidOrder'[o] = FALSE
      <3>1. Holding(o)' = {}
        BY <2>3 DEF Holding
      <3>2. QED BY <3>1 DEF appliedCoupon, paidOrder
    <2>5. \A p \in Order : p # o =>
            appliedCoupon'[p] = appliedCoupon[p] /\ paidOrder'[p] = paidOrder[p]
      BY <1>1, <2>1, <2>2, HoldingSame
    <2>6. appliedCoupon' = [appliedCoupon EXCEPT ![o] = Null]
      BY <2>4, <2>5, Domains
    <2>7. paidOrder' = [paidOrder EXCEPT ![o] = FALSE]
      BY <2>4, <2>5, Domains
    <2>8. QED BY <1>1, <2>1, <2>6, <2>7, HoldingOne DEF Ledger!Release
  <1>4. QED BY <1>2, <1>3

(* Storing a usage applies a coupon that is still available to an order     *)
(* that holds none.                                                         *)
LEMMA StoreImplements ==
  ASSUME UsageInv, StockInv, NEW w \in Adder, StoreUsage(w)
  PROVE  \E o \in Order, c \in Coupon : Ledger!Apply(o, c)
  <1>1. PICK c, o : c = request[w].coupon /\ o = request[w].order
    OBVIOUS
  <1>2. PICK x : x = NewUsage(request[w])
    OBVIOUS
  <1>3. pc[w] = "store" /\ c \in Coupon /\ o \in Order
    BY <1>1 DEF StoreUsage, UsageInv, TypeOK, Waiting, Request
  <1>4. x.coupon = c /\ x.order = o /\ x.paid = FALSE
    BY <1>1, <1>2 DEF NewUsage
  <1>5. quantity' = [quantity EXCEPT ![c] = Ledger!Add(@, -1)] /\ usages' = usages \cup {x}
    BY <1>1, <1>2 DEF StoreUsage, Plus, Ledger!Add
  <1>6. Ledger!Available(c)
    BY <1>1, <1>3 DEF StockInv, Reserved, InStock, TypeOK, Ledger!Available
  <1>7. \A u \in usages : u.order # o
    BY <1>1, <1>3 DEF UsageInv, Cleared
  <1>8. appliedCoupon[o] = Null /\ paidOrder[o] = FALSE
    BY <1>3, <1>7, HoldingNone
  <1>9. appliedCoupon'[o] = c /\ paidOrder'[o] = FALSE
    <2>1. Holding(o)' = {x}
      BY <1>4, <1>5, <1>7 DEF Holding
    <2>2. QED BY <1>3, <1>4, <2>1 DEF appliedCoupon, paidOrder
  <1>10. \A p \in Order : p # o =>
           appliedCoupon'[p] = appliedCoupon[p] /\ paidOrder'[p] = paidOrder[p]
    BY <1>4, <1>5, HoldingSame
  <1>11. appliedCoupon' = [appliedCoupon EXCEPT ![o] = c]
    BY <1>3, <1>9, <1>10, Domains
  <1>12. paidOrder' = paidOrder
    <2>1. \A p \in Order : paidOrder'[p] = paidOrder[p]
      BY <1>8, <1>9, <1>10
    <2>2. QED BY <2>1, Domains
  <1>13. Ledger!Apply(o, c)
    BY <1>5, <1>6, <1>8, <1>11, <1>12 DEF Ledger!Apply
  <1>14. QED BY <1>3, <1>13

(* A paid message pays for the usage it finds, or does nothing.             *)
LEMMA PaidImplements ==
  ASSUME UsageInv, NEW c \in Coupon, NEW o \in Order, SetOrderPaid(c, o)
  PROVE  Ledger!Pay(o) \/ UNCHANGED Ledger!vars
  <1>1. quantity' = quantity /\ usages' = (usages \ Row(c, o)) \cup {MarkedPaid(u) : u \in Row(c, o)}
    BY DEF SetOrderPaid
  <1>2. CASE Row(c, o) = {}
    <2>1. usages' = usages
      BY <1>1, <1>2
    <2>2. QED BY <1>1, <2>1, SameRows DEF Ledger!vars
  <1>3. ASSUME NEW x \in Row(c, o) PROVE Ledger!Pay(o)
    <2>1. x \in usages /\ x.coupon = c /\ x.order = o
      BY DEF Row
    <2>2. Row(c, o) = {x}
      BY <2>1 DEF Row, UsageInv, OneUsagePerOrder
    <2>3. PICK y : y = MarkedPaid(x)
      OBVIOUS
    <2>4. usages' = (usages \ {x}) \cup {y}
      BY <1>1, <2>2, <2>3
    <2>5. y.coupon = c /\ y.order = o /\ y.paid = TRUE
      BY <2>1, <2>3, MarkedPaidType DEF UsageInv, TypeOK
    <2>6. appliedCoupon[o] = c /\ c # Null
      BY <2>1, HoldingOne, NullAssumption
    <2>7. appliedCoupon'[o] = c /\ paidOrder'[o] = TRUE
      <3>1. Holding(o)' = {y}
        BY <2>1, <2>4, <2>5 DEF Holding, UsageInv, OneUsagePerOrder
      <3>2. QED BY <2>5, <3>1 DEF appliedCoupon, paidOrder
    <2>8. \A p \in Order : p # o =>
            appliedCoupon'[p] = appliedCoupon[p] /\ paidOrder'[p] = paidOrder[p]
      BY <2>1, <2>4, <2>5, HoldingSame
    <2>9. appliedCoupon' = appliedCoupon
      <3>1. \A p \in Order : appliedCoupon'[p] = appliedCoupon[p]
        BY <2>6, <2>7, <2>8
      <3>2. QED BY <3>1, Domains
    <2>10. paidOrder' = [paidOrder EXCEPT ![o] = TRUE]
      BY <2>7, <2>8, Domains
    <2>11. QED BY <1>1, <2>6, <2>9, <2>10 DEF Ledger!Pay
  <1>4. QED BY <1>2, <1>3

LEMMA StepImplements ==
  UsageInv /\ StockInv /\ [Next]_vars => [Ledger!Next]_Ledger!vars
  <1> SUFFICES ASSUME UsageInv, StockInv, [Next]_vars
               PROVE  Ledger!Next \/ UNCHANGED Ledger!vars
    OBVIOUS
  <1>0. TypeOK
    BY DEF UsageInv
  <1>1. ASSUME UNCHANGED <<quantity, usages>> PROVE UNCHANGED Ledger!vars
    BY <1>1, SameRows DEF Ledger!vars
  <1>2. ASSUME NEW w \in Adder, AddStep(w) PROVE Ledger!Next \/ UNCHANGED Ledger!vars
    <2>1. CASE RevertOldCoupon(w)
      <3>1. oldCoupon[w] \in Coupon /\ request[w].order \in Order
        BY <1>0, <2>1 DEF RevertOldCoupon, TypeOK, Waiting, Request
      <3>2. QED BY <2>1, <3>1, RevertImplements DEF RevertOldCoupon, Ledger!Next
    <2>2. CASE StoreUsage(w)
      BY <2>2, StoreImplements DEF Ledger!Next
    <2>3. CASE UNCHANGED database
      BY <1>1, <2>3 DEF database
    <2>4. QED
      BY <1>2, <2>1, <2>2, <2>3
      DEF AddStep, BeginAdd, ReadCoupon, RejectNotValid, ReadOldCoupon, AcceptCoupon,
          RejectRedeemed, RejectOrdersCount, ReturnDiscount, FailAdd
  <1>3. ASSUME NEW k \in Consumer, ConsumerStep(k) PROVE Ledger!Next \/ UNCHANGED Ledger!vars
    <2>1. CASE ProcessMessage(k)
      <3>1. task[k].coupon \in Coupon /\ task[k].order \in Order
        BY <1>0, <2>1 DEF ProcessMessage, TypeOK, Task
      <3>2. QED BY <2>1, <3>1, RevertImplements, PaidImplements DEF ProcessMessage, Ledger!Next
    <2>2. CASE UNCHANGED database
      BY <1>1, <2>2 DEF database
    <2>3. QED BY <1>3, <2>1, <2>2 DEF ConsumerStep, ReceiveMessage, FailMessage
  <1>4. ASSUME NEW c \in Coupon, NEW o \in Order, DeleteCoupon(c, o) PROVE Ledger!Next
    BY <1>4, RevertImplements DEF DeleteCoupon, Ledger!Next
  <1>5. ASSUME NEW c \in Coupon, NEW q \in UploadQuantity[c], BulkUpsert(c, q) PROVE Ledger!Next
    <2>1. Ledger!Upload(c, q)
      BY <1>5, SameRows DEF BulkUpsert, Ledger!Upload
    <2>2. QED BY <2>1 DEF Ledger!Next
  <1>6. CASE UNCHANGED vars
    BY <1>1, <1>6 DEF vars, database
  <1>7. QED BY <1>2, <1>3, <1>4, <1>5, <1>6 DEF Next

(* With one add_coupon request at a time, the service keeps the ledger: a   *)
(* coupon is applied only to an order without one and only while a unit is  *)
(* left, and every release gives back the unit of the usage it deletes.     *)
THEOREM OneAdderImplementsLedger ==
  ASSUME OneAdder
  PROVE  Spec => ImplementsLedger
  <1>1. Init => Ledger!Init
    <2> SUFFICES ASSUME Init PROVE Ledger!Init
      OBVIOUS
    <2>1. usages = {} /\ quantity = InitialQuantity
      BY DEF Init
    <2>2. \A o \in Order : appliedCoupon[o] = Null /\ paidOrder[o] = FALSE
      BY <2>1, HoldingNone
    <2>3. QED BY <2>1, <2>2, Domains DEF Ledger!Init
  <1>2. UsageInv /\ StockInv /\ [Next]_vars => [Ledger!Next]_Ledger!vars
    BY StepImplements
  <1>3. Spec => []UsageInv
    BY UsageInvariant
  <1>4. Spec => []StockInv
    BY StockInvariant
  <1>5. QED BY <1>1, <1>2, <1>3, <1>4, PTL DEF Spec, ImplementsLedger, Ledger!Spec

-----------------------------------------------------------------------------
(***************************************************************************)
(* How far overlapping add_coupon requests can overshoot the antifraud     *)
(* setting, for any number of requests, customers and devices.             *)
(***************************************************************************)

USE AdderAssumption

(* The requests for a device that have passed the check and have not        *)
(* recorded their customer yet, and those customers.                        *)
InFlight(d) ==
  {v \in Adder : pc[v] \in Waiting \ {"price"} /\ request[v].device = d}

Passed(d) == {Owner[request[v].order] : v \in InFlight(d)}

(* The customers a device serves or is about to, of those who are checked.  *)
Subject(d) == (registered[d] \cup Passed(d)) \ WhitelistedUser

Overshoot == MaxUsersPerDevice + Cardinality(Adder) - 1

AntifraudInv ==
  /\ TypeOK
  /\ \A d \in Device : IsFiniteSet(registered[d])
  /\ CheckEnabled => \A d \in Device \ WhitelistedDevice : Cardinality(Subject(d)) <= Overshoot

LEMMA AdderCard == Cardinality(Adder) \in Nat /\ Cardinality(Adder) >= 1
  BY FS_CardinalityType, FS_EmptySet

(* A set of requests has no more customers than requests.                   *)
LEMMA CustomersOf ==
  ASSUME NEW S \in SUBSET Adder
  PROVE  LET T == {Owner[request[v].order] : v \in S}
         IN  IsFiniteSet(T) /\ Cardinality(T) <= Cardinality(S)
  <1> DEFINE T == {Owner[request[v].order] : v \in S}
             f == [v \in S |-> Owner[request[v].order]]
  <1>1. IsFiniteSet(S)
    BY FS_Subset
  <1>2. f \in Surjection(S, T)
    BY DEF Surjection
  <1> HIDE DEF f, T
  <1>3. IsFiniteSet(T) /\ Cardinality(T) <= Cardinality(S)
    BY <1>1, <1>2, FS_Surjection
  <1>4. QED BY <1>3 DEF T

LEMMA SubjectFinite ==
  ASSUME NEW d, IsFiniteSet(registered[d])
  PROVE  IsFiniteSet(Subject(d)) /\ Cardinality(Subject(d)) \in Nat
  <1>1. IsFiniteSet(Passed(d))
    BY CustomersOf DEF Passed, InFlight
  <1>2. IsFiniteSet(Subject(d))
    BY <1>1, FS_Union, FS_Difference DEF Subject
  <1>3. QED BY <1>2, FS_CardinalityType

(* The check lets a customer in only while fewer than the allowed number of *)
(* others are recorded; the other requests in flight are what it misses.    *)
LEMMA CheckBounds ==
  ASSUME AntifraudInv, NEW w \in Adder, NEW c \in Coupon, NEW o \in Order, NEW d \in Device,
         pc[w] \in Answered, CheckEnabled, d \notin WhitelistedDevice, ~Banned(Owner[o], d),
         pc' = [pc EXCEPT ![w] = "read"], registered' = registered,
         request' = [request EXCEPT ![w] = [coupon |-> c, order |-> o, device |-> d]]
  PROVE  Cardinality(Subject(d)') <= Overshoot
  <1> DEFINE user == Owner[o]
             Others == {Owner[request[v].order] : v \in InFlight(d)}
  <1>0. w \notin InFlight(d) /\ InFlight(d) \subseteq Adder
    BY DEF InFlight, Answered, Waiting
  <1>1. InFlight(d)' = InFlight(d) \cup {w}
    BY DEF InFlight, AntifraudInv, TypeOK, Waiting
  <1>2. Passed(d)' = Others \cup {user}
    BY <1>0, <1>1 DEF Passed, AntifraudInv, TypeOK
  <1>3. CASE user \in WhitelistedUser
    <2>1. Subject(d)' = Subject(d)
      BY <1>2, <1>3 DEF Subject, Passed
    <2>2. QED BY <2>1 DEF AntifraudInv
  <1>4. CASE user \notin WhitelistedUser
    <2> DEFINE R == registered[d] \ {user}
               A == Others \cup {user}
    <2>1. IsFiniteSet(R) /\ Cardinality(R) \in Nat /\ Cardinality(R) < MaxUsersPerDevice
      <3>1. IsFiniteSet(R)
        BY FS_Difference DEF AntifraudInv
      <3>2. Cardinality(R) \in Nat
        BY <3>1, FS_CardinalityType
      <3>3. d # Null
        BY NullAssumption
      <3>4. ~(Cardinality(R) >= MaxUsersPerDevice)
        BY <1>4, <3>3 DEF Banned
      <3>5. Cardinality(R) < MaxUsersPerDevice
        BY <3>2, <3>4, BoundAssumption
      <3>6. QED BY <3>1, <3>2, <3>5
    <2>2. IsFiniteSet(A) /\ Cardinality(A) \in Nat /\ Cardinality(A) <= Cardinality(Adder)
      <3>1. /\ IsFiniteSet(Others) /\ Cardinality(Others) \in Nat
            /\ Cardinality(Others) <= Cardinality(InFlight(d))
        BY <1>0, CustomersOf, FS_CardinalityType
      <3>2. IsFiniteSet(InFlight(d)) /\ IsFiniteSet(InFlight(d) \cup {w})
        BY <1>0, FS_Subset, FS_AddElement
      <3>3. /\ Cardinality(InFlight(d)) \in Nat
            /\ Cardinality(InFlight(d) \cup {w}) = Cardinality(InFlight(d)) + 1
        BY <1>0, <3>2, FS_AddElement, FS_CardinalityType
      <3>4. Cardinality(InFlight(d) \cup {w}) <= Cardinality(Adder)
        BY <1>0, FS_Subset
      <3>5. /\ IsFiniteSet(A) /\ Cardinality(A) \in Nat
            /\ Cardinality(A) <= Cardinality(Others) + 1
        <4> HIDE DEF Others
        <4>1. /\ IsFiniteSet(A)
              /\ Cardinality(A) = IF user \in Others THEN Cardinality(Others) ELSE Cardinality(Others) + 1
          BY <3>1, FS_AddElement
        <4>2. QED BY <3>1, <4>1
      <3> HIDE DEF A, Others
      <3>6. QED BY <3>1, <3>3, <3>4, <3>5, AdderCard
    <2>3. Subject(d)' \subseteq R \cup A
      BY <1>2 DEF Subject
    <2> HIDE DEF R, A
    <2>4. IsFiniteSet(R \cup A) /\ Cardinality(R \cup A) <= Cardinality(R) + Cardinality(A)
      <3>1. IsFiniteSet(R \cap A) /\ Cardinality(R \cap A) \in Nat
        BY <2>1, FS_Intersection, FS_CardinalityType
      <3>2. /\ IsFiniteSet(R \cup A)
            /\ Cardinality(R \cup A) = Cardinality(R) + Cardinality(A) - Cardinality(R \cap A)
        BY <2>1, <2>2, FS_Union
      <3>3. QED BY <2>1, <2>2, <3>1, <3>2
    <2>5. /\ Cardinality(Subject(d)') <= Cardinality(R \cup A)
          /\ Cardinality(Subject(d)') \in Nat /\ Cardinality(R \cup A) \in Nat
      BY <2>3, <2>4, FS_Subset, FS_CardinalityType
    <2>6. MaxUsersPerDevice \in Nat
      BY BoundAssumption
    <2>7. QED BY <2>1, <2>2, <2>4, <2>5, <2>6, AdderCard DEF Overshoot
  <1>5. QED BY <1>3, <1>4

(* Every other round trip leaves the customers of a device where they are,  *)
(* moves one from the requests in flight to the recorded ones, or drops it. *)
LEMMA OtherSteps ==
  ASSUME AntifraudInv, NEW w \in Adder, AddStep(w), NEW d \in Device,
         ~\E c \in Coupon, o \in Order, e \in Device \cup {Null} : BeginAdd(w, c, o, e)
  PROVE  Subject(d)' \subseteq Subject(d)
  <1> USE DEF AntifraudInv, TypeOK, Goto, Answer, Stage, Waiting, Answered, database
  <1>1. CASE StoreUsage(w)
    <2>1. /\ pc[w] = "store" /\ pc' = [pc EXCEPT ![w] = "price"] /\ UNCHANGED request
          /\ registered'[d] = IF d = request[w].device
                                THEN registered[d] \cup {Owner[request[w].order]}
                                ELSE registered[d]
      BY <1>1 DEF StoreUsage
    <2>2. Passed(d)' \subseteq Passed(d)
      BY <2>1 DEF Passed, InFlight
    <2>3. d = request[w].device => Owner[request[w].order] \in Passed(d)
      BY <2>1 DEF Passed, InFlight
    <2>4. QED BY <2>1, <2>2, <2>3 DEF Subject
  <1>2. CASE registered' = registered /\ \E outcome \in Answered : Answer(w, outcome)
    <2>1. Passed(d)' \subseteq Passed(d)
      BY <1>2 DEF Passed, InFlight
    <2>2. QED BY <1>2, <2>1 DEF Subject
  <1>3. CASE /\ UNCHANGED <<registered, request>>
             /\ pc[w] \in Waiting \ {"price"}
             /\ \E stage \in Waiting : Goto(w, stage)
    <2>1. Passed(d)' \subseteq Passed(d)
      BY <1>3 DEF Passed, InFlight
    <2>2. QED BY <1>3, <2>1 DEF Subject
  <1>4. QED
    BY <1>1, <1>2, <1>3
    DEF AddStep, ReadCoupon, RejectNotValid, ReadOldCoupon, RevertOldCoupon, Revert,
        AcceptCoupon, RejectRedeemed, RejectOrdersCount, ReturnDiscount, FailAdd

(* A step after which a device serves no customer it did not serve before.  *)
LEMMA FewerSubjects ==
  ASSUME AntifraudInv, TypeOK', \A d \in Device : IsFiniteSet(registered'[d]),
         \A d \in Device : Subject(d)' \subseteq Subject(d)
  PROVE  AntifraudInv'
  <1>1. ASSUME CheckEnabled, NEW d \in Device \ WhitelistedDevice
        PROVE  Cardinality(Subject(d)') <= Overshoot
    <2>1. IsFiniteSet(Subject(d)) /\ Cardinality(Subject(d)) \in Nat
      BY SubjectFinite DEF AntifraudInv
    <2>2. /\ IsFiniteSet(Subject(d)')
          /\ Cardinality(Subject(d)') <= Cardinality(Subject(d))
      BY <2>1, FS_Subset
    <2>3. Cardinality(Subject(d)') \in Nat
      BY <2>2, FS_CardinalityType
    <2>4. Cardinality(Subject(d)) <= Overshoot
      BY <1>1 DEF AntifraudInv
    <2>5. Overshoot \in Int
      BY AdderCard, BoundAssumption DEF Overshoot
    <2>6. QED BY <2>1, <2>2, <2>3, <2>4, <2>5
  <1>2. QED BY <1>1 DEF AntifraudInv, Overshoot

LEMMA AntifraudNext == AntifraudInv /\ [Next]_vars => AntifraudInv'
  <1> SUFFICES ASSUME AntifraudInv, [Next]_vars PROVE AntifraudInv'
    OBVIOUS
  <1>0. TypeOK /\ TypeOK'
    BY TypeNext DEF AntifraudInv
  <1>1. ASSUME UNCHANGED <<registered, pc, request>> PROVE AntifraudInv'
    BY <1>0, <1>1, FewerSubjects DEF AntifraudInv, Subject, Passed, InFlight
  <1>2. ASSUME NEW w \in Adder, AddStep(w),
               NEW c \in Coupon, NEW o \in Order, NEW e \in Device \cup {Null}, BeginAdd(w, c, o, e)
        PROVE  AntifraudInv'
    <2>1. pc[w] \in Answered /\ registered' = registered
      BY <1>2 DEF BeginAdd, database
    <2>2. ASSUME NEW d \in Device,
                 \/ \E outcome \in Answered : Answer(w, outcome)
                 \/ /\ Goto(w, "read") /\ d # e
                    /\ request' = [request EXCEPT ![w] = [coupon |-> c, order |-> o, device |-> e]]
          PROVE  Subject(d)' \subseteq Subject(d)
      BY <1>0, <2>1, <2>2 DEF Subject, Passed, InFlight, Goto, Answer, TypeOK, Answered, Waiting
    <2>3. CASE Banned(Owner[o], e)
      BY <1>0, <1>2, <2>1, <2>2, <2>3, FewerSubjects DEF BeginAdd, AntifraudInv, Answered
    <2>4. CASE ~Banned(Owner[o], e)
      <3>1. /\ pc' = [pc EXCEPT ![w] = "read"]
            /\ request' = [request EXCEPT ![w] = [coupon |-> c, order |-> o, device |-> e]]
        BY <1>2, <2>4 DEF BeginAdd, Goto
      <3>2. ASSUME CheckEnabled, NEW d \in Device \ WhitelistedDevice
            PROVE  Cardinality(Subject(d)') <= Overshoot
        <4>1. CASE d = e
          BY <2>1, <2>4, <3>1, <3>2, <4>1, CheckBounds
        <4>2. CASE d # e
          <5>1. Subject(d)' \subseteq Subject(d)
            BY <2>2, <3>1, <4>2 DEF Goto
          <5>2. IsFiniteSet(Subject(d)) /\ Cardinality(Subject(d)) \in Nat
            BY SubjectFinite DEF AntifraudInv
          <5>3. Cardinality(Subject(d)') \in Nat /\ Cardinality(Subject(d)') <= Cardinality(Subject(d))
            BY <5>1, <5>2, FS_Subset, FS_CardinalityType
          <5>4. Cardinality(Subject(d)) <= Overshoot /\ Overshoot \in Int
            BY <3>2, AdderCard, BoundAssumption DEF AntifraudInv, Overshoot
          <5>5. QED BY <5>2, <5>3, <5>4
        <4>3. QED BY <4>1, <4>2
      <3>3. QED BY <1>0, <2>1, <3>2 DEF AntifraudInv, Overshoot
    <2>5. QED BY <2>3, <2>4
  <1>3. ASSUME NEW w \in Adder, AddStep(w),
               ~\E c \in Coupon, o \in Order, e \in Device \cup {Null} : BeginAdd(w, c, o, e)
        PROVE  AntifraudInv'
    <2>1. \A d \in Device : Subject(d)' \subseteq Subject(d)
      BY <1>3, OtherSteps
    <2>2. \A d \in Device : \/ registered'[d] = registered[d]
                            \/ \E u \in User : registered'[d] = registered[d] \cup {u}
      <3>1. CASE StoreUsage(w)
        BY <1>0, <3>1 DEF StoreUsage, TypeOK, Waiting, Request
      <3>2. CASE registered' = registered
        BY <3>2
      <3>3. QED
        BY <1>3, <3>1, <3>2
        DEF AddStep, ReadCoupon, RejectNotValid, ReadOldCoupon, RevertOldCoupon, Revert,
            AcceptCoupon, RejectRedeemed, RejectOrdersCount, ReturnDiscount, FailAdd, database
    <2>3. \A d \in Device : IsFiniteSet(registered'[d])
      <3>1. ASSUME NEW d \in Device, NEW u \in User, registered'[d] = registered[d] \cup {u}
            PROVE  IsFiniteSet(registered'[d])
        <4>1. IsFiniteSet(registered[d])
          BY DEF AntifraudInv
        <4>2. QED BY <3>1, <4>1, FS_AddElement
      <3>2. QED BY <2>2, <3>1 DEF AntifraudInv
    <2>4. QED BY <1>0, <2>1, <2>3, FewerSubjects
  <1>4. ASSUME NEW k \in Consumer, ConsumerStep(k) PROVE AntifraudInv'
    BY <1>1, <1>4 DEF ConsumerStep, ReceiveMessage, ProcessMessage, FailMessage, SetOrderPaid,
                      Revert, database, handlers
  <1>5. ASSUME NEW c \in Coupon, NEW o \in Order, DeleteCoupon(c, o) PROVE AntifraudInv'
    BY <1>1, <1>5 DEF DeleteCoupon, Revert, handlers
  <1>6. ASSUME NEW c \in Coupon, NEW q \in UploadQuantity[c], BulkUpsert(c, q) PROVE AntifraudInv'
    BY <1>1, <1>6 DEF BulkUpsert, handlers
  <1>7. CASE UNCHANGED vars
    BY <1>1, <1>7 DEF vars, database, handlers
  <1>8. QED BY <1>2, <1>3, <1>4, <1>5, <1>6, <1>7 DEF Next, AddStep

(* A device serves at most the allowed number of checked customers, plus    *)
(* one for each other add_coupon request that can be in flight with it; with *)
(* one request at a time the setting is exact.                              *)
THEOREM AntifraudBounded == Spec => []AntifraudBound
  <1>1. Init => AntifraudInv
    <2> SUFFICES ASSUME Init PROVE AntifraudInv
      OBVIOUS
    <2>1. \A d \in Device : registered[d] = {} /\ InFlight(d) = {}
      BY DEF Init, InFlight, Waiting
    <2>2. \A d \in Device : Subject(d) = {}
      BY <2>1 DEF Subject, Passed
    <2>3. 0 <= Overshoot
      BY AdderCard, BoundAssumption DEF Overshoot
    <2>4. \A d \in Device : Cardinality(Subject(d)) <= Overshoot
      BY <2>2, <2>3, FS_EmptySet
    <2>5. \A d \in Device : IsFiniteSet(registered[d])
      BY <2>1, FS_EmptySet
    <2>6. QED BY TypeInit, <2>4, <2>5 DEF AntifraudInv
  <1>2. AntifraudInv /\ [Next]_vars => AntifraudInv'
    BY AntifraudNext
  <1>3. AntifraudInv => AntifraudBound
    <2> SUFFICES ASSUME AntifraudInv, CheckEnabled, NEW d \in Device \ WhitelistedDevice
                 PROVE  Cardinality(registered[d] \ WhitelistedUser) <= Overshoot
      BY DEF AntifraudBound, Overshoot
    <2>1. IsFiniteSet(Subject(d)) /\ Cardinality(Subject(d)) \in Nat
      BY SubjectFinite DEF AntifraudInv
    <2>2. registered[d] \ WhitelistedUser \subseteq Subject(d)
      BY DEF Subject
    <2>3. /\ Cardinality(registered[d] \ WhitelistedUser) \in Nat
          /\ Cardinality(registered[d] \ WhitelistedUser) <= Cardinality(Subject(d))
      BY <2>1, <2>2, FS_Subset, FS_CardinalityType
    <2>4. Cardinality(Subject(d)) <= Overshoot /\ Overshoot \in Int
      BY AdderCard, BoundAssumption DEF AntifraudInv, Overshoot
    <2>5. QED BY <2>1, <2>3, <2>4
  <1>4. QED BY <1>1, <1>2, <1>3, PTL DEF Spec

-----------------------------------------------------------------------------
(***************************************************************************)
(* How far a customer can get beyond the limit of a coupon when usages are *)
(* marked paid between the check of a request and its store, for any       *)
(* number of requests, customers, orders and messages.                     *)
(***************************************************************************)

(* The requests for a customer that have passed the limit check and have    *)
(* not stored their usage yet.                                              *)
Storing(c, user) ==
  {v \in Adder : pc[v] = "store" /\ request[v].coupon = c /\ Owner[request[v].order] = user}

(* A row is older than whatever is marked next, so a mark takes a paid row  *)
(* out of PaidBefore and never puts one in.                                 *)
Stamped == \A u \in usages : u.created < now

(* Late usages and requests that may become one.                            *)
WithinAdders(c, user) ==
  Cardinality(Late(c, user)) + Cardinality(Storing(c, user)) <= Cardinality(Adder)

LateInv ==
  /\ TypeOK
  /\ IsFiniteSet(usages)
  /\ Stamped
  /\ \A c \in Coupon, user \in User : Limit[c] # Null => WithinAdders(c, user)

LEMMA LateFinite ==
  ASSUME IsFiniteSet(usages), NEW c, NEW user
  PROVE  /\ IsFiniteSet(Late(c, user)) /\ Cardinality(Late(c, user)) \in Nat
         /\ IsFiniteSet(Storing(c, user)) /\ Cardinality(Storing(c, user)) \in Nat
         /\ Cardinality(Storing(c, user)) <= Cardinality(Adder)
  <1>1. IsFiniteSet(Late(c, user)) /\ IsFiniteSet(Storing(c, user))
    BY FS_Subset DEF Late, Storing
  <1>2. Cardinality(Storing(c, user)) <= Cardinality(Adder)
    BY FS_Subset DEF Storing
  <1>3. QED BY <1>1, <1>2, FS_CardinalityType

LEMMA PaidFinite ==
  ASSUME IsFiniteSet(usages), NEW u
  PROVE  /\ IsFiniteSet(PaidBefore(u)) /\ Cardinality(PaidBefore(u)) \in Nat
         /\ IsFiniteSet(PaidUsages(u.coupon, Owner[u.order]))
         /\ Cardinality(PaidUsages(u.coupon, Owner[u.order])) \in Nat
         /\ Cardinality(PaidBefore(u)) <= Cardinality(PaidUsages(u.coupon, Owner[u.order]))
  <1>1. IsFiniteSet(PaidUsages(u.coupon, Owner[u.order]))
    BY FS_Subset DEF PaidUsages
  <1>2. /\ IsFiniteSet(PaidBefore(u))
        /\ Cardinality(PaidBefore(u)) <= Cardinality(PaidUsages(u.coupon, Owner[u.order]))
    BY <1>1, FS_Subset DEF PaidBefore
  <1>3. QED BY <1>1, <1>2, FS_CardinalityType

(* A step after which there are no more late usages and no more requests    *)
(* about to store.                                                          *)
LEMMA FewerLate ==
  ASSUME LateInv, IsFiniteSet(usages)', NEW c \in Coupon, NEW user \in User, Limit[c] # Null,
         Cardinality(Late(c, user)') <= Cardinality(Late(c, user)),
         Storing(c, user)' \subseteq Storing(c, user)
  PROVE  WithinAdders(c, user)'
  <1>1. WithinAdders(c, user) /\ IsFiniteSet(usages)
    BY DEF LateInv
  <1>2. /\ Cardinality(Late(c, user)) \in Nat
        /\ IsFiniteSet(Storing(c, user)) /\ Cardinality(Storing(c, user)) \in Nat
    BY <1>1, LateFinite
  <1>3. IsFiniteSet(Late(c, user)') /\ Cardinality(Late(c, user)') \in Nat
    BY FS_Subset, FS_CardinalityType DEF Late
  <1>4. /\ Cardinality(Storing(c, user)') <= Cardinality(Storing(c, user))
        /\ Cardinality(Storing(c, user)') \in Nat
    BY <1>2, FS_Subset, FS_CardinalityType
  <1>5. QED BY <1>1, <1>2, <1>3, <1>4, AdderCard DEF WithinAdders

(* Without new or newly marked rows no usage becomes late.                  *)
LEMMA RowsGone ==
  ASSUME LateInv, usages' \subseteq usages, now' = now,
         \A c \in Coupon, user \in User : Storing(c, user)' \subseteq Storing(c, user)
  PROVE  /\ IsFiniteSet(usages') /\ Stamped'
         /\ \A c \in Coupon, user \in User : Limit[c] # Null => WithinAdders(c, user)'
  <1>1. IsFiniteSet(usages) /\ IsFiniteSet(usages') /\ Stamped'
    BY FS_Subset DEF LateInv, Stamped
  <1>2. ASSUME NEW c \in Coupon, NEW user \in User, Limit[c] # Null
        PROVE  WithinAdders(c, user)'
    <2>1. ASSUME NEW u \in Late(c, user)' PROVE u \in Late(c, user)
      <3>1. /\ u \in usages /\ u.coupon = c /\ Owner[u.order] = user
            /\ Cardinality(PaidBefore(u)') >= Limit[c]
        BY <2>1 DEF Late
      <3>2. PaidBefore(u)' \subseteq PaidBefore(u)
        BY DEF PaidBefore, PaidUsages
      <3>3. /\ Cardinality(PaidBefore(u)') <= Cardinality(PaidBefore(u))
            /\ Cardinality(PaidBefore(u)') \in Nat /\ Cardinality(PaidBefore(u)) \in Nat
        BY <1>1, <3>2, PaidFinite, FS_Subset, FS_CardinalityType
      <3>4. Cardinality(PaidBefore(u)) >= Limit[c]
        BY <1>2, <3>1, <3>3, QuantityAssumption
      <3>5. QED BY <3>1, <3>4 DEF Late
    <2>2. Cardinality(Late(c, user)') <= Cardinality(Late(c, user))
      BY <1>1, <2>1, LateFinite, FS_Subset
    <2>3. QED BY <1>1, <1>2, <2>2, FewerLate
  <1>3. QED BY <1>1, <1>2

(* The check lets a request through only while no usage is late; whatever   *)
(* is in flight then, there are only so many requests.                      *)
LEMMA AcceptWithin ==
  ASSUME LateInv, NEW w \in Adder, AcceptCoupon(w)
  PROVE  /\ IsFiniteSet(usages') /\ Stamped'
         /\ \A c \in Coupon, user \in User : Limit[c] # Null => WithinAdders(c, user)'
  <1>0. TypeOK /\ IsFiniteSet(usages)
    BY DEF LateInv
  <1>1. /\ usages' = usages /\ now' = now /\ request' = request
        /\ pc[w] = "check" /\ pc' = [pc EXCEPT ![w] = "store"]
    BY DEF AcceptCoupon, Goto, database
  <1>2. ASSUME NEW c \in Coupon, NEW user \in User, Limit[c] # Null
        PROVE  WithinAdders(c, user)'
    <2>1. Late(c, user)' = Late(c, user)
      BY <1>1 DEF Late, PaidBefore, PaidUsages
    <2>2. CASE request[w].coupon = c /\ Owner[request[w].order] = user
      <3>1. Late(c, user) = {}
        <4> SUFFICES ASSUME NEW u \in Late(c, user) PROVE FALSE
          OBVIOUS
        <4>1. u.coupon = c /\ Owner[u.order] = user /\ Cardinality(PaidBefore(u)) >= Limit[c]
          BY DEF Late
        <4>2. /\ Cardinality(PaidBefore(u)) \in Nat /\ Cardinality(PaidUsages(c, user)) \in Nat
              /\ Cardinality(PaidBefore(u)) <= Cardinality(PaidUsages(c, user))
          BY <1>0, <4>1, PaidFinite
        <4>3. ~(Cardinality(PaidUsages(c, user)) >= Limit[c])
          BY <1>2, <2>2 DEF AcceptCoupon, LimitReached
        <4>4. QED BY <1>2, <4>1, <4>2, <4>3, QuantityAssumption
      <3>2. Cardinality(Late(c, user)') = 0
        BY <2>1, <3>1, FS_EmptySet
      <3>3. /\ Cardinality(Storing(c, user)') <= Cardinality(Adder)
            /\ Cardinality(Storing(c, user)') \in Nat
        BY FS_Subset, FS_CardinalityType DEF Storing
      <3>4. QED BY <3>2, <3>3 DEF WithinAdders
    <2>3. CASE ~(request[w].coupon = c /\ Owner[request[w].order] = user)
      <3>1. Storing(c, user)' \subseteq Storing(c, user)
        BY <1>0, <1>1, <2>3 DEF Storing, TypeOK
      <3>2. Cardinality(Late(c, user)') <= Cardinality(Late(c, user))
        BY <1>0, <2>1, LateFinite
      <3>3. QED BY <1>0, <1>1, <1>2, <3>1, <3>2, FewerLate
    <2>4. QED BY <2>2, <2>3
  <1>3. QED BY <1>0, <1>1, <1>2 DEF LateInv, Stamped

(* A store turns a request in flight into a usage that may be late.         *)
LEMMA StoreWithin ==
  ASSUME LateInv, NEW w \in Adder, StoreUsage(w)
  PROVE  /\ IsFiniteSet(usages') /\ Stamped'
         /\ \A c \in Coupon, user \in User : Limit[c] # Null => WithinAdders(c, user)'
  <1> DEFINE n == NewUsage(request[w])
  <1>0. TypeOK /\ IsFiniteSet(usages)
    BY DEF LateInv
  <1>1. /\ usages' = usages \cup {n} /\ now' = now + 1 /\ request' = request
        /\ pc[w] = "store" /\ pc' = [pc EXCEPT ![w] = "price"]
    BY DEF StoreUsage, Goto
  <1>2. /\ n.coupon = request[w].coupon /\ n.order = request[w].order
        /\ n.paid = FALSE /\ n.created = now
    BY DEF NewUsage
  <1> HIDE DEF n
  <1>3. IsFiniteSet(usages')
    BY <1>0, <1>1, FS_AddElement
  <1>4. Stamped'
    BY <1>0, <1>1, <1>2 DEF LateInv, Stamped, TypeOK, Usage
  <1>5. ASSUME NEW u PROVE PaidBefore(u)' = PaidBefore(u)
    BY <1>1, <1>2 DEF PaidBefore, PaidUsages
  <1>6. ASSUME NEW c \in Coupon, NEW user \in User, Limit[c] # Null
        PROVE  WithinAdders(c, user)'
    <2>1. /\ IsFiniteSet(Late(c, user)) /\ Cardinality(Late(c, user)) \in Nat
          /\ IsFiniteSet(Storing(c, user)) /\ Cardinality(Storing(c, user)) \in Nat
      BY <1>0, LateFinite
    <2>2. Late(c, user)' \subseteq Late(c, user) \cup {n}
      BY <1>1, <1>5 DEF Late
    <2>3. CASE request[w].coupon = c /\ Owner[request[w].order] = user
      <3>1. w \in Storing(c, user) /\ Storing(c, user)' = Storing(c, user) \ {w}
        BY <1>0, <1>1, <2>3 DEF Storing, TypeOK
      <3>2. Cardinality(Storing(c, user)') = Cardinality(Storing(c, user)) - 1
        BY <2>1, <3>1, FS_RemoveElement
      <3>3. /\ IsFiniteSet(Late(c, user) \cup {n})
            /\ Cardinality(Late(c, user) \cup {n}) \in Nat
            /\ Cardinality(Late(c, user) \cup {n}) <= Cardinality(Late(c, user)) + 1
        <4>1. /\ IsFiniteSet(Late(c, user) \cup {n})
              /\ Cardinality(Late(c, user) \cup {n})
                   = IF n \in Late(c, user) THEN Cardinality(Late(c, user))
                                            ELSE Cardinality(Late(c, user)) + 1
          BY <2>1, FS_AddElement
        <4>2. QED BY <2>1, <4>1
      <3>4. /\ Cardinality(Late(c, user)') <= Cardinality(Late(c, user) \cup {n})
            /\ Cardinality(Late(c, user)') \in Nat
        BY <2>2, <3>3, FS_Subset, FS_CardinalityType
      <3>5. WithinAdders(c, user)
        BY <1>6 DEF LateInv
      <3>6. QED BY <2>1, <3>2, <3>3, <3>4, <3>5, AdderCard DEF WithinAdders
    <2>4. CASE ~(request[w].coupon = c /\ Owner[request[w].order] = user)
      <3>1. Storing(c, user)' \subseteq Storing(c, user)
        BY <1>0, <1>1 DEF Storing, TypeOK
      <3>2. Late(c, user)' \subseteq Late(c, user)
        BY <1>2, <2>2, <2>4 DEF Late
      <3>3. Cardinality(Late(c, user)') <= Cardinality(Late(c, user))
        BY <2>1, <3>2, FS_Subset
      <3>4. QED BY <1>3, <1>6, <3>1, <3>3, FewerLate
    <2>5. QED BY <2>3, <2>4
  <1>7. QED BY <1>3, <1>4, <1>6

(* A mark stamps the rows it marks later than every row was created: they   *)
(* no longer count as paid before any, and each late usage is still one row.*)
LEMMA MarkWithin ==
  ASSUME LateInv, TypeOK', NEW c0, NEW o0, SetOrderPaid(c0, o0), UNCHANGED <<pc, request>>
  PROVE  /\ IsFiniteSet(usages') /\ Stamped'
         /\ \A c \in Coupon, user \in User : Limit[c] # Null => WithinAdders(c, user)'
  <1>mark. PICK R, mark : /\ R = Row(c0, o0)
                       /\ mark = [u \in usages |-> IF u \in R THEN MarkedPaid(u) ELSE u]
    OBVIOUS
  <1> DEFINE Image(S) == {mark[u] : u \in S}
  <1>0. TypeOK /\ IsFiniteSet(usages) /\ Stamped /\ R \subseteq usages
    BY <1>mark DEF LateInv, Row
  <1>1. usages' = (usages \ R) \cup {MarkedPaid(u) : u \in R} /\ now' = now + 1
    BY <1>mark DEF SetOrderPaid
  <1>2. \A u \in usages : /\ mark[u].coupon = u.coupon /\ mark[u].order = u.order
                          /\ mark[u].created = u.created
                          /\ mark[u].updated = IF u \in R THEN now ELSE u.updated
                          /\ u \notin R => mark[u] = u
    <2>1. \A u \in Usage : /\ MarkedPaid(u).coupon = u.coupon /\ MarkedPaid(u).order = u.order
                           /\ MarkedPaid(u).created = u.created /\ MarkedPaid(u).updated = now
      BY DEF MarkedPaid, Usage
    <2>2. \A u \in usages : u \in Usage /\ mark[u] = IF u \in R THEN MarkedPaid(u) ELSE u
      BY <1>0, <1>mark DEF TypeOK
    <2>3. QED BY <2>1, <2>2
  <1>3. usages' = Image(usages)
    BY <1>0, <1>1, <1>mark
  <1>4. ASSUME NEW S \in SUBSET usages
        PROVE  IsFiniteSet(Image(S)) /\ Cardinality(Image(S)) <= Cardinality(S)
    <2> DEFINE f == [u \in S |-> mark[u]]
               T == Image(S)
    <2>1. IsFiniteSet(S)
      BY <1>0, FS_Subset
    <2>2. f \in Surjection(S, T)
      BY DEF Surjection
    <2> HIDE DEF f, T
    <2>3. IsFiniteSet(T) /\ Cardinality(T) <= Cardinality(S)
      BY <2>1, <2>2, FS_Surjection
    <2>4. QED BY <2>3 DEF T
  <1>5. IsFiniteSet(usages')
    BY <1>3, <1>4
  <1>6. Stamped'
    BY <1>0, <1>1, <1>2, <1>3 DEF Stamped, TypeOK, Usage
  <1>7. ASSUME NEW u \in usages PROVE PaidBefore(mark[u])' \subseteq PaidBefore(u)
    <2> SUFFICES ASSUME NEW v \in PaidBefore(mark[u])' PROVE v \in PaidBefore(u)
      OBVIOUS
    <2>1. /\ v \in usages' /\ v.coupon = u.coupon /\ Owner[v.order] = Owner[u.order]
          /\ v.paid /\ v.updated < u.created
      BY <1>2 DEF PaidBefore, PaidUsages
    <2>2. PICK x \in usages : v = mark[x]
      BY <1>3, <2>1
    <2>3. u.created < now /\ u.created \in Nat /\ now \in Nat
      BY <1>0 DEF Stamped, TypeOK, Usage
    <2>4. x \notin R
      BY <1>2, <2>1, <2>2, <2>3
    <2>5. v = x
      BY <1>2, <2>2, <2>4
    <2>6. QED BY <2>1, <2>5 DEF PaidBefore, PaidUsages
  <1>8. ASSUME NEW c \in Coupon, NEW user \in User, Limit[c] # Null
        PROVE  WithinAdders(c, user)'
    <2>1. Late(c, user) \subseteq usages /\ Cardinality(Late(c, user)) \in Nat
      <3>1. Late(c, user) \subseteq usages
        BY DEF Late
      <3>2. QED BY <1>0, <3>1, LateFinite
    <2>2. Late(c, user)' \subseteq Image(Late(c, user))
      <3> SUFFICES ASSUME NEW v \in Late(c, user)'
                   PROVE  \E u \in Late(c, user) : v = mark[u]
        OBVIOUS
      <3>1. PICK u \in usages : v = mark[u]
        BY <1>3 DEF Late
      <3>2. u.coupon = c /\ Owner[u.order] = user /\ Cardinality(PaidBefore(mark[u])') >= Limit[c]
        BY <1>2, <3>1 DEF Late
      <3>3. /\ Cardinality(PaidBefore(mark[u])') <= Cardinality(PaidBefore(u))
            /\ Cardinality(PaidBefore(mark[u])') \in Nat /\ Cardinality(PaidBefore(u)) \in Nat
        <4> DEFINE P == PaidBefore(mark[u])'
        <4>1. P \subseteq PaidBefore(u)
          BY <1>7
        <4>2. IsFiniteSet(PaidBefore(u)) /\ Cardinality(PaidBefore(u)) \in Nat
          BY <1>0, PaidFinite
        <4> HIDE DEF P
        <4>3. Cardinality(P) <= Cardinality(PaidBefore(u)) /\ Cardinality(P) \in Nat
          BY <4>1, <4>2, FS_Subset, FS_CardinalityType
        <4>4. QED BY <4>2, <4>3 DEF P
      <3>4. Cardinality(PaidBefore(u)) >= Limit[c]
        BY <1>8, <3>2, <3>3, QuantityAssumption
      <3>5. QED BY <3>1, <3>2, <3>4 DEF Late
    <2>3. Cardinality(Late(c, user)') <= Cardinality(Late(c, user))
      <3> DEFINE S == Image(Late(c, user))
                 T == Late(c, user)'
      <3>1. IsFiniteSet(S) /\ Cardinality(S) <= Cardinality(Late(c, user)) /\ T \subseteq S
        BY <1>4, <2>1, <2>2
      <3> HIDE DEF S, T
      <3>2. /\ Cardinality(T) <= Cardinality(S)
            /\ Cardinality(T) \in Nat /\ Cardinality(S) \in Nat
        BY <3>1, FS_Subset, FS_CardinalityType
      <3>3. Cardinality(T) <= Cardinality(Late(c, user))
        BY <2>1, <3>1, <3>2
      <3>4. QED BY <3>3 DEF T
    <2>4. Storing(c, user)' \subseteq Storing(c, user)
      BY DEF Storing
    <2>5. QED BY <1>5, <1>8, <2>3, <2>4, FewerLate
  <1>9. QED BY <1>5, <1>6, <1>8

LEMMA LateNext == LateInv /\ [Next]_vars => LateInv'
  <1> SUFFICES ASSUME LateInv, [Next]_vars PROVE LateInv'
    OBVIOUS
  <1>0. TypeOK /\ TypeOK'
    BY TypeNext DEF LateInv
  <1>1. ASSUME usages' \subseteq usages, now' = now,
               \A v \in Adder : pc'[v] = "store" => pc[v] = "store" /\ request'[v] = request[v]
        PROVE  LateInv'
    <2>1. \A c \in Coupon, user \in User : Storing(c, user)' \subseteq Storing(c, user)
      BY <1>1 DEF Storing
    <2>2. QED BY <1>0, <1>1, <2>1, RowsGone DEF LateInv
  <1>2. ASSUME NEW w \in Adder, AddStep(w) PROVE LateInv'
    <2>1. CASE AcceptCoupon(w)
      BY <1>0, <2>1, AcceptWithin DEF LateInv
    <2>2. CASE StoreUsage(w)
      BY <1>0, <2>2, StoreWithin DEF LateInv
    <2>3. CASE RevertOldCoupon(w)
      BY <1>0, <1>1, <2>3 DEF RevertOldCoupon, Revert, Goto, TypeOK
    <2>4. ASSUME UNCHANGED <<usages, now>>, UNCHANGED request,
                 \E stage \in Stage \ {"store"} : Goto(w, stage)
          PROVE  LateInv'
      BY <1>0, <1>1, <2>4 DEF Goto, TypeOK
    <2>5. ASSUME UNCHANGED <<usages, now>>, \E outcome \in Answered : Answer(w, outcome)
          PROVE  LateInv'
      BY <1>0, <1>1, <2>5 DEF Answer, Goto, TypeOK, Answered
    <2>6. ASSUME NEW c \in Coupon, NEW o \in Order, NEW d \in Device \cup {Null}, BeginAdd(w, c, o, d)
          PROVE  LateInv'
      <3>1. /\ UNCHANGED <<usages, now>>
            /\ pc'[w] # "store"
            /\ \A v \in Adder : v # w => pc'[v] = pc[v] /\ request'[v] = request[v]
        BY <1>0, <2>6 DEF BeginAdd, Answer, Goto, TypeOK, database
      <3>2. QED BY <1>1, <3>1
    <2>7. QED
      BY <1>2, <2>1, <2>2, <2>3, <2>4, <2>5, <2>6
      DEF AddStep, ReadCoupon, RejectNotValid, ReadOldCoupon, RejectRedeemed,
          RejectOrdersCount, ReturnDiscount, FailAdd, database, Stage, Waiting, Answered
  <1>3. ASSUME NEW k \in Consumer, ConsumerStep(k) PROVE LateInv'
    <2>1. UNCHANGED <<pc, request>>
      BY <1>3 DEF ConsumerStep, ReceiveMessage, ProcessMessage, FailMessage, handlers
    <2>2. CASE \E c, o : SetOrderPaid(c, o)
      BY <1>0, <2>1, <2>2, MarkWithin DEF LateInv
    <2>3. CASE \E c, o : Revert(c, o)
      BY <1>1, <2>1, <2>3 DEF Revert
    <2>4. CASE UNCHANGED <<usages, now>>
      BY <1>1, <2>1, <2>4
    <2>5. QED
      BY <1>3, <2>2, <2>3, <2>4
      DEF ConsumerStep, ReceiveMessage, ProcessMessage, FailMessage, database
  <1>4. ASSUME NEW c \in Coupon, NEW o \in Order, DeleteCoupon(c, o) PROVE LateInv'
    BY <1>1, <1>4 DEF DeleteCoupon, Revert, handlers
  <1>5. ASSUME NEW c \in Coupon, NEW q \in UploadQuantity[c], BulkUpsert(c, q) PROVE LateInv'
    BY <1>1, <1>5 DEF BulkUpsert, handlers
  <1>6. CASE UNCHANGED vars
    BY <1>1, <1>6 DEF vars, database, handlers
  <1>7. QED BY <1>2, <1>3, <1>4, <1>5, <1>6 DEF Next

(* A customer gets at most as many usages beyond a coupon's limit as there  *)
(* can be add_coupon requests between their check and their store, however  *)
(* many orders are paid meanwhile and however many requests follow.         *)
THEOREM LimitOvershotByRequests == Spec => []LimitOvershoot
  <1>1. Init => LateInv
    <2> SUFFICES ASSUME Init PROVE LateInv
      OBVIOUS
    <2>1. usages = {} /\ \A v \in Adder : pc[v] # "store"
      BY DEF Init
    <2>2. \A c \in Coupon, user \in User : Late(c, user) = {} /\ Storing(c, user) = {}
      BY <2>1 DEF Late, Storing
    <2>3. ASSUME NEW c \in Coupon, NEW user \in User PROVE WithinAdders(c, user)
      <3>1. Cardinality(Late(c, user)) = 0 /\ Cardinality(Storing(c, user)) = 0
        BY <2>2, FS_EmptySet
      <3>2. QED BY <3>1, AdderCard DEF WithinAdders
    <2>4. IsFiniteSet(usages) /\ Stamped
      BY <2>1, FS_EmptySet DEF Stamped
    <2>5. QED BY TypeInit, <2>3, <2>4 DEF LateInv
  <1>2. LateInv /\ [Next]_vars => LateInv'
    BY LateNext
  <1>3. LateInv => LimitOvershoot
    <2> SUFFICES ASSUME LateInv, NEW c \in Coupon, NEW user \in User, Limit[c] # Null
                 PROVE  Cardinality(Late(c, user)) <= Cardinality(Adder)
      BY DEF LimitOvershoot
    <2>1. /\ Cardinality(Late(c, user)) \in Nat /\ Cardinality(Storing(c, user)) \in Nat
      BY LateFinite DEF LateInv
    <2>2. QED BY <2>1, AdderCard DEF LateInv, WithinAdders
  <1>4. QED BY <1>1, <1>2, <1>3, PTL DEF Spec

-----------------------------------------------------------------------------
(***************************************************************************)
(* The service when no two of its handlers overlap, for any number of      *)
(* handlers, orders, coupons and calls.                                    *)
(***************************************************************************)

HIDE AdderAssumption
USE HandlerAssumption

SequentialNext == Next /\ Alone' /\ Calm

-----------------------------------------------------------------------------
(* Who is alone *)

(* While a request takes a step nobody else is at work: it was at work      *)
(* itself, or has just arrived.                                             *)
LEMMA RequestAlone ==
  ASSUME TypeOK, Alone, Calm, NEW w \in Adder, AddStep(w)
  PROVE  /\ \A v \in Adder : v # w => Idle(v) /\ Idle(v)'
         /\ \A k \in Consumer : task[k] = Null /\ task'[k] = Null
  <1>1. UNCHANGED task /\ \A v \in Adder : v # w => pc'[v] = pc[v]
    BY DEF AddStep, BeginAdd, ReadCoupon, RejectNotValid, ReadOldCoupon, RevertOldCoupon,
           AcceptCoupon, RejectRedeemed, RejectOrdersCount, StoreUsage, ReturnDiscount, FailAdd,
           Goto, Answer, TypeOK
  <1>2. CASE pc[w] \in Answered
    <2>1. Call
      BY <1>2 DEF AddStep, BeginAdd, ReadCoupon, RejectNotValid, ReadOldCoupon, RevertOldCoupon,
                  AcceptCoupon, RejectRedeemed, RejectOrdersCount, StoreUsage, ReturnDiscount,
                  FailAdd, Answered, Waiting
    <2>2. Busy = {}
      BY <2>1 DEF Call, Calm, TypeOK
    <2>3. QED BY <1>1, <2>2 DEF Busy, Idle
  <1>3. CASE pc[w] \notin Answered
    <2>1. w \in Busy
      BY <1>3 DEF Busy, Idle
    <2>2. \A x \in Busy : x = w
      BY <2>1 DEF Alone
    <2>3. QED BY <1>1, <2>2 DEF Busy, Idle
  <1>4. QED BY <1>2, <1>3

(* While a consumer takes a step no request is at work, nor another         *)
(* consumer.                                                                *)
LEMMA ConsumerAlone ==
  ASSUME TypeOK, Alone, Calm, NEW k \in Consumer, ConsumerStep(k)
  PROVE  /\ \A w \in Adder : Idle(w) /\ Idle(w)'
         /\ \A j \in Consumer : j # k => task[j] = Null /\ task'[j] = Null
  <1>1. /\ pc' = pc
        /\ \A j \in Consumer : j # k => task'[j] = task[j]
    BY DEF ConsumerStep, ReceiveMessage, ProcessMessage, FailMessage, handlers, TypeOK
  <1>2. CASE task[k] = Null
    <2>1. Call
      BY <1>2 DEF ConsumerStep, ReceiveMessage, ProcessMessage, FailMessage
    <2>2. Busy = {}
      BY <2>1 DEF Call, Calm, TypeOK
    <2>3. QED BY <1>1, <2>2 DEF Busy, Idle
  <1>3. CASE task[k] # Null
    <2>1. k \in Busy
      BY <1>3 DEF Busy
    <2>2. \A x \in Busy : x = k
      BY <2>1 DEF Alone
    <2>3. QED BY <1>1, <2>2 DEF Busy, Idle
  <1>4. QED BY <1>2, <1>3

(* A delete or an upload happens while nobody is at work.                   *)
LEMMA OtherAlone ==
  ASSUME TypeOK, Calm, NEW c \in Coupon,
         \/ \E o \in Order : DeleteCoupon(c, o)
         \/ \E q \in UploadQuantity[c] : BulkUpsert(c, q)
  PROVE  /\ \A w \in Adder : Idle(w) /\ Idle(w)'
         /\ \A k \in Consumer : task[k] = Null /\ task'[k] = Null
  <1>1. calls' = calls + 1 /\ UNCHANGED <<pc, task>>
    BY DEF DeleteCoupon, BulkUpsert, Call, handlers
  <1>2. Busy = {}
    BY <1>1 DEF Calm, TypeOK
  <1>3. QED BY <1>1, <1>2 DEF Busy, Idle

-----------------------------------------------------------------------------
(* The invariants of one add handler hold for many that do not overlap *)

SingleInv == UsageInv /\ StockInv /\ Alone

(* An idle handler has nothing reserved and nothing cleared.                *)
LEMMA IdleHolds ==
  ASSUME NEW w \in Adder
  PROVE  /\ Idle(w) => Reserved(w) /\ Cleared(w)
         /\ Idle(w)' => Reserved(w)' /\ Cleared(w)'
  BY DEF Idle, Answered, Reserved, Cleared

LEMMA SingleNext == SingleInv /\ [SequentialNext]_vars => SingleInv'
  <1> SUFFICES ASSUME SingleInv, [SequentialNext]_vars PROVE SingleInv'
    OBVIOUS
  <1>0. /\ TypeOK /\ TypeOK' /\ UsageInv /\ StockInv /\ Alone
        /\ [Next]_vars
    BY TypeNext DEF SingleInv, UsageInv, SequentialNext
  <1>1. Alone'
    <2>1. CASE UNCHANGED vars
      BY <1>0, <2>1 DEF Alone, Busy, Idle, vars, handlers
    <2>2. QED BY <2>1 DEF SequentialNext
  <1>2. ASSUME NEW w \in Adder, AddStep(w), Calm PROVE SingleInv'
    <2>1. OneUsagePerOrder' /\ Cleared(w)' /\ NoOversell' /\ Reserved(w)'
      BY <1>0, <1>2, UsageAdd, StockAdd
    <2>2. \A v \in Adder : v # w => Reserved(v)' /\ Cleared(v)'
      BY <1>0, <1>2, RequestAlone, IdleHolds
    <2>3. QED BY <1>0, <1>1, <2>1, <2>2 DEF SingleInv, UsageInv, StockInv
  <1>3. ASSUME NEW k \in Consumer, ConsumerStep(k), Calm PROVE SingleInv'
    <2>1. \A w \in Adder : Reserved(w)' /\ Cleared(w)'
      BY <1>0, <1>3, ConsumerAlone, IdleHolds
    <2>2. UNCHANGED <<pc, request, oldCoupon, snapshot>>
      BY <1>3 DEF ConsumerStep, ReceiveMessage, ProcessMessage, FailMessage, handlers
    <2>3. usages' \subseteq usages \/ SetOrderPaid(task[k].coupon, task[k].order)
      BY <1>3 DEF ConsumerStep, ReceiveMessage, ProcessMessage, FailMessage, database, Revert
    <2>4. OneUsagePerOrder'
      BY <1>0, <2>2, <2>3, UsageOther
    <2>5. NoOversell'
      <3>1. CASE UNCHANGED quantity
        BY <1>0, <3>1 DEF StockInv, NoOversell
      <3>2. CASE task[k] # Null /\ Revert(task[k].coupon, task[k].order)
        <4>1. task[k].coupon \in Coupon
          BY <1>0, <3>2 DEF TypeOK, Task
        <4>2. QED BY <1>0, <3>2, <4>1, RevertAdds DEF StockInv, NoOversell, TypeOK
      <3>3. QED
        BY <1>3, <3>1, <3>2
        DEF ConsumerStep, ReceiveMessage, ProcessMessage, FailMessage, SetOrderPaid, database
    <2>6. QED BY <1>0, <1>1, <2>1, <2>4, <2>5 DEF SingleInv, UsageInv, StockInv
  <1>4. ASSUME NEW c \in Coupon, NEW o \in Order, DeleteCoupon(c, o), Calm PROVE SingleInv'
    <2>1. \A w \in Adder : Reserved(w)' /\ Cleared(w)'
      BY <1>0, <1>4, OtherAlone, IdleHolds
    <2>2. OneUsagePerOrder'
      BY <1>0, <1>4, UsageOther DEF DeleteCoupon, Revert, handlers
    <2>3. NoOversell'
      BY <1>0, <1>4, RevertAdds DEF DeleteCoupon, StockInv, NoOversell, TypeOK
    <2>4. QED BY <1>0, <1>1, <2>1, <2>2, <2>3 DEF SingleInv, UsageInv, StockInv
  <1>5. ASSUME NEW c \in Coupon, NEW q \in UploadQuantity[c], BulkUpsert(c, q), Calm
        PROVE  SingleInv'
    <2>1. \A w \in Adder : Reserved(w)' /\ Cleared(w)'
      BY <1>0, <1>5, OtherAlone, IdleHolds
    <2>2. OneUsagePerOrder'
      BY <1>0, <1>5, UsageOther DEF BulkUpsert, handlers
    <2>3. NoOversell'
      <3>1. q = Null \/ q \in Nat \ {0}
        BY QuantityAssumption
      <3>2. QED BY <1>0, <1>5, <3>1 DEF BulkUpsert, StockInv, NoOversell, TypeOK
    <2>4. QED BY <1>0, <1>1, <2>1, <2>2, <2>3 DEF SingleInv, UsageInv, StockInv
  <1>6. CASE UNCHANGED vars
    <2>1. \A w \in Adder : (Reserved(w) => Reserved(w)') /\ (Cleared(w) => Cleared(w)')
      BY <1>6 DEF vars, database, handlers, Reserved, Cleared, InStock, Redeemed
    <2>2. NoOversell' /\ OneUsagePerOrder'
      BY <1>0, <1>6 DEF vars, database, StockInv, UsageInv, NoOversell, OneUsagePerOrder
    <2>3. QED BY <1>0, <1>1, <2>1, <2>2 DEF SingleInv, UsageInv, StockInv
  <1>7. QED BY <1>2, <1>3, <1>4, <1>5, <1>6 DEF SequentialNext, Next

LEMMA SingleInit == Init => SingleInv
  <1> SUFFICES ASSUME Init PROVE SingleInv
    OBVIOUS
  <1>1. StockInv
    BY TypeInit, QuantityAssumption DEF Init, StockInv, NoOversell, Reserved
  <1>2. UsageInv
    BY TypeInit DEF Init, UsageInv, OneUsagePerOrder, Cleared
  <1>3. Busy = {}
    BY DEF Init, Busy, Idle, Answered
  <1>4. QED BY <1>1, <1>2, <1>3 DEF SingleInv, Alone

-----------------------------------------------------------------------------
(* What a handler has looked up is still so when it acts *)

(* A handler that is about to revert or to mark a usage has one to find.    *)
Known ==
  /\ \A w \in Adder : pc[w] = "revert" => Row(oldCoupon[w], request[w].order) # {}
  /\ \A k \in Consumer : task[k] # Null => Row(task[k].coupon, task[k].order) # {}

LookupInv == SingleInv /\ IsFiniteSet(usages) /\ Known

LEMMA FiniteNext ==
  ASSUME UsageInv, IsFiniteSet(usages), [Next]_vars
  PROVE  IsFiniteSet(usages')
  <1>0. TypeOK
    BY DEF UsageInv
  <1>1. ASSUME NEW c \in Coupon, NEW o, Revert(c, o) \/ SetOrderPaid(c, o)
        PROVE  IsFiniteSet(usages')
    BY <1>1, RevertBalances, PaidBalances
  <1>2. ASSUME NEW w \in Adder, AddStep(w) PROVE IsFiniteSet(usages')
    <2>1. CASE RevertOldCoupon(w)
      <3>1. oldCoupon[w] \in Coupon
        BY <1>0, <2>1 DEF RevertOldCoupon, TypeOK
      <3>2. QED BY <1>1, <2>1, <3>1 DEF RevertOldCoupon
    <2>2. CASE StoreUsage(w)
      BY <2>2, StoreBalances
    <2>3. QED
      BY <1>2, <2>1, <2>2
      DEF AddStep, BeginAdd, ReadCoupon, RejectNotValid, ReadOldCoupon, AcceptCoupon,
          RejectRedeemed, RejectOrdersCount, ReturnDiscount, FailAdd, database
  <1>3. ASSUME NEW k \in Consumer, ConsumerStep(k) PROVE IsFiniteSet(usages')
    <2>1. CASE ProcessMessage(k)
      <3>1. task[k].coupon \in Coupon
        BY <1>0, <2>1 DEF ProcessMessage, TypeOK, Task
      <3>2. QED BY <1>1, <2>1, <3>1 DEF ProcessMessage
    <2>2. QED BY <1>3, <2>1 DEF ConsumerStep, ReceiveMessage, FailMessage, database
  <1>4. QED
    BY <1>1, <1>2, <1>3 DEF Next, DeleteCoupon, BulkUpsert, vars, database

(* The only request at work finds the old usage it reverts.                 *)
LEMMA LookupAdd ==
  ASSUME LookupInv, Calm, NEW w \in Adder, AddStep(w)
  PROVE  Known'
  <1>0. TypeOK /\ Alone /\ IsFiniteSet(usages)
    BY DEF LookupInv, SingleInv, UsageInv
  <1>1. /\ \A v \in Adder : v # w => pc'[v] \in Answered
        /\ \A k \in Consumer : task'[k] = Null
    BY <1>0, RequestAlone DEF Idle
  <1>2. pc'[w] = "revert" =>
          Row(oldCoupon[w], request[w].order)' # {}
    <2>1. ASSUME pc'[w] = "revert" PROVE ReadOldCoupon(w)
      BY <1>0, <2>1
      DEF AddStep, BeginAdd, ReadCoupon, RejectNotValid, RevertOldCoupon, AcceptCoupon,
          RejectRedeemed, RejectOrdersCount, StoreUsage, ReturnDiscount, FailAdd,
          Goto, Answer, TypeOK
    <2>2. ASSUME pc'[w] = "revert", ReadOldCoupon(w)
          PROVE  \E u \in Newest(request[w].order) : oldCoupon'[w] = u.coupon
      BY <1>0, <2>2 DEF ReadOldCoupon, Goto, TypeOK
    <2>3. QED BY <2>1, <2>2 DEF ReadOldCoupon, Newest, Row, database
  <1>3. QED BY <1>1, <1>2 DEF Known, Answered

(* The only consumer at work finds the usage it has looked up.              *)
LEMMA LookupConsumer ==
  ASSUME LookupInv, Calm, NEW k \in Consumer, ConsumerStep(k)
  PROVE  Known'
  <1>0. TypeOK /\ Alone
    BY DEF LookupInv, SingleInv, UsageInv
  <1>1. /\ \A w \in Adder : pc'[w] \in Answered
        /\ \A j \in Consumer : j # k => task'[j] = Null
    BY <1>0, ConsumerAlone DEF Idle
  <1>2. task'[k] # Null => Row(task[k].coupon, task[k].order)' # {}
    <2>1. ASSUME task'[k] # Null
          PROVE  \E o \in Order : \E u \in Newest(o) :
                   usages' = usages /\ task'[k].order = o /\ task'[k].coupon = u.coupon
      BY <1>0, <2>1
      DEF ConsumerStep, ReceiveMessage, ProcessMessage, FailMessage, TypeOK, database
    <2>2. QED BY <2>1 DEF Newest, Row
  <1>3. QED BY <1>1, <1>2 DEF Known, Answered

LEMMA LookupNext == LookupInv /\ [SequentialNext]_vars => LookupInv'
  <1> SUFFICES ASSUME LookupInv, [SequentialNext]_vars PROVE LookupInv'
    OBVIOUS
  <1>0. SingleInv /\ SingleInv' /\ TypeOK /\ [Next]_vars /\ IsFiniteSet(usages')
    <2>1. SingleInv /\ SingleInv' /\ [Next]_vars
      BY SingleNext DEF LookupInv, SequentialNext
    <2>2. QED BY <2>1, FiniteNext DEF LookupInv, SingleInv, UsageInv
  <1>1. CASE SequentialNext /\ \E w \in Adder : AddStep(w)
    BY <1>0, <1>1, LookupAdd DEF LookupInv, SequentialNext
  <1>2. CASE SequentialNext /\ \E k \in Consumer : ConsumerStep(k)
    BY <1>0, <1>2, LookupConsumer DEF LookupInv, SequentialNext
  <1>3. ASSUME NEW c \in Coupon, Calm,
               \/ \E o \in Order : DeleteCoupon(c, o)
               \/ \E q \in UploadQuantity[c] : BulkUpsert(c, q)
        PROVE  LookupInv'
    <2>1. /\ \A w \in Adder : pc'[w] \in Answered
          /\ \A k \in Consumer : task'[k] = Null
      BY <1>0, <1>3, OtherAlone DEF Idle
    <2>2. QED BY <1>0, <2>1 DEF LookupInv, Known, Answered
  <1>4. CASE UNCHANGED vars
    BY <1>0, <1>4 DEF LookupInv, Known, Row, vars, database, handlers
  <1>5. QED BY <1>1, <1>2, <1>3, <1>4 DEF SequentialNext, Next

LEMMA LookupInvariant == SequentialSpec => []LookupInv
  <1>1. Init => LookupInv
    <2> SUFFICES ASSUME Init PROVE LookupInv
      OBVIOUS
    <2>1. SingleInv
      BY SingleInit
    <2>2. IsFiniteSet(usages)
      BY FS_EmptySet DEF Init
    <2>3. Known
      BY DEF Init, Known
    <2>4. QED BY <2>1, <2>2, <2>3 DEF LookupInv
  <1>2. LookupInv /\ [SequentialNext]_vars => LookupInv'
    BY LookupNext
  <1>3. QED BY <1>1, <1>2, PTL DEF SequentialSpec, SequentialNext

-----------------------------------------------------------------------------
(* The paid messages *)

(* When handlers do not overlap, the message that an order was paid leaves  *)
(* no usage of the order unpaid: it marks the row its handler has found.    *)
THEOREM SequentialPaidIsMarked == SequentialSpec => PaidMessageMarksUsage
  <1>1. ASSUME LookupInv, NEW k \in Consumer, task[k] # Null, task[k].topic = "paid",
               ProcessMessage(k)
        PROVE  \A u \in usages' : u.order = task[k].order => u.paid
    <2>1. PICK c, o : c = task[k].coupon /\ o = task[k].order
      OBVIOUS
    <2>2. TypeOK /\ OneUsagePerOrder /\ Row(c, o) # {}
      BY <1>1, <2>1 DEF LookupInv, SingleInv, UsageInv, Known
    <2>3. usages' = (usages \ Row(c, o)) \cup {MarkedPaid(u) : u \in Row(c, o)}
      BY <1>1, <2>1 DEF ProcessMessage, SetOrderPaid
    <2>4. \A u \in Row(c, o) : MarkedPaid(u).paid = TRUE
      BY <2>2, MarkedPaidType DEF Row, TypeOK
    <2>5. \A u \in usages \ Row(c, o) : u.order # o
      BY <2>2 DEF OneUsagePerOrder, Row
    <2>6. QED BY <2>1, <2>3, <2>4, <2>5
  <1>2. LookupInv => \A k \in Consumer :
           task[k] # Null /\ task[k].topic = "paid" /\ ProcessMessage(k)
             => \A u \in usages' : u.order = task[k].order => u.paid
    BY <1>1
  <1>3. SequentialSpec => []LookupInv
    BY LookupInvariant
  <1>4. QED BY <1>2, <1>3, PTL DEF PaidMessageMarksUsage

-----------------------------------------------------------------------------
(* Conservation of units *)

NoUploads == \A c \in Coupon : UploadQuantity[c] = {}

ConservedInv ==
  \A c \in Coupon : InitialQuantity[c] # Null =>
    /\ quantity[c] # Null
    /\ quantity[c] + Cardinality(Held(c)) = InitialQuantity[c]

(* Every step that changes the tables takes from one what it adds to the    *)
(* other: no handler reverts what it has not found.                         *)
LEMMA SequentialBalances ==
  ASSUME ~StrayDelete, NoUploads, LookupInv, [SequentialNext]_vars
  PROVE  \/ UNCHANGED <<quantity, usages>>
         \/ \A c \in Coupon : Balances(c)
  <1>0. TypeOK /\ UsageInv /\ IsFiniteSet(usages) /\ Known
    BY DEF LookupInv, SingleInv, UsageInv
  <1>1. ASSUME NEW w \in Adder, AddStep(w)
        PROVE  \/ UNCHANGED <<quantity, usages>>
               \/ \A c \in Coupon : Balances(c)
    <2>1. CASE RevertOldCoupon(w)
      <3>1. oldCoupon[w] \in Coupon /\ Row(oldCoupon[w], request[w].order) # {}
        BY <1>0, <2>1 DEF RevertOldCoupon, TypeOK, Known
      <3>2. QED BY <1>0, <2>1, <3>1, RevertBalances DEF RevertOldCoupon
    <2>2. CASE StoreUsage(w)
      BY <1>0, <2>2, StoreBalances
    <2>3. QED
      BY <1>1, <2>1, <2>2
      DEF AddStep, BeginAdd, ReadCoupon, RejectNotValid, ReadOldCoupon, AcceptCoupon,
          RejectRedeemed, RejectOrdersCount, ReturnDiscount, FailAdd, database
  <1>2. ASSUME NEW k \in Consumer, ConsumerStep(k)
        PROVE  \/ UNCHANGED <<quantity, usages>>
               \/ \A c \in Coupon : Balances(c)
    <2>1. CASE ProcessMessage(k)
      <3>1. task[k].coupon \in Coupon /\ Row(task[k].coupon, task[k].order) # {}
        BY <1>0, <2>1 DEF ProcessMessage, TypeOK, Task, Known
      <3>2. QED BY <1>0, <2>1, <3>1, RevertBalances, PaidBalances DEF ProcessMessage
    <2>2. QED BY <1>2, <2>1 DEF ConsumerStep, ReceiveMessage, FailMessage, database
  <1>3. ASSUME NEW c \in Coupon, NEW o \in Order, DeleteCoupon(c, o)
        PROVE  \A d \in Coupon : Balances(d)
    BY <1>0, <1>3, RevertBalances DEF DeleteCoupon
  <1>4. ~ \E c \in Coupon : \E q \in UploadQuantity[c] : BulkUpsert(c, q)
    BY DEF NoUploads
  <1>5. QED BY <1>1, <1>2, <1>3, <1>4 DEF SequentialNext, Next, vars, database

LEMMA ConservedNext ==
  ASSUME ~StrayDelete, NoUploads
  PROVE  LookupInv /\ LookupInv' /\ ConservedInv /\ [SequentialNext]_vars => ConservedInv'
  <1> SUFFICES ASSUME LookupInv, LookupInv', ConservedInv, [SequentialNext]_vars,
                      NEW c \in Coupon, InitialQuantity[c] # Null
               PROVE  /\ quantity'[c] # Null
                      /\ quantity'[c] + Cardinality(Held(c)') = InitialQuantity[c]
    BY DEF ConservedInv
  <1>1. quantity[c] # Null /\ quantity[c] + Cardinality(Held(c)) = InitialQuantity[c]
    BY DEF ConservedInv
  <1>2. CASE UNCHANGED <<quantity, usages>>
    <2>1. Held(c)' = Held(c)
      BY <1>2 DEF Held
    <2>2. Cardinality(Held(c)') = Cardinality(Held(c))
      BY <2>1
    <2>3. QED BY <1>1, <1>2, <2>2
  <1>3. CASE \A d \in Coupon : Balances(d)
    BY <1>1, <1>3 DEF Balances
  <1>4. QED BY <1>2, <1>3, SequentialBalances

(* When handlers do not overlap, no coupon is uploaded again, and an order  *)
(* is asked to give back only what it has, the units of every coupon are    *)
(* conserved exactly.                                                       *)
THEOREM SequentialConserves ==
  ASSUME ~StrayDelete, NoUploads
  PROVE  SequentialSpec => []UnitsConserved
  <1>1. Init => ConservedInv
    <2> SUFFICES ASSUME Init PROVE ConservedInv
      OBVIOUS
    <2>1. usages = {} /\ quantity = InitialQuantity
      BY DEF Init
    <2>2. \A c \in Coupon : Held(c) = {}
      BY <2>1 DEF Held
    <2>3. \A c \in Coupon : Cardinality(Held(c)) = 0
      BY <2>2, FS_EmptySet
    <2>4. QED BY <2>1, <2>3, QuantityAssumption DEF ConservedInv
  <1>2. SequentialSpec => []LookupInv
    BY LookupInvariant
  <1>3. LookupInv /\ LookupInv' /\ ConservedInv /\ [SequentialNext]_vars => ConservedInv'
    BY ConservedNext
  <1>4. ConservedInv => UnitsConserved
    BY DEF ConservedInv, UnitsConserved
  <1>5. QED BY <1>1, <1>2, <1>3, <1>4, PTL DEF SequentialSpec, SequentialNext

-----------------------------------------------------------------------------
(* The strict ledger *)

(* The two ledgers differ in Credit alone.                                  *)
LEMMA StrictSteps ==
  /\ \A o \in Order, c \in Coupon :
       /\ Ledger!Apply(o, c) => StrictLedger!Apply(o, c)
       /\ Ledger!Release(o, c) => StrictLedger!Release(o, c)
  /\ \A o \in Order : Ledger!Pay(o) => StrictLedger!Pay(o)
  /\ \A c \in Coupon : \A q \in UploadQuantity[c] : Ledger!Upload(c, q) => StrictLedger!Upload(c, q)
  BY DEF StrictLedger!Apply, Ledger!Apply,
         StrictLedger!Release, Ledger!Release, StrictLedger!Pay, Ledger!Pay,
         StrictLedger!Upload, Ledger!Upload, StrictLedger!Add, Ledger!Add,
         StrictLedger!Available, Ledger!Available

LEMMA SequentialImplements ==
  ASSUME ~StrayDelete
  PROVE  LookupInv /\ [SequentialNext]_vars => [StrictLedger!Next]_StrictLedger!vars
  <1> SUFFICES ASSUME LookupInv, [SequentialNext]_vars
               PROVE  StrictLedger!Next \/ UNCHANGED StrictLedger!vars
    OBVIOUS
  <1>0. TypeOK /\ UsageInv /\ StockInv /\ Known
    BY DEF LookupInv, SingleInv, UsageInv
  <1>1. ASSUME UNCHANGED <<quantity, usages>> PROVE UNCHANGED StrictLedger!vars
    BY <1>1, SameRows DEF StrictLedger!vars
  <1>2. ASSUME NEW c \in Coupon, NEW o \in Order, Revert(c, o), Row(c, o) # {}
        PROVE  StrictLedger!Next
    <2>1. Ledger!Release(o, c)
      BY <1>0, <1>2, RevertImplements
    <2>2. QED BY <2>1, StrictSteps DEF StrictLedger!Next
  <1>3. ASSUME NEW w \in Adder, AddStep(w) PROVE StrictLedger!Next \/ UNCHANGED StrictLedger!vars
    <2>1. CASE RevertOldCoupon(w)
      <3>1. /\ oldCoupon[w] \in Coupon /\ request[w].order \in Order
            /\ Row(oldCoupon[w], request[w].order) # {}
        BY <1>0, <2>1 DEF RevertOldCoupon, TypeOK, Waiting, Request, Known
      <3>2. QED BY <1>2, <2>1, <3>1 DEF RevertOldCoupon
    <2>2. CASE StoreUsage(w)
      <3>1. \E o \in Order, c \in Coupon : Ledger!Apply(o, c)
        BY <1>0, <2>2, StoreImplements
      <3>2. QED BY <3>1, StrictSteps DEF StrictLedger!Next
    <2>3. CASE UNCHANGED database
      BY <1>1, <2>3 DEF database
    <2>4. QED
      BY <1>3, <2>1, <2>2, <2>3
      DEF AddStep, BeginAdd, ReadCoupon, RejectNotValid, ReadOldCoupon, AcceptCoupon,
          RejectRedeemed, RejectOrdersCount, ReturnDiscount, FailAdd
  <1>4. ASSUME NEW k \in Consumer, ConsumerStep(k)
        PROVE  StrictLedger!Next \/ UNCHANGED StrictLedger!vars
    <2>1. CASE ProcessMessage(k)
      <3>1. /\ task[k].coupon \in Coupon /\ task[k].order \in Order
            /\ Row(task[k].coupon, task[k].order) # {}
        BY <1>0, <2>1 DEF ProcessMessage, TypeOK, Task, Known
      <3>2. CASE Revert(task[k].coupon, task[k].order)
        BY <1>2, <3>1, <3>2
      <3>3. CASE SetOrderPaid(task[k].coupon, task[k].order)
        <4>1. Ledger!Pay(task[k].order) \/ UNCHANGED StrictLedger!vars
          BY <1>0, <3>1, <3>3, PaidImplements DEF Ledger!vars, StrictLedger!vars
        <4>2. QED BY <3>1, <4>1, StrictSteps DEF StrictLedger!Next
      <3>4. QED BY <2>1, <3>2, <3>3 DEF ProcessMessage
    <2>2. CASE UNCHANGED database
      BY <1>1, <2>2 DEF database
    <2>3. QED BY <1>4, <2>1, <2>2 DEF ConsumerStep, ReceiveMessage, FailMessage
  <1>5. ASSUME NEW c \in Coupon, NEW o \in Order, DeleteCoupon(c, o) PROVE StrictLedger!Next
    BY <1>2, <1>5 DEF DeleteCoupon
  <1>6. ASSUME NEW c \in Coupon, NEW q \in UploadQuantity[c], BulkUpsert(c, q)
        PROVE  StrictLedger!Next
    <2>1. Ledger!Upload(c, q)
      BY <1>6, SameRows DEF BulkUpsert, Ledger!Upload
    <2>2. QED BY <2>1, StrictSteps DEF StrictLedger!Next
  <1>7. CASE UNCHANGED vars
    BY <1>1, <1>7 DEF vars, database
  <1>8. QED BY <1>3, <1>4, <1>5, <1>6, <1>7 DEF SequentialNext, Next

(* When handlers do not overlap and an order is asked to give back only     *)
(* what it has, the service keeps the strict ledger: every unit that comes  *)
(* back was held by an order, which then holds it no longer.                *)
THEOREM SequentialImplementsStrictLedger ==
  ASSUME ~StrayDelete
  PROVE  SequentialSpec => ImplementsStrictLedger
  <1>1. Init => StrictLedger!Init
    <2> SUFFICES ASSUME Init PROVE StrictLedger!Init
      OBVIOUS
    <2>1. usages = {} /\ quantity = InitialQuantity
      BY DEF Init
    <2>2. \A o \in Order : appliedCoupon[o] = Null /\ paidOrder[o] = FALSE
      BY <2>1, HoldingNone
    <2>3. QED BY <2>1, <2>2, Domains DEF StrictLedger!Init
  <1>2. LookupInv /\ [SequentialNext]_vars => [StrictLedger!Next]_StrictLedger!vars
    BY SequentialImplements
  <1>3. SequentialSpec => []LookupInv
    BY LookupInvariant
  <1>4. QED
    BY <1>1, <1>2, <1>3, PTL
    DEF SequentialSpec, SequentialNext, ImplementsStrictLedger, StrictLedger!Spec
=============================================================================
