------------------------ MODULE CouponDiscountProofs ------------------------
(***************************************************************************)
(* What a coupon takes off an order, for every cart and every coupon.      *)
(***************************************************************************)
EXTENDS CouponDiscount, DiscountingProofs

USE CartAssumption, TermsAssumption, MinOrderAssumption

(* What get_coupon_discount promises of the discount it computes.            *)
LEMMA ComputedDiscount ==
  ASSUME NEW s \in Nat, coupon \in CouponTerms
  PROVE  /\ CouponDiscountOf(s) \in Nat
         /\ CouponDiscountOf(s) > 0 => s - CouponDiscountOf(s) >= MinOrderAmount
  <1>1. NominalDiscount(s) \in Nat
    <2>1. coupon.value \in Nat
      OBVIOUS
    <2>2. 2 * s * coupon.value + 100 \in Nat
      BY <2>1, ProductNat
    <2>3. (2 * s * coupon.value + 100) \div 200 \in Nat
      BY <2>2, DivMod
    <2>4. QED BY <2>1, <2>3 DEF NominalDiscount
  <1>2. QED BY <1>1 DEF CouponDiscountOf

(* The inductive invariant: what the steps hand on to each other.            *)
DiscountInv ==
  /\ pc \in {"filter", "rejected", "discount", "distribute", "limit", "done", "failed"}
  /\ cart \in Cart /\ coupon \in CouponTerms
  /\ OrderOK(items)
  /\ pc \in {"distribute", "limit", "done", "failed"} => discount = CouponDiscountOf(Subtotal(items))
  /\ pc = "limit" => distribution \in Distributions(discount, items)
  /\ pc \in {"done", "failed"} =>
       \E first \in Distributions(discount, items) :
         IF /\ coupon.max # Null /\ coupon.kind = "percent"
            /\ DiscountValue(first) > coupon.max
         THEN distribution \in Distributions(coupon.max, items)
         ELSE distribution = first
  /\ pc = "failed" => DiscountValue(distribution) < 0

LEMMA RestrictOK ==
  ASSUME cart \in Cart, NEW S \in SUBSET DOMAIN cart
  PROVE  OrderOK(Restrict(cart, S))
  <1>1. IsFiniteSet(S)
    BY FS_Subset
  <1>2. DOMAIN Restrict(cart, S) = S /\ \A i \in S : Restrict(cart, S)[i] = cart[i]
    BY DEF Restrict
  <1>3. \A i \in S : ItemOK(cart[i])
    BY DEF ItemOK
  <1>4. QED BY <1>1, <1>2, <1>3 DEF OrderOK

LEMMA DiscountInit == Init => DiscountInv
  <1> SUFFICES ASSUME Init PROVE DiscountInv
    OBVIOUS
  <1>1. OrderOK(Nothing)
    BY FS_EmptySet DEF OrderOK, Nothing
  <1>2. QED BY <1>1 DEF Init, DiscountInv

LEMMA DiscountNext == DiscountInv /\ [Next]_vars => DiscountInv'
  <1> SUFFICES ASSUME DiscountInv, [Next]_vars PROVE DiscountInv'
    OBVIOUS
  <1> USE DEF DiscountInv
  <1>1. CASE RejectTerms
    BY <1>1 DEF RejectTerms, input
  <1>2. CASE RejectCategories
    BY <1>2 DEF RejectCategories, input
  <1>3. CASE KeepAll
    <2>1. OrderOK(items')
      BY <1>3, RestrictOK DEF KeepAll, NoTobacco
    <2>2. QED BY <1>3, <2>1 DEF KeepAll, input, OrderOK
  <1>4. CASE KeepPermitted
    <2>1. Eligible \in SUBSET DOMAIN cart
      BY DEF Eligible, Permitted, NoTobacco
    <2>2. OrderOK(items')
      BY <1>4, <2>1, RestrictOK DEF KeepPermitted
    <2>3. QED BY <1>4, <2>2 DEF KeepPermitted, input, OrderOK
  <1>5. CASE ComputeDiscount
    <2>1. discount' = CouponDiscountOf(Subtotal(items))'
      BY <1>5 DEF ComputeDiscount, input, CouponDiscountOf, NominalDiscount
    <2>2. QED BY <1>5, <2>1 DEF ComputeDiscount, input, OrderOK
  <1>6. CASE Distribute
    <2>1. discount' = CouponDiscountOf(Subtotal(items))'
      BY <1>6 DEF Distribute, input, CouponDiscountOf, NominalDiscount
    <2>2. QED BY <1>6, <2>1 DEF Distribute, input, OrderOK
  <1>7. CASE LimitDiscount
    <2>1. discount' = CouponDiscountOf(Subtotal(items))'
      BY <1>7 DEF LimitDiscount, input, CouponDiscountOf, NominalDiscount
    <2>2. pc' \in {"done", "failed"} /\ (pc' = "failed" => DiscountValue(distribution') < 0)
      BY <1>7 DEF LimitDiscount, Answer
    <2>3. /\ distribution \in Distributions(discount, items)
          /\ IF coupon.max # Null /\ coupon.kind = "percent" /\ DiscountValue(distribution) > coupon.max
             THEN distribution' \in Distributions(coupon.max, items)
             ELSE distribution' = distribution
      BY <1>7 DEF LimitDiscount, MaxDiscountExceeded
    <2>4. items' = items /\ coupon' = coupon /\ discount' = discount /\ cart' = cart
      BY <1>7 DEF LimitDiscount, input
    <2>5. QED BY <2>1, <2>2, <2>3, <2>4 DEF OrderOK
  <1>8. CASE UNCHANGED vars
    BY <1>8 DEF vars, input, CouponDiscountOf, NominalDiscount, OrderOK
  <1>9. QED BY <1>1, <1>2, <1>3, <1>4, <1>5, <1>6, <1>7, <1>8 DEF Next

LEMMA DiscountAlways == Spec => []DiscountInv
  BY DiscountInit, DiscountNext, PTL DEF Spec

-----------------------------------------------------------------------------
(* The total. *)

LEMMA DiscountIs ==
  ASSUME DiscountInv, pc \in {"distribute", "limit", "done", "failed"}
  PROVE  /\ OrderOK(items) /\ Subtotal(items) \in Nat /\ discount \in Nat
         /\ discount > 0 => Subtotal(items) - discount >= MinOrderAmount
  <1>1. OrderOK(items) /\ Subtotal(items) \in Nat
    BY SubtotalType DEF DiscountInv
  <1>2. QED BY <1>1, ComputedDiscount DEF DiscountInv

(* Whatever is left of the discount, zero of an order that costs nothing.    *)
LEMMA ValueOf ==
  ASSUME NEW order, OrderOK(order), NEW d \in Nat, NEW D \in Distributions(d, order)
  PROVE  /\ D \in [DOMAIN order -> Int]
         /\ DiscountValue(D) \in Int /\ DiscountValue(D) <= d
         /\ DiscountValue(D) > 0 => Subtotal(order) > 0
  <1>1. Subtotal(order) \in Nat
    BY SubtotalType
  <1>2. CASE Subtotal(order) = 0
    BY <1>2, NothingToDistribute
  <1>3. CASE Subtotal(order) > 0
    BY <1>3, DistributionOf
  <1>4. QED BY <1>1, <1>2, <1>3

(* The final distribution distributes what was computed or, if that is less, *)
(* the limit.                                                                *)
LEMMA FinalDistribution ==
  ASSUME DiscountInv, pc \in {"done", "failed"}
  PROVE  /\ DiscountValue(distribution) \in Int /\ DiscountValue(distribution) <= discount
         /\ coupon.kind = "percent" /\ coupon.max # Null => DiscountValue(distribution) <= coupon.max
         /\ \E d \in Nat : distribution \in Distributions(d, items)
         /\ (/\ Subtotal(items) > 0
             /\ \A i \in DOMAIN items : items[i].type # "alcohol") =>
               DiscountValue(distribution) =
                 IF coupon.kind = "percent" /\ coupon.max # Null THEN Least(discount, coupon.max)
                                                                 ELSE discount
  <1>1. OrderOK(items) /\ discount \in Nat
    BY DiscountIs
  <1>2. coupon.max \in Nat \cup {Null} /\ coupon \in CouponTerms
    BY DEF DiscountInv
  <1>3. PICK first \in Distributions(discount, items) :
          IF /\ coupon.max # Null /\ coupon.kind = "percent"
             /\ DiscountValue(first) > coupon.max
          THEN distribution \in Distributions(coupon.max, items)
          ELSE distribution = first
    BY DEF DiscountInv
  <1>4. DiscountValue(first) \in Int /\ DiscountValue(first) <= discount
    BY <1>1, ValueOf
  <1> DEFINE plain == Subtotal(items) > 0 /\ \A i \in DOMAIN items : items[i].type # "alcohol"
  <1>5. plain => DiscountValue(first) = discount
    BY <1>1, DistributionOf
  <1>6. CASE coupon.max # Null /\ coupon.kind = "percent" /\ DiscountValue(first) > coupon.max
    <2>1. coupon.max \in Nat /\ distribution \in Distributions(coupon.max, items)
      BY <1>2, <1>3, <1>6
    <2>2. DiscountValue(distribution) \in Int /\ DiscountValue(distribution) <= coupon.max
      BY <1>1, <2>1, ValueOf
    <2>3. plain => DiscountValue(distribution) = coupon.max
      BY <1>1, <2>1, DistributionOf
    <2>4. QED BY <1>1, <1>4, <1>5, <1>6, <2>1, <2>2, <2>3 DEF Least
  <1>7. CASE ~(coupon.max # Null /\ coupon.kind = "percent" /\ DiscountValue(first) > coupon.max)
    <2>1. distribution = first
      BY <1>3, <1>7
    <2>2. coupon.kind = "percent" /\ coupon.max # Null =>
            coupon.max \in Nat /\ DiscountValue(first) <= coupon.max
      BY <1>2, <1>4, <1>7
    <2>3. QED BY <1>1, <1>4, <1>5, <2>1, <2>2 DEF Least
  <1>8. QED BY <1>6, <1>7

LEMMA DistributionAt ==
  ASSUME DiscountInv, Distributed
  PROVE  /\ DiscountValue(distribution) \in Int /\ DiscountValue(distribution) <= discount
         /\ \E d \in Nat : distribution \in Distributions(d, items)
  <1>1. CASE pc = "limit"
    <2>1. distribution \in Distributions(discount, items) /\ OrderOK(items) /\ discount \in Nat
      BY <1>1, DiscountIs DEF DiscountInv
    <2>2. QED BY <2>1, ValueOf
  <1>2. CASE pc \in {"done", "failed"}
    BY <1>2, FinalDistribution
  <1>3. QED BY <1>1, <1>2 DEF Distributed

(* The customer pays at least the smallest order amount, whatever the        *)
(* rounding hands out (get_coupon_discount, calculate_order_distributed_      *)
(* discount).                                                                *)
THEOREM SmallestAmountIsPaid == Spec => []MinimumLeftToPay
  <1>1. DiscountInv => MinimumLeftToPay
    <2> SUFFICES ASSUME DiscountInv, Distributed, DiscountValue(distribution) > 0
                 PROVE  Subtotal(items) - DiscountValue(distribution) >= MinOrderAmount
      BY DEF MinimumLeftToPay
    <2>1. DiscountValue(distribution) \in Int /\ DiscountValue(distribution) <= discount
      BY DistributionAt
    <2>2. /\ Subtotal(items) \in Nat /\ discount \in Nat
          /\ discount > 0 => Subtotal(items) - discount >= MinOrderAmount
      BY DiscountIs DEF Distributed
    <2>3. QED BY <2>1, <2>2
  <1>2. QED BY <1>1, DiscountAlways, PTL

(* Both distributions of is_max_discount_exceeded's branch stay within       *)
(* max_discount.                                                             *)
THEOREM MaxDiscountIsKept == Spec => []MaxDiscountRespected
  <1>1. DiscountInv => MaxDiscountRespected
    BY FinalDistribution DEF MaxDiscountRespected
  <1>2. QED BY <1>1, DiscountAlways, PTL

(* The items' discounts add up to the discount of the order to the cent.     *)
THEOREM EveryCentIsDistributed == Spec => []NoCentLost
  <1>1. DiscountInv => NoCentLost
    BY FinalDistribution DEF NoCentLost
  <1>2. QED BY <1>1, DiscountAlways, PTL

-----------------------------------------------------------------------------
(* The items. *)

LEMMA ItemDiscount ==
  ASSUME NEW order, OrderOK(order), Subtotal(order) > 0, NEW d \in Nat, NEW D \in Distributions(d, order),
         NEW i \in DOMAIN order
  PROVE  /\ D[i] \in Int
         /\ order[i].type = "alcohol" => D[i] <= MaxDiscount(order[i])
         /\ D[i] < 0 => SoldBelowPurchasePrice(order[i])
  <1>1. PICK U \in RoundedUp(d, order) : \A j \in DOMAIN order :
          D[j] = Capped(order[j], RoundedDown(d, order, j) + (IF j \in U THEN 1 ELSE 0))
    BY DistributionOf
  <1> DEFINE share == RoundedDown(d, order, i) + (IF i \in U THEN 1 ELSE 0)
  <1>2. share \in Nat
    BY Shares
  <1>3. D[i] = Capped(order[i], share) /\ ItemOK(order[i])
    BY <1>1 DEF OrderOK
  <1> HIDE DEF share
  <1>4. QED BY <1>2, <1>3, CappedType DEF SoldBelowPurchasePrice

LEMMA MarginKept ==
  ASSUME NEW item, ItemOK(item), NEW x \in Int, x <= MaxDiscount(item)
  PROVE  Amount(item) - x >= item.purchase * item.quantity
  <1>1. item.price \in Nat /\ item.purchase \in Nat /\ item.quantity \in Nat
    BY DEF ItemOK
  <1> DEFINE unit == Least(item.price - item.purchase, (item.price * 35) \div 100)
  <1>2. (item.price * 35) \div 100 \in Nat
    <2>1. item.price * 35 \in Nat
      BY <1>1
    <2>2. QED BY <2>1, DivMod
  <1>3. unit \in Int /\ unit <= item.price - item.purchase
    BY <1>1, <1>2 DEF Least
  <1>4. x <= unit * item.quantity
    BY DEF MaxDiscount
  <1> HIDE DEF unit
  <1>5. \A m, n \in Int, q \in Nat : m <= n => m * q <= n * q
    OBVIOUS
  <1>6. unit * item.quantity <= (item.price - item.purchase) * item.quantity
    BY <1>1, <1>3, <1>5
  <1>7. \A p, c, q \in Nat : (p - c) * q = p * q - c * q /\ p * q \in Int /\ c * q \in Int
    OBVIOUS
  <1>8. (item.price - item.purchase) * item.quantity
          = item.price * item.quantity - item.purchase * item.quantity
    BY <1>1, <1>7
  <1>9. unit * item.quantity \in Int /\ item.price * item.quantity \in Int
        /\ item.purchase * item.quantity \in Int
    BY <1>1, <1>3
  <1>10. QED BY <1>4, <1>6, <1>8, <1>9 DEF Amount

(* The cap of alcohol, its margin or 35% of its price, holds for what the    *)
(* customer pays.                                                            *)
THEOREM AlcoholMarginIsKept == Spec => []AlcoholNotBelowPurchasePrice
  <1>1. DiscountInv => AlcoholNotBelowPurchasePrice
    <2> SUFFICES ASSUME DiscountInv, Distributed, Subtotal(items) > 0,
                        NEW i \in DOMAIN items, items[i].type = "alcohol"
                 PROVE  Amount(items[i]) - distribution[i] >= items[i].purchase * items[i].quantity
      BY DEF AlcoholNotBelowPurchasePrice
    <2>1. PICK d \in Nat : distribution \in Distributions(d, items)
      BY DistributionAt
    <2>2. OrderOK(items) /\ ItemOK(items[i])
      BY DEF DiscountInv, OrderOK
    <2>3. distribution[i] \in Int /\ distribution[i] <= MaxDiscount(items[i])
      BY <2>1, <2>2, ItemDiscount
    <2>4. QED BY <2>2, <2>3, MarginKept
  <1>2. QED BY <1>1, DiscountAlways, PTL

(* Only alcohol sold below its purchase price makes a total that the answer  *)
(* of the API refuses.                                                       *)
THEOREM AnswerFailsOnlyWithoutMargin == Spec => []AnswerableWithMargin
  <1>1. DiscountInv => AnswerableWithMargin
    <2> SUFFICES ASSUME DiscountInv, pc = "failed",
                        \A i \in DOMAIN items : ~SoldBelowPurchasePrice(items[i])
                 PROVE  FALSE
      BY DEF AnswerableWithMargin
    <2>1. PICK d \in Nat : distribution \in Distributions(d, items)
      BY FinalDistribution
    <2>2. OrderOK(items) /\ DiscountValue(distribution) < 0
      BY DEF DiscountInv
    <2>3. CASE Subtotal(items) = 0
      BY <2>1, <2>2, <2>3, NothingToDistribute
    <2>4. CASE Subtotal(items) > 0
      <3>1. distribution \in [DOMAIN items -> Int]
        BY <2>1, <2>2, <2>4, DistributionOf
      <3>2. \A i \in DOMAIN items : distribution[i] >= 0
        BY <2>1, <2>2, <2>4, <3>1, ItemDiscount
      <3>3. DiscountValue(distribution) >= 0
        BY <2>2, <3>1, <3>2, SumNonNegative DEF OrderOK, DiscountValue
      <3>4. DiscountValue(distribution) \in Int
        BY <2>1, <2>2, ValueOf
      <3>5. QED BY <2>2, <3>3, <3>4
    <2>5. QED BY <2>2, <2>3, <2>4, SubtotalType
  <1>2. QED BY <1>1, DiscountAlways, PTL

(* The largest remainders get the cents left over: nobody is a cent or more  *)
(* away from his share, and a larger amount never gets less.                 *)
LEMMA LargerAmountGetsMore ==
  ASSUME NEW order, OrderOK(order), Subtotal(order) > 0, NEW d \in Nat, NEW U \in RoundedUp(d, order),
         NEW i \in DOMAIN order, NEW j \in DOMAIN order, Amount(order[i]) > Amount(order[j])
  PROVE  RoundedDown(d, order, j) + (IF j \in U THEN 1 ELSE 0)
           <= RoundedDown(d, order, i) + (IF i \in U THEN 1 ELSE 0)
  <1> DEFINE t == Subtotal(order)
             qi == RoundedDown(d, order, i)
             qj == RoundedDown(d, order, j)
             ri == Remainder(d, order, i)
             rj == Remainder(d, order, j)
             ai == d * Amount(order[i])
             aj == d * Amount(order[j])
  <1>1. /\ t \in Nat /\ t > 0 /\ qi \in Nat /\ qj \in Nat
        /\ ri \in Nat /\ rj \in Nat /\ ri < t /\ rj < t
        /\ ai = t * qi + ri /\ aj = t * qj + rj
    BY Shares, SubtotalType
  <1>2. Amount(order[i]) \in Nat /\ Amount(order[j]) \in Nat
    BY SubtotalType
  <1>3. ai \in Nat /\ aj \in Nat /\ aj <= ai /\ (d > 0 => aj < ai)
    <2>1. \A m, n, k \in Nat : m < n => k * m \in Nat /\ k * n \in Nat /\ k * m <= k * n /\ (k > 0 => k * m < k * n)
      OBVIOUS
    <2>2. QED BY <1>2, <2>1
  <1>4. j \in U /\ i \notin U => ri <= rj
    BY <1>1 DEF RoundedUp
  <1>5. j \in U => rj > 0
    BY RoundedUpHasRemainder
  <1>6. d = 0 => aj = 0
    BY <1>2
  <1> HIDE DEF t, qi, qj, ri, rj, ai, aj
  <1>7. \A m, x, y, u, v \in Nat : u < m /\ v < m /\ (m * y) + v <= (m * x) + u => y <= x
    <2> SUFFICES ASSUME NEW m \in Nat, NEW x \in Nat, NEW y \in Nat, NEW u \in Nat, NEW v \in Nat,
                        u < m, v < m, (m * y) + v <= (m * x) + u, x < y
                 PROVE  FALSE
      OBVIOUS
    <2>1. m * (x + 1) <= m * y
      OBVIOUS
    <2>2. m * (x + 1) = (m * x) + m /\ m * x \in Nat /\ m * y \in Nat
      OBVIOUS
    <2>3. QED BY <2>1, <2>2
  <1>8. qj <= qi
    BY <1>1, <1>3, <1>7
  <1>9. CASE qj = qi /\ j \in U /\ i \notin U
    <2>1. t * qi \in Nat /\ t * qj \in Nat /\ t * qi = t * qj
      BY <1>1, <1>9
    <2>2. ri <= rj /\ rj > 0
      BY <1>4, <1>5, <1>9
    <2>3. ai <= aj
      BY <1>1, <2>1, <2>2
    <2>4. d = 0
      BY <1>3, <2>3
    <2>5. aj = 0
      BY <1>6, <2>4
    <2>6. QED BY <1>1, <2>1, <2>2, <2>5
  <1>10. CASE ~(qj = qi /\ j \in U /\ i \notin U)
    BY <1>1, <1>8, <1>10 DEF qi, qj
  <1>11. QED BY <1>9, <1>10

LEMMA WithinACent ==
  ASSUME NEW order, OrderOK(order), Subtotal(order) > 0, NEW d \in Nat, NEW U \in RoundedUp(d, order),
         NEW i \in DOMAIN order
  PROVE  LET share == RoundedDown(d, order, i) + (IF i \in U THEN 1 ELSE 0)
             difference == share * Subtotal(order) - d * Amount(order[i])
         IN  difference < Subtotal(order) /\ -difference < Subtotal(order)
  <1> DEFINE t == Subtotal(order)
             q == RoundedDown(d, order, i)
             r == Remainder(d, order, i)
             a == d * Amount(order[i])
  <1>1. /\ t \in Nat /\ t > 0 /\ q \in Nat /\ r \in Nat /\ r < t
        /\ a = t * q + r
    BY Shares, SubtotalType
  <1>2. i \in U => r > 0
    BY RoundedUpHasRemainder
  <1>3. q * t = t * q /\ (q + 1) * t = t * q + t /\ t * q \in Nat
    BY <1>1
  <1>4. CASE i \in U
    <2>1. (q + 1) * t - a = t - r
      <3> HIDE DEF t, q, r, a
      <3> QED BY <1>1, <1>3
    <2>2. QED
      <3> HIDE DEF r
      <3> QED BY <1>1, <1>2, <1>4, <2>1
  <1>5. CASE i \notin U
    <2>1. (q + 0) * t - a = -r
      <3> HIDE DEF t, q, r, a
      <3> QED BY <1>1, <1>3
    <2>2. QED
      <3> HIDE DEF r
      <3> QED BY <1>1, <1>5, <2>1
  <1>6. QED BY <1>4, <1>5

(* calculate_order_distributed_discount is fair, its amounts and shares      *)
(* compared.                                                                 *)
THEOREM DistributionIsFair == Spec => []FairDistribution
  <1>1. DiscountInv => FairDistribution
    <2> SUFFICES ASSUME DiscountInv, pc = "limit", NEW i \in DOMAIN items, NEW j \in DOMAIN items
        PROVE
          /\ (items[i].type # "alcohol" /\ Subtotal(items) > 0) =>
               LET difference == distribution[i] * Subtotal(items) - discount * Amount(items[i])
               IN  difference < Subtotal(items) /\ -difference < Subtotal(items)
          /\ (/\ items[i].type # "alcohol" /\ items[j].type # "alcohol"
               /\ Amount(items[i]) > Amount(items[j])) => distribution[i] >= distribution[j]
      BY DEF FairDistribution
    <2>1. /\ distribution \in Distributions(discount, items)
          /\ OrderOK(items) /\ discount \in Nat /\ Subtotal(items) \in Nat
      BY DiscountIs DEF DiscountInv
    <2>2. CASE Subtotal(items) = 0
      <3>1. distribution[i] = 0 /\ distribution[j] = 0
        BY <2>1, <2>2, NothingToDistribute
      <3>2. QED BY <2>2, <3>1
    <2>3. CASE Subtotal(items) > 0
      <3>1. PICK U \in RoundedUp(discount, items) : \A k \in DOMAIN items :
              distribution[k] = Capped(items[k], RoundedDown(discount, items, k) + (IF k \in U THEN 1 ELSE 0))
        BY <2>1, <2>3, DistributionOf
      <3>2. ASSUME NEW k \in DOMAIN items, items[k].type # "alcohol"
            PROVE  distribution[k] = RoundedDown(discount, items, k) + (IF k \in U THEN 1 ELSE 0)
        BY <3>1, <3>2 DEF Capped
      <3>3. ASSUME items[i].type # "alcohol"
            PROVE  LET difference == distribution[i] * Subtotal(items) - discount * Amount(items[i])
                   IN  difference < Subtotal(items) /\ -difference < Subtotal(items)
        BY <2>1, <2>3, <3>2, <3>3, WithinACent
      <3>4. ASSUME items[i].type # "alcohol", items[j].type # "alcohol", Amount(items[i]) > Amount(items[j])
            PROVE  distribution[j] <= distribution[i]
        BY <2>1, <2>3, <3>2, <3>4, LargerAmountGetsMore
      <3>5. distribution[i] \in Int /\ distribution[j] \in Int
        BY <2>1, <2>3, DistributionOf
      <3>6. QED BY <3>3, <3>4, <3>5
    <2>4. QED BY <2>1, <2>2, <2>3
  <1>2. QED BY <1>1, DiscountAlways, PTL
=============================================================================
