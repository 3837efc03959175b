----------------------- MODULE OrderConditionsProofs -----------------------
(***************************************************************************)
(* What the order conditions say is true, for every set of products and    *)
(* every offer: the texts, the bars and the titles agree with the fee and  *)
(* the bonus that the service answers with.                                *)
(***************************************************************************)
EXTENDS OrderConditions, DiscountingProofs

USE ProductAssumption, OfferAssumption, QuantityAssumption

-----------------------------------------------------------------------------
(* The two subtotals of a cart as sums over all products. *)

Carts == [DOMAIN Product -> Nat]

Worth(c) == [p \in DOMAIN Product |-> Product[p].price * c[p]]

BonusWorth(c) == [p \in DOMAIN Product |-> IF Product[p].type # "tobacco" THEN Worth(c)[p] ELSE 0]

LEMMA LinesOK ==
  ASSUME NEW c \in Carts, NEW p \in DOMAIN Product
  PROVE  ItemOK(Line(c, p)) /\ Amount(Line(c, p)) = Worth(c)[p] /\ Worth(c)[p] \in Nat
  <1>1. Product[p].price * c[p] \in Nat
    BY ProductNat DEF Carts
  <1>2. QED BY <1>1 DEF Carts, ItemOK, Line, Amount, Worth

LEMMA OrdersOK ==
  ASSUME NEW c \in Carts
  PROVE  /\ OrderOK(OrderOf(c)) /\ OrderOK(BonusOrder(c))
         /\ DOMAIN BonusOrder(c) = {p \in DOMAIN Product : c[p] > 0 /\ Product[p].type # "tobacco"}
         /\ DOMAIN OrderOf(c) = {p \in DOMAIN Product : c[p] > 0}
         /\ \A p \in DOMAIN OrderOf(c) : OrderOf(c)[p] = Line(c, p)
         /\ \A p \in DOMAIN BonusOrder(c) : BonusOrder(c)[p] = Line(c, p)
  <1>1. /\ DOMAIN OrderOf(c) = {p \in DOMAIN Product : c[p] > 0}
        /\ \A p \in DOMAIN OrderOf(c) : OrderOf(c)[p] = Line(c, p)
    BY DEF OrderOf
  <1>2. /\ DOMAIN BonusOrder(c) = {p \in DOMAIN Product : c[p] > 0 /\ Product[p].type # "tobacco"}
        /\ \A p \in DOMAIN BonusOrder(c) : BonusOrder(c)[p] = Line(c, p)
    BY <1>1 DEF BonusOrder, Restrict
  <1>3. IsFiniteSet(DOMAIN OrderOf(c)) /\ IsFiniteSet(DOMAIN BonusOrder(c))
    <2>1. DOMAIN OrderOf(c) \in SUBSET DOMAIN Product /\ DOMAIN BonusOrder(c) \in SUBSET DOMAIN Product
      BY <1>1, <1>2
    <2>2. QED BY <2>1, FS_Subset
  <1>4. QED BY <1>1, <1>2, <1>3, LinesOK DEF OrderOK

LEMMA SubtotalsAre ==
  ASSUME NEW c \in Carts
  PROVE  FeeSubtotal(c) = SumFunction(Worth(c)) /\ BonusSubtotal(c) = SumFunction(BonusWorth(c))
  <1>1. /\ \A p \in DOMAIN Product : c[p] = 0 \/ c[p] > 0
        /\ \A p \in DOMAIN Product : c[p] = 0 => Worth(c)[p] = 0
    BY DEF Carts, Worth
  <1>2. ASSUME NEW order, DOMAIN order \in SUBSET DOMAIN Product,
               \A p \in DOMAIN order : order[p] = Line(c, p)
        PROVE  Subtotal(order) = SumFunction([p \in DOMAIN Product |->
                                                IF p \in DOMAIN order THEN Worth(c)[p] ELSE 0])
    <2> DEFINE S == DOMAIN Product
               U == DOMAIN order
               w == [p \in U |-> Amount(order[p])]
               g == [i \in S |-> IF i \in U THEN w[i] ELSE 0]
    <2>1. \A p \in U : w[p] = Worth(c)[p]
      BY <1>2, LinesOK
    <2>2. w \in [U -> Int]
      BY <1>2, LinesOK
    <2>3. U \in SUBSET S /\ IsFiniteSet(S)
      BY <1>2
    <2>4. Subtotal(order) = SumFunction(w)
      BY DEF Subtotal
    <2>5. g = [p \in S |-> IF p \in U THEN Worth(c)[p] ELSE 0]
      BY <2>1
    <2>6. SumFunction(w) = SumFunction(g)
      <3> HIDE DEF w, S, U
      <3> QED BY <2>2, <2>3, SumWithin
    <2>7. QED BY <2>4, <2>5, <2>6
  <1>3. [p \in DOMAIN Product |-> IF p \in DOMAIN OrderOf(c) THEN Worth(c)[p] ELSE 0] = Worth(c)
    BY <1>1, OrdersOK DEF Worth
  <1>4. [p \in DOMAIN Product |-> IF p \in DOMAIN BonusOrder(c) THEN Worth(c)[p] ELSE 0] = BonusWorth(c)
    BY <1>1, OrdersOK DEF BonusWorth
  <1>5. /\ DOMAIN OrderOf(c) \in SUBSET DOMAIN Product
        /\ DOMAIN BonusOrder(c) \in SUBSET DOMAIN Product
    BY OrdersOK
  <1>6. FeeSubtotal(c) = SumFunction(Worth(c))
    BY <1>2, <1>3, <1>5, OrdersOK DEF FeeSubtotal
  <1>7. BonusSubtotal(c) = SumFunction(BonusWorth(c))
    BY <1>2, <1>4, <1>5, OrdersOK DEF BonusSubtotal
  <1>8. QED BY <1>6, <1>7

LEMMA WorthType ==
  ASSUME NEW c \in Carts
  PROVE  /\ Worth(c) \in [DOMAIN Product -> Int] /\ BonusWorth(c) \in [DOMAIN Product -> Int]
         /\ \A p \in DOMAIN Product : BonusWorth(c)[p] <= Worth(c)[p]
  BY LinesOK DEF Worth, BonusWorth

LEMMA SubtotalsType ==
  ASSUME NEW c \in Carts
  PROVE  FeeSubtotal(c) \in Nat /\ BonusSubtotal(c) \in Nat /\ BonusSubtotal(c) <= FeeSubtotal(c)
  <1>1. FeeSubtotal(c) \in Nat /\ BonusSubtotal(c) \in Nat
    BY OrdersOK, SubtotalType DEF FeeSubtotal, BonusSubtotal
  <1>2. SumFunction(BonusWorth(c)) <= SumFunction(Worth(c))
    BY WorthType, SumMonotone
  <1>3. QED BY <1>1, <1>2, SubtotalsAre

(* A cart with more in it is worth as much at least.                         *)
LEMMA SubtotalsGrow ==
  ASSUME NEW c \in Carts, NEW d \in Carts, \A p \in DOMAIN Product : c[p] <= d[p]
  PROVE  FeeSubtotal(c) <= FeeSubtotal(d) /\ BonusSubtotal(c) <= BonusSubtotal(d)
  <1>1. ASSUME NEW p \in DOMAIN Product
        PROVE  Worth(c)[p] <= Worth(d)[p] /\ BonusWorth(c)[p] <= BonusWorth(d)[p]
    <2>1. \A x, y, z \in Nat : y <= z => x * y <= x * z
      OBVIOUS
    <2>2. Product[p].price * c[p] <= Product[p].price * d[p]
      BY <2>1 DEF Carts
    <2>3. QED BY <2>2 DEF Worth, BonusWorth
  <1>2. SumFunction(Worth(c)) <= SumFunction(Worth(d))
    BY <1>1, WorthType, SumMonotone
  <1>3. SumFunction(BonusWorth(c)) <= SumFunction(BonusWorth(d))
    BY <1>1, WorthType, SumMonotone
  <1>4. QED BY <1>2, <1>3, SubtotalsAre

-----------------------------------------------------------------------------
(* What the bonus manager may apply to an order. *)

LEMMA RowsOK ==
  ASSUME NEW o \in Offers
  PROVE  /\ o.fee # Null => o.fee.value \in Nat /\ OrZero(o.fee.freeAfter) \in Nat
                             /\ o.fee.freeAfter \in Nat \cup {Null}
         /\ o.bonus # Null => o.bonus \in BonusSettings
         /\ o.gift # Null => /\ o.gift.min \in Nat
                             /\ o.gift.lessBanner \in BOOLEAN /\ o.gift.greaterBanner \in BOOLEAN
         /\ o.happy \in Nat \cup {Null} /\ o.newcomer \in BOOLEAN /\ o.legacy \in BOOLEAN
         /\ 0 # Null
  BY DEF OrZero

(* Settings that do not raise, in happy hours or not.                        *)
SoundSettings(b, h) ==
  b \in BonusSettings /\ h \in Nat \cup {Null} /\ ~NoBonus(b, h) /\ ~BonusRaises(b, h)

LEMMA AmountType ==
  ASSUME NEW b, NEW h, SoundSettings(b, h)
  PROVE  /\ b.required \in Nat /\ BonusAmount(b, h) \in Nat /\ IsPercent(b, h) \in BOOLEAN
         /\ IsIncreased(b, h) => h # Null
  <1>1. /\ b.required \in Nat /\ b.fixed \in Nat \cup {Null} /\ b.percent \in Nat \cup {Null}
        /\ b.happyOnly \in BOOLEAN
        /\ h \in Nat \cup {Null}
    BY DEF SoundSettings, BonusSettings
  <1>2. ~HappyOnly(b, h) /\ ~Truthy(b.fixed) => b.percent \in Nat
    BY <1>1 DEF SoundSettings, BonusRaises
  <1>3. HappyOnly(b, h) => h \in Nat
    BY <1>1 DEF HappyOnly, Truthy
  <1>4. Truthy(b.fixed) => b.fixed \in Nat
    BY <1>1 DEF Truthy
  <1>5. OrZero(h) \in Nat /\ OrZero(b.percent) \in Nat /\ (OrZero(h) > 0 => h # Null)
    BY <1>1 DEF OrZero
  <1>6. BonusAmount(b, h) \in Nat
    BY <1>3, <1>4, <1>5 DEF BonusAmount, Greatest
  <1>7. IsPercent(b, h) \in BOOLEAN
    BY DEF IsPercent, Truthy
  <1>8. ASSUME IsIncreased(b, h) PROVE h # Null
    BY <1>2, <1>3, <1>4, <1>5, <1>8 DEF IsIncreased
  <1>9. QED BY <1>1, <1>6, <1>7, <1>8

LEMMA NominalType ==
  ASSUME NEW b, NEW h, SoundSettings(b, h), NEW s \in Nat
  PROVE  /\ NominalBonus(b, h, s) \in Nat
         /\ s < b.required => NominalBonus(b, h, s) = 0
  <1>1. s * BonusAmount(b, h) \in Nat
    BY AmountType, ProductNat
  <1>2. (s * BonusAmount(b, h)) \div 100 \in Nat
    BY <1>1
  <1>3. QED BY <1>2, AmountType DEF NominalBonus

(* A cap only takes away, and below zero only for alcohol that was bought    *)
(* above its price.                                                          *)
LEMMA DistributedBonus ==
  ASSUME NEW order, OrderOK(order), NEW d \in Nat, NEW D \in Distributions(d, order)
  PROVE  /\ DiscountValue(D) \in Int
         /\ (\A i \in DOMAIN order :
               order[i].type = "alcohol" => order[i].purchase <= order[i].price)
              => DiscountValue(D) >= 0
         /\ Subtotal(order) = 0 => DiscountValue(D) = 0
         /\ DiscountValue(D) <= d
         /\ Subtotal(order) > 0 /\ (\A i \in DOMAIN order : order[i].type # "alcohol")
              => DiscountValue(D) = d
  <1>1. CASE Subtotal(order) = 0
    BY <1>1, NothingToDistribute
  <1>2. CASE Subtotal(order) > 0
    <2>1. PICK U \in RoundedUp(d, order) : \A i \in DOMAIN order :
            D[i] = Capped(order[i], RoundedDown(d, order, i) + (IF i \in U THEN 1 ELSE 0))
      BY <1>2, DistributionOf
    <2>2. D \in [DOMAIN order -> Int]
      BY <1>2, DistributionOf
    <2>3. ASSUME NEW i \in DOMAIN order,
                 order[i].type = "alcohol" => order[i].purchase <= order[i].price
          PROVE  D[i] >= 0
      <3>1. RoundedDown(d, order, i) + (IF i \in U THEN 1 ELSE 0) \in Nat
        BY <1>2, Shares
      <3>2. /\ ItemOK(order[i])
            /\ ~(order[i].type = "alcohol" /\ order[i].purchase > order[i].price)
        BY <2>3 DEF OrderOK, ItemOK
      <3>3. D[i] \in Int /\ ~(D[i] < 0)
        BY <2>1, <2>2, <3>1, <3>2, CappedType
      <3>4. QED BY <3>3
    <2>4. (\A i \in DOMAIN order :
             order[i].type = "alcohol" => order[i].purchase <= order[i].price)
            => DiscountValue(D) >= 0
      BY <2>2, <2>3, SumNonNegative DEF DiscountValue, OrderOK
    <2>5. QED BY <1>2, <2>2, <2>3, <2>4, DistributionOf
  <1>3. QED BY <1>1, <1>2, SubtotalType

WithMargin(c) ==
  \A p \in DOMAIN Product :
    c[p] > 0 /\ Product[p].type = "alcohol" => Product[p].purchase <= Product[p].price

LEMMA AppliedIs ==
  ASSUME NEW c \in Carts, NEW b, NEW h, SoundSettings(b, h), NEW applied \in AppliedOf(b, h, c)
  PROVE  /\ applied \in Int
         /\ WithMargin(c) => applied >= 0
         /\ BonusSubtotal(c) < b.required => applied <= 0
         /\ BonusSubtotal(c) = 0 => applied = 0
         /\ BonusSubtotal(c) > 0 /\ (\A p \in DOMAIN Product : c[p] > 0 => Product[p].type # "alcohol")
              => applied = NominalBonus(b, h, BonusSubtotal(c))
  <1> DEFINE order == BonusOrder(c)
             d == NominalBonus(b, h, BonusSubtotal(c))
  <1>1. OrderOK(order) /\ BonusSubtotal(c) = Subtotal(order) /\ Subtotal(order) \in Nat
    BY OrdersOK, SubtotalsType DEF BonusSubtotal
  <1>2. d \in Nat /\ (BonusSubtotal(c) < b.required => d = 0)
    BY <1>1, NominalType
  <1>3. PICK D \in Distributions(d, order) : applied = DiscountValue(D)
    BY <1>1 DEF AppliedOf, AppliedBonuses, SoundSettings
  <1>a. \A i \in DOMAIN order :
          i \in DOMAIN Product /\ c[i] > 0 /\ order[i] = Line(c, i)
    BY OrdersOK
  <1> HIDE DEF order, d
  <1>4. WithMargin(c) =>
          \A i \in DOMAIN order :
            order[i].type = "alcohol" => order[i].purchase <= order[i].price
    BY <1>a DEF Line, WithMargin
  <1>5. (\A p \in DOMAIN Product : c[p] > 0 => Product[p].type # "alcohol")
          => \A i \in DOMAIN order : order[i].type # "alcohol"
    BY <1>a DEF Line
  <1>6. /\ DiscountValue(D) \in Int /\ DiscountValue(D) <= d
        /\ WithMargin(c) => DiscountValue(D) >= 0
        /\ Subtotal(order) = 0 => DiscountValue(D) = 0
        /\ Subtotal(order) > 0 /\ (\A i \in DOMAIN order : order[i].type # "alcohol")
              => DiscountValue(D) = d
    BY <1>1, <1>2, <1>3, <1>4, DistributedBonus
  <1>7. QED BY <1>1, <1>2, <1>3, <1>5, <1>6 DEF d

-----------------------------------------------------------------------------
(* Every answer is the response to the last request, and every failure has  *)
(* one of two reasons.                                                      *)

Possible(o, c, w, h, r) ==
  LET settings == SettingsOf(o, w)
      bonus == BonusOf(settings, h)
  IN  /\ ~BonusRaises(settings, h)
      /\ \E low \in {0, 1}, applied \in AppliedOf(settings, h, c) :
           IF o.legacy THEN r = LegacyResponse(o, c, bonus, applied, low)
           ELSE /\ ~ComposeRaises(ChainsOf(o, c, bonus, low), o.gift, BonusSubtotal(c))
                /\ r = ComposedResponse(o, c, bonus, applied, low)

Refused(o, c, w, h) ==
  LET settings == SettingsOf(o, w)
  IN  \/ BonusRaises(settings, h)
      \/ ~o.legacy /\ \E low \in {0, 1} :
           ComposeRaises(ChainsOf(o, c, BonusOf(settings, h), low), o.gift, BonusSubtotal(c))

ConditionsInv ==
  /\ offer \in Offers
  /\ cart \in Carts
  /\ coupon \in BOOLEAN
  /\ happy \in {Null, offer.happy}
  /\ status \in {"none", "answered", "failed"}
  /\ status = "answered" => Possible(offer, cart, coupon, happy, answer)
  /\ status = "failed" => Refused(offer, cart, coupon, happy)

LEMMA ConditionsInit == Init => ConditionsInv
  <1> SUFFICES ASSUME Init PROVE ConditionsInv
    OBVIOUS
  <1>1. cart \in Carts
    BY DEF Init, Carts
  <1>2. QED BY <1>1 DEF Init, ConditionsInv

LEMMA AskKeeps ==
  ASSUME ConditionsInv, NEW c \in Carts, NEW w \in BOOLEAN, NEW h \in {Null, offer.happy}, Ask(c, w, h)
  PROVE  /\ ConditionsInv'
         /\ offer' = offer /\ cart' = c /\ coupon' = w /\ happy' = h
  <1>1. offer' = offer /\ cart' = c /\ coupon' = w /\ happy' = h
    BY DEF Ask
  <1>2. \/ status' = "failed" /\ Refused(offer, c, w, h)
        \/ status' = "answered" /\ Possible(offer, c, w, h, answer')
    BY DEF Ask, Answer, Fail, Refused, Possible
  <1>3. \/ status' = "failed" /\ Refused(offer', cart', coupon', happy')
        \/ status' = "answered" /\ Possible(offer', cart', coupon', happy', answer')
    BY <1>1, <1>2
  <1>4. QED BY <1>1, <1>3 DEF ConditionsInv

(* A request is about the cart of the last one or one with one more item.    *)
LEMMA NextAsks ==
  ASSUME ConditionsInv, Next
  PROVE  /\ ConditionsInv'
         /\ offer' = offer
         /\ cart' \in Carts /\ \A p \in DOMAIN Product : cart[p] <= cart'[p]
  <1>1. PICK w \in BOOLEAN, h \in {Null, offer.happy} :
          \/ Ask(cart, w, h)
          \/ \E p \in DOMAIN Product : Ask([cart EXCEPT ![p] = @ + 1], w, h)
    BY DEF Next
  <1>2. cart \in Carts /\ \A p \in DOMAIN Product : cart[p] <= cart[p]
    BY DEF ConditionsInv, Carts
  <1>3. CASE Ask(cart, w, h)
    BY <1>2, <1>3, AskKeeps
  <1>4. ASSUME NEW p \in DOMAIN Product, Ask([cart EXCEPT ![p] = @ + 1], w, h)
        PROVE  /\ ConditionsInv' /\ offer' = offer
               /\ cart' \in Carts /\ \A q \in DOMAIN Product : cart[q] <= cart'[q]
    <2> DEFINE d == [cart EXCEPT ![p] = @ + 1]
    <2>1. d \in Carts /\ \A q \in DOMAIN Product : cart[q] <= d[q]
      BY <1>2 DEF Carts
    <2> HIDE DEF d
    <2>2. Ask(d, w, h)
      BY <1>4 DEF d
    <2>3. QED BY <2>1, <2>2, AskKeeps
  <1>5. QED BY <1>1, <1>3, <1>4

LEMMA ConditionsNext == ConditionsInv /\ [Next]_vars => ConditionsInv'
  <1>1. CASE UNCHANGED vars
    BY <1>1 DEF ConditionsInv, vars
  <1>2. QED BY <1>1, NextAsks

LEMMA ConditionsInvariant == Spec => []ConditionsInv
  BY ConditionsInit, ConditionsNext, PTL DEF Spec

(* What the bars are told of the bonus, where there is one.                  *)
LEMMA BonusIs ==
  ASSUME NEW o \in Offers, NEW w \in BOOLEAN, NEW h \in {Null, o.happy},
         ~BonusRaises(SettingsOf(o, w), h), BonusOf(SettingsOf(o, w), h) # Null
  PROVE  /\ SettingsOf(o, w) = o.bonus /\ o.bonus # Null /\ SoundSettings(o.bonus, h)
         /\ BonusOf(SettingsOf(o, w), h).required = o.bonus.required
         /\ BonusOf(SettingsOf(o, w), h).increased = IsIncreased(o.bonus, h)
  <1>1. ~NoBonus(SettingsOf(o, w), h)
    BY DEF BonusOf
  <1>2. SettingsOf(o, w) = o.bonus /\ o.bonus # Null
    BY <1>1 DEF SettingsOf, NoBonus
  <1>3. QED BY <1>1, <1>2, RowsOK DEF SoundSettings, BonusOf

-----------------------------------------------------------------------------
(* The bars of the old version. *)

WaivedFirst(o) ==
  o.fee # Null /\ o.bonus # Null => OrZero(o.fee.freeAfter) < o.bonus.required

(* What a text may say when the two subtotals are f and s.                   *)
Honest(t, o, bonus, f, s) ==
  /\ t.type \in {"fee", "bonus", "gift"}
  /\ t.type = "fee" =>
       /\ o.fee # Null /\ ~o.newcomer
       /\ t.says = "add" => f < OrZero(o.fee.freeAfter)
       /\ t.says = "got" => f >= OrZero(o.fee.freeAfter)
  /\ t.type = "bonus" =>
       /\ bonus # Null
       /\ t.says \in {"add", "happy"} => s < bonus.required \/ s = 0
       /\ t.says = "happy" => bonus.increased
       /\ t.says = "got" => s >= bonus.required
  /\ t.type = "gift" => o.gift # Null /\ ~o.legacy

SoundBar(bar, o, bonus, f, s) ==
  /\ \A k \in DOMAIN bar.items :
       /\ Honest(bar.items[k], o, bonus, f, s)
       /\ (WaivedFirst(o) /\ o.gift = Null /\ bar.items[k].type = "bonus"
             /\ bar.value >= bar.items[k].total) => s >= bonus.required
       /\ (bar.items[k].chained /\ f = s /\ (o.fee # Null => o.fee.freeAfter # Null)) =>
            \A j \in 1..k : bar.items[j].says = "got"
  /\ bar.placeholder # Null => Honest(bar.placeholder, o, bonus, f, s)

(* Between two borders the bar stays below the second.                       *)
LEMMA MixedType ==
  ASSUME NEW left \in Nat, NEW required \in Nat, left < required, NEW f, NEW s \in Nat, s < required,
         NEW low \in {0, 1}
  PROVE  Mixed(left, required, f, s, low) \in left..required - 1
  <1> DEFINE rest == (required - left) * s
             cent == IF s > 0 THEN low ELSE 0
             top == left * required + rest - cent
  <1>1. \A x, y \in Nat : x * y \in Nat /\ (x > 0 /\ y > 0 => x * y >= x)
    OBVIOUS
  <1>2. required - left \in Nat /\ required - left > 0
    OBVIOUS
  <1>3. rest \in Nat /\ (s > 0 => rest >= 1) /\ left * required \in Nat
    BY <1>1, <1>2
  <1>4. rest <= (required - left) * (required - 1)
    <2>1. \A x, y, z \in Nat : y <= z => x * y <= x * z
      OBVIOUS
    <2>2. s <= required - 1 /\ required - 1 \in Nat
      OBVIOUS
    <2>3. QED BY <1>2, <2>1, <2>2
  <1>5. cent \in {0, 1} /\ (s = 0 => cent = 0)
    OBVIOUS
  <1>6. top \in Nat /\ top >= required * left
    <2> HIDE DEF rest, cent
    <2> QED BY <1>3, <1>5
  <1>7. top < required * required
    <2>1. (required - left) * (required - 1) = required * required - left * required - (required - left)
      OBVIOUS
    <2> DEFINE square == required * required
               side == left * required
               most == (required - left) * (required - 1)
    <2>2. square \in Nat
      BY <1>1
    <2> HIDE DEF rest, cent, square, side, most
    <2>3. most = square - side - (required - left)
      BY <2>1 DEF square, side, most
    <2>4. rest <= most /\ side \in Nat
      BY <1>3, <1>4 DEF side, most
    <2>5. side + rest - cent < square
      BY <1>2, <1>3, <1>5, <2>2, <2>3, <2>4
    <2>6. QED BY <2>5 DEF side, square
  <1>8. Mixed(left, required, f, s, low) = top \div required
    BY DEF Mixed
  <1> HIDE DEF top
  <1>9. \A x, y, n \in Nat : n > 0 /\ x >= n * y => x \div n >= y
    OBVIOUS
  <1>10. \A x, n \in Nat : n > 0 /\ x < n * n => x \div n < n /\ x \div n \in Nat
    OBVIOUS
  <1>11. required > 0
    OBVIOUS
  <1>12. QED BY <1>6, <1>7, <1>8, <1>9, <1>10, <1>11

LEMMA BonusBarSound ==
  ASSUME NEW o, NEW bonus, bonus # Null, bonus.required \in Nat,
         NEW f \in Nat, NEW s \in Nat
  PROVE  SoundBar(BonusBar(bonus, s), o, bonus, f, s)
  <1> DEFINE bar == BonusBar(bonus, s)
  <1>1. Honest(EmptyPlaceholder(bonus), o, bonus, f, s) \/ s # 0
    BY DEF Honest, EmptyPlaceholder, Placeholder
  <1>2. CASE s = 0
    <2>1. bar = Bar(s, EmptyPlaceholder(bonus), <<>>)
      BY <1>2 DEF BonusBar
    <2>2. QED BY <1>1, <1>2, <2>1 DEF SoundBar, Bar
  <1>3. CASE s # 0 /\ s < bonus.required
    <2> DEFINE text == Text("bonus", bonus.required, "add")
    <2>1. bar = Bar(s, Null, <<text>>)
      BY <1>3 DEF BonusBar
    <2>2. Honest(text, o, bonus, f, s) /\ ~text.chained /\ text.total = bonus.required
      BY <1>3 DEF Text, Honest
    <2> HIDE DEF text
    <2>3. QED BY <1>3, <2>1, <2>2 DEF SoundBar, Bar
  <1>4. CASE s # 0 /\ s >= bonus.required
    <2>1. bar = Bar(s, Placeholder("bonus", "got"), <<>>)
      BY <1>4 DEF BonusBar
    <2>2. Honest(Placeholder("bonus", "got"), o, bonus, f, s)
      BY <1>4 DEF Honest, Placeholder
    <2>3. QED BY <2>1, <2>2 DEF SoundBar, Bar
  <1>5. QED BY <1>2, <1>3, <1>4

LEMMA FeeBarSound ==
  ASSUME NEW o \in Offers, o.fee # Null, NEW bonus, NEW f \in Nat, NEW s,
         NEW charge, charge # 0 => ~o.newcomer, NEW passed,
         passed = Null \/ passed = Bar(f, Placeholder("fee", "got"), <<>>),
         FeeBar(o.fee, charge, f, passed) # Null
  PROVE  SoundBar(FeeBar(o.fee, charge, f, passed), o, bonus, f, s)
  <1>1. ~o.newcomer /\ f # 0
    BY DEF FeeBar
  <1>2. CASE f < OrZero(o.fee.freeAfter)
    <2> DEFINE text == Text("fee", o.fee.freeAfter, "add")
    <2>1. FeeBar(o.fee, charge, f, passed) = Bar(f, Null, <<text>>)
      BY <1>2 DEF FeeBar
    <2>2. Honest(text, o, bonus, f, s) /\ ~text.chained /\ text.type = "fee"
      BY <1>1, <1>2 DEF Text, Honest
    <2> HIDE DEF text
    <2>3. QED BY <2>1, <2>2 DEF SoundBar, Bar
  <1>3. CASE ~(f < OrZero(o.fee.freeAfter))
    <2>1. FeeBar(o.fee, charge, f, passed) = Bar(f, Placeholder("fee", "got"), <<>>)
      BY <1>3 DEF FeeBar
    <2>2. Honest(Placeholder("fee", "got"), o, bonus, f, s)
      BY <1>1, <1>3, RowsOK DEF Honest, Placeholder
    <2>3. QED BY <2>1, <2>2 DEF SoundBar, Bar
  <1>4. QED BY <1>2, <1>3

LEMMA FeeAndBonusBarSound ==
  ASSUME NEW o \in Offers, o.fee # Null, NEW bonus, bonus # Null, bonus.required \in Nat,
         o.bonus # Null, bonus.required = o.bonus.required,
         NEW f \in Nat, NEW s \in Nat, s <= f, NEW feePassed \in {"got", "blank"}, NEW low \in {0, 1}
  PROVE  SoundBar(FeeAndBonusBar(o.fee, bonus, o.newcomer, f, s, feePassed, low), o, bonus, f, s)
  <1> DEFINE bar == FeeAndBonusBar(o.fee, bonus, o.newcomer, f, s, feePassed, low)
             free == OrZero(o.fee.freeAfter)
  <1>1. free \in Nat
    BY RowsOK
  <1>2. CASE o.newcomer
    BY <1>2, BonusBarSound DEF FeeAndBonusBar
  <1>3. CASE ~o.newcomer /\ f = 0
    <2>1. bar = Bar(f, EmptyPlaceholder(bonus), <<>>)
      BY <1>3 DEF FeeAndBonusBar
    <2>2. Honest(EmptyPlaceholder(bonus), o, bonus, f, s)
      BY <1>3 DEF Honest, EmptyPlaceholder, Placeholder
    <2>3. QED BY <2>1, <2>2 DEF SoundBar, Bar
  <1>4. CASE ~o.newcomer /\ f # 0 /\ f < free
    <2> DEFINE first == Text("fee", free, "add")
               second == Text("bonus", bonus.required, "blank")
    <2>1. bar = Bar(f, Null, <<first, second>>)
      BY <1>4 DEF FeeAndBonusBar
    <2>2. Honest(first, o, bonus, f, s) /\ ~first.chained /\ first.type = "fee"
      BY <1>4 DEF Text, Honest
    <2>3. /\ Honest(second, o, bonus, f, s) /\ ~second.chained
          /\ second.total = o.bonus.required
      BY DEF Text, Honest
    <2>4. WaivedFirst(o) => f < o.bonus.required
      BY <1>1, <1>4 DEF WaivedFirst
    <2> HIDE DEF first, second
    <2>5. QED BY <2>1, <2>2, <2>3, <2>4 DEF SoundBar, Bar
  <1>5. CASE ~o.newcomer /\ f # 0 /\ ~(f < free) /\ s < bonus.required
    <2> DEFINE first == Text("fee", free, feePassed)
               second == Text("bonus", bonus.required, "add")
               value == IF f # s THEN Mixed(free, bonus.required, f, s, low) ELSE s
    <2>1. bar = Bar(value, Null, <<first, second>>)
      BY <1>5 DEF FeeAndBonusBar
    <2>2. Honest(first, o, bonus, f, s) /\ ~first.chained /\ first.type = "fee"
      BY <1>1, <1>5 DEF Text, Honest
    <2>3. /\ Honest(second, o, bonus, f, s) /\ ~second.chained
          /\ second.total = o.bonus.required
      BY <1>5 DEF Text, Honest
    <2>4. ASSUME WaivedFirst(o) PROVE ~(value >= o.bonus.required)
      <3>1. free < bonus.required
        BY <2>4 DEF WaivedFirst
      <3>2. Mixed(free, bonus.required, f, s, low) \in free..bonus.required - 1
        BY <1>1, <1>5, <3>1, MixedType
      <3>3. QED BY <1>1, <1>5, <3>2
    <2> HIDE DEF first, second, value
    <2>5. QED BY <2>1, <2>2, <2>3, <2>4 DEF SoundBar, Bar
  <1>6. CASE ~o.newcomer /\ f # 0 /\ ~(f < free) /\ ~(s < bonus.required)
    <2>1. bar = Bar(Greatest(f, s), Placeholder("bonus", "got"), <<>>)
      BY <1>6 DEF FeeAndBonusBar
    <2>2. Honest(Placeholder("bonus", "got"), o, bonus, f, s)
      BY <1>6 DEF Honest, Placeholder
    <2>3. QED BY <2>1, <2>2 DEF SoundBar, Bar
  <1>7. QED BY <1>2, <1>3, <1>4, <1>5, <1>6

(* What the bars are told of the bonus fits the offer.                       *)
BonusFor(o, bonus) ==
  bonus # Null => bonus.required \in Nat /\ o.bonus # Null /\ bonus.required = o.bonus.required

(* Both bars of an answer to the old version.                                *)
LEMMA LegacyBarsSound ==
  ASSUME NEW o \in Offers, NEW bonus, BonusFor(o, bonus),
         NEW f \in Nat, NEW s \in Nat, s <= f, NEW low \in {0, 1},
         NEW charge, charge # 0 => ~o.newcomer,
         NEW bar, bar # Null,
         \/ bar = CatalogBar(o.fee, charge, bonus, o.newcomer, f, s, low)
         \/ bar = CartBar(o.fee, charge, bonus, o.newcomer, f, s, low)
  PROVE  SoundBar(bar, o, bonus, f, s)
  <1>1. CASE o.fee = Null /\ bonus = Null
    BY <1>1 DEF CatalogBar, CartBar
  <1>2. CASE o.fee # Null /\ bonus = Null
    <2>1. PICK passed \in {Null, Bar(f, Placeholder("fee", "got"), <<>>)} :
            bar = FeeBar(o.fee, charge, f, passed)
      BY <1>2 DEF CatalogBar, CartBar, FeeCatalogBar, FeeCartBar
    <2>2. FeeBar(o.fee, charge, f, passed) # Null
      BY <2>1
    <2>3. SoundBar(FeeBar(o.fee, charge, f, passed), o, bonus, f, s)
      BY <1>2, <2>2, FeeBarSound
    <2>4. QED BY <2>1, <2>3
  <1>3. CASE o.fee = Null /\ bonus # Null
    <2>1. bar = BonusBar(bonus, s)
      BY <1>3 DEF CatalogBar, CartBar
    <2>2. QED BY <1>3, <2>1, BonusBarSound DEF BonusFor
  <1>4. CASE o.fee # Null /\ bonus # Null
    <2>1. \/ bar = FeeAndBonusBar(o.fee, bonus, o.newcomer, f, s, "got", low)
          \/ bar = FeeAndBonusBar(o.fee, bonus, o.newcomer, f, s, "blank", low)
      BY <1>4 DEF CatalogBar, CartBar, FeeAndBonusCatalogBar, FeeAndBonusCartBar
    <2>2. QED BY <1>4, <2>1, FeeAndBonusBarSound DEF BonusFor
  <1>5. QED BY <1>1, <1>2, <1>3, <1>4

-----------------------------------------------------------------------------
(* The chains of the new version. *)

ChainItem ==
  [type : {"fee", "bonus", "gift"}, total : Nat, says : {"add", "got"}, chained : {FALSE}]

ChainRecord == [value : Nat \cup {Null}, completed : BOOLEAN, item : ChainItem]

(* A chain tells the truth, stays below a bonus that is not got, and when    *)
(* the two subtotals are the same says what it is that they have reached.    *)
GoodChain(x, o, bonus, f, s) ==
  /\ Honest(x.item, o, bonus, f, s)
  /\ x.item.type = "bonus" => x.item.total = bonus.required
  /\ (WaivedFirst(o) /\ o.gift = Null /\ bonus # Null /\ s < bonus.required /\ x.value # Null)
       => x.value < bonus.required
  /\ f = s => /\ x.completed <=> x.item.says = "got"
              /\ x.value # Null => x.value <= f
              /\ (o.fee # Null => o.fee.freeAfter # Null) => x.value # Null

GoodChains(o, bonus, f, s) == {x \in ChainRecord : GoodChain(x, o, bonus, f, s)}

(* A border that the chain before may have.                                  *)
GoodBorder(left, o, bonus, f, s) ==
  /\ left \in Nat
  /\ (WaivedFirst(o) /\ o.gift = Null /\ bonus # Null /\ s < bonus.required) => left < bonus.required
  /\ f = s => left <= f

LEMMA LeftBorderGood ==
  ASSUME NEW o, NEW bonus, BonusFor(o, bonus), NEW f \in Nat, NEW s \in Nat, Null \notin Int,
         NEW chains \in Seq(GoodChains(o, bonus, f, s))
  PROVE  GoodBorder(LeftBorder(chains), o, bonus, f, s)
  <1>1. CASE chains = <<>>
    BY <1>1 DEF LeftBorder, GoodBorder, BonusFor
  <1>2. CASE chains # <<>>
    <2> DEFINE x == chains[Len(chains)]
    <2>1. x \in GoodChains(o, bonus, f, s)
      BY <1>2
    <2>2. LeftBorder(chains) = OrZero(x.value)
      BY <1>2 DEF LeftBorder, Last
    <2> HIDE DEF x
    <2>3. x.value \in Nat \cup {Null}
      BY <2>1 DEF GoodChains, ChainRecord
    <2>4. QED BY <2>1, <2>2, <2>3 DEF GoodChains, GoodChain, GoodBorder, BonusFor, OrZero
  <1>3. QED BY <1>1, <1>2

LEMMA FeeChainGood ==
  ASSUME NEW o \in Offers, o.fee # Null, ~o.newcomer, NEW bonus, BonusFor(o, bonus),
         NEW f \in Nat, NEW s \in Nat, s <= f
  PROVE  /\ FeeChain(o.fee, f) \in GoodChains(o, bonus, f, s)
         /\ o.fee.freeAfter # Null => FeeChain(o.fee, f).value # Null
  <1> DEFINE free == OrZero(o.fee.freeAfter)
             add == Text("fee", free, "add")
             got == Text("fee", free, "got")
  <1>1. free \in Nat /\ o.fee.freeAfter \in Nat \cup {Null} /\ f # Null
    BY RowsOK
  <1>2. o.fee.freeAfter # Null => free = o.fee.freeAfter
    BY DEF OrZero
  <1>3. WaivedFirst(o) /\ bonus # Null => free < bonus.required
    BY DEF WaivedFirst, BonusFor
  <1>4. CASE f < free
    <2> DEFINE x == Chain(f, FALSE, add)
    <2>1. FeeChain(o.fee, f) = x
      BY <1>4 DEF FeeChain
    <2>2. /\ Honest(add, o, bonus, f, s) /\ add.type = "fee" /\ add.says = "add"
          /\ add \in ChainItem
      BY <1>1, <1>4 DEF Text, ChainItem, Honest
    <2> HIDE DEF add, free
    <2>3. bonus # Null => bonus.required \in Nat
      BY DEF BonusFor
    <2>4. x \in ChainRecord /\ x.value = f /\ x.item = add /\ ~x.completed
      BY <1>1, <2>2 DEF Chain, ChainRecord
    <2> HIDE DEF x
    <2>5. x \in GoodChains(o, bonus, f, s)
      BY <1>1, <1>2, <1>3, <1>4, <2>2, <2>3, <2>4 DEF GoodChains, GoodChain
    <2>6. QED BY <1>1, <1>2, <2>1, <2>4, <2>5
  <1>5. CASE ~(f < free)
    <2> DEFINE x == Chain(o.fee.freeAfter, TRUE, got)
    <2>1. FeeChain(o.fee, f) = x
      BY <1>5 DEF FeeChain
    <2>2. /\ Honest(got, o, bonus, f, s) /\ got.type = "fee" /\ got.says = "got"
          /\ got \in ChainItem
      BY <1>1, <1>5 DEF Text, ChainItem, Honest
    <2> HIDE DEF got, free
    <2>3. bonus # Null => bonus.required \in Nat
      BY DEF BonusFor
    <2>4. x \in ChainRecord /\ x.value = o.fee.freeAfter /\ x.item = got /\ x.completed
      BY <1>1, <2>2 DEF Chain, ChainRecord
    <2> HIDE DEF x
    <2>5. x \in GoodChains(o, bonus, f, s)
      BY <1>1, <1>2, <1>3, <1>5, <2>2, <2>3, <2>4 DEF GoodChains, GoodChain
    <2>6. QED BY <1>1, <1>2, <2>1, <2>4, <2>5
  <1>6. QED BY <1>4, <1>5

LEMMA BonusChainGood ==
  ASSUME NEW o \in Offers, NEW bonus, bonus # Null, BonusFor(o, bonus),
         NEW f \in Nat, NEW s \in Nat, NEW low \in {0, 1},
         NEW left, GoodBorder(left, o, bonus, f, s)
  PROVE  /\ BonusChain(left, bonus, f, s, low) \in GoodChains(o, bonus, f, s)
         /\ s >= left => BonusChain(left, bonus, f, s, low).value # Null
  <1> DEFINE required == bonus.required
             item == Text("bonus", required, IF s < required THEN "add" ELSE "got")
             chain == BonusChain(left, bonus, f, s, low)
             value == IF f # s THEN Mixed(left, required, f, s, low) ELSE s
  <1>1. required \in Nat /\ left \in Nat
    BY DEF BonusFor, GoodBorder
  <1>2. /\ Honest(item, o, bonus, f, s) /\ item.type = "bonus" /\ item.total = required
        /\ item.says = IF s < required THEN "add" ELSE "got"
        /\ item \in ChainItem
    BY <1>1 DEF Text, ChainItem, Honest
  <1>3. CASE s < left
    <2> DEFINE x == Chain(Null, FALSE, item)
    <2>1. chain = x
      BY <1>3 DEF BonusChain
    <2>2. f # s
      BY <1>1, <1>3 DEF GoodBorder
    <2> HIDE DEF item
    <2>3. x \in ChainRecord /\ x.value = Null /\ x.item = item /\ ~x.completed
      BY <1>1, <1>2 DEF Chain, ChainRecord
    <2> HIDE DEF x
    <2>4. x \in GoodChains(o, bonus, f, s)
      BY <1>1, <1>2, <1>3, <2>2, <2>3 DEF GoodChains, GoodChain
    <2>5. QED BY <1>1, <1>3, <2>1, <2>3, <2>4
  <1>4. CASE ~(s < left) /\ s >= required
    <2> DEFINE x == Chain(required, TRUE, item)
    <2>1. chain = x
      BY <1>4 DEF BonusChain
    <2> HIDE DEF item
    <2>2. x \in ChainRecord /\ x.value = required /\ x.item = item /\ x.completed
      BY <1>1, <1>2 DEF Chain, ChainRecord
    <2> HIDE DEF x
    <2>3. x \in GoodChains(o, bonus, f, s)
      BY <1>1, <1>2, <1>4, <2>2 DEF GoodChains, GoodChain
    <2>4. QED BY <1>1, <2>1, <2>2, <2>3
  <1>5. CASE ~(s < left) /\ ~(s >= required)
    <2> DEFINE x == Chain(value, FALSE, item)
    <2>1. chain = x
      BY <1>5 DEF BonusChain
    <2>2. Mixed(left, required, f, s, low) \in left..required - 1
      BY <1>1, <1>5, MixedType
    <2>3. value \in Nat /\ value < required /\ (f = s => value = s)
      BY <1>1, <1>5, <2>2
    <2> HIDE DEF item, value
    <2>4. x \in ChainRecord /\ x.value = value /\ x.item = item /\ ~x.completed
      BY <1>1, <1>2, <2>3 DEF Chain, ChainRecord
    <2> HIDE DEF x
    <2>5. x \in GoodChains(o, bonus, f, s)
      BY <1>1, <1>2, <1>5, <2>3, <2>4 DEF GoodChains, GoodChain
    <2>6. QED BY <1>1, <2>1, <2>3, <2>4, <2>5
  <1>6. QED BY <1>1, <1>3, <1>4, <1>5

LEMMA GiftChainGood ==
  ASSUME NEW o \in Offers, o.gift # Null, ~o.legacy, NEW bonus, BonusFor(o, bonus),
         NEW f \in Nat, NEW s \in Nat, NEW left, GoodBorder(left, o, bonus, f, s)
  PROVE  /\ GiftChain(left, o.gift, f, s) \in GoodChains(o, bonus, f, s)
         /\ f >= left => GiftChain(left, o.gift, f, s).value # Null
  <1> DEFINE min == o.gift.min
             item == Text("gift", min, IF s < min THEN "add" ELSE "got")
             chain == GiftChain(left, o.gift, f, s)
  <1>1. min \in Nat /\ left \in Nat
    BY RowsOK DEF GoodBorder
  <1>2. /\ Honest(item, o, bonus, f, s) /\ item.type = "gift"
        /\ item.says = IF s < min THEN "add" ELSE "got"
        /\ item \in ChainItem
    BY <1>1 DEF Text, ChainItem, Honest
  <1>3. CASE f < left
    <2> DEFINE x == Chain(Null, FALSE, item)
    <2>1. chain = x
      BY <1>3 DEF GiftChain
    <2>2. f # s
      BY <1>1, <1>3 DEF GoodBorder
    <2> HIDE DEF item
    <2>3. x \in ChainRecord /\ x.value = Null /\ x.item = item /\ ~x.completed
      BY <1>1, <1>2 DEF Chain, ChainRecord
    <2> HIDE DEF x
    <2>4. x \in GoodChains(o, bonus, f, s)
      BY <1>1, <1>2, <1>3, <2>2, <2>3 DEF GoodChains, GoodChain
    <2>5. QED BY <1>1, <1>3, <2>1, <2>3, <2>4
  <1>4. CASE ~(f < left) /\ f < min
    <2> DEFINE x == Chain(f, FALSE, item)
    <2>1. chain = x
      BY <1>4 DEF GiftChain
    <2> HIDE DEF item
    <2>2. x \in ChainRecord /\ x.value = f /\ x.item = item /\ ~x.completed
      BY <1>1, <1>2 DEF Chain, ChainRecord
    <2> HIDE DEF x
    <2>3. x \in GoodChains(o, bonus, f, s)
      BY <1>1, <1>2, <1>4, <2>2 DEF GoodChains, GoodChain
    <2>4. QED BY <1>1, <2>1, <2>2, <2>3
  <1>5. CASE ~(f < left) /\ ~(f < min)
    <2> DEFINE x == Chain(min, TRUE, item)
    <2>1. chain = x
      BY <1>5 DEF GiftChain
    <2> HIDE DEF item
    <2>2. x \in ChainRecord /\ x.value = min /\ x.item = item /\ x.completed
      BY <1>1, <1>2 DEF Chain, ChainRecord
    <2> HIDE DEF x
    <2>3. x \in GoodChains(o, bonus, f, s)
      BY <1>1, <1>2, <1>5, <2>2 DEF GoodChains, GoodChain
    <2>4. QED BY <1>1, <2>1, <2>2, <2>3
  <1>6. QED BY <1>1, <1>3, <1>4, <1>5

FirstHasValue(chains) == chains # <<>> => chains[1].value # Null

LEMMA AppendedChain ==
  ASSUME NEW S, NEW chains \in Seq(S), NEW x \in S, FirstHasValue(chains),
         chains = <<>> => x.value # Null
  PROVE  Append(chains, x) \in Seq(S) /\ FirstHasValue(Append(chains, x))
  <1>1. Append(chains, x) \in Seq(S)
    OBVIOUS
  <1>2. CASE chains = <<>>
    <2>1. Append(chains, x)[1] = x
      BY <1>2
    <2>2. QED BY <1>1, <1>2, <2>1 DEF FirstHasValue
  <1>3. CASE chains # <<>>
    <2>1. Append(chains, x)[1] = chains[1]
      BY <1>3
    <2>2. QED BY <1>1, <1>3, <2>1 DEF FirstHasValue
  <1>4. QED BY <1>2, <1>3

LEMMA ChainsGood ==
  ASSUME NEW o \in Offers, ~o.legacy, NEW bonus, BonusFor(o, bonus),
         NEW f \in Nat, NEW s \in Nat, s <= f, NEW low \in {0, 1}
  PROVE  /\ Chains(o.fee, bonus, o.gift, o.newcomer, f, s, low) \in Seq(GoodChains(o, bonus, f, s))
         /\ (o.fee # Null => o.fee.freeAfter # Null)
              => FirstHasValue(Chains(o.fee, bonus, o.gift, o.newcomer, f, s, low))
  <1> DEFINE Good == GoodChains(o, bonus, f, s)
             complete == o.fee # Null => o.fee.freeAfter # Null
             withBonus == bonus # Null /\ (o.gift = Null \/ bonus.required < o.gift.min)
             first == IF o.fee # Null /\ ~o.newcomer THEN <<FeeChain(o.fee, f)>> ELSE <<>>
             second == IF withBonus
                       THEN Append(first, BonusChain(LeftBorder(first), bonus, f, s, low)) ELSE first
             third == IF o.gift # Null
                      THEN Append(second, GiftChain(LeftBorder(second), o.gift, f, s)) ELSE second
  <1>1. Chains(o.fee, bonus, o.gift, o.newcomer, f, s, low) = third
    BY DEF Chains
  <1>2. first \in Seq(Good) /\ (complete => FirstHasValue(first))
    <2>1. CASE o.fee # Null /\ ~o.newcomer
      <3> DEFINE x == FeeChain(o.fee, f)
      <3>1. x \in Good /\ (complete => x.value # Null)
        BY <2>1, FeeChainGood
      <3>2. first = <<x>>
        BY <2>1
      <3> HIDE DEF x, Good, first
      <3>3. QED BY <3>1, <3>2 DEF FirstHasValue
    <2>2. CASE ~(o.fee # Null /\ ~o.newcomer)
      <3>1. first = <<>>
        BY <2>2
      <3> HIDE DEF Good, first
      <3>2. QED BY <3>1 DEF FirstHasValue
    <2>3. QED BY <2>1, <2>2
  <1>3. ASSUME NEW chains \in Seq(Good)
        PROVE  GoodBorder(LeftBorder(chains), o, bonus, f, s)
    BY <1>3, LeftBorderGood
  <1>4. LeftBorder(<<>>) = 0
    BY DEF LeftBorder
  <1> HIDE DEF first
  <1>5. second \in Seq(Good) /\ (complete => FirstHasValue(second))
    <2>1. CASE withBonus
      <3> DEFINE x == BonusChain(LeftBorder(first), bonus, f, s, low)
      <3>1. GoodBorder(LeftBorder(first), o, bonus, f, s)
        BY <1>2, <1>3
      <3>2. x \in Good /\ (s >= LeftBorder(first) => x.value # Null)
        BY <2>1, <3>1, BonusChainGood
      <3>3. first = <<>> => x.value # Null
        BY <1>4, <3>2
      <3>4. second = Append(first, x)
        BY <2>1
      <3> HIDE DEF x, Good, second, complete
      <3>5. Append(first, x) \in Seq(Good)
        BY <1>2, <3>2
      <3>6. QED BY <1>2, <3>2, <3>3, <3>4, <3>5, AppendedChain
    <2>2. CASE ~withBonus
      BY <1>2, <2>2
    <2>3. QED BY <2>1, <2>2
  <1> HIDE DEF second
  <1>6. third \in Seq(Good) /\ (complete => FirstHasValue(third))
    <2>1. CASE o.gift # Null
      <3> DEFINE x == GiftChain(LeftBorder(second), o.gift, f, s)
      <3>1. GoodBorder(LeftBorder(second), o, bonus, f, s)
        BY <1>3, <1>5
      <3>2. x \in Good /\ (f >= LeftBorder(second) => x.value # Null)
        BY <2>1, <3>1, GiftChainGood
      <3>3. second = <<>> => x.value # Null
        BY <1>4, <3>2
      <3>4. third = Append(second, x)
        BY <2>1
      <3> HIDE DEF x, Good, third, complete
      <3>5. Append(second, x) \in Seq(Good)
        BY <1>5, <3>2
      <3>6. QED BY <1>5, <3>2, <3>3, <3>4, <3>5, AppendedChain
    <2>2. CASE ~(o.gift # Null)
      BY <1>5, <2>2
    <2>3. QED BY <2>1, <2>2
  <1> HIDE DEF third
  <1>7. QED BY <1>1, <1>6

(* The last chain with a value exists.                                       *)
LEMMA MaxIs ==
  ASSUME NEW n \in Nat, NEW S \in SUBSET 1..n, S # {}
  PROVE  Max(S) \in S /\ \A k \in S : k <= Max(S)
  <1> DEFINE above == {m \in Nat : \A k \in S : k <= m}
  <1>1. n \in above
    OBVIOUS
  <1>2. PICK m \in above : \A k \in above : m <= k
    BY <1>1, LeastNumber
  <1>3. m \in S
    <2>1. SUFFICES ASSUME m \notin S PROVE FALSE
      OBVIOUS
    <2>2. PICK k \in S : TRUE
      OBVIOUS
    <2>3. m >= 1 /\ \A j \in S : j <= m - 1
      BY <1>2, <2>1, <2>2
    <2>4. m - 1 \in above
      BY <1>2, <2>3
    <2>5. QED BY <1>2, <2>4
  <1>4. \A k \in S : m >= k
    BY <1>2
  <1>5. Max(S) \in S /\ \A k \in S : Max(S) >= k
    BY <1>3, <1>4, Zenon DEF Max
  <1>6. QED BY <1>5

(* The bar of the new version: the last value there is, and what every chain *)
(* says, in their order.                                                     *)
LEMMA ComposedBarIs ==
  ASSUME NEW S, S \in SUBSET ChainRecord, NEW chains \in Seq(S), NEW gift, NEW s,
         ~ComposeRaises(chains, gift, s), ComposedBar(chains) # Null
  PROVE  /\ ComposedBar(chains).placeholder = Null
         /\ DOMAIN ComposedBar(chains).items = DOMAIN chains
         /\ \A k \in DOMAIN chains :
              /\ ComposedBar(chains).items[k].type = chains[k].item.type
              /\ ComposedBar(chains).items[k].total = chains[k].item.total
              /\ ComposedBar(chains).items[k].says = chains[k].item.says
              /\ ComposedBar(chains).items[k].chained =
                   (/\ k <= Cardinality(WithValue(chains))
                    /\ \A i \in FirstOf(k, WithValue(chains)) : chains[i].completed)
         /\ \E k \in WithValue(chains) : /\ ComposedBar(chains).value = chains[k].value
                                         /\ \A i \in WithValue(chains) : i <= k
  <1>1. chains # <<>> /\ WithValue(chains) # {}
    BY DEF ComposeRaises, ComposedBar
  <1>2. WithValue(chains) \in SUBSET 1..Len(chains) /\ Len(chains) \in Nat
    BY DEF WithValue
  <1>3. /\ Max(WithValue(chains)) \in WithValue(chains)
        /\ \A k \in WithValue(chains) : k <= Max(WithValue(chains))
    BY <1>1, <1>2, MaxIs
  <1> DEFINE items == Titled(chains)
  <1>4. /\ ComposedBar(chains).value = chains[Max(WithValue(chains))].value
        /\ ComposedBar(chains).placeholder = Null
        /\ ComposedBar(chains).items = items
    BY <1>1 DEF ComposedBar, Bar
  <1>5. DOMAIN items = DOMAIN chains
    BY DEF Titled
  <1>6. ASSUME NEW k \in DOMAIN chains
        PROVE  /\ items[k].type = chains[k].item.type
               /\ items[k].total = chains[k].item.total
               /\ items[k].says = chains[k].item.says
               /\ items[k].chained = (/\ k <= Cardinality(WithValue(chains))
                                      /\ \A i \in FirstOf(k, WithValue(chains)) : chains[i].completed)
    <2> DEFINE joined == /\ k <= Cardinality(WithValue(chains))
                         /\ \A i \in FirstOf(k, WithValue(chains)) : chains[i].completed
               item == chains[k].item
    <2>1. items[k] = [item EXCEPT !.chained = joined]
      BY DEF Titled
    <2>2. item \in ChainItem
      <3>1. chains[k] \in ChainRecord
        OBVIOUS
      <3>2. QED BY <3>1 DEF ChainRecord
    <2> HIDE DEF joined, item, items
    <2>3. /\ items[k].type = item.type /\ items[k].total = item.total /\ items[k].says = item.says
          /\ items[k].chained = joined
      BY <2>1, <2>2 DEF ChainItem
    <2>4. QED BY <2>3 DEF joined, item
  <1> HIDE DEF items
  <1>7. QED BY <1>3, <1>4, <1>5, <1>6

LEMMA ComposedBarSound ==
  ASSUME NEW o, NEW bonus, BonusFor(o, bonus), NEW f \in Nat, NEW s \in Nat,
         NEW chains \in Seq(GoodChains(o, bonus, f, s)),
         ~ComposeRaises(chains, o.gift, s), ComposedBar(chains) # Null
  PROVE  SoundBar(ComposedBar(chains), o, bonus, f, s)
  <1> DEFINE bar == ComposedBar(chains)
  <1>1. GoodChains(o, bonus, f, s) \in SUBSET ChainRecord
    BY DEF GoodChains
  <1>2. /\ bar.placeholder = Null
        /\ DOMAIN bar.items = DOMAIN chains
        /\ \A k \in DOMAIN chains :
             /\ bar.items[k].type = chains[k].item.type
             /\ bar.items[k].total = chains[k].item.total
             /\ bar.items[k].says = chains[k].item.says
             /\ bar.items[k].chained =
                  (/\ k <= Cardinality(WithValue(chains))
                   /\ \A i \in FirstOf(k, WithValue(chains)) : chains[i].completed)
        /\ \E k \in WithValue(chains) : bar.value = chains[k].value
    BY <1>1, ComposedBarIs
  <1> HIDE DEF bar
  <1>3. \A k \in DOMAIN chains : chains[k] \in GoodChains(o, bonus, f, s)
    OBVIOUS
  <1>4. PICK last \in WithValue(chains) : bar.value = chains[last].value
    BY <1>2
  <1>5. /\ last \in DOMAIN chains /\ bar.value # Null /\ bar.value \in Nat
        /\ chains[last] \in GoodChains(o, bonus, f, s)
    BY <1>3, <1>4 DEF WithValue, GoodChains, ChainRecord
  <1>6. ASSUME NEW k \in DOMAIN chains
        PROVE  Honest(bar.items[k], o, bonus, f, s)
    <2>1. Honest(chains[k].item, o, bonus, f, s)
      BY <1>3 DEF GoodChains, GoodChain
    <2>2. bar.items[k].type = chains[k].item.type /\ bar.items[k].says = chains[k].item.says
      BY <1>2
    <2>3. QED BY <2>1, <2>2 DEF Honest
  <1>7. ASSUME NEW k \in DOMAIN chains, WaivedFirst(o), o.gift = Null, bar.items[k].type = "bonus",
               bar.value >= bar.items[k].total
        PROVE  s >= bonus.required
    <2>1. chains[k].item.type = "bonus" /\ bar.value >= chains[k].item.total
      BY <1>2, <1>7
    <2>2. bonus # Null /\ chains[k].item.total = bonus.required
      BY <1>3, <2>1 DEF GoodChains, GoodChain, Honest
    <2>3. s < bonus.required => bar.value < bonus.required
      BY <1>4, <1>5, <1>7, <2>2 DEF GoodChains, GoodChain
    <2>4. bonus.required \in Nat
      BY <2>2 DEF BonusFor
    <2>5. QED BY <1>5, <2>1, <2>2, <2>3, <2>4
  <1>8. ASSUME NEW k \in DOMAIN chains, bar.items[k].chained, f = s,
               o.fee # Null => o.fee.freeAfter # Null, NEW j \in 1..k
        PROVE  bar.items[j].says = "got"
    <2>1. k \in 1..Len(chains) /\ Len(chains) \in Nat /\ DOMAIN chains = 1..Len(chains)
      OBVIOUS
    <2>2. j \in DOMAIN chains
      BY <2>1
    <2>3. WithValue(chains) = 1..Len(chains)
      BY <1>3, <1>8, <2>1 DEF WithValue, GoodChains, GoodChain
    <2>4. {i \in WithValue(chains) : i < j} = 1..j - 1
      BY <2>1, <2>2, <2>3
    <2>5. Cardinality(1..j - 1) = j - 1
      BY <2>1, FS_Interval
    <2>6. j \in FirstOf(k, WithValue(chains))
      <3>1. Cardinality({i \in WithValue(chains) : i < j}) = j - 1
        BY <2>4, <2>5
      <3>2. j - 1 < k /\ j \in WithValue(chains)
        BY <2>1, <2>2, <2>3
      <3>3. QED BY <3>1, <3>2 DEF FirstOf
    <2>7. chains[j].completed
      BY <1>2, <1>8, <2>6
    <2>8. chains[j].item.says = "got"
      BY <1>3, <1>8, <2>2, <2>7 DEF GoodChains, GoodChain
    <2>9. QED BY <1>2, <2>2, <2>8
  <1>9. QED BY <1>2, <1>6, <1>7, <1>8 DEF SoundBar, bar

-----------------------------------------------------------------------------
(* What holds of every answer. *)

BonusNow == BonusOf(SettingsOf(offer, coupon), happy)

LEMMA BonusForNow ==
  ASSUME ConditionsInv, ~BonusRaises(SettingsOf(offer, coupon), happy)
  PROVE  /\ BonusFor(offer, BonusNow)
         /\ BonusNow # Null =>
              /\ SettingsOf(offer, coupon) = offer.bonus /\ SoundSettings(offer.bonus, happy)
              /\ BonusNow.increased = IsIncreased(offer.bonus, happy)
  <1>1. CASE BonusNow = Null
    BY <1>1 DEF BonusFor
  <1>2. CASE BonusNow # Null
    <2>1. /\ SettingsOf(offer, coupon) = offer.bonus /\ offer.bonus # Null
          /\ SoundSettings(offer.bonus, happy) /\ BonusNow.required = offer.bonus.required
          /\ BonusNow.increased = IsIncreased(offer.bonus, happy)
      BY <1>2, BonusIs DEF ConditionsInv, BonusNow
    <2>2. offer.bonus.required \in Nat
      BY <2>1, AmountType
    <2>3. QED BY <1>2, <2>1, <2>2 DEF BonusFor
  <1>3. QED BY <1>1, <1>2

LEMMA AnswerIs ==
  ASSUME ConditionsInv, Answered
  PROVE  /\ ~BonusRaises(SettingsOf(offer, coupon), happy)
         /\ answer.fee = ChargeOf(offer, cart)
         /\ answer.bonus \in AppliedOf(SettingsOf(offer, coupon), happy, cart)
         /\ \A bar \in Bars : SoundBar(bar, offer, BonusNow, FeeSubtotal(cart), BonusSubtotal(cart))
         /\ BarExplained
  <1> DEFINE f == FeeSubtotal(cart)
             s == BonusSubtotal(cart)
             charge == ChargeOf(offer, cart)
  <1>1. f \in Nat /\ s \in Nat /\ s <= f
    BY SubtotalsType DEF ConditionsInv
  <1>2. Possible(offer, cart, coupon, happy, answer)
    BY DEF ConditionsInv, Answered
  <1>3. ~BonusRaises(SettingsOf(offer, coupon), happy)
    BY <1>2 DEF Possible
  <1>4. BonusFor(offer, BonusNow)
    BY <1>3, BonusForNow
  <1>5. PICK low \in {0, 1}, applied \in AppliedOf(SettingsOf(offer, coupon), happy, cart) :
          IF offer.legacy THEN answer = LegacyResponse(offer, cart, BonusNow, applied, low)
          ELSE /\ ~ComposeRaises(ChainsOf(offer, cart, BonusNow, low), offer.gift, s)
               /\ answer = ComposedResponse(offer, cart, BonusNow, applied, low)
    BY <1>2 DEF Possible, BonusNow
  <1>6. charge # 0 => offer.fee # Null /\ ~offer.newcomer
    BY DEF ChargeOf, Charge
  <1>7. CASE offer.legacy
    <2>1. /\ answer.fee = charge /\ answer.bonus = applied
          /\ answer.catalog = CatalogBar(offer.fee, charge, BonusNow, offer.newcomer, f, s, low)
          /\ answer.cart = CartBar(offer.fee, charge, BonusNow, offer.newcomer, f, s, low)
          /\ answer.conditions = LegacyConditions(offer.fee, BonusNow, offer.newcomer)
      BY <1>5, <1>7 DEF LegacyResponse, Response
    <2>2. ASSUME NEW bar \in Bars
          PROVE  SoundBar(bar, offer, BonusNow, f, s)
      <3>1. /\ bar # Null
            /\ \/ bar = CatalogBar(offer.fee, charge, BonusNow, offer.newcomer, f, s, low)
               \/ bar = CartBar(offer.fee, charge, BonusNow, offer.newcomer, f, s, low)
        BY <2>1 DEF Bars
      <3> HIDE DEF f, s, charge
      <3>2. offer \in Offers
        BY DEF ConditionsInv
      <3>3. QED BY <1>1, <1>4, <1>6, <3>1, <3>2, LegacyBarsSound
    <2>3. ASSUME NEW bar \in Bars, NEW t \in Texts(bar)
          PROVE  t.type \in answer.conditions
      <3>1. Honest(t, offer, BonusNow, f, s)
        BY <2>2 DEF SoundBar, Texts
      <3>2. \/ t.type = "fee" /\ offer.fee # Null /\ ~offer.newcomer
            \/ t.type = "bonus" /\ BonusNow # Null
        BY <1>7, <3>1 DEF Honest
      <3>3. QED BY <2>1, <3>2 DEF LegacyConditions
    <2>4. QED BY <1>3, <2>1, <2>2, <2>3 DEF BarExplained
  <1>8. CASE ~offer.legacy
    <2> DEFINE chains == ChainsOf(offer, cart, BonusNow, low)
    <2>1. /\ ~ComposeRaises(chains, offer.gift, s)
          /\ answer.fee = charge /\ answer.bonus = applied
          /\ answer.catalog = ComposedBar(chains) /\ answer.cart = ComposedBar(chains)
          /\ answer.conditions = ComposedConditions(chains)
      BY <1>5, <1>8 DEF ComposedResponse, Response
    <2>2. chains \in Seq(GoodChains(offer, BonusNow, f, s))
      <3> HIDE DEF f, s
      <3>1. offer \in Offers
        BY DEF ConditionsInv
      <3>2. Chains(offer.fee, BonusNow, offer.gift, offer.newcomer, f, s, low)
              \in Seq(GoodChains(offer, BonusNow, f, s))
        BY <1>1, <1>4, <1>8, <3>1, ChainsGood
      <3>3. QED BY <3>2 DEF ChainsOf, f, s
    <2> HIDE DEF chains
    <2>3. ASSUME NEW bar \in Bars
          PROVE  SoundBar(bar, offer, BonusNow, f, s) /\ \A t \in Texts(bar) : t.type \in answer.conditions
      <3>1. bar = ComposedBar(chains) /\ bar # Null
        BY <2>1 DEF Bars
      <3>2. SoundBar(bar, offer, BonusNow, f, s)
        <4> HIDE DEF f, s
        <4> QED BY <1>1, <1>4, <2>1, <2>2, <3>1, ComposedBarSound
      <3>3. ASSUME NEW t \in Texts(bar) PROVE t.type \in answer.conditions
        <4>1. GoodChains(offer, BonusNow, f, s) \in SUBSET ChainRecord
          BY DEF GoodChains
        <4>2. /\ bar.placeholder = Null /\ DOMAIN bar.items = DOMAIN chains
              /\ \A k \in DOMAIN chains : bar.items[k].type = chains[k].item.type
          BY <2>1, <2>2, <3>1, <4>1, ComposedBarIs
        <4>3. PICK k \in DOMAIN chains : t = bar.items[k]
          BY <4>2 DEF Texts
        <4>4. QED BY <2>1, <4>2, <4>3 DEF ComposedConditions
      <3>4. QED BY <3>2, <3>3
    <2>4. QED BY <1>3, <2>1, <2>3 DEF BarExplained
  <1>9. QED BY <1>7, <1>8

-----------------------------------------------------------------------------
(* The invariants. *)

(* Whatever a bar talks about, the order conditions beside it explain.       *)
THEOREM BarsAreExplained == Spec => []BarExplained
  <1>1. ConditionsInv => BarExplained
    <2>1. CASE Answered
      BY <2>1, AnswerIs
    <2>2. CASE ~Answered
      BY <2>2 DEF BarExplained
    <2>3. QED BY <2>1, <2>2
  <1>2. QED BY <1>1, ConditionsInvariant, PTL

(* What is said of the fee is what is charged.                               *)
LEMMA FeeTextIsTrue == ConditionsInv => FeeTextTrue
  <1> SUFFICES ASSUME ConditionsInv, Answered, NEW bar \in Bars, NEW t \in Texts(bar), t.type = "fee"
               PROVE  /\ t.says = "add" => answer.fee = offer.fee.value
                      /\ t.says = "got" /\ Truthy(offer.fee.freeAfter) => answer.fee = 0
    BY DEF FeeTextTrue
  <1> DEFINE f == FeeSubtotal(cart)
             s == BonusSubtotal(cart)
  <1>1. SoundBar(bar, offer, BonusNow, f, s) /\ answer.fee = ChargeOf(offer, cart)
    BY AnswerIs
  <1>2. Honest(t, offer, BonusNow, f, s)
    BY <1>1 DEF SoundBar, Texts
  <1>3. f \in Nat
    BY SubtotalsType DEF ConditionsInv
  <1>4. offer.fee # Null /\ ~offer.newcomer
    BY <1>2 DEF Honest
  <1>5. answer.fee = IF Truthy(offer.fee.freeAfter) /\ f >= offer.fee.freeAfter
                     THEN 0 ELSE offer.fee.value
    BY <1>1, <1>4 DEF ChargeOf, Charge
  <1>6. offer.fee.freeAfter \in Nat \cup {Null} /\ OrZero(offer.fee.freeAfter) \in Nat
    BY <1>4, RowsOK DEF ConditionsInv
  <1>7. Truthy(offer.fee.freeAfter) => OrZero(offer.fee.freeAfter) = offer.fee.freeAfter
    BY DEF Truthy, OrZero
  <1>8. t.says = "add" => f < OrZero(offer.fee.freeAfter)
    BY <1>2 DEF Honest
  <1>9. t.says = "got" => f >= OrZero(offer.fee.freeAfter)
    BY <1>2 DEF Honest
  <1> HIDE DEF f
  <1>10. QED BY <1>3, <1>5, <1>6, <1>7, <1>8, <1>9

(* What is said of the bonus is what is applied.                             *)
LEMMA BonusTextIsTrue == ConditionsInv => BonusTextTrue
  <1> SUFFICES ASSUME ConditionsInv, Answered, NEW bar \in Bars, NEW t \in Texts(bar), t.type = "bonus"
               PROVE  /\ t.says \in {"add", "happy"} =>
                           answer.bonus <= 0 /\ (BoughtAbovePrice \/ answer.bonus = 0)
                      /\ t.says = "happy" => happy # Null
                      /\ (/\ t.says = "got" /\ ACentAtLeast
                          /\ \A p \in DOMAIN Product : cart[p] > 0 => Product[p].type # "alcohol")
                           => answer.bonus > 0
    BY DEF BonusTextTrue
  <1> DEFINE s == BonusSubtotal(cart)
             b == offer.bonus
  <1>1. /\ SoundBar(bar, offer, BonusNow, FeeSubtotal(cart), s)
        /\ answer.bonus \in AppliedOf(SettingsOf(offer, coupon), happy, cart)
        /\ ~BonusRaises(SettingsOf(offer, coupon), happy)
    BY AnswerIs
  <1>2. Honest(t, offer, BonusNow, FeeSubtotal(cart), s)
    BY <1>1 DEF SoundBar, Texts
  <1>3. BonusNow # Null
    BY <1>2 DEF Honest
  <1>4. /\ SettingsOf(offer, coupon) = b /\ SoundSettings(b, happy)
        /\ BonusNow.required = b.required /\ BonusNow.increased = IsIncreased(b, happy)
    BY <1>1, <1>3, BonusForNow DEF BonusFor
  <1>5. s \in Nat /\ cart \in Carts
    BY SubtotalsType DEF ConditionsInv
  <1>6. /\ answer.bonus \in Int
        /\ WithMargin(cart) => answer.bonus >= 0
        /\ s < b.required => answer.bonus <= 0
        /\ s = 0 => answer.bonus = 0
        /\ s > 0 /\ (\A p \in DOMAIN Product : cart[p] > 0 => Product[p].type # "alcohol")
             => answer.bonus = NominalBonus(b, happy, s)
    BY <1>1, <1>4, <1>5, AppliedIs
  <1>7. t.says \in {"add", "happy"} =>
          answer.bonus <= 0 /\ (BoughtAbovePrice \/ answer.bonus = 0)
    <2>1. t.says \in {"add", "happy"} => s < b.required \/ s = 0
      BY <1>2, <1>4 DEF Honest
    <2>2. BoughtAbovePrice \/ WithMargin(cart)
      BY DEF BoughtAbovePrice, WithMargin
    <2>3. QED BY <1>6, <2>1, <2>2
  <1>8. t.says = "happy" => happy # Null
    BY <1>2, <1>4, AmountType DEF Honest
  <1>9. ASSUME t.says = "got", ACentAtLeast,
               \A p \in DOMAIN Product : cart[p] > 0 => Product[p].type # "alcohol"
        PROVE  answer.bonus > 0
    <2> DEFINE amount == BonusAmount(b, happy)
    <2>1. s >= b.required
      BY <1>2, <1>4, <1>9 DEF Honest
    <2>2. amount \in Nat /\ s * amount \in Nat /\ IsPercent(b, happy) \in BOOLEAN /\ b.required \in Nat
      BY <1>4, <1>5, AmountType, ProductNat
    <2>3. CASE IsPercent(b, happy)
      <3>1. s * amount >= 100
        BY <1>9, <2>3 DEF ACentAtLeast
      <3>2. s > 0
        <4>1. s = 0 => s * amount = 0
          BY <2>2
        <4>2. QED BY <1>5, <3>1, <4>1
      <3>3. NominalBonus(b, happy, s) = (s * amount) \div 100
        BY <1>5, <2>1, <2>2, <2>3 DEF NominalBonus
      <3>4. \A n \in Nat : n >= 100 => n \div 100 > 0
        OBVIOUS
      <3>5. QED BY <1>6, <1>9, <2>2, <3>1, <3>2, <3>3, <3>4
    <2>4. CASE ~IsPercent(b, happy)
      <3>1. s > 0 /\ amount > 0
        BY <1>9, <2>4 DEF ACentAtLeast
      <3>2. NominalBonus(b, happy, s) = amount
        BY <1>5, <2>1, <2>2, <2>4 DEF NominalBonus
      <3>3. QED BY <1>6, <1>9, <3>1, <3>2
    <2>5. QED BY <2>3, <2>4
  <1>10. QED BY <1>7, <1>8, <1>9

(* The classes that decide what to say agree with the ones that decide what  *)
(* to charge and to apply.                                                   *)
THEOREM WhatIsSaidIsDone == Spec => []TextsTrue
  <1>1. ConditionsInv => TextsTrue
    BY FeeTextIsTrue, BonusTextIsTrue DEF TextsTrue
  <1>2. QED BY <1>1, ConditionsInvariant, PTL

(* A bar does not look full before the bonus is reached.                     *)
THEOREM FullBarsAreEarned == Spec => []FullOnlyWhenEarned
  <1>1. ASSUME ConditionsInv, Answered, FreeFirst, offer.gift = Null, NEW bar \in Bars,
               NEW t \in Texts(bar), t.type = "bonus", t \notin {bar.placeholder},
               bar.value >= t.total
        PROVE  BonusSubtotal(cart) >= offer.bonus.required
    <2>1. /\ SoundBar(bar, offer, BonusNow, FeeSubtotal(cart), BonusSubtotal(cart))
          /\ ~BonusRaises(SettingsOf(offer, coupon), happy)
      BY <1>1, AnswerIs
    <2>2. PICK k \in DOMAIN bar.items : t = bar.items[k]
      BY <1>1 DEF Texts
    <2>3. WaivedFirst(offer)
      BY <1>1 DEF FreeFirst, WaivedFirst
    <2>4. BonusSubtotal(cart) >= BonusNow.required
      BY <1>1, <2>1, <2>2, <2>3 DEF SoundBar
    <2>5. BonusNow # Null
      BY <1>1, <2>1, <2>2 DEF SoundBar, Honest
    <2>6. BonusNow.required = offer.bonus.required
      BY <1>1, <2>1, <2>5, BonusForNow DEF BonusFor
    <2>7. QED BY <2>4, <2>6
  <1>2. ConditionsInv => FullOnlyWhenEarned
    BY <1>1 DEF FullOnlyWhenEarned
  <1>3. QED BY <1>2, ConditionsInvariant, PTL

(* Without tobacco a title is joined to the titles before it only when its   *)
(* reward is got.                                                            *)
THEOREM TitlesAreTrue == Spec => []TitlesTellTruth
  <1>1. ASSUME ConditionsInv, Answered, FeeSubtotal(cart) = BonusSubtotal(cart),
               offer.fee # Null => offer.fee.freeAfter # Null,
               NEW bar \in Bars, NEW k \in DOMAIN bar.items, bar.items[k].chained, NEW j \in 1..k
        PROVE  bar.items[j].says = "got"
    <2>1. SoundBar(bar, offer, BonusNow, FeeSubtotal(cart), BonusSubtotal(cart))
      BY <1>1, AnswerIs
    <2>2. QED BY <1>1, <2>1 DEF SoundBar
  <1>2. ConditionsInv => TitlesTellTruth
    BY <1>1 DEF TitlesTellTruth
  <1>3. QED BY <1>2, ConditionsInvariant, PTL

(* Complete rows are always answered.                                        *)
THEOREM CompleteRowsGetAnAnswer == Spec => []CompleteRowsAnswered
  <1>1. ASSUME ConditionsInv, CompleteRows, status = "failed" PROVE FALSE
    <2> DEFINE settings == SettingsOf(offer, coupon)
               f == FeeSubtotal(cart)
               s == BonusSubtotal(cart)
    <2>1. Refused(offer, cart, coupon, happy)
      BY <1>1 DEF ConditionsInv
    <2>2. ~BonusRaises(settings, happy)
      BY <1>1 DEF CompleteRows, CompleteBonus, BonusRaises, NoBonus, SettingsOf
    <2>3. PICK low \in {0, 1} :
            /\ ~offer.legacy
            /\ ComposeRaises(ChainsOf(offer, cart, BonusNow, low), offer.gift, s)
      BY <2>1, <2>2 DEF Refused, BonusNow
    <2> DEFINE chains == ChainsOf(offer, cart, BonusNow, low)
    <2>4. ~BannerMissing(offer.gift, s)
      BY <1>1 DEF CompleteRows, BannerMissing
    <2>5. /\ FirstHasValue(chains)
          /\ chains \in Seq(GoodChains(offer, BonusNow, f, s))
      <3>1. BonusFor(offer, BonusNow) /\ offer \in Offers
        BY <1>1, <2>2, BonusForNow DEF ConditionsInv
      <3>2. f \in Nat /\ s \in Nat /\ s <= f
        BY <1>1, SubtotalsType DEF ConditionsInv
      <3>3. offer.fee # Null => offer.fee.freeAfter # Null
        BY <1>1 DEF CompleteRows
      <3> HIDE DEF f, s
      <3>4. /\ FirstHasValue(Chains(offer.fee, BonusNow, offer.gift, offer.newcomer, f, s, low))
            /\ Chains(offer.fee, BonusNow, offer.gift, offer.newcomer, f, s, low)
                 \in Seq(GoodChains(offer, BonusNow, f, s))
        BY <2>3, <3>1, <3>2, <3>3, ChainsGood
      <3>5. QED BY <3>4 DEF ChainsOf, f, s
    <2> HIDE DEF chains
    <2>6. chains # <<>> => 1 \in WithValue(chains)
      BY <2>5 DEF FirstHasValue, WithValue
    <2>7. QED BY <2>3, <2>4, <2>6 DEF ComposeRaises, chains
  <1>2. ConditionsInv => CompleteRowsAnswered
    BY <1>1 DEF CompleteRowsAnswered
  <1>3. QED BY <1>2, ConditionsInvariant, PTL

-----------------------------------------------------------------------------
(* Happy hours. *)

(* A larger discount is never less by more than a cent for each item: the    *)
(* cents left may go to items that are capped.                               *)
LEMMA CappedShifts ==
  ASSUME NEW item, ItemOK(item), NEW x \in Nat, NEW y \in Nat, y >= x - 1
  PROVE  Capped(item, y) \in Int /\ Capped(item, x) \in Int /\ Capped(item, y) >= Capped(item, x) - 1
  <1>1. Capped(item, y) \in Int /\ Capped(item, x) \in Int
    BY CappedType
  <1>2. CASE item.type # "alcohol"
    BY <1>1, <1>2 DEF Capped
  <1>3. CASE item.type = "alcohol"
    <2> DEFINE m == MaxDiscount(item)
    <2>1. m \in Int
      <3>1. (item.price * 35) \div 100 \in Int /\ item.price - item.purchase \in Int
        BY DEF ItemOK
      <3>2. Least(item.price - item.purchase, (item.price * 35) \div 100) \in Int
        BY <3>1 DEF Least
      <3>3. \A i, j \in Int : i * j \in Int
        OBVIOUS
      <3>4. QED BY <3>2, <3>3 DEF MaxDiscount, ItemOK
    <2>2. Capped(item, x) = Least(x, m) /\ Capped(item, y) = Least(y, m)
      BY <1>3 DEF Capped
    <2> HIDE DEF m
    <2>3. QED BY <1>1, <2>1, <2>2 DEF Least
  <1>4. QED BY <1>2, <1>3

LEMMA LargerDiscount ==
  ASSUME NEW order, OrderOK(order), NEW d \in Nat, NEW e \in Nat, d <= e,
         NEW D \in Distributions(d, order), NEW E \in Distributions(e, order)
  PROVE  DiscountValue(E) >= DiscountValue(D) - Cardinality(DOMAIN order)
  <1> DEFINE S == DOMAIN order
  <1>1. IsFiniteSet(S) /\ Cardinality(S) \in Nat
    BY FS_CardinalityType DEF OrderOK
  <1>2. CASE Subtotal(order) = 0
    BY <1>1, <1>2, NothingToDistribute
  <1>3. CASE Subtotal(order) > 0
    <2>1. PICK U \in RoundedUp(d, order) : \A i \in S :
            D[i] = Capped(order[i], RoundedDown(d, order, i) + (IF i \in U THEN 1 ELSE 0))
      BY <1>3, DistributionOf
    <2>2. PICK V \in RoundedUp(e, order) : \A i \in S :
            E[i] = Capped(order[i], RoundedDown(e, order, i) + (IF i \in V THEN 1 ELSE 0))
      BY <1>3, DistributionOf
    <2>3. D \in [S -> Int] /\ E \in [S -> Int]
      BY <1>3, DistributionOf
    <2>4. ASSUME NEW i \in S PROVE D[i] <= E[i] + 1
      <3> DEFINE x == RoundedDown(d, order, i)
                 y == RoundedDown(e, order, i)
      <3>1. x \in Nat /\ y \in Nat
        BY <1>3, Shares
      <3>2. x <= y
        <4>1. Amount(order[i]) \in Nat /\ Subtotal(order) \in Nat
          BY SubtotalType
        <4>2. d * Amount(order[i]) <= e * Amount(order[i])
          <5>1. \A j, k, n \in Nat : j <= k => j * n <= k * n
            OBVIOUS
          <5>2. QED BY <4>1, <5>1
        <4>3. d * Amount(order[i]) \in Nat /\ e * Amount(order[i]) \in Nat
          BY <4>1, ProductNat
        <4>4. \A j, k, n \in Nat : j <= k /\ n > 0 => j \div n <= k \div n
          OBVIOUS
        <4>5. QED BY <1>3, <4>1, <4>2, <4>3, <4>4 DEF RoundedDown
      <3> HIDE DEF x, y
      <3>3. /\ x + (IF i \in U THEN 1 ELSE 0) \in Nat
            /\ y + (IF i \in V THEN 1 ELSE 0) \in Nat
            /\ y + (IF i \in V THEN 1 ELSE 0) >= (x + (IF i \in U THEN 1 ELSE 0)) - 1
        BY <3>1, <3>2
      <3>4. ItemOK(order[i])
        BY DEF OrderOK
      <3>5. /\ D[i] = Capped(order[i], x + (IF i \in U THEN 1 ELSE 0))
            /\ E[i] = Capped(order[i], y + (IF i \in V THEN 1 ELSE 0))
        BY <2>1, <2>2 DEF x, y
      <3>6. E[i] \in Int /\ D[i] \in Int /\ E[i] >= D[i] - 1
        BY <3>3, <3>4, <3>5, CappedShifts
      <3>7. QED BY <3>6
    <2> DEFINE one == [i \in S |-> IF i \in S THEN 1 ELSE 0]
               more == [i \in S |-> E[i] + one[i]]
    <2>5. one \in [S -> Int] /\ more \in [S -> Int] /\ \A i \in S : D[i] <= more[i]
      BY <2>3, <2>4
    <2>6. SumFunction(one) = Cardinality(S)
      <3>1. S \in SUBSET S
        OBVIOUS
      <3> HIDE DEF S
      <3>2. QED BY <1>1, <3>1, SumCounts
    <2> HIDE DEF one, S
    <2>7. SumFunction(more) = SumFunction(E) + SumFunction(one)
      BY <1>1, <2>3, <2>5, SumPlus
    <2> HIDE DEF more
    <2>8. SumFunction(D) <= SumFunction(more)
      BY <1>1, <2>3, <2>5, SumMonotone
    <2>9. SumFunction(D) \in Int /\ SumFunction(E) \in Int
      BY <1>1, <2>3, SumType
    <2>10. SumFunction(E) >= SumFunction(D) - Cardinality(S)
      BY <1>1, <2>6, <2>7, <2>8, <2>9
    <2>11. QED BY <2>10 DEF DiscountValue, S
  <1>4. QED BY <1>2, <1>3, SubtotalType

LEMMA HappyNominal ==
  ASSUME NEW b, SoundSettings(b, Null), NEW h \in Nat, SoundSettings(b, h), NEW s \in Nat
  PROVE  NominalBonus(b, Null, s) <= NominalBonus(b, h, s)
  <1>1. ~b.happyOnly
    BY DEF SoundSettings, NoBonus
  <1>2. /\ b.required \in Nat /\ b.fixed \in Nat \cup {Null} /\ b.percent \in Nat \cup {Null}
    BY DEF SoundSettings, BonusSettings
  <1>3. ~HappyOnly(b, Null) /\ ~HappyOnly(b, h)
    BY <1>1 DEF HappyOnly
  <1>4. IsPercent(b, Null) = IsPercent(b, h)
    BY <1>3 DEF IsPercent
  <1>5. BonusAmount(b, Null) \in Nat /\ BonusAmount(b, h) \in Nat
    BY AmountType
  <1>6. BonusAmount(b, Null) <= BonusAmount(b, h)
    <2>1. OrZero(Null) = 0 /\ OrZero(h) = h /\ OrZero(b.percent) \in Nat
      BY <1>2 DEF OrZero
    <2>2. Truthy(b.fixed) => b.fixed \in Nat
      BY <1>2 DEF Truthy
    <2>3. QED BY <1>3, <2>1, <2>2 DEF BonusAmount, Greatest
  <1> DEFINE x == BonusAmount(b, Null)
             y == BonusAmount(b, h)
  <1>7. (s * x) \div 100 <= (s * y) \div 100 /\ s * x \in Nat /\ s * y \in Nat
    <2> HIDE DEF x, y
    <2>1. \A i, j, n \in Nat : i <= j => n * i <= n * j /\ n * i \in Nat /\ n * j \in Nat
      OBVIOUS
    <2>2. \A i, j \in Nat : i <= j => i \div 100 <= j \div 100
      OBVIOUS
    <2>3. x \in Nat /\ y \in Nat /\ x <= y
      BY <1>5, <1>6 DEF x, y
    <2>4. s * x <= s * y /\ s * x \in Nat /\ s * y \in Nat
      BY <2>1, <2>3
    <2>5. QED BY <2>2, <2>4
  <1>8. QED BY <1>2, <1>4, <1>5, <1>6, <1>7 DEF NominalBonus

(* The bonuses an order may get outside happy hours and in them.             *)
LEMMA HappyApplied ==
  ASSUME NEW c \in Carts, NEW b, NEW h \in Nat, ~BonusRaises(b, Null), ~BonusRaises(b, h),
         b # Null => b \in BonusSettings,
         b # Null /\ b.happyOnly => WithMargin(c),
         NEW x \in AppliedOf(b, Null, c), NEW y \in AppliedOf(b, h, c)
  PROVE  y >= x - Cardinality(DOMAIN BonusOrder(c))
  <1>1. OrderOK(BonusOrder(c)) /\ Cardinality(DOMAIN BonusOrder(c)) \in Nat
    BY OrdersOK, FS_CardinalityType DEF OrderOK
  <1>2. NoBonus(b, Null) => y \in Nat
    <2>1. CASE NoBonus(b, h)
      BY <2>1 DEF AppliedOf
    <2>2. CASE NoBonus(b, Null) /\ ~NoBonus(b, h)
      <3>1. SoundSettings(b, h)
        BY <2>2 DEF SoundSettings, NoBonus
      <3>2. WithMargin(c)
        BY <2>2 DEF NoBonus
      <3>3. QED BY <3>1, <3>2, AppliedIs
    <2>3. QED BY <2>1, <2>2
  <1>3. CASE NoBonus(b, Null)
    BY <1>1, <1>2, <1>3 DEF AppliedOf
  <1>4. CASE ~NoBonus(b, Null)
    <2> DEFINE s == BonusSubtotal(c)
               d == NominalBonus(b, Null, s)
               e == NominalBonus(b, h, s)
    <2>1. SoundSettings(b, Null) /\ SoundSettings(b, h) /\ ~NoBonus(b, h)
      BY <1>4 DEF SoundSettings, NoBonus
    <2>2. s \in Nat
      BY SubtotalsType
    <2>3. d \in Nat /\ e \in Nat /\ d <= e
      BY <2>1, <2>2, NominalType, HappyNominal
    <2>4. PICK D \in Distributions(d, BonusOrder(c)) : x = DiscountValue(D)
      BY <1>4 DEF AppliedOf, AppliedBonuses, BonusSubtotal
    <2>5. PICK E \in Distributions(e, BonusOrder(c)) : y = DiscountValue(E)
      BY <2>1 DEF AppliedOf, AppliedBonuses, BonusSubtotal
    <2> HIDE DEF d, e
    <2>6. QED BY <1>1, <2>3, <2>4, <2>5, LargerDiscount
  <1>5. QED BY <1>3, <1>4

(* The same order does not get a smaller bonus because happy hours begin,    *)
(* but for the cents that the largest remainders move to capped items.       *)
THEOREM HappyHoursDoNotHurt == Spec => HappyHoursNeverLower
  <1> DEFINE Same == /\ Answered /\ Answered' /\ cart' = cart /\ coupon' = coupon
                     /\ happy = Null /\ happy' # Null
                     /\ ~(BoughtAbovePrice /\ offer.bonus # Null /\ offer.bonus.happyOnly)
             Lower == answer'.bonus >= answer.bonus - Cardinality(DOMAIN BonusOrder(cart))
  <1>1. ASSUME ConditionsInv, ConditionsInv', [Next]_vars, Same PROVE Lower
    <2>1. offer' = offer /\ cart' = cart /\ coupon' = coupon
      <3>1. CASE Next
        BY <1>1, <3>1, NextAsks
      <3>2. CASE UNCHANGED vars
        BY <3>2 DEF vars
      <3>3. QED BY <1>1, <3>1, <3>2
    <2> DEFINE b == SettingsOf(offer, coupon)
    <2>2. ~BonusRaises(b, Null) /\ answer.bonus \in AppliedOf(b, Null, cart)
      BY <1>1, AnswerIs
    <2>3. ~BonusRaises(b, happy') /\ answer'.bonus \in AppliedOf(b, happy', cart)
      <3>1. Possible(offer', cart', coupon', happy', answer')
        BY <1>1 DEF ConditionsInv, Answered
      <3>2. Possible(offer, cart, coupon, happy', answer')
        BY <2>1, <3>1
      <3>3. PICK low \in {0, 1}, applied \in AppliedOf(b, happy', cart) :
              \/ answer' = LegacyResponse(offer, cart, BonusOf(b, happy'), applied, low)
              \/ answer' = ComposedResponse(offer, cart, BonusOf(b, happy'), applied, low)
        BY <3>2 DEF Possible
      <3>4. answer'.bonus = applied
        BY <3>3 DEF LegacyResponse, ComposedResponse, Response
      <3>5. QED BY <3>2, <3>4 DEF Possible
    <2>4. cart \in Carts /\ happy' \in Nat /\ (b # Null => b \in BonusSettings)
      <3>1. happy' \in {Null, offer.happy} /\ offer \in Offers /\ cart \in Carts
        BY <1>1, <2>1 DEF ConditionsInv
      <3>2. QED BY <1>1, <3>1, RowsOK DEF SettingsOf
    <2>5. b # Null /\ b.happyOnly => WithMargin(cart)
      BY <1>1 DEF SettingsOf, BoughtAbovePrice, WithMargin
    <2> HIDE DEF b
    <2>6. QED BY <2>2, <2>3, <2>4, <2>5, HappyApplied
  <1>2. ConditionsInv /\ ConditionsInv' /\ [Next]_vars => [Same => Lower]_vars
    BY <1>1
  <1>3. QED BY <1>2, ConditionsInvariant, PTL DEF Spec, HappyHoursNeverLower

-----------------------------------------------------------------------------
(* Progress. *)

(* The subtotals of a cart and of one with more in it.                       *)
Grown(f, s, f2, s2) ==
  /\ f \in Nat /\ s \in Nat /\ f2 \in Nat /\ s2 \in Nat
  /\ s <= f /\ s2 <= f2 /\ f <= f2 /\ s <= s2
  /\ f # s => f2 # s2

LEMMA CartsGrow ==
  ASSUME NEW c \in Carts, NEW d \in Carts, \A p \in DOMAIN Product : c[p] <= d[p]
  PROVE  Grown(FeeSubtotal(c), BonusSubtotal(c), FeeSubtotal(d), BonusSubtotal(d))
  <1> DEFINE S == DOMAIN Product
             tobacco(e) == [p \in S |-> IF Product[p].type = "tobacco" THEN Worth(e)[p] ELSE 0]
             both(e) == [p \in S |-> BonusWorth(e)[p] + tobacco(e)[p]]
  <1>1. ASSUME NEW e \in Carts
        PROVE  /\ tobacco(e) \in [S -> Int]
               /\ FeeSubtotal(e) = BonusSubtotal(e) + SumFunction(tobacco(e))
               /\ SumFunction(tobacco(e)) \in Int
    <2>1. \A p \in S : Worth(e)[p] \in Nat
      BY LinesOK
    <2>2. tobacco(e) \in [S -> Int] /\ BonusWorth(e) \in [S -> Int]
      BY <2>1, WorthType
    <2>3. Worth(e) = both(e)
      <3>1. \A p \in S : Worth(e)[p] = BonusWorth(e)[p] + tobacco(e)[p]
        BY <2>1 DEF BonusWorth
      <3>2. Worth(e) = [p \in S |-> Worth(e)[p]]
        BY DEF Worth
      <3>3. QED BY <3>1, <3>2
    <2> DEFINE a == BonusWorth(e)
               b == tobacco(e)
    <2>4. SumFunction([p \in S |-> a[p] + b[p]]) = SumFunction(a) + SumFunction(b)
      <3> HIDE DEF a, b
      <3>1. a \in [S -> Int] /\ b \in [S -> Int]
        BY <2>2 DEF a, b
      <3>2. QED BY <3>1, SumPlus
    <2>5. SumFunction(Worth(e)) = SumFunction(BonusWorth(e)) + SumFunction(tobacco(e))
      BY <2>3, <2>4
    <2>6. SumFunction(tobacco(e)) \in Int
      <3> HIDE DEF tobacco
      <3> QED BY <2>2, SumType
    <2>7. QED BY <2>2, <2>5, <2>6, SubtotalsAre
  <1>2. \A p \in S : tobacco(c)[p] <= tobacco(d)[p]
    <2>1. \A x, y, z \in Nat : y <= z => x * y <= x * z
      OBVIOUS
    <2>2. \A p \in S : Product[p].price * c[p] <= Product[p].price * d[p]
      BY <2>1 DEF Carts
    <2>3. QED BY <2>2 DEF Worth
  <1> HIDE DEF tobacco
  <1>3. SumFunction(tobacco(c)) <= SumFunction(tobacco(d))
    BY <1>1, <1>2, SumMonotone
  <1>4. QED BY <1>1, <1>3, SubtotalsGrow, SubtotalsType DEF Grown

(* The mixed value follows the subtotal but for a cent, and is not behind it *)
(* by more.                                                                  *)
LEMMA MixedGrows ==
  ASSUME NEW left \in Nat, NEW required \in Nat, left < required, NEW f, NEW f2,
         NEW s \in Nat, NEW s2 \in Nat, s <= s2, s2 < required,
         NEW low \in {0, 1}, NEW low2 \in {0, 1}
  PROVE  /\ Mixed(left, required, f2, s2, low2) >= Mixed(left, required, f, s, low) - 1
         /\ Mixed(left, required, f2, s2, low2) >= s2 - 1
  <1> DEFINE rest == (required - left) * s
             rest2 == (required - left) * s2
             cent == IF s > 0 THEN low ELSE 0
             cent2 == IF s2 > 0 THEN low2 ELSE 0
             top == left * required + rest - cent
             top2 == left * required + rest2 - cent2
  <1>1. /\ Mixed(left, required, f, s, low) = top \div required
        /\ Mixed(left, required, f2, s2, low2) = top2 \div required
    BY DEF Mixed
  <1>2. required - left \in Nat /\ required > 0 /\ s < required
    OBVIOUS
  <1>3. rest \in Nat /\ rest2 \in Nat /\ rest <= rest2 /\ left * required \in Nat
    <2>1. \A x, y, z \in Nat : x * y \in Nat /\ (y <= z => x * y <= x * z)
      OBVIOUS
    <2>2. QED BY <1>2, <2>1
  <1>4. cent \in {0, 1} /\ cent2 \in {0, 1}
    OBVIOUS
  <1>5. top2 >= required * (s2 - 1)
    <2>1. rest2 = required * s2 - left * s2 /\ left * s2 <= left * required
      <3>1. \A x, y, z \in Nat : y <= z => x * y <= x * z
        OBVIOUS
      <3>2. QED BY <3>1
    <2>2. required * (s2 - 1) = required * s2 - required
      OBVIOUS
    <2>3. required * s2 \in Nat /\ left * s2 \in Nat
      BY ProductNat
    <2> DEFINE a == required * s2
               b == left * s2
               e == left * required
    <2> HIDE DEF a, b, e, rest2, cent2
    <2>4. rest2 = a - b /\ b <= e /\ a \in Nat /\ b \in Nat /\ e \in Nat
      BY <1>3, <2>1, <2>3 DEF a, b, e
    <2>5. e + rest2 - cent2 >= a - required
      BY <1>2, <1>4, <2>4
    <2>6. QED BY <2>2, <2>5 DEF a, e
  <1>6. top \in Int /\ top2 \in Int /\ top2 >= top - 1
    <2> DEFINE e == left * required
    <2>1. e \in Nat
      BY <1>3
    <2> HIDE DEF rest, rest2, cent, cent2, e
    <2>2. /\ e + rest - cent \in Int /\ e + rest2 - cent2 \in Int
          /\ e + rest2 - cent2 >= (e + rest - cent) - 1
      BY <1>3, <1>4, <2>1
    <2>3. QED BY <2>2 DEF e
  <1> HIDE DEF top, top2
  <1>7. \A x, y \in Int : y >= x - 1 => y \div required >= (x \div required) - 1
    <2>1. ASSUME NEW x \in Int, NEW y \in Int, y >= x - 1
          PROVE  y \div required >= (x \div required) - 1
      <3> DEFINE i == x \div required
                 j == y \div required
      <3>1. /\ i \in Int /\ x >= required * i
            /\ j \in Int /\ y < required * (j + 1)
        BY <1>2
      <3> HIDE DEF i, j
      <3>2. ASSUME j < i - 1 PROVE FALSE
        <4>1. \A m, k \in Int : m <= k => required * m <= required * k
          BY <1>2
        <4>2. required * (j + 2) <= required * i
          BY <3>1, <3>2, <4>1
        <4>3. required * (j + 2) = required * (j + 1) + required
          BY <3>1
        <4> DEFINE u == required * (j + 1)
                   v == required * i
        <4>4. u \in Int /\ v \in Int
          BY <3>1
        <4> HIDE DEF u, v
        <4>5. u + required <= v /\ x >= v /\ y < u
          BY <3>1, <4>2, <4>3 DEF u, v
        <4>6. QED BY <1>2, <2>1, <4>4, <4>5
      <3>3. QED BY <3>1, <3>2 DEF i, j
    <2>2. QED BY <2>1
  <1>8. \A x, y \in Int : x >= required * y => x \div required >= y
    BY <1>2
  <1>9. QED BY <1>1, <1>5, <1>6, <1>7, <1>8

(* The old version's bars.                                                   *)
LEMMA FeeBarValue ==
  ASSUME NEW fee, NEW charge, NEW f, NEW passed, passed = Null \/ passed.value = f,
         FeeBar(fee, charge, f, passed) # Null
  PROVE  FeeBar(fee, charge, f, passed).value = f
  BY DEF FeeBar, Bar

LEMMA BonusBarValue ==
  ASSUME NEW bonus, NEW s
  PROVE  BonusBar(bonus, s).value = s
  BY DEF BonusBar, Bar

LEMMA FeeAndBonusGrows ==
  ASSUME NEW o \in Offers, o.fee # Null, NEW bonus, bonus # Null, BonusFor(o, bonus), WaivedFirst(o),
         NEW f, NEW s, NEW f2, NEW s2, Grown(f, s, f2, s2),
         NEW feePassed, NEW low \in {0, 1}, NEW low2 \in {0, 1}
  PROVE  FeeAndBonusBar(o.fee, bonus, o.newcomer, f2, s2, feePassed, low2).value
           >= FeeAndBonusBar(o.fee, bonus, o.newcomer, f, s, feePassed, low).value - 1
  <1> DEFINE free == OrZero(o.fee.freeAfter)
             required == bonus.required
             x == FeeAndBonusBar(o.fee, bonus, o.newcomer, f, s, feePassed, low).value
             y == FeeAndBonusBar(o.fee, bonus, o.newcomer, f2, s2, feePassed, low2).value
             m == Mixed(free, required, f, s, low)
             m2 == Mixed(free, required, f2, s2, low2)
  <1>1. free \in Nat /\ required \in Nat /\ free < required
    BY RowsOK DEF BonusFor, WaivedFirst
  <1>2. /\ f \in Nat /\ s \in Nat /\ f2 \in Nat /\ s2 \in Nat
        /\ s <= f /\ s2 <= f2 /\ f <= f2 /\ s <= s2 /\ (f # s => f2 # s2)
    BY DEF Grown
  <1>3. x = IF o.newcomer THEN s
            ELSE IF f = 0 \/ f < free THEN f
            ELSE IF s < required THEN IF f # s THEN m ELSE s
            ELSE Greatest(f, s)
    BY BonusBarValue DEF FeeAndBonusBar, Bar
  <1>4. y = IF o.newcomer THEN s2
            ELSE IF f2 = 0 \/ f2 < free THEN f2
            ELSE IF s2 < required THEN IF f2 # s2 THEN m2 ELSE s2
            ELSE Greatest(f2, s2)
    BY BonusBarValue DEF FeeAndBonusBar, Bar
  <1>5. s < required => m \in free..required - 1
    BY <1>1, <1>2, MixedType
  <1>6. s2 < required => m2 \in free..required - 1
    BY <1>1, <1>2, MixedType
  <1>7. s2 < required => m2 >= m - 1 /\ m2 >= s2 - 1
    BY <1>1, <1>2, MixedGrows
  <1>8. SUFFICES y >= x - 1
    OBVIOUS
  <1> HIDE DEF free, required, x, y, m, m2
  <1>9. CASE o.newcomer
    BY <1>2, <1>3, <1>4, <1>9
  <1>10. CASE ~o.newcomer /\ (f = 0 \/ f < free)
    BY <1>1, <1>2, <1>3, <1>4, <1>6, <1>10 DEF Greatest
  <1>11. CASE ~o.newcomer /\ ~(f = 0 \/ f < free) /\ s < required
    BY <1>1, <1>2, <1>3, <1>4, <1>5, <1>6, <1>7, <1>11 DEF Greatest
  <1>12. CASE ~o.newcomer /\ ~(f = 0 \/ f < free) /\ ~(s < required)
    <2>1. /\ ~(f2 = 0 \/ f2 < free) /\ ~(s2 < required)
          /\ Greatest(f, s) \in {f, s} /\ Greatest(f, s) <= f /\ Greatest(f2, s2) >= f2
      BY <1>1, <1>2, <1>12 DEF Greatest
    <2>2. x = Greatest(f, s) /\ y = Greatest(f2, s2)
      BY <1>3, <1>4, <1>12, <2>1
    <2>3. Greatest(f, s) \in Nat /\ Greatest(f2, s2) \in Nat
      BY <1>2 DEF Greatest
    <2>4. QED BY <1>2, <2>1, <2>2, <2>3
  <1>13. QED BY <1>9, <1>10, <1>11, <1>12

LEMMA LegacyGrows ==
  ASSUME NEW o \in Offers, NEW bonus, BonusFor(o, bonus), WaivedFirst(o),
         NEW f, NEW s, NEW f2, NEW s2, Grown(f, s, f2, s2),
         NEW charge, NEW charge2, NEW low \in {0, 1}, NEW low2 \in {0, 1}
  PROVE  /\ (/\ CatalogBar(o.fee, charge, bonus, o.newcomer, f, s, low) # Null
             /\ CatalogBar(o.fee, charge2, bonus, o.newcomer, f2, s2, low2) # Null) =>
              CatalogBar(o.fee, charge2, bonus, o.newcomer, f2, s2, low2).value
                >= CatalogBar(o.fee, charge, bonus, o.newcomer, f, s, low).value - 1
         /\ (/\ CartBar(o.fee, charge, bonus, o.newcomer, f, s, low) # Null
             /\ CartBar(o.fee, charge2, bonus, o.newcomer, f2, s2, low2) # Null) =>
              CartBar(o.fee, charge2, bonus, o.newcomer, f2, s2, low2).value
                >= CartBar(o.fee, charge, bonus, o.newcomer, f, s, low).value - 1
  <1>1. f \in Nat /\ s \in Nat /\ f2 \in Nat /\ s2 \in Nat /\ f <= f2 /\ s <= s2
    BY DEF Grown
  <1>2. CASE o.fee = Null /\ bonus = Null
    BY <1>2 DEF CatalogBar, CartBar
  <1>3. CASE o.fee # Null /\ bonus = Null
    <2>1. ASSUME NEW g, NEW fine, FeeCatalogBar(o.fee, fine, g) # Null
          PROVE  FeeCatalogBar(o.fee, fine, g).value = g
      <3>1. Bar(g, Placeholder("fee", "got"), <<>>).value = g
        BY DEF Bar
      <3>2. QED BY <2>1, <3>1, FeeBarValue DEF FeeCatalogBar
    <2>2. ASSUME NEW g, NEW fine, FeeCartBar(o.fee, fine, g) # Null
          PROVE  FeeCartBar(o.fee, fine, g).value = g
      BY <2>2, FeeBarValue DEF FeeCartBar
    <2>3. QED BY <1>1, <1>3, <2>1, <2>2 DEF CatalogBar, CartBar
  <1>4. CASE o.fee = Null /\ bonus # Null
    BY <1>1, <1>4, BonusBarValue DEF CatalogBar, CartBar
  <1>5. CASE o.fee # Null /\ bonus # Null
    BY <1>5, FeeAndBonusGrows DEF CatalogBar, CartBar, FeeAndBonusCatalogBar, FeeAndBonusCartBar
  <1>6. QED BY <1>2, <1>3, <1>4, <1>5

(* The new version's bar.                                                    *)
IsLast(chains, v) ==
  \E k \in WithValue(chains) : v = chains[k].value /\ \A i \in WithValue(chains) : i <= k

LEMMA LastAppended ==
  ASSUME NEW S, NEW chains \in Seq(S), NEW x \in S, NEW v, IsLast(Append(chains, x), v)
  PROVE  IF x.value # Null THEN v = x.value ELSE IsLast(chains, v)
  <1> DEFINE longer == Append(chains, x)
             n == Len(chains)
  <1>1. /\ n \in Nat /\ DOMAIN longer = 1..n + 1 /\ DOMAIN chains = 1..n
        /\ longer[n + 1] = x /\ \A i \in 1..n : longer[i] = chains[i]
    OBVIOUS
  <1> HIDE DEF longer
  <1>2. PICK k \in WithValue(longer) : v = longer[k].value /\ \A i \in WithValue(longer) : i <= k
    BY DEF IsLast, longer
  <1>3. k \in 1..n + 1 /\ WithValue(longer) \in SUBSET (1..n + 1)
    BY <1>1 DEF WithValue
  <1>4. CASE x.value # Null
    <2>1. n + 1 \in WithValue(longer)
      BY <1>1, <1>4 DEF WithValue
    <2>2. k = n + 1
      BY <1>1, <1>2, <1>3, <2>1
    <2>3. QED BY <1>1, <1>2, <1>4, <2>2
  <1>5. CASE x.value = Null
    <2>1. \A i \in 1..n + 1 : i \in WithValue(longer) <=> i \in WithValue(chains)
      BY <1>1, <1>5 DEF WithValue
    <2>2. k \in WithValue(chains) /\ k \in 1..n
      BY <1>1, <1>3, <2>1 DEF WithValue
    <2>3. v = chains[k].value /\ \A i \in WithValue(chains) : i <= k
      <3>1. \A i \in WithValue(chains) : i \in 1..n + 1
        BY <1>1 DEF WithValue
      <3>2. QED BY <1>1, <1>2, <2>1, <2>2, <3>1
    <2>4. QED BY <1>5, <2>2, <2>3 DEF IsLast
  <1>6. QED BY <1>4, <1>5

LEMMA BorderAppended ==
  ASSUME NEW S, NEW chains \in Seq(S), NEW x \in S
  PROVE  LeftBorder(Append(chains, x)) = OrZero(x.value)
  <1>1. Append(chains, x) # <<>> /\ Append(chains, x)[Len(Append(chains, x))] = x
    OBVIOUS
  <1>2. QED BY <1>1 DEF LeftBorder, Last

(* Where the fee ends, what the bonus chain shows, and where the bar stands. *)
FeeEnd(o, f) ==
  IF o.fee # Null /\ ~o.newcomer THEN Least(f, OrZero(o.fee.freeAfter)) ELSE 0

HasBonusChain(o, bonus) == bonus # Null /\ (o.gift = Null \/ bonus.required < o.gift.min)

BonusShown(o, bonus, f, s, low) == BonusChain(FeeEnd(o, f), bonus, f, s, low).value

Stand(o, bonus, f, s, low) ==
  LET shown == BonusShown(o, bonus, f, s, low)
  IN  IF o.gift # Null
      THEN IF HasBonusChain(o, bonus) /\ shown # Null /\ f < shown THEN shown
           ELSE Least(f, o.gift.min)
      ELSE IF HasBonusChain(o, bonus) /\ shown # Null THEN shown ELSE FeeEnd(o, f)

LEMMA FeeEndType ==
  ASSUME NEW o \in Offers, NEW f \in Nat
  PROVE  FeeEnd(o, f) \in Nat /\ FeeEnd(o, f) <= f
  BY RowsOK DEF FeeEnd, Least

LEMMA BonusShownIs ==
  ASSUME NEW o \in Offers, NEW bonus, bonus # Null, BonusFor(o, bonus),
         NEW f \in Nat, NEW s \in Nat, NEW low \in {0, 1}
  PROVE  BonusShown(o, bonus, f, s, low) =
           IF s < FeeEnd(o, f) THEN Null
           ELSE IF s >= bonus.required THEN bonus.required
           ELSE IF f # s THEN Mixed(FeeEnd(o, f), bonus.required, f, s, low) ELSE s
  BY DEF BonusShown, BonusChain, Chain

LEMMA BonusShownType ==
  ASSUME NEW o \in Offers, NEW bonus, bonus # Null, BonusFor(o, bonus),
         NEW f \in Nat, NEW s \in Nat, NEW low \in {0, 1}
  PROVE  /\ BonusShown(o, bonus, f, s, low) \in Nat \cup {Null}
         /\ BonusShown(o, bonus, f, s, low) # Null => BonusShown(o, bonus, f, s, low) <= bonus.required
  <1>1. FeeEnd(o, f) \in Nat /\ bonus.required \in Nat
    BY FeeEndType DEF BonusFor
  <1>2. s >= FeeEnd(o, f) /\ s < bonus.required =>
          Mixed(FeeEnd(o, f), bonus.required, f, s, low) \in FeeEnd(o, f)..bonus.required - 1
    BY <1>1, MixedType
  <1>3. QED BY <1>1, <1>2, BonusShownIs

LEMMA ComposedValueIs ==
  ASSUME NEW o \in Offers, NEW bonus, BonusFor(o, bonus),
         NEW f \in Nat, NEW s \in Nat, s <= f, NEW low \in {0, 1},
         NEW chains, chains = Chains(o.fee, bonus, o.gift, o.newcomer, f, s, low),
         NEW v, IsLast(chains, v)
  PROVE  v = Stand(o, bonus, f, s, low)
  <1> DEFINE end == FeeEnd(o, f)
             shown == BonusShown(o, bonus, f, s, low)
             withBonus == HasBonusChain(o, bonus)
             Links == {FeeChain(o.fee, f), BonusChain(end, bonus, f, s, low)}
                        \cup {GiftChain(l, o.gift, f, s) : l \in {0, end, shown}}
             first == IF o.fee # Null /\ ~o.newcomer THEN <<FeeChain(o.fee, f)>> ELSE <<>>
             second == IF withBonus
                       THEN Append(first, BonusChain(LeftBorder(first), bonus, f, s, low)) ELSE first
             third == IF o.gift # Null
                      THEN Append(second, GiftChain(LeftBorder(second), o.gift, f, s)) ELSE second
  <1>1. chains = third
    BY DEF Chains, HasBonusChain
  <1>2. end \in Nat /\ end <= f
    BY FeeEndType
  <1>3. /\ first \in Seq(Links)
        /\ LeftBorder(first) = end
        /\ \A u : IsLast(first, u) => u = end
    <2>1. CASE o.fee # Null /\ ~o.newcomer
      <3> DEFINE x == FeeChain(o.fee, f)
      <3>1. x.value = IF f < OrZero(o.fee.freeAfter) THEN f ELSE o.fee.freeAfter
        BY DEF FeeChain, Chain
      <3>2. OrZero(x.value) = end /\ (x.value # Null => x.value = end)
        BY <2>1, <3>1, RowsOK DEF FeeEnd, Least, OrZero
      <3>3. first = Append(<<>>, x) /\ x \in Links /\ <<>> \in Seq(Links)
        BY <2>1
      <3>4. \A u : ~IsLast(<<>>, u)
        BY DEF IsLast, WithValue
      <3> HIDE DEF x, first, Links, end
      <3>5. LeftBorder(first) = end
        BY <3>2, <3>3, BorderAppended
      <3>6. ASSUME NEW u, IsLast(first, u) PROVE u = end
        BY <3>2, <3>3, <3>4, <3>6, LastAppended
      <3>7. QED BY <3>3, <3>5, <3>6
    <2>2. CASE ~(o.fee # Null /\ ~o.newcomer)
      <3>1. first = <<>> /\ end = 0
        BY <2>2 DEF FeeEnd
      <3>2. \A u : ~IsLast(<<>>, u)
        BY DEF IsLast, WithValue
      <3> HIDE DEF first, Links, end
      <3>3. QED BY <3>1, <3>2 DEF LeftBorder
    <2>3. QED BY <2>1, <2>2
  <1> HIDE DEF first
  <1>4. /\ second \in Seq(Links)
        /\ LeftBorder(second) = IF withBonus THEN OrZero(shown) ELSE end
        /\ \A u : IsLast(second, u) => u = IF withBonus /\ shown # Null THEN shown ELSE end
    <2>1. CASE withBonus
      <3> DEFINE x == BonusChain(end, bonus, f, s, low)
      <3>1. second = Append(first, x) /\ x \in Links /\ x.value = shown
        BY <1>3, <2>1 DEF BonusShown
      <3> HIDE DEF x, second, Links, end, shown, withBonus
      <3>2. LeftBorder(second) = OrZero(shown)
        BY <1>3, <3>1, BorderAppended
      <3>3. ASSUME NEW u, IsLast(second, u) PROVE u = IF shown # Null THEN shown ELSE end
        <4>1. IF x.value # Null THEN u = x.value ELSE IsLast(first, u)
          BY <1>3, <3>1, <3>3, LastAppended
        <4>2. QED BY <1>3, <3>1, <4>1
      <3>4. second \in Seq(Links)
        BY <1>3, <3>1
      <3>5. QED BY <2>1, <3>2, <3>3, <3>4
    <2>2. CASE ~withBonus
      BY <1>3, <2>2
    <2>3. QED BY <2>1, <2>2
  <1> HIDE DEF second
  <1>5. IsLast(third, v)
    BY <1>1
  <1>6. CASE o.gift = Null
    BY <1>4, <1>5, <1>6 DEF Stand
  <1>7. CASE o.gift # Null
    <2> DEFINE left == IF withBonus THEN OrZero(shown) ELSE end
               x == GiftChain(left, o.gift, f, s)
    <2>1. left \in {0, end, shown}
      BY DEF OrZero
    <2>2. third = Append(second, x) /\ x \in Links
      BY <1>4, <1>7, <2>1
    <2>3. x.value = IF f < left THEN Null ELSE Least(f, o.gift.min)
      BY <1>7, RowsOK DEF GiftChain, Chain, Least
    <2>4. withBonus => shown \in Nat \cup {Null}
      BY BonusShownType DEF HasBonusChain
    <2>5. Least(f, o.gift.min) # Null
      BY <1>7, RowsOK DEF Least
    <2> HIDE DEF third, x, Links, end, shown, withBonus
    <2>6. IF x.value # Null THEN v = x.value ELSE IsLast(second, v)
      BY <1>4, <1>5, <2>2, LastAppended
    <2>7. v = IF withBonus /\ shown # Null /\ f < shown THEN shown ELSE Least(f, o.gift.min)
      <3>1. CASE f < left
        <4>1. withBonus /\ shown # Null /\ left = shown
          BY <1>2, <2>4, <3>1 DEF OrZero
        <4>2. v = shown
          BY <1>4, <2>3, <2>6, <3>1, <4>1
        <4>3. QED BY <3>1, <4>1, <4>2
      <3>2. CASE ~(f < left)
        <4>1. v = Least(f, o.gift.min)
          BY <2>3, <2>5, <2>6, <3>2
        <4>2. ~(withBonus /\ shown # Null /\ f < shown)
          BY <3>2 DEF OrZero
        <4>3. QED BY <4>1, <4>2
      <3>3. QED BY <3>1, <3>2
    <2>8. QED BY <1>7, <2>7 DEF Stand, withBonus, shown
  <1>8. QED BY <1>6, <1>7

LEMMA FeeEndGrows ==
  ASSUME NEW o \in Offers, NEW bonus, bonus # Null, BonusFor(o, bonus), WaivedFirst(o),
         NEW f \in Nat, NEW f2 \in Nat, f <= f2
  PROVE  /\ FeeEnd(o, f) = f \/ FeeEnd(o, f) = FeeEnd(o, f2)
         /\ FeeEnd(o, f2) < bonus.required \/ FeeEnd(o, f2) = 0
  BY RowsOK DEF FeeEnd, Least, WaivedFirst, BonusFor

LEMMA FeeEndMonotone ==
  ASSUME NEW o \in Offers, NEW f \in Nat, NEW f2 \in Nat, f <= f2
  PROVE  FeeEnd(o, f) <= FeeEnd(o, f2)
  BY RowsOK DEF FeeEnd, Least

LEMMA BonusShownGrows ==
  ASSUME NEW o \in Offers, NEW bonus, bonus # Null, BonusFor(o, bonus), WaivedFirst(o),
         NEW f, NEW s, NEW f2, NEW s2, Grown(f, s, f2, s2), NEW low \in {0, 1}, NEW low2 \in {0, 1}
  PROVE  LET shown == BonusShown(o, bonus, f, s, low)
             shown2 == BonusShown(o, bonus, f2, s2, low2)
         IN  /\ shown # Null /\ shown2 # Null => shown2 >= shown - 1
             /\ shown # Null /\ shown2 = Null => shown <= f /\ shown <= FeeEnd(o, f2)
             /\ shown = Null /\ shown2 # Null => shown2 >= FeeEnd(o, f)
  <1> DEFINE x == BonusShown(o, bonus, f, s, low)
             y == BonusShown(o, bonus, f2, s2, low2)
             end == FeeEnd(o, f)
             end2 == FeeEnd(o, f2)
             required == bonus.required
             m == Mixed(end, required, f, s, low)
             m2 == Mixed(end2, required, f2, s2, low2)
  <1>1. /\ f \in Nat /\ s \in Nat /\ f2 \in Nat /\ s2 \in Nat
        /\ s <= f /\ s2 <= f2 /\ f <= f2 /\ s <= s2 /\ (f # s => f2 # s2)
    BY DEF Grown
  <1>2. x = IF s < end THEN Null ELSE IF s >= required THEN required ELSE IF f # s THEN m ELSE s
    BY <1>1, BonusShownIs
  <1>3. y = IF s2 < end2 THEN Null ELSE IF s2 >= required THEN required
            ELSE IF f2 # s2 THEN m2 ELSE s2
    BY <1>1, BonusShownIs
  <1>4. /\ end \in Nat /\ end2 \in Nat /\ end <= end2 /\ end <= f /\ required \in Nat
        /\ end = f \/ end = end2
        /\ end2 < required \/ end2 = 0
    BY <1>1, FeeEndType, FeeEndGrows, FeeEndMonotone DEF BonusFor
  <1>5. s >= end /\ s < required => m \in end..required - 1
    BY <1>1, <1>4, MixedType
  <1>6. s2 >= end2 /\ s2 < required =>
          /\ m2 \in end2..required - 1
          /\ m2 >= s2 - 1
          /\ end = end2 => m2 >= m - 1
    <2>1. SUFFICES ASSUME s2 >= end2, s2 < required
                   PROVE  /\ m2 \in end2..required - 1
                          /\ m2 >= s2 - 1
                          /\ end = end2 => m2 >= m - 1
      OBVIOUS
    <2>2. end2 < required
      BY <1>1, <1>4, <2>1
    <2>3. m2 \in end2..required - 1
      <3> HIDE DEF end2, required
      <3> QED BY <1>1, <1>4, <2>1, <2>2, MixedType DEF m2
    <2>4. m2 >= s2 - 1
      <3> HIDE DEF end2, required
      <3> QED BY <1>1, <1>4, <2>1, <2>2, MixedGrows DEF m2
    <2>5. ASSUME end = end2 PROVE m2 >= m - 1
      <3>1. m = Mixed(end2, required, f, s, low)
        BY <2>5
      <3> HIDE DEF end, end2, required, m
      <3>2. QED BY <1>1, <1>4, <2>1, <2>2, <3>1, MixedGrows DEF m2
    <2>6. QED BY <2>3, <2>4, <2>5
  <1>7. SUFFICES /\ x # Null /\ y # Null => y >= x - 1
                 /\ x # Null /\ y = Null => x <= f /\ x <= end2
                 /\ x = Null /\ y # Null => y >= end
    OBVIOUS
  <1>8. Null \notin Nat
    OBVIOUS
  <1> HIDE DEF x, y, end, end2, required, m, m2
  <1>9. CASE s < end
    <2>1. x = Null
      BY <1>2, <1>9
    <2>2. ASSUME y # Null PROVE y >= end
      <3>1. s2 >= end2
        BY <1>1, <1>3, <1>4, <2>2
      <3>2. CASE s2 >= required
        BY <1>1, <1>3, <1>4, <3>1, <3>2
      <3>3. CASE s2 < required
        BY <1>1, <1>3, <1>4, <1>6, <3>1, <3>3
      <3>4. QED BY <1>1, <1>4, <3>2, <3>3
    <2>3. QED BY <2>1, <2>2
  <1>10. CASE s >= end /\ s >= required
    <2>1. x = required /\ s2 >= required
      BY <1>1, <1>2, <1>4, <1>10
    <2>2. s2 >= end2
      BY <1>1, <1>4, <2>1
    <2>3. y = required
      BY <1>1, <1>3, <1>4, <2>1, <2>2
    <2>4. QED BY <1>4, <1>8, <2>1, <2>3
  <1>11. CASE s >= end /\ s < required /\ f = s
    <2>1. x = s
      BY <1>1, <1>2, <1>4, <1>11
    <2>2. ASSUME y # Null PROVE y >= x - 1
      <3>1. s2 >= end2
        BY <1>1, <1>3, <1>4, <2>2
      <3>2. CASE s2 >= required
        BY <1>1, <1>3, <1>4, <1>11, <2>1, <3>1, <3>2
      <3>3. CASE s2 < required
        BY <1>1, <1>3, <1>4, <1>6, <2>1, <3>1, <3>3
      <3>4. QED BY <1>1, <1>4, <3>2, <3>3
    <2>3. ASSUME y = Null PROVE x <= f /\ x <= end2
      <3>1. s2 < end2
        BY <1>1, <1>3, <1>4, <1>6, <1>8, <2>3
      <3>2. QED BY <1>1, <1>4, <2>1, <3>1
    <2>4. x # Null
      BY <1>1, <1>8, <2>1
    <2>5. QED BY <2>2, <2>3, <2>4
  <1>12. CASE s >= end /\ s < required /\ f # s
    <2>1. x = m
      BY <1>1, <1>2, <1>4, <1>12
    <2>2. end = end2 /\ f2 # s2 /\ s2 >= end2
      BY <1>1, <1>4, <1>12
    <2>3. y # Null /\ y >= x - 1
      <3>1. CASE s2 >= required
        BY <1>1, <1>3, <1>4, <1>5, <1>8, <1>12, <2>1, <2>2, <3>1
      <3>2. CASE s2 < required
        BY <1>1, <1>3, <1>4, <1>6, <1>8, <2>1, <2>2, <3>2
      <3>3. QED BY <1>1, <1>4, <3>1, <3>2
    <2>4. x # Null
      BY <1>4, <1>5, <1>8, <1>12, <2>1
    <2>5. QED BY <2>3, <2>4
  <1>13. QED BY <1>1, <1>4, <1>9, <1>10, <1>11, <1>12

LEMMA StandGrows ==
  ASSUME NEW o \in Offers, NEW bonus, BonusFor(o, bonus), WaivedFirst(o),
         NEW f, NEW s, NEW f2, NEW s2, Grown(f, s, f2, s2), NEW low \in {0, 1}, NEW low2 \in {0, 1}
  PROVE  Stand(o, bonus, f2, s2, low2) >= Stand(o, bonus, f, s, low) - 1
  <1> DEFINE x == BonusShown(o, bonus, f, s, low)
             y == BonusShown(o, bonus, f2, s2, low2)
             end == FeeEnd(o, f)
             end2 == FeeEnd(o, f2)
             has == HasBonusChain(o, bonus)
             min == o.gift.min
  <1>1. f \in Nat /\ s \in Nat /\ f2 \in Nat /\ s2 \in Nat /\ f <= f2
    BY DEF Grown
  <1>2. end \in Nat /\ end2 \in Nat /\ end <= end2
    BY <1>1, FeeEndType, FeeEndMonotone
  <1>3. ASSUME has
        PROVE  /\ x \in Nat \cup {Null} /\ y \in Nat \cup {Null}
               /\ x # Null => x <= bonus.required
               /\ bonus.required \in Nat
               /\ o.gift # Null => bonus.required < min
               /\ x # Null /\ y # Null => y >= x - 1
               /\ x # Null /\ y = Null => x <= f /\ x <= end2
               /\ x = Null /\ y # Null => y >= end
    BY <1>1, <1>3, BonusShownType, BonusShownGrows DEF HasBonusChain, BonusFor
  <1>4. o.gift # Null => min \in Nat
    BY RowsOK
  <1>5. /\ Stand(o, bonus, f, s, low) =
             IF o.gift # Null
             THEN IF has /\ x # Null /\ f < x THEN x ELSE Least(f, min)
             ELSE IF has /\ x # Null THEN x ELSE end
        /\ Stand(o, bonus, f2, s2, low2) =
             IF o.gift # Null
             THEN IF has /\ y # Null /\ f2 < y THEN y ELSE Least(f2, min)
             ELSE IF has /\ y # Null THEN y ELSE end2
    BY DEF Stand
  <1> HIDE DEF x, y, end, end2, has, min
  <1>6. CASE o.gift # Null
    <2>1. min \in Nat
      BY <1>4, <1>6
    <2>2. /\ Least(f, min) \in Nat /\ Least(f2, min) \in Nat /\ Least(f, min) <= Least(f2, min)
          /\ Least(f, min) <= f
      BY <1>1, <2>1 DEF Least
    <2>3. CASE has /\ x # Null /\ f < x
      <3>1. y # Null /\ y \in Nat /\ x \in Nat /\ y >= x - 1 /\ x < min
        BY <1>1, <1>3, <1>6, <2>1, <2>3
      <3>2. Stand(o, bonus, f, s, low) = x
        BY <1>5, <1>6, <2>3
      <3>3. CASE f2 < y
        BY <1>5, <1>6, <2>3, <3>1, <3>2, <3>3
      <3>4. CASE ~(f2 < y)
        <4>1. Stand(o, bonus, f2, s2, low2) = Least(f2, min)
          BY <1>5, <1>6, <3>4
        <4>2. Least(f2, min) >= x - 1
          BY <1>1, <2>1, <3>1, <3>4 DEF Least
        <4>3. QED BY <3>2, <4>1, <4>2
      <3>5. QED BY <3>3, <3>4
    <2>4. CASE ~(has /\ x # Null /\ f < x)
      <3>1. Stand(o, bonus, f, s, low) = Least(f, min)
        BY <1>5, <1>6, <2>4
      <3>2. CASE has /\ y # Null /\ f2 < y
        <4>1. Stand(o, bonus, f2, s2, low2) = y /\ y \in Nat
          BY <1>3, <1>5, <1>6, <3>2
        <4>2. QED BY <1>1, <2>2, <3>1, <3>2, <4>1
      <3>3. CASE ~(has /\ y # Null /\ f2 < y)
        <4>1. Stand(o, bonus, f2, s2, low2) = Least(f2, min)
          BY <1>5, <1>6, <3>3
        <4>2. QED BY <2>2, <3>1, <4>1
      <3>4. QED BY <3>2, <3>3
    <2>5. QED BY <2>3, <2>4
  <1>7. CASE o.gift = Null
    <2>1. CASE ~has
      BY <1>2, <1>5, <1>7, <2>1
    <2>2. CASE has
      BY <1>2, <1>3, <1>5, <1>7, <2>2
    <2>3. QED BY <2>1, <2>2
  <1>8. QED BY <1>6, <1>7

(* What an answer came from.                                                 *)
LEMMA AnswerWasMade ==
  ASSUME ConditionsInv, Answered
  PROVE  \E low \in {0, 1} : \E applied :
           IF offer.legacy THEN answer = LegacyResponse(offer, cart, BonusNow, applied, low)
           ELSE /\ ~ComposeRaises(ChainsOf(offer, cart, BonusNow, low), offer.gift, BonusSubtotal(cart))
                /\ answer = ComposedResponse(offer, cart, BonusNow, applied, low)
  BY DEF ConditionsInv, Answered, Possible, BonusNow

(* Where the bar of an answer to the new version stands.                     *)
LEMMA ComposedAnswerStands ==
  ASSUME NEW o \in Offers, ~o.legacy, NEW bonus, BonusFor(o, bonus), NEW c \in Carts,
         NEW low \in {0, 1}, NEW applied, NEW bar \in {"catalog", "cart"},
         ~ComposeRaises(ChainsOf(o, c, bonus, low), o.gift, BonusSubtotal(c)),
         ComposedResponse(o, c, bonus, applied, low)[bar] # Null
  PROVE  ComposedResponse(o, c, bonus, applied, low)[bar].value =
           Stand(o, bonus, FeeSubtotal(c), BonusSubtotal(c), low)
  <1> DEFINE f == FeeSubtotal(c)
             s == BonusSubtotal(c)
             chains == ChainsOf(o, c, bonus, low)
             made == Chains(o.fee, bonus, o.gift, o.newcomer, f, s, low)
  <1>1. f \in Nat /\ s \in Nat /\ s <= f
    BY SubtotalsType
  <1>2. ComposedResponse(o, c, bonus, applied, low)[bar] = ComposedBar(chains)
    BY DEF ComposedResponse, Response
  <1>3. chains = made
    BY DEF ChainsOf
  <1>4. made \in Seq(GoodChains(o, bonus, f, s))
    <2> HIDE DEF f, s
    <2> QED BY <1>1, ChainsGood
  <1>5. GoodChains(o, bonus, f, s) \in SUBSET ChainRecord
    BY DEF GoodChains
  <1>6. ~ComposeRaises(made, o.gift, s) /\ ComposedBar(made) # Null
    BY <1>2, <1>3
  <1>7. IsLast(made, ComposedBar(made).value)
    <2> HIDE DEF made
    <2> QED BY <1>4, <1>5, <1>6, ComposedBarIs DEF IsLast
  <1>8. ASSUME NEW v, IsLast(made, v) PROVE v = Stand(o, bonus, f, s, low)
    <2>1. made = Chains(o.fee, bonus, o.gift, o.newcomer, f, s, low)
      OBVIOUS
    <2> HIDE DEF f, s, made, chains
    <2> HIDE ProductAssumption, OfferAssumption, QuantityAssumption
    <2>2. QED BY <1>1, <1>8, <2>1, ComposedValueIs
  <1>9. ComposedBar(made).value = Stand(o, bonus, f, s, low)
    BY <1>7, <1>8
  <1>10. QED BY <1>2, <1>3, <1>9

(* Adding an item never moves a bar back, but for the cent that the float    *)
(* product may lose.                                                         *)
THEOREM ProgressIsKept == Spec => ProgressNeverGoesBack
  <1> DEFINE Same == /\ FreeFirst /\ coupon' = coupon /\ happy' = happy
                     /\ Answered /\ Answered'
             Onward == \A bar \in {"catalog", "cart"} :
                         answer[bar] # Null /\ answer'[bar] # Null =>
                           answer'[bar].value >= answer[bar].value - 1
  <1>1. ASSUME ConditionsInv, ConditionsInv', Next, Same PROVE Onward
    <2> DEFINE f == FeeSubtotal(cart)
               s == BonusSubtotal(cart)
               f2 == FeeSubtotal(cart')
               s2 == BonusSubtotal(cart')
               bonus == BonusNow
    <2>1. /\ offer' = offer /\ cart' \in Carts /\ \A p \in DOMAIN Product : cart[p] <= cart'[p]
      BY <1>1, NextAsks
    <2>2. cart \in Carts /\ offer \in Offers
      BY <1>1 DEF ConditionsInv
    <2>3. Grown(f, s, f2, s2)
      BY <2>1, <2>2, CartsGrow
    <2>4. BonusFor(offer, bonus) /\ WaivedFirst(offer)
      BY <1>1, AnswerIs, BonusForNow DEF FreeFirst, WaivedFirst
    <2>5. PICK low, applied :
            /\ low \in {0, 1}
            /\ IF offer.legacy THEN answer = LegacyResponse(offer, cart, bonus, applied, low)
               ELSE /\ ~ComposeRaises(ChainsOf(offer, cart, bonus, low), offer.gift, s)
                    /\ answer = ComposedResponse(offer, cart, bonus, applied, low)
      BY <1>1, AnswerWasMade
    <2>6. PICK low2, applied2 :
            /\ low2 \in {0, 1}
            /\ IF offer.legacy THEN answer' = LegacyResponse(offer, cart', bonus, applied2, low2)
               ELSE /\ ~ComposeRaises(ChainsOf(offer, cart', bonus, low2), offer.gift, s2)
                    /\ answer' = ComposedResponse(offer, cart', bonus, applied2, low2)
      <3>1. Possible(offer', cart', coupon', happy', answer')
        BY <1>1 DEF ConditionsInv, Answered
      <3>2. Possible(offer, cart', coupon, happy, answer')
        BY <1>1, <2>1, <3>1
      <3>3. QED BY <3>2 DEF Possible, BonusNow
    <2> HIDE DEF bonus
    <2>7. low \in {0, 1} /\ low2 \in {0, 1}
      BY <2>5, <2>6
    <2>8. CASE offer.legacy
      <3>1. /\ answer["catalog"] = CatalogBar(offer.fee, ChargeOf(offer, cart), bonus,
                                              offer.newcomer, f, s, low)
            /\ answer["cart"] = CartBar(offer.fee, ChargeOf(offer, cart), bonus,
                                        offer.newcomer, f, s, low)
        BY <2>5, <2>8 DEF LegacyResponse, Response
      <3>2. /\ answer'["catalog"] = CatalogBar(offer.fee, ChargeOf(offer, cart'), bonus,
                                               offer.newcomer, f2, s2, low2)
            /\ answer'["cart"] = CartBar(offer.fee, ChargeOf(offer, cart'), bonus,
                                         offer.newcomer, f2, s2, low2)
        BY <2>6, <2>8 DEF LegacyResponse, Response
      <3> HIDE DEF f, s, f2, s2
      <3>3. QED BY <2>2, <2>3, <2>4, <2>7, <3>1, <3>2, LegacyGrows
    <2>9. ASSUME ~offer.legacy, NEW bar \in {"catalog", "cart"}, answer[bar] # Null, answer'[bar] # Null
          PROVE  answer'[bar].value >= answer[bar].value - 1
      <3>1. answer[bar].value = Stand(offer, bonus, f, s, low)
        BY <2>2, <2>4, <2>5, <2>7, <2>9, ComposedAnswerStands
      <3>2. answer'[bar].value = Stand(offer, bonus, f2, s2, low2)
        BY <2>1, <2>2, <2>4, <2>6, <2>7, <2>9, ComposedAnswerStands
      <3> HIDE DEF f, s, f2, s2
      <3>3. Stand(offer, bonus, f2, s2, low2) >= Stand(offer, bonus, f, s, low) - 1
        BY <2>2, <2>3, <2>4, <2>7, StandGrows
      <3>4. QED BY <3>1, <3>2, <3>3
    <2>10. QED BY <2>8, <2>9
  <1>2. ConditionsInv /\ ConditionsInv' /\ [Next]_vars => [Same => Onward]_vars
    BY <1>1
  <1>3. QED BY <1>2, ConditionsInvariant, PTL DEF Spec, ProgressNeverGoesBack
=============================================================================
