-------------------------- MODULE OrderConditions --------------------------
(***************************************************************************)
(* OrderConditionsService.get_order_conditions: the fee and the bonus of   *)
(* an order, and the progress bars and conditions that explain them to the *)
(* customer, who asks again after every change of the cart.                *)
(*                                                                         *)
(* An offer holds the rows the service reads: the small order fee, the     *)
(* bonus settings and the gift of a warehouse, each possibly Null.  Of a   *)
(* text the model keeps what it is about and whether it says what to add   *)
(* or that it is got.                                                      *)
(***************************************************************************)
EXTENDS OrderBonus, Sequences, SequencesExt

CONSTANTS
  Product,       \* for each product: its type, price and purchase price
  MaxQuantity,   \* bound on the quantity of a product in the cart
  Offers         \* the offers considered

ASSUME ProductAssumption ==
  /\ IsFiniteSet(DOMAIN Product)
  /\ \A p \in DOMAIN Product :
       /\ Product[p].type \in ItemType /\ Product[p].price \in Nat
       /\ Product[p].purchase \in Nat
ASSUME OfferAssumption ==
  /\ Null \notin Int
  /\ \A o \in Offers :
       /\ o.fee = Null \/ (o.fee.value \in Nat /\ o.fee.freeAfter \in Nat \cup {Null})
       /\ o.bonus = Null \/ o.bonus \in BonusSettings
       /\ o.gift = Null \/ (o.gift.min \in Nat /\ o.gift.lessBanner \in BOOLEAN
                                                /\ o.gift.greaterBanner \in BOOLEAN)
       /\ o.happy \in Nat \cup {Null}
       /\ o.newcomer \in BOOLEAN /\ o.legacy \in BOOLEAN
ASSUME QuantityAssumption == MaxQuantity \in Nat

VARIABLES
  offer,     \* what the tables offer to this customer, and how they ask
  cart,      \* order_items of the last request: a quantity for each product
  coupon,    \* coupon_applied of the last request
  happy,     \* the happy hours' bonus at the last request, Null outside them
  status,    \* of the last request: "none", "answered" or "failed"
  answer     \* the response to it, Null without one

vars == <<offer, cart, coupon, happy, status, answer>>

-----------------------------------------------------------------------------
(* The order *)

Line(c, p) ==
  [type |-> Product[p].type, price |-> Product[p].price, quantity |-> c[p],
   purchase |-> Product[p].purchase]

OrderOf(c) == [p \in {q \in DOMAIN Product : c[q] > 0} |-> Line(c, p)]

(* Tobacco counts for the fee and the gift, not for the bonus.              *)
BonusOrder(c) == Restrict(OrderOf(c), {p \in DOMAIN OrderOf(c) : Product[p].type # "tobacco"})

FeeSubtotal(c) == Subtotal(OrderOf(c))

BonusSubtotal(c) == Subtotal(BonusOrder(c))

(* Mutant of Charge: a newcomer pays.                                       *)
ChargeNewcomer(fee, newcomer, f) ==
  IF Truthy(fee.freeAfter) /\ f >= fee.freeAfter THEN 0 ELSE fee.value

(* calculate_fees: what the small order fee comes to.                       *)
Charge(fee, newcomer, f) ==
  IF newcomer \/ (Truthy(fee.freeAfter) /\ f >= fee.freeAfter) THEN 0 ELSE fee.value

-----------------------------------------------------------------------------
(* Texts and bars *)

Text(type, total, says) == [type |-> type, total |-> total, says |-> says, chained |-> FALSE]

Bar(value, placeholder, items) ==
  [value |-> value, placeholder |-> placeholder, items |-> items]

Placeholder(type, says) == [type |-> type, says |-> says]

(* Mutant of Mixed: the bar shows the order's value.                        *)
MixedPlain(left, required, f, s, low) == f

(* Mutant of Mixed: the bar starts at zero again.                           *)
MixedFromZero(left, required, f, s, low) == s

(* Where the bar stands between two borders when tobacco makes the two      *)
(* subtotals differ: int(left + (required - left) * (s / required)).  The   *)
(* product is a float: when it should be whole it may end just below.       *)
Mixed(left, required, f, s, low) ==
  (left * required + (required - left) * s - (IF s > 0 THEN low ELSE 0)) \div required

(* The bars of the old version.  A bonus is [required, increased].          *)
EmptyPlaceholder(bonus) == Placeholder("bonus", IF bonus.increased THEN "happy" ELSE "add")

BonusBar(bonus, s) ==
  IF s = 0 THEN Bar(s, EmptyPlaceholder(bonus), <<>>)
  ELSE IF s < bonus.required THEN Bar(s, Null, <<Text("bonus", bonus.required, "add")>>)
  ELSE Bar(s, Placeholder("bonus", "got"), <<>>)

FeeBar(fee, charge, f, passed) ==
  IF charge = 0 \/ f = 0 THEN Null
  ELSE IF f < OrZero(fee.freeAfter) THEN Bar(f, Null, <<Text("fee", fee.freeAfter, "add")>>)
  ELSE passed

(* Mutant of FeeAndBonusBar: the two subtotals swapped in the last test.    *)
FeeAndBonusBarSwapped(fee, bonus, newcomer, f, s, feePassed, low) ==
  LET free == OrZero(fee.freeAfter)
  IN  IF newcomer THEN BonusBar(bonus, s)
      ELSE IF f = 0 THEN Bar(f, EmptyPlaceholder(bonus), <<>>)
      ELSE IF f < free
      THEN Bar(f, Null, <<Text("fee", free, "add"), Text("bonus", bonus.required, "blank")>>)
      ELSE IF f < bonus.required
      THEN Bar(IF f # s THEN Mixed(free, bonus.required, f, s, low) ELSE s, Null,
               <<Text("fee", free, feePassed), Text("bonus", bonus.required, "add")>>)
      ELSE Bar(Greatest(f, s), Placeholder("bonus", "got"), <<>>)

FeeAndBonusBar(fee, bonus, newcomer, f, s, feePassed, low) ==
  LET free == OrZero(fee.freeAfter)
  IN  IF newcomer THEN BonusBar(bonus, s)
      ELSE IF f = 0 THEN Bar(f, EmptyPlaceholder(bonus), <<>>)
      ELSE IF f < free
      THEN Bar(f, Null, <<Text("fee", free, "add"), Text("bonus", bonus.required, "blank")>>)
      ELSE IF s < bonus.required
      THEN Bar(IF f # s THEN Mixed(free, bonus.required, f, s, low) ELSE s, Null,
               <<Text("fee", free, feePassed), Text("bonus", bonus.required, "add")>>)
      ELSE Bar(Greatest(f, s), Placeholder("bonus", "got"), <<>>)

(* The managers of the two kinds of bonus differ in what an empty order is  *)
(* told, the bars of the catalog and the cart in what they say of a fee     *)
(* that is passed.                                                          *)
FeeAndBonusCatalogBar(fee, bonus, newcomer, f, s, low) ==
  FeeAndBonusBar(fee, bonus, newcomer, f, s, "got", low)

FeeAndBonusCartBar(fee, bonus, newcomer, f, s, low) ==
  FeeAndBonusBar(fee, bonus, newcomer, f, s, "blank", low)

FeeCatalogBar(fee, charge, f) == FeeBar(fee, charge, f, Bar(f, Placeholder("fee", "got"), <<>>))

FeeCartBar(fee, charge, f) == FeeBar(fee, charge, f, Null)

CatalogBar(fee, charge, bonus, newcomer, f, s, low) ==
  IF fee = Null /\ bonus = Null THEN Null
  ELSE IF bonus = Null THEN FeeCatalogBar(fee, charge, f)
  ELSE IF fee = Null THEN BonusBar(bonus, s)
  ELSE FeeAndBonusCatalogBar(fee, bonus, newcomer, f, s, low)

CartBar(fee, charge, bonus, newcomer, f, s, low) ==
  IF fee = Null /\ bonus = Null THEN Null
  ELSE IF bonus = Null THEN FeeCartBar(fee, charge, f)
  ELSE IF fee = Null THEN BonusBar(bonus, s)
  ELSE FeeAndBonusCartBar(fee, bonus, newcomer, f, s, low)

(* ConditionsManager.get_order_conditions: what the conditions are about.   *)
LegacyConditions(fee, bonus, newcomer) ==
  (IF fee # Null /\ ~newcomer THEN {"fee"} ELSE {}) \cup (IF bonus # Null THEN {"bonus"} ELSE {})

-----------------------------------------------------------------------------
(* The chains of the new version: a value, or Null, and an item.            *)

Chain(value, completed, item) == [value |-> value, completed |-> completed, item |-> item]

FeeChain(fee, f) ==
  LET free == OrZero(fee.freeAfter)
  IN  IF f < free THEN Chain(f, FALSE, Text("fee", free, "add"))
                  ELSE Chain(fee.freeAfter, TRUE, Text("fee", free, "got"))

BonusChain(left, bonus, f, s, low) ==
  LET item == Text("bonus", bonus.required, IF s < bonus.required THEN "add" ELSE "got")
  IN  IF s < left THEN Chain(Null, FALSE, item)
      ELSE IF s >= bonus.required THEN Chain(bonus.required, TRUE, item)
      ELSE Chain(IF f # s THEN Mixed(left, bonus.required, f, s, low) ELSE s, FALSE, item)

(* The value follows the whole subtotal, the text the one without tobacco.  *)
GiftChain(left, gift, f, s) ==
  LET item == Text("gift", gift.min, IF s < gift.min THEN "add" ELSE "got")
  IN  IF f < left THEN Chain(Null, FALSE, item)
      ELSE IF f < gift.min THEN Chain(f, FALSE, item)
      ELSE Chain(gift.min, TRUE, item)

LeftBorder(chains) == IF chains = <<>> THEN 0 ELSE OrZero(Last(chains).value)

(* init_chains.  When the gift does not come after the bonus, the bonus'    *)
(* chain is made but not added.                                             *)
Chains(fee, bonus, gift, newcomer, f, s, low) ==
  LET first == IF fee # Null /\ ~newcomer THEN <<FeeChain(fee, f)>> ELSE <<>>
      second ==
        IF bonus # Null /\ (gift = Null \/ bonus.required < gift.min)
        THEN Append(first, BonusChain(LeftBorder(first), bonus, f, s, low)) ELSE first
  IN  IF gift # Null THEN Append(second, GiftChain(LeftBorder(second), gift, f, s)) ELSE second

WithValue(chains) == {k \in DOMAIN chains : chains[k].value # Null}

(* Mutant of Titled: the first chain that is not completed does not stop    *)
(* the loop.                                                                *)
TitledOn(chains) ==
  [k \in DOMAIN chains |->
     [chains[k].item EXCEPT !.chained = k <= Cardinality(WithValue(chains))]]

(* The first k members of a set of indices.                                 *)
FirstOf(k, S) == {i \in S : Cardinality({j \in S : j < i}) < k}

(* title_chain: the k-th item is joined to the titles before it ("Yay, ..", *)
(* ".. + ..") while the k-th of the chains that have a value is completed.  *)
Titled(chains) ==
  [k \in DOMAIN chains |->
     [chains[k].item EXCEPT
        !.chained = /\ k <= Cardinality(WithValue(chains))
                    /\ \A i \in FirstOf(k, WithValue(chains)) : chains[i].completed]]

(* A condition has a title; that of a gift is its banner's.                 *)
BannerMissing(gift, s) ==
  gift # Null /\ ~(IF s < gift.min THEN gift.lessBanner ELSE gift.greaterBanner)

(* The last value is asked for also when no chain has one.                  *)
ComposeRaises(chains, gift, s) ==
  chains # <<>> /\ (BannerMissing(gift, s) \/ WithValue(chains) = {})

ComposedBar(chains) ==
  IF chains = <<>> THEN Null
  ELSE Bar(chains[Max(WithValue(chains))].value, Null, Titled(chains))

ComposedConditions(chains) == {chains[k].item.type : k \in DOMAIN chains}

-----------------------------------------------------------------------------
Init ==
  /\ offer \in Offers
  /\ cart = [p \in DOMAIN Product |-> 0]
  /\ coupon = FALSE
  /\ happy = Null
  /\ status = "none"
  /\ answer = Null

Response(charge, applied, catalog, cartBar, conditions) ==
  [fee |-> charge, bonus |-> applied, catalog |-> catalog, cart |-> cartBar,
   conditions |-> conditions]

(* A coupon takes the bonus' place.                                         *)
SettingsOf(o, withCoupon) == IF withCoupon THEN Null ELSE o.bonus

(* What the bars are told of the bonus, and what it may come to.            *)
BonusOf(settings, h) ==
  IF NoBonus(settings, h) THEN Null
  ELSE [required |-> settings.required, increased |-> IsIncreased(settings, h)]

AppliedOf(settings, h, c) ==
  IF NoBonus(settings, h) THEN {0} ELSE AppliedBonuses(settings, h, BonusOrder(c))

ChargeOf(o, c) == IF o.fee = Null THEN 0 ELSE Charge(o.fee, o.newcomer, FeeSubtotal(c))

LegacyResponse(o, c, bonus, applied, low) ==
  LET f == FeeSubtotal(c)
      s == BonusSubtotal(c)
      charge == ChargeOf(o, c)
  IN  Response(charge, applied, CatalogBar(o.fee, charge, bonus, o.newcomer, f, s, low),
               CartBar(o.fee, charge, bonus, o.newcomer, f, s, low),
               LegacyConditions(o.fee, bonus, o.newcomer))

ChainsOf(o, c, bonus, low) ==
  Chains(o.fee, bonus, o.gift, o.newcomer, FeeSubtotal(c), BonusSubtotal(c), low)

ComposedResponse(o, c, bonus, applied, low) ==
  LET chains == ChainsOf(o, c, bonus, low)
  IN  Response(ChargeOf(o, c), applied, ComposedBar(chains), ComposedBar(chains),
               ComposedConditions(chains))

Answer(response) == status' = "answered" /\ answer' = response

(* An exception is raised on the way.                                       *)
Fail == status' = "failed" /\ answer' = Null

(* get_order_conditions for a cart, with or without a coupon, at a time     *)
(* when the happy hours' bonus is h.                                        *)
Ask(c, withCoupon, h) ==
  LET settings == SettingsOf(offer, withCoupon)
      bonus == BonusOf(settings, h)
  IN  /\ cart' = c /\ coupon' = withCoupon /\ happy' = h
      /\ UNCHANGED offer
      /\ IF BonusRaises(settings, h) THEN Fail
         ELSE \E low \in {0, 1}, applied \in AppliedOf(settings, h, c) :
           IF offer.legacy THEN Answer(LegacyResponse(offer, c, bonus, applied, low))
           ELSE IF ComposeRaises(ChainsOf(offer, c, bonus, low), offer.gift, BonusSubtotal(c)) THEN Fail
           ELSE Answer(ComposedResponse(offer, c, bonus, applied, low))

(* The customer asks about the same cart, or one with one more item.        *)
Next ==
  \E withCoupon \in BOOLEAN, h \in {Null, offer.happy} :
    \/ Ask(cart, withCoupon, h)
    \/ \E p \in DOMAIN Product :
         cart[p] < MaxQuantity /\ Ask([cart EXCEPT ![p] = @ + 1], withCoupon, h)

Spec == Init /\ [][Next]_vars

-----------------------------------------------------------------------------
(* Properties *)

Answered == status = "answered"

Bars == {answer.catalog, answer.cart} \ {Null}

(* Everything a bar says to the customer.                                   *)
Texts(bar) ==
  {bar.items[k] : k \in DOMAIN bar.items} \cup ({bar.placeholder} \ {Null})

(* The fee is waived before the bonus begins, where there are both.         *)
FreeFirst ==
  offer.fee # Null /\ offer.bonus # Null => OrZero(offer.fee.freeAfter) < offer.bonus.required

(* Adding an item never moves a progress bar back, across the stages of the *)
(* fee, the bonus and the gift and with tobacco counting for some of them   *)
(* only; but for the cent that the float product may lose.                  *)
ProgressNeverGoesBack ==
  [][(/\ FreeFirst /\ coupon' = coupon /\ happy' = happy
      /\ Answered /\ Answered') =>
        \A bar \in {"catalog", "cart"} :
          answer[bar] # Null /\ answer'[bar] # Null =>
            answer'[bar].value >= answer[bar].value - 1]_vars

(* A bar does not look full before the bonus is reached: tobacco moves the  *)
(* bar, but never up to the bonus.  (A gift's bar goes on with the whole    *)
(* subtotal.)                                                               *)
FullOnlyWhenEarned ==
  FreeFirst /\ offer.gift = Null /\ Answered =>
    \A bar \in Bars : \A t \in Texts(bar) :
      t.type = "bonus" /\ t \notin {bar.placeholder} /\ bar.value >= t.total =>
        BonusSubtotal(cart) >= offer.bonus.required

(* What the bars say of the fee is what the fee manager charges: "add .."   *)
(* only while there is a fee, and that there is none only when it is waived *)
(* (where the fee is waived at some subtotal at all).                       *)
FeeTextTrue ==
  Answered => \A bar \in Bars : \A t \in Texts(bar) :
    t.type = "fee" =>
      /\ t.says = "add" => answer.fee = offer.fee.value
      /\ t.says = "got" /\ Truthy(offer.fee.freeAfter) => answer.fee = 0

(* What the bars say of the bonus is what the bonus manager applies: "add"  *)
(* only while none is, that it is got only when one is (a bonus that comes  *)
(* to a cent at least, and an order without alcohol, which may cap it), and *)
(* happy hours only in happy hours.  Alcohol bought above its price has a   *)
(* negative cap, which applies to a bonus of nothing as well: beside "add"  *)
(* there is then a bonus below zero, a surcharge, but never one above.      *)
BoughtAbovePrice ==
  \E p \in DOMAIN Product :
    cart[p] > 0 /\ Product[p].type = "alcohol" /\ Product[p].purchase > Product[p].price

ACentAtLeast ==
  IF IsPercent(offer.bonus, happy) THEN BonusSubtotal(cart) * BonusAmount(offer.bonus, happy) >= 100
  ELSE BonusSubtotal(cart) > 0 /\ BonusAmount(offer.bonus, happy) > 0

BonusTextTrue ==
  Answered => \A bar \in Bars : \A t \in Texts(bar) :
    t.type = "bonus" =>
      /\ t.says \in {"add", "happy"} =>
           answer.bonus <= 0 /\ (BoughtAbovePrice \/ answer.bonus = 0)
      /\ t.says = "happy" => happy # Null
      /\ (/\ t.says = "got" /\ ACentAtLeast
          /\ \A p \in DOMAIN Product : cart[p] > 0 => Product[p].type # "alcohol")
            => answer.bonus > 0

(* What a customer reads beside the bar, the service does, though three     *)
(* families of classes decide what to say and two others what to charge.    *)
TextsTrue == FeeTextTrue /\ BonusTextTrue

(* Whatever a bar talks about, the order conditions beside it explain: the  *)
(* classes that make the two agree on which rewards there are.              *)
BarExplained ==
  Answered => \A bar \in Bars : \A t \in Texts(bar) : t.type \in answer.conditions

(* Without tobacco a title is joined to the titles before it only when its  *)
(* reward is got.  (With tobacco the bonus may have no value, and the       *)
(* values are then paired with the wrong titles.)                           *)
TitlesTellTruth ==
  (/\ Answered /\ FeeSubtotal(cart) = BonusSubtotal(cart)
   /\ offer.fee # Null => offer.fee.freeAfter # Null) =>
      \A bar \in Bars : \A k \in DOMAIN bar.items :
        bar.items[k].chained => \A j \in 1..k : bar.items[j].says = "got"

(* The same order does not get a smaller bonus because happy hours begin,   *)
(* but for the cents that the largest remainders move to capped items: at   *)
(* most one for each product in the cart.  (A bonus that there is only in   *)
(* happy hours is a surcharge for alcohol bought above its price.)          *)
HappyHoursNeverLower ==
  [][(/\ Answered /\ Answered' /\ cart' = cart /\ coupon' = coupon
      /\ happy = Null /\ happy' # Null
      /\ ~(BoughtAbovePrice /\ offer.bonus # Null /\ offer.bonus.happyOnly)) =>
        answer'.bonus >= answer.bonus - Cardinality(DOMAIN BonusOrder(cart))]_vars

(* Every request about complete rows gets an answer, whatever is in the     *)
(* cart: one that fails is about a bonus without an amount, a gift that     *)
(* lacks a banner, or a fee whose border is NULL.                           *)
CompleteBonus(b) == Truthy(b.fixed) \/ b.percent # Null

CompleteRows ==
  /\ offer.bonus # Null => CompleteBonus(offer.bonus)
  /\ offer.gift # Null => offer.gift.lessBanner /\ offer.gift.greaterBanner
  /\ offer.fee # Null => offer.fee.freeAfter # Null

CompleteRowsAnswered == CompleteRows => status # "failed"
=============================================================================
