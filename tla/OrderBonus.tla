----------------------------- MODULE OrderBonus -----------------------------
(***************************************************************************)
(* OrderBonusManager.calculate_order_bonus: the bonus of an order, from    *)
(* the warehouse's settings and the bonus of the current happy hours.      *)
(* Amounts are in cents.                                                   *)
(***************************************************************************)
EXTENDS Discounting

CONSTANT Null

(* A row of warehouse_bonus_settings; both kinds of bonus are nullable.     *)
BonusSettings ==
  [required : Nat, fixed : Nat \cup {Null}, percent : Nat \cup {Null}, happyOnly : BOOLEAN]

(* Python's truth of an Optional[int], and `x or 0`.                        *)
Truthy(x) == x # Null /\ x # 0

OrZero(x) == IF x = Null THEN 0 ELSE x

Greatest(a, b) == IF a >= b THEN a ELSE b

(* No bonus at all: no settings, or settings for happy hours only outside   *)
(* of them.                                                                 *)
NoBonus(settings, happy) == settings = Null \/ (settings.happyOnly /\ happy = Null)

HappyOnly(settings, happy) == settings.happyOnly /\ Truthy(happy)

(* Mutant of BonusRaises: the percentage is compared before it is known     *)
(* that there is no fixed bonus.                                            *)
BonusRaisesEarlier(settings, happy) ==
  ~NoBonus(settings, happy) /\ ~HappyOnly(settings, happy) /\ settings.percent = Null

(* The comparison of the happy hours' bonus with a percentage that is NULL  *)
(* raises.                                                                  *)
BonusRaises(settings, happy) ==
  /\ ~NoBonus(settings, happy) /\ ~HappyOnly(settings, happy)
  /\ ~Truthy(settings.fixed) /\ settings.percent = Null

IsPercent(settings, happy) ==
  IF HappyOnly(settings, happy) THEN Truthy(settings.percent) ELSE ~Truthy(settings.fixed)

(* Mutant of BonusAmount: the happy hours replace the bonus.                *)
BonusAmountReplaced(settings, happy) ==
  IF Truthy(happy) THEN happy
  ELSE IF Truthy(settings.fixed) THEN settings.fixed ELSE OrZero(settings.percent)

(* Cents, or percents of the subtotal.                                      *)
BonusAmount(settings, happy) ==
  IF HappyOnly(settings, happy) THEN happy
  ELSE IF Truthy(settings.fixed) THEN Greatest(settings.fixed, OrZero(happy))
  ELSE Greatest(OrZero(settings.percent), OrZero(happy))

IsIncreased(settings, happy) ==
  \/ HappyOnly(settings, happy)
  \/ Truthy(settings.fixed) /\ OrZero(happy) > settings.fixed
  \/ ~Truthy(settings.fixed) /\ OrZero(happy) > settings.percent

(* The bonus before it is distributed among the items and capped.           *)
NominalBonus(settings, happy, subtotal) ==
  IF subtotal < settings.required THEN 0
  ELSE IF IsPercent(settings, happy) THEN (subtotal * BonusAmount(settings, happy)) \div 100
  ELSE BonusAmount(settings, happy)

(* The possible values of applied_bonus for an order.                       *)
AppliedBonuses(settings, happy, order) ==
  {DiscountValue(distribution) :
     distribution \in Distributions(NominalBonus(settings, happy, Subtotal(order)), order)}
=============================================================================
