------------------------- MODULE OrderConditionsMC -------------------------
(* Small instances of OrderConditions for TLC. *)
EXTENDS OrderConditions

CONSTANTS Regular, Alcohol, Dear, Tobacco

(* Alcohol has a margin, or was bought above its price.                     *)
Products ==
  [p \in {Regular, Alcohol, Dear, Tobacco} |->
     CASE p = Regular -> [type |-> "regular", price |-> 20, purchase |-> 0]
       [] p = Alcohol -> [type |-> "alcohol", price |-> 30, purchase |-> 20]
       [] p = Dear    -> [type |-> "alcohol", price |-> 25, purchase |-> 35]
       [] p = Tobacco -> [type |-> "tobacco", price |-> 15, purchase |-> 0]]

(* Waived before the bonus, after it, at any subtotal, and never.           *)
Fees == {Null} \cup [value : {5}, freeAfter : {30, 60, 0, Null}]

(* Fixed, a percentage, in happy hours only, and neither kind.              *)
Bonuses ==
  {Null} \cup
  { [required |-> 50, fixed |-> 7,    percent |-> Null, happyOnly |-> FALSE],
    [required |-> 50, fixed |-> Null, percent |-> 20,   happyOnly |-> FALSE],
    [required |-> 35, fixed |-> Null, percent |-> 10,   happyOnly |-> TRUE],
    [required |-> 50, fixed |-> Null, percent |-> Null, happyOnly |-> TRUE],
    [required |-> 50, fixed |-> Null, percent |-> Null, happyOnly |-> FALSE] }

(* After the bonus, before it, and without a banner.                        *)
Gifts ==
  {Null, [min |-> 40, lessBanner |-> TRUE, greaterBanner |-> FALSE]}
  \cup [min : {40, 90}, lessBanner : {TRUE}, greaterBanner : {TRUE}]

(* The old version has no gifts; a newcomer is told of no fee, whatever its  *)
(* border, as long as there is one.                                         *)
AllOffers ==
  { o \in [fee : Fees, bonus : Bonuses, gift : Gifts, happy : {9}, newcomer : BOOLEAN,
           legacy : BOOLEAN] :
      /\ o.legacy => o.gift = Null
      /\ o.newcomer /\ o.fee # Null => o.fee.freeAfter \in {30, Null} }
=============================================================================
