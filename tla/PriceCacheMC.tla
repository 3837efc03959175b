---------------------------- MODULE PriceCacheMC ----------------------------
(* An instance of PriceCache for TLC. *)
EXTENDS PriceCache, TLC

CONSTANTS wine, beer, r1, r2

\* The wine's price changes, the beer may be unknown for a while.
MCPricesOf == [p \in Product |-> IF p = wine THEN {1, 2} ELSE {1, Null}]
MCBaskets == {{wine}, {wine, beer}}

Symmetry == Permutations(Reader)
=============================================================================
