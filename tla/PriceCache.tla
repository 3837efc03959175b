----------------------------- MODULE PriceCache -----------------------------
(***************************************************************************)
(* get_product_prices_mapper: the purchase prices that cap the discount on *)
(* alcohol are read through a cache that many requests share.  A request   *)
(* looks up all its products, asks the pricing service for the ones it     *)
(* missed, stores the answer, and uses it; prices change and entries       *)
(* expire at any of these moments.                                         *)
(*                                                                         *)
(* Time passes in ticks.  The pricing service and the cache server are     *)
(* modelled from how PricingManager uses them; Latency bounds how long a   *)
(* request takes, which the clients' timeouts do.                          *)
(***************************************************************************)
EXTENDS Naturals

CONSTANTS
    Product, Price,
    PricesOf,    \* [Product -> SUBSET (Price \cup {Null})]: what the service may answer
    Baskets,     \* the sets of products requests ask for; for none nothing is done
    Reader,      \* requests in flight
    TTL,         \* purchase_price_ttl
    Latency,     \* the longest a request takes
    Null

ASSUME CacheAssumption ==
    /\ TTL \in Nat \ {0} /\ Latency \in Nat
    /\ Null \notin Price
    /\ \A p \in Product : PricesOf[p] \subseteq Price \cup {Null} /\ PricesOf[p] # {}
    /\ Baskets \subseteq SUBSET Product \ {{}}

\* The longest a price can be in use after it has changed: a request may store it
\* Latency after it was read, another finds it in the last tick of its time to
\* live, and uses it Latency later.
Staleness == TTL + 2 * Latency - 1

VARIABLES
    price,     \* the pricing service's prices, Null where it has none
    cache,     \* [value, left]: a price and the ticks it has to live, or Null
    pc,
    wanted,    \* the products of a request
    mapper,    \* the prices it has found, products_prices_mapper
    answer,    \* what the pricing service answered
    running,   \* how long the request has been running
    age,       \* ghost: how long ago a product last had a price, capped
    known      \* ghost: the products that had a price all along the request

serviceVars == <<price, age>>
requestVars == <<pc, wanted, mapper, answer, running, known>>
vars == <<serviceVars, cache, requestVars>>

NoPrices == [p \in Product |-> Null]

Init ==
    /\ price \in {f \in [Product -> Price \cup {Null}] : \A p \in Product : f[p] \in PricesOf[p]}
    /\ cache = NoPrices
    /\ pc = [r \in Reader |-> "idle"]
    /\ wanted = [r \in Reader |-> {}]
    /\ mapper = [r \in Reader |-> NoPrices]
    /\ answer = [r \in Reader |-> NoPrices]
    /\ running = [r \in Reader |-> 0]
    /\ age = [p \in Product |-> [v \in Price |-> IF price[p] = v THEN 0 ELSE Staleness + 1]]
    /\ known = [r \in Reader |-> {}]

-----------------------------------------------------------------------------
(* Around the requests. *)

ChangePrice(p, v) ==
    /\ price[p] # v
    /\ price' = [price EXCEPT ![p] = v]
    /\ known' = [r \in Reader |-> IF v = Null THEN known[r] \ {p} ELSE known[r]]
    /\ age' = [age EXCEPT ![p] = [w \in Price |-> IF w = v THEN 0 ELSE @[w]]]
    /\ UNCHANGED <<cache, pc, wanted, mapper, answer, running>>

Older(entry) ==
    IF entry = Null \/ entry.left = 1 THEN Null ELSE [entry EXCEPT !.left = @ - 1]

\* Entries grow old and expire; no request outlives Latency.
Tick ==
    /\ \A r \in Reader : pc[r] # "idle" => running[r] < Latency
    /\ running' = [r \in Reader |-> IF pc[r] = "idle" THEN 0 ELSE running[r] + 1]
    /\ cache' = [p \in Product |-> Older(cache[p])]
    /\ age' = [p \in Product |-> [v \in Price |->
                    CASE price[p] = v -> 0
                      [] price[p] # v /\ age[p][v] <= Staleness -> age[p][v] + 1
                      [] OTHER -> age[p][v]]]
    /\ UNCHANGED <<price, pc, wanted, mapper, answer, known>>

-----------------------------------------------------------------------------
(* A request. *)

Begin(r) ==
    /\ pc[r] = "idle"
    /\ \E ps \in Baskets :
        /\ wanted' = [wanted EXCEPT ![r] = ps]
        /\ known' = [known EXCEPT ![r] = {p \in ps : price[p] # Null}]
    /\ pc' = [pc EXCEPT ![r] = "lookup"]
    /\ running' = [running EXCEPT ![r] = 0]
    /\ UNCHANGED <<serviceVars, cache, mapper, answer>>

Misses(r) == {p \in wanted[r] : mapper[r][p] = Null}

\* multi_get: without a miss nothing is asked.
MultiGet(r) ==
    /\ pc[r] = "lookup"
    /\ mapper' = [mapper EXCEPT ![r] =
                    [p \in Product |-> IF p \in wanted[r] /\ cache[p] # Null THEN cache[p].value ELSE Null]]
    /\ pc' = [pc EXCEPT ![r] = IF \A p \in wanted[r] : cache[p] # Null THEN "done" ELSE "ask"]
    /\ UNCHANGED <<serviceVars, cache, wanted, answer, running, known>>

\* PricingAdapter.get_product_prices: the prices of this moment, without those
\* the service does not know.
PricingAnswers(r) ==
    /\ pc[r] = "ask"
    /\ answer' = [answer EXCEPT ![r] = [p \in Product |-> IF p \in Misses(r) THEN price[p] ELSE Null]]
    /\ pc' = [pc EXCEPT ![r] = "store"]
    /\ UNCHANGED <<serviceVars, cache, wanted, mapper, running, known>>

\* MUTANT: the hits are stored again with the answer.
ToStoreAll(r) == [p \in Product |-> IF answer[r][p] # Null THEN answer[r][p] ELSE mapper[r][p]]

\* multi_set_pairs
ToStore(r) == answer[r]

\* MUTANT: what was asked for replaces what was found.
MapperReplaced(r) == answer[r]

\* products_prices_mapper
MapperFilled(r) == [p \in Product |-> IF answer[r][p] # Null THEN answer[r][p] ELSE mapper[r][p]]

\* multi_set: every stored price lives for another TTL, also one that another
\* request has stored, or the service has changed, meanwhile.
MultiSet(r) ==
    /\ pc[r] = "store"
    /\ cache' = [p \in Product |-> IF ToStore(r)[p] = Null THEN cache[p]
                                   ELSE [value |-> ToStore(r)[p], left |-> TTL]]
    /\ mapper' = [mapper EXCEPT ![r] = MapperFilled(r)]
    /\ answer' = [answer EXCEPT ![r] = NoPrices]
    /\ pc' = [pc EXCEPT ![r] = "done"]
    /\ UNCHANGED <<serviceVars, wanted, running, known>>

\* The prices are used and the request is over, or a call of it has raised.
End(r) ==
    /\ pc[r] # "idle"
    /\ pc' = [pc EXCEPT ![r] = "idle"]
    /\ wanted' = [wanted EXCEPT ![r] = {}]
    /\ mapper' = [mapper EXCEPT ![r] = NoPrices]
    /\ answer' = [answer EXCEPT ![r] = NoPrices]
    /\ running' = [running EXCEPT ![r] = 0]
    /\ known' = [known EXCEPT ![r] = {}]
    /\ UNCHANGED <<serviceVars, cache>>

Next ==
    \/ \E p \in Product, v \in Price \cup {Null} : v \in PricesOf[p] /\ ChangePrice(p, v)
    \/ Tick
    \/ \E r \in Reader : Begin(r) \/ MultiGet(r) \/ PricingAnswers(r) \/ MultiSet(r) \/ End(r)

Spec == Init /\ [][Next]_vars

-----------------------------------------------------------------------------
\* A price that caps a discount was the product's price at most Staleness ago,
\* however many requests have read, missed and stored it in the meantime.
PriceNotStale ==
    \A r \in Reader : pc[r] = "done" =>
        \A p \in Product : mapper[r][p] # Null => age[p][mapper[r][p]] <= Staleness

\* A product whose price was known all along is in the mapper: for one that is
\* not, the discount would be capped as though it had cost nothing.
KnownPricesReturned == \A r \in Reader : pc[r] = "done" => \A p \in known[r] : mapper[r][p] # Null
=============================================================================
