-------------------------- MODULE PriceCacheProofs --------------------------
(***************************************************************************)
(* The prices a request uses are known and fresh, for any number of        *)
(* requests and products, any time to live and any latency.                *)
(***************************************************************************)
EXTENDS PriceCache, TLAPS

USE CacheAssumption

-----------------------------------------------------------------------------
Entry == [value: Price, left: 1..TTL]
Maybe == Price \cup {Null}
Stage == {"idle", "lookup", "ask", "store", "done"}

TypeInv ==
  /\ price \in [Product -> Maybe]
  /\ cache \in [Product -> Entry \cup {Null}]
  /\ pc \in [Reader -> Stage]
  /\ wanted \in [Reader -> SUBSET Product]
  /\ mapper \in [Reader -> [Product -> Maybe]]
  /\ answer \in [Reader -> [Product -> Maybe]]
  /\ running \in [Reader -> 0..Latency]
  /\ age \in [Product -> [Price -> Nat]]
  /\ known \in [Reader -> SUBSET Product]

LEMMA StalenessNat == Staleness \in Nat
  BY DEF Staleness

LEMMA TypeInit == Init => TypeInv
  BY StalenessNat DEF Init, TypeInv, NoPrices, Maybe, Stage

LEMMA OlderType == \A entry \in Entry \cup {Null} : Older(entry) \in Entry \cup {Null}
  BY DEF Older, Entry

LEMMA TypeNext == TypeInv /\ [Next]_vars => TypeInv'
  <1> SUFFICES ASSUME TypeInv, [Next]_vars PROVE TypeInv'
    OBVIOUS
  <1> USE DEF TypeInv, Maybe, Stage, serviceVars
  <1>1. ASSUME NEW p \in Product, NEW v \in Price \cup {Null}, ChangePrice(p, v) PROVE TypeInv'
    <2>1. age' \in [Product -> [Price -> Nat]]
      BY <1>1 DEF ChangePrice
    <2>2. QED BY <1>1, <2>1 DEF ChangePrice
  <1>2. CASE Tick
    <2>1. age' \in [Product -> [Price -> Nat]]
      BY <1>2 DEF Tick
    <2>2. running' \in [Reader -> 0..Latency]
      BY <1>2 DEF Tick
    <2>3. cache' \in [Product -> Entry \cup {Null}]
      BY <1>2, OlderType DEF Tick
    <2>4. QED BY <1>2, <2>1, <2>2, <2>3 DEF Tick
  <1>3. ASSUME NEW r \in Reader, Begin(r) PROVE TypeInv'
    BY <1>3 DEF Begin
  <1>4. ASSUME NEW r \in Reader, MultiGet(r) PROVE TypeInv'
    BY <1>4 DEF MultiGet, Entry
  <1>5. ASSUME NEW r \in Reader, PricingAnswers(r) PROVE TypeInv'
    BY <1>5 DEF PricingAnswers
  <1>6. ASSUME NEW r \in Reader, MultiSet(r) PROVE TypeInv'
    <2>1. cache' \in [Product -> Entry \cup {Null}]
      BY <1>6 DEF MultiSet, ToStore, Entry
    <2>2. MapperFilled(r) \in [Product -> Maybe] /\ NoPrices \in [Product -> Maybe]
      BY DEF MapperFilled, NoPrices
    <2>3. QED BY <1>6, <2>1, <2>2 DEF MultiSet
  <1>7. ASSUME NEW r \in Reader, End(r) PROVE TypeInv'
    BY <1>7 DEF End, NoPrices
  <1>8. CASE UNCHANGED vars
    BY <1>8 DEF vars, requestVars
  <1>9. QED
    BY <1>1, <1>2, <1>3, <1>4, <1>5, <1>6, <1>7, <1>8 DEF Next

-----------------------------------------------------------------------------
(* Ages.  What a request has found was fresh enough when it found it; what  *)
(* lies in the cache is older than its life so far by Latency at most, as   *)
(* that is the longest an answer can take to be stored.                     *)

AgeInv ==
  /\ \A p \in Product : price[p] # Null => age[p][price[p]] = 0
  /\ \A p \in Product : cache[p] # Null => age[p][cache[p].value] <= Latency + TTL - cache[p].left
  /\ \A r \in Reader, p \in Product : answer[r][p] # Null => age[p][answer[r][p]] <= running[r]
  /\ \A r \in Reader, p \in Product :
       mapper[r][p] # Null => age[p][mapper[r][p]] <= Latency + TTL - 1 + running[r]
  /\ \A r \in Reader : pc[r] = "idle" => answer[r] = NoPrices /\ mapper[r] = NoPrices

LEMMA AgeImplies == TypeInv /\ AgeInv => PriceNotStale
  <1> SUFFICES ASSUME TypeInv, AgeInv, NEW r \in Reader, NEW p \in Product, mapper[r][p] # Null
               PROVE  age[p][mapper[r][p]] <= Staleness
    BY DEF PriceNotStale
  <1>1. age[p][mapper[r][p]] <= Latency + TTL - 1 + running[r]
    BY DEF AgeInv
  <1>2. running[r] \in 0..Latency /\ age[p][mapper[r][p]] \in Nat
    BY DEF TypeInv, Maybe
  <1>3. QED BY <1>1, <1>2 DEF Staleness

LEMMA AgeInit == Init => AgeInv
  <1> SUFFICES ASSUME Init PROVE AgeInv
    OBVIOUS
  <1>1. \A p \in Product : price[p] # Null => price[p] \in Price /\ age[p][price[p]] = 0
    BY DEF Init
  <1>2. QED BY <1>1 DEF Init, AgeInv, NoPrices

LEMMA AgeNext == TypeInv /\ AgeInv /\ [Next]_vars => AgeInv'
  <1> SUFFICES ASSUME TypeInv, AgeInv, [Next]_vars PROVE AgeInv'
    OBVIOUS
  <1>0. TypeInv'
    BY TypeNext
  <1>1. ASSUME NEW p \in Product, NEW v \in Price \cup {Null}, ChangePrice(p, v) PROVE AgeInv'
    <2>1. \A q \in Product, w \in Price : age'[q][w] = IF q = p /\ w = v THEN 0 ELSE age[q][w]
      BY <1>1 DEF ChangePrice, TypeInv
    <2>2. \A q \in Product, w \in Price : age'[q][w] <= age[q][w] /\ age[q][w] \in Nat /\ age'[q][w] \in Nat
      BY <2>1 DEF TypeInv
    <2>3. /\ price' = [price EXCEPT ![p] = v]
          /\ UNCHANGED <<cache, pc, mapper, answer, running>>
      BY <1>1 DEF ChangePrice
    <2>4. \A q \in Product : price'[q] # Null => age'[q][price'[q]] = 0
      BY <2>1, <2>3 DEF AgeInv, TypeInv, Maybe
    <2>5. ASSUME NEW q \in Product, cache[q] # Null
          PROVE  age'[q][cache[q].value] <= Latency + TTL - cache[q].left
      <3>1. cache[q].value \in Price /\ cache[q].left \in 1..TTL
        BY <2>5 DEF TypeInv, Entry
      <3>2. QED BY <2>2, <2>5, <3>1 DEF AgeInv
    <2>6. ASSUME NEW r \in Reader, NEW q \in Product
          PROVE  /\ answer[r][q] # Null => age'[q][answer[r][q]] <= running[r]
                 /\ mapper[r][q] # Null => age'[q][mapper[r][q]] <= Latency + TTL - 1 + running[r]
      <3>1. answer[r][q] \in Maybe /\ mapper[r][q] \in Maybe /\ running[r] \in Nat
        BY DEF TypeInv
      <3>2. QED BY <2>2, <3>1 DEF AgeInv, Maybe
    <2>7. QED BY <2>3, <2>4, <2>5, <2>6 DEF AgeInv
  <1>2. CASE Tick
    <2>1. /\ price' = price /\ UNCHANGED <<pc, mapper, answer>>
          /\ \A r \in Reader : running'[r] = IF pc[r] = "idle" THEN 0 ELSE running[r] + 1
          /\ \A p \in Product : cache'[p] = Older(cache[p])
      BY <1>2 DEF Tick
    <2>2. \A p \in Product, w \in Price :
            /\ age'[p][w] <= age[p][w] + 1 /\ age[p][w] \in Nat /\ age'[p][w] \in Nat
            /\ price[p] = w => age'[p][w] = 0
      BY <1>2, StalenessNat DEF Tick, TypeInv
    <2>3. \A p \in Product : price[p] # Null => age'[p][price[p]] = 0
      BY <2>2 DEF TypeInv, Maybe
    <2>4. ASSUME NEW p \in Product, cache'[p] # Null
          PROVE  age'[p][cache'[p].value] <= Latency + TTL - cache'[p].left
      <3>1. cache[p] # Null /\ cache[p] \in Entry /\ cache'[p] = [cache[p] EXCEPT !.left = @ - 1]
        BY <2>1, <2>4 DEF Older, TypeInv
      <3>2. cache'[p].value = cache[p].value /\ cache'[p].left = cache[p].left - 1
            /\ cache[p].value \in Price /\ cache[p].left \in 1..TTL
        BY <3>1 DEF Entry
      <3>3. age[p][cache[p].value] <= Latency + TTL - cache[p].left
        BY <3>1 DEF AgeInv
      <3>4. QED BY <2>2, <3>2, <3>3
    <2>5. ASSUME NEW r \in Reader, NEW p \in Product
          PROVE  /\ answer[r][p] # Null => age'[p][answer[r][p]] <= running'[r]
                 /\ mapper[r][p] # Null => age'[p][mapper[r][p]] <= Latency + TTL - 1 + running'[r]
      <3>1. answer[r][p] \in Maybe /\ mapper[r][p] \in Maybe /\ running[r] \in Nat
        BY DEF TypeInv
      <3>2. CASE pc[r] = "idle"
        BY <3>2 DEF AgeInv, NoPrices
      <3>3. CASE pc[r] # "idle"
        <4>1. running'[r] = running[r] + 1
          BY <2>1, <3>3
        <4>2. QED BY <2>2, <3>1, <4>1 DEF AgeInv, Maybe
      <3>4. QED BY <3>2, <3>3
    <2>6. QED BY <2>1, <2>3, <2>4, <2>5 DEF AgeInv
  <1>3. ASSUME NEW r \in Reader, Begin(r) PROVE AgeInv'
    <2>1. /\ UNCHANGED <<price, age, cache, mapper, answer>>
          /\ pc[r] = "idle" /\ pc'[r] # "idle" /\ running'[r] = 0
          /\ \A q \in Reader \ {r} : pc'[q] = pc[q] /\ running'[q] = running[q]
      BY <1>3 DEF Begin, TypeInv, serviceVars
    <2>2. answer[r] = NoPrices /\ mapper[r] = NoPrices
      BY <2>1 DEF AgeInv
    <2>3. QED BY <2>1, <2>2 DEF AgeInv, NoPrices
  <1>4. ASSUME NEW r \in Reader, MultiGet(r) PROVE AgeInv'
    <2>1. /\ UNCHANGED <<price, age, cache, answer, running>> /\ pc'[r] # "idle" /\ pc[r] # "idle"
          /\ \A q \in Reader \ {r} : pc'[q] = pc[q] /\ mapper'[q] = mapper[q]
          /\ \A p \in Product : mapper'[r][p] # Null => cache[p] # Null /\ mapper'[r][p] = cache[p].value
      BY <1>4 DEF MultiGet, TypeInv, serviceVars
    <2>2. ASSUME NEW p \in Product, mapper'[r][p] # Null
          PROVE  age[p][mapper'[r][p]] <= Latency + TTL - 1 + running[r]
      <3>1. /\ cache[p].left \in 1..TTL /\ cache[p].value \in Price /\ mapper'[r][p] = cache[p].value
            /\ age[p][cache[p].value] <= Latency + TTL - cache[p].left
        BY <2>1, <2>2 DEF TypeInv, Entry, AgeInv
      <3>2. age[p][cache[p].value] \in Nat /\ running[r] \in Nat
        BY <3>1 DEF TypeInv
      <3>3. QED BY <3>1, <3>2
    <2>3. QED BY <2>1, <2>2 DEF AgeInv
  <1>5. ASSUME NEW r \in Reader, PricingAnswers(r) PROVE AgeInv'
    <2>1. /\ UNCHANGED <<price, age, cache, mapper, running>> /\ pc'[r] # "idle" /\ pc[r] # "idle"
          /\ \A q \in Reader \ {r} : pc'[q] = pc[q] /\ answer'[q] = answer[q]
          /\ \A p \in Product : answer'[r][p] # Null => answer'[r][p] = price[p]
      BY <1>5 DEF PricingAnswers, TypeInv, serviceVars
    <2>2. running[r] \in Nat
      BY DEF TypeInv
    <2>3. QED BY <2>1, <2>2 DEF AgeInv
  <1>6. ASSUME NEW r \in Reader, MultiSet(r) PROVE AgeInv'
    <2>1. /\ UNCHANGED <<price, age, running>> /\ pc'[r] # "idle" /\ pc[r] # "idle"
          /\ mapper'[r] = MapperFilled(r) /\ answer'[r] = NoPrices
          /\ \A q \in Reader \ {r} : pc'[q] = pc[q] /\ answer'[q] = answer[q] /\ mapper'[q] = mapper[q]
          /\ \A p \in Product : cache'[p] = IF answer[r][p] = Null THEN cache[p]
                                            ELSE [value |-> answer[r][p], left |-> TTL]
      BY <1>6 DEF MultiSet, ToStore, TypeInv, serviceVars
    <2>2. running[r] \in 0..Latency
      BY DEF TypeInv
    <2>3. ASSUME NEW p \in Product, answer[r][p] # Null
          PROVE  /\ age[p][answer[r][p]] <= running[r] /\ age[p][answer[r][p]] \in Nat
                 /\ cache'[p].value = answer[r][p] /\ cache'[p].left = TTL
      <3>1. answer[r][p] \in Price
        BY <2>3 DEF TypeInv, Maybe
      <3>2. age[p][answer[r][p]] <= running[r] /\ age[p][answer[r][p]] \in Nat
        BY <2>3, <3>1 DEF AgeInv, TypeInv
      <3>3. cache'[p] = [value |-> answer[r][p], left |-> TTL]
        BY <2>1, <2>3
      <3>4. QED BY <3>2, <3>3
    <2>4. ASSUME NEW p \in Product, cache'[p] # Null
          PROVE  age[p][cache'[p].value] <= Latency + TTL - cache'[p].left
      <3>1. CASE answer[r][p] = Null
        <4>1. cache'[p] = cache[p] /\ cache[p] # Null
          BY <2>1, <2>4, <3>1
        <4>2. QED BY <4>1 DEF AgeInv
      <3>2. CASE answer[r][p] # Null
        BY <2>2, <2>3, <3>2
      <3>3. QED BY <3>1, <3>2
    <2>5. ASSUME NEW p \in Product, mapper'[r][p] # Null
          PROVE  age[p][mapper'[r][p]] <= Latency + TTL - 1 + running[r]
      <3>1. mapper'[r][p] = IF answer[r][p] # Null THEN answer[r][p] ELSE mapper[r][p]
        BY <2>1 DEF MapperFilled
      <3>2. CASE answer[r][p] = Null
        BY <2>5, <3>1, <3>2 DEF AgeInv
      <3>3. CASE answer[r][p] # Null
        BY <2>2, <2>3, <3>1, <3>3
      <3>4. QED BY <3>2, <3>3
    <2>6. QED BY <2>1, <2>4, <2>5 DEF AgeInv, NoPrices
  <1>7. ASSUME NEW r \in Reader, End(r) PROVE AgeInv'
    <2>1. /\ UNCHANGED <<price, age, cache>>
          /\ mapper'[r] = NoPrices /\ answer'[r] = NoPrices
          /\ \A q \in Reader \ {r} : /\ pc'[q] = pc[q] /\ answer'[q] = answer[q] /\ mapper'[q] = mapper[q]
                                     /\ running'[q] = running[q]
      BY <1>7 DEF End, TypeInv, serviceVars
    <2>2. QED BY <2>1 DEF AgeInv, NoPrices
  <1>8. CASE UNCHANGED vars
    BY <1>8 DEF vars, requestVars, serviceVars, AgeInv
  <1>9. QED
    BY <1>1, <1>2, <1>3, <1>4, <1>5, <1>6, <1>7, <1>8 DEF Next

(* No price is used later than Staleness after it was the product's price.  *)
THEOREM PricesAreFresh == Spec => []PriceNotStale
  <1>1. Init => TypeInv /\ AgeInv
    BY TypeInit, AgeInit
  <1>2. TypeInv /\ AgeInv /\ [Next]_vars => (TypeInv /\ AgeInv)'
    BY TypeNext, AgeNext
  <1>3. QED BY <1>1, <1>2, AgeImplies, PTL DEF Spec

-----------------------------------------------------------------------------
(* A known price reaches the mapper by the cache or by the answer.          *)

KnownOf(q) ==
  /\ known[q] \subseteq wanted[q]
  /\ \A p \in known[q] : price[p] # Null
  /\ pc[q] = "store" => \A p \in known[q] : mapper[q][p] # Null \/ answer[q][p] # Null
  /\ pc[q] = "done" => \A p \in known[q] : mapper[q][p] # Null

KnownInv == \A q \in Reader : KnownOf(q)

LEMMA KnownNext == TypeInv /\ KnownInv /\ [Next]_vars => KnownInv'
  <1> SUFFICES ASSUME TypeInv, [Next]_vars, NEW q \in Reader, KnownOf(q) PROVE KnownOf(q)'
    BY DEF KnownInv
  <1>1. ASSUME NEW p \in Product, NEW v \in Price \cup {Null}, ChangePrice(p, v) PROVE KnownOf(q)'
    <2>1. known'[q] = IF v = Null THEN known[q] \ {p} ELSE known[q]
      BY <1>1 DEF ChangePrice
    <2>2. \A o \in Product : price'[o] = IF o = p THEN v ELSE price[o]
      BY <1>1 DEF ChangePrice, TypeInv
    <2>3. UNCHANGED <<pc, wanted, mapper, answer>> /\ known[q] \subseteq Product
      BY <1>1 DEF ChangePrice, TypeInv
    <2>4. QED BY <2>1, <2>2, <2>3 DEF KnownOf
  <1>2. CASE Tick
    BY <1>2 DEF Tick, KnownOf
  <1>3. ASSUME NEW r \in Reader, Begin(r) PROVE KnownOf(q)'
    <2>1. UNCHANGED <<price, mapper, answer>>
      BY <1>3 DEF Begin, serviceVars
    <2>2. CASE q = r
      <3>1. pc'[q] = "lookup" /\ known'[q] \subseteq wanted'[q] /\ \A p \in known'[q] : price[p] # Null
        BY <1>3, <2>2 DEF Begin, TypeInv
      <3>2. QED BY <2>1, <3>1 DEF KnownOf
    <2>3. CASE q # r
      <3>1. pc'[q] = pc[q] /\ wanted'[q] = wanted[q] /\ known'[q] = known[q]
        BY <1>3, <2>3 DEF Begin, TypeInv
      <3>2. QED BY <2>1, <3>1 DEF KnownOf
    <2>4. QED BY <2>2, <2>3
  <1>4. ASSUME NEW r \in Reader, MultiGet(r) PROVE KnownOf(q)'
    <2>1. UNCHANGED <<price, wanted, answer, known>>
      BY <1>4 DEF MultiGet, serviceVars
    <2>2. CASE q = r
      <3>1. pc'[q] # "store"
        BY <1>4, <2>2 DEF MultiGet, TypeInv
      <3>2. ASSUME NEW p \in known[q], pc'[q] = "done" PROVE mapper'[q][p] # Null
        <4>1. p \in wanted[q] /\ p \in Product
          BY DEF KnownOf, TypeInv
        <4>2. cache[p] # Null
          BY <1>4, <2>2, <3>2, <4>1 DEF MultiGet, TypeInv
        <4>3. mapper'[q][p] = cache[p].value /\ cache[p].value \in Price
          BY <1>4, <2>2, <4>1, <4>2 DEF MultiGet, TypeInv, Entry
        <4>4. QED BY <4>3
      <3>3. QED BY <2>1, <3>1, <3>2 DEF KnownOf
    <2>3. CASE q # r
      <3>1. pc'[q] = pc[q] /\ mapper'[q] = mapper[q]
        BY <1>4, <2>3 DEF MultiGet, TypeInv
      <3>2. QED BY <2>1, <3>1 DEF KnownOf
    <2>4. QED BY <2>2, <2>3
  <1>5. ASSUME NEW r \in Reader, PricingAnswers(r) PROVE KnownOf(q)'
    <2>1. UNCHANGED <<price, wanted, mapper, known>>
      BY <1>5 DEF PricingAnswers, serviceVars
    <2>2. CASE q = r
      <3>1. pc'[q] = "store"
        BY <1>5, <2>2 DEF PricingAnswers, TypeInv
      <3>2. ASSUME NEW p \in known[q], mapper[q][p] = Null PROVE answer'[q][p] # Null
        <4>1. p \in Product /\ p \in Misses(q) /\ price[p] # Null
          BY <3>2 DEF KnownOf, TypeInv, Misses
        <4>2. QED BY <1>5, <2>2, <4>1 DEF PricingAnswers, TypeInv
      <3>3. QED BY <2>1, <3>1, <3>2 DEF KnownOf
    <2>3. CASE q # r
      <3>1. pc'[q] = pc[q] /\ answer'[q] = answer[q]
        BY <1>5, <2>3 DEF PricingAnswers, TypeInv
      <3>2. QED BY <2>1, <3>1 DEF KnownOf
    <2>4. QED BY <2>2, <2>3
  <1>6. ASSUME NEW r \in Reader, MultiSet(r) PROVE KnownOf(q)'
    <2>1. UNCHANGED <<price, wanted, known>>
      BY <1>6 DEF MultiSet, serviceVars
    <2>2. CASE q = r
      <3>1. pc'[q] = "done" /\ pc[q] = "store" /\ mapper'[q] = MapperFilled(q)
        BY <1>6, <2>2 DEF MultiSet, TypeInv
      <3>2. ASSUME NEW p \in known[q] PROVE mapper'[q][p] # Null
        <4>1. p \in Product /\ (mapper[q][p] # Null \/ answer[q][p] # Null)
          BY <3>1 DEF KnownOf, TypeInv
        <4>2. QED BY <3>1, <4>1 DEF MapperFilled
      <3>3. QED BY <2>1, <3>1, <3>2 DEF KnownOf
    <2>3. CASE q # r
      <3>1. pc'[q] = pc[q] /\ answer'[q] = answer[q] /\ mapper'[q] = mapper[q]
        BY <1>6, <2>3 DEF MultiSet, TypeInv
      <3>2. QED BY <2>1, <3>1 DEF KnownOf
    <2>4. QED BY <2>2, <2>3
  <1>7. ASSUME NEW r \in Reader, End(r) PROVE KnownOf(q)'
    <2>1. CASE q = r
      BY <1>7, <2>1 DEF End, TypeInv, KnownOf
    <2>2. CASE q # r
      BY <1>7, <2>2 DEF End, TypeInv, KnownOf, serviceVars
    <2>3. QED BY <2>1, <2>2
  <1>8. CASE UNCHANGED vars
    BY <1>8 DEF vars, requestVars, serviceVars, KnownOf
  <1>9. QED
    BY <1>1, <1>2, <1>3, <1>4, <1>5, <1>6, <1>7, <1>8 DEF Next

(* No price that is known all along a request is lost between the cache and *)
(* the answer.                                                              *)
THEOREM KnownPricesAreReturned == Spec => []KnownPricesReturned
  <1>1. Init => TypeInv /\ KnownInv
    BY TypeInit DEF Init, KnownInv, KnownOf
  <1>2. TypeInv /\ KnownInv /\ [Next]_vars => (TypeInv /\ KnownInv)'
    BY TypeNext, KnownNext
  <1>3. KnownInv => KnownPricesReturned
    BY DEF KnownInv, KnownOf, KnownPricesReturned
  <1>4. QED BY <1>1, <1>2, <1>3, PTL DEF Spec
=============================================================================
