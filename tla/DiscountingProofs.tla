-------------------------- MODULE DiscountingProofs --------------------------
(***************************************************************************)
(* Sums over the items of an order, and what the largest-remainder method  *)
(* and the caps make of a discount, for every order and every discount.    *)
(*                                                                         *)
(* The provers cannot instantiate an induction theorem, whose parameter is *)
(* an operator.  SetInduction states induction over the subsets of a       *)
(* finite set with a set in the operator's place, proved by a least        *)
(* counterexample; every fact about sums rests on it.                      *)
(***************************************************************************)
EXTENDS Discounting, FiniteSetTheorems, TLAPS

LEMMA LeastNumber ==
  ASSUME NEW M \in SUBSET Nat, M # {}
  PROVE  \E n \in M : \A m \in M : n <= m
  <1>1. \E n \in M : \A m \in M : <<m, n>> \notin OpToRel(<, Nat)
    BY NatLessThanWellFounded, WFMin
  <1>2. \A m, n \in Nat : <<m, n>> \notin OpToRel(<, Nat) => n <= m
    BY DEF OpToRel
  <1>3. QED BY <1>1, <1>2

LEMMA SetInduction ==
  ASSUME NEW S, IsFiniteSet(S), NEW Good, {} \in Good,
         \A T \in SUBSET S : \A x \in S \ T : T \in Good => T \cup {x} \in Good
  PROVE  S \in Good
  <1> DEFINE Sizes == {n \in Nat : \E T \in SUBSET S : T \notin Good /\ Cardinality(T) = n}
  <1> SUFFICES ASSUME S \notin Good PROVE FALSE
    OBVIOUS
  <1>1. \A T \in SUBSET S : IsFiniteSet(T) /\ Cardinality(T) \in Nat
    BY FS_Subset, FS_CardinalityType
  <1>2. Sizes # {} /\ Sizes \in SUBSET Nat
    BY <1>1
  <1>3. PICK n \in Sizes : \A m \in Sizes : n <= m
    <2> HIDE DEF Sizes
    <2> QED BY <1>2, LeastNumber
  <1>4. PICK T \in SUBSET S : T \notin Good /\ Cardinality(T) = n
    OBVIOUS
  <1>5. PICK x \in T : TRUE
    BY <1>4
  <1>6. T \ {x} \in SUBSET S /\ Cardinality(T \ {x}) = n - 1 /\ Cardinality(T \ {x}) \in Nat
    BY <1>1, <1>4, <1>5, FS_RemoveElement
  <1>7. T \ {x} \in Good
    BY <1>3, <1>6
  <1>8. T = (T \ {x}) \cup {x} /\ x \in S \ (T \ {x})
    BY <1>5
  <1>9. QED BY <1>4, <1>6, <1>7, <1>8

-----------------------------------------------------------------------------
(* Sums.  A summation of f over S has the sum over every part of S; that it  *)
(* takes the elements in any order is what makes it easy to reason about.    *)

IsSummation(g, f, S) ==
  /\ \A x \in S : f[x] \in Int
  /\ g \in [SUBSET S -> Int]
  /\ g[{}] = 0
  /\ \A T \in SUBSET S : \A x \in T : g[T] = f[x] + g[T \ {x}]

LEMMA SummationExtends ==
  ASSUME NEW S, NEW f, NEW x, x \notin S, f[x] \in Int, NEW g, IsSummation(g, f, S)
  PROVE  IsSummation([T \in SUBSET (S \cup {x}) |-> IF x \in T THEN f[x] + g[T \ {x}] ELSE g[T]],
                     f, S \cup {x})
  <1> DEFINE h == [T \in SUBSET (S \cup {x}) |-> IF x \in T THEN f[x] + g[T \ {x}] ELSE g[T]]
  <1>1. \A T \in SUBSET (S \cup {x}) : T \ {x} \in SUBSET S /\ (x \notin T => T \in SUBSET S)
    OBVIOUS
  <1>2. g \in [SUBSET S -> Int]
    BY DEF IsSummation
  <1>3. h \in [SUBSET (S \cup {x}) -> Int]
    BY <1>1, <1>2
  <1>4. h[{}] = 0
    BY DEF IsSummation
  <1>5. ASSUME NEW T \in SUBSET (S \cup {x}), NEW y \in T
        PROVE  h[T] = f[y] + h[T \ {y}]
    <2>1. T \ {y} \in SUBSET (S \cup {x})
      OBVIOUS
    <2>2. CASE y = x
      BY <2>1, <2>2
    <2>3. CASE y # x /\ x \in T
      <3>1. h[T] = f[x] + g[T \ {x}] /\ h[T \ {y}] = f[x] + g[(T \ {y}) \ {x}]
        BY <2>1, <2>3
      <3>2. y \in T \ {x} /\ T \ {x} \in SUBSET S /\ (T \ {y}) \ {x} = (T \ {x}) \ {y}
        BY <2>3, <1>1
      <3>3. g[T \ {x}] = f[y] + g[(T \ {x}) \ {y}]
        BY <3>2 DEF IsSummation
      <3>4. g[T \ {x}] \in Int /\ g[(T \ {x}) \ {y}] \in Int /\ f[x] \in Int
        BY <1>2, <3>2
      <3>5. f[y] \in Int
        BY <3>2 DEF IsSummation
      <3>6. h[T] = f[x] + (f[y] + g[(T \ {x}) \ {y}])
        BY <3>1, <3>3
      <3>7. h[T \ {y}] = f[x] + g[(T \ {x}) \ {y}]
        BY <3>1, <3>2
      <3>8. QED BY <3>4, <3>5, <3>6, <3>7
    <2>4. CASE x \notin T
      <3>1. T \in SUBSET S /\ x \notin T \ {y}
        BY <2>4
      <3>2. h[T] = g[T] /\ h[T \ {y}] = g[T \ {y}]
        BY <2>1, <2>4, <3>1
      <3>3. QED BY <3>1, <3>2 DEF IsSummation
    <2>5. QED BY <2>2, <2>3, <2>4
  <1>6. QED BY <1>3, <1>4, <1>5 DEF IsSummation

LEMMA SummationExists ==
  ASSUME NEW S, IsFiniteSet(S), NEW f, \A x \in S : f[x] \in Int
  PROVE  \E g : IsSummation(g, f, S)
  <1> DEFINE Good == {T \in SUBSET S : \E g : IsSummation(g, f, T)}
  <1>1. {} \in Good
    <2>1. IsSummation([T \in SUBSET {} |-> 0], f, {})
      BY DEF IsSummation
    <2>2. QED BY <2>1
  <1>2. ASSUME NEW T \in SUBSET S, NEW x \in S \ T, T \in Good
        PROVE  T \cup {x} \in Good
    <2>1. PICK g : IsSummation(g, f, T)
      BY <1>2
    <2>2. \E h : IsSummation(h, f, T \cup {x})
      BY <2>1, SummationExtends
    <2>3. QED BY <2>2
  <1>3. S \in Good
    <2> HIDE DEF Good
    <2> QED BY <1>1, <1>2, SetInduction
  <1>4. QED BY <1>3

(* SumFunction adds in the order of its choices, so it is the summation.     *)
LEMMA SumIs ==
  ASSUME NEW S, IsFiniteSet(S), NEW f, DOMAIN f = S, NEW g, IsSummation(g, f, S)
  PROVE  SumFunction(f) = g[S] /\ SumFunction(f) \in Int
  <1> DEFINE Step(h) == [s \in SUBSET S |->
                 IF s = {} THEN 0
                 ELSE LET x == CHOOSE y \in s : TRUE IN f[x] + h[s \ {x}]]
             iter == CHOOSE h : h = Step(h)
  <1>1. SumFunction(f) = iter[S]
    BY DEF SumFunction, SumFunctionOnSet, FoldFunctionOnSet, MapThenFoldSet
  <1>2. g = Step(g)
    BY DEF IsSummation
  <1>3. iter = Step(iter)
    <2> HIDE DEF Step
    <2>1. \E h : h = Step(h)
      BY <1>2
    <2>2. QED BY <2>1, Zenon
  <1> HIDE DEF iter
  <1> DEFINE Wrong == {n \in Nat : \E T \in SUBSET S : iter[T] # g[T] /\ Cardinality(T) = n}
  <1>4. \A T \in SUBSET S : IsFiniteSet(T) /\ Cardinality(T) \in Nat
    BY FS_Subset, FS_CardinalityType
  <1>5. Wrong = {}
    <2>1. SUFFICES ASSUME Wrong # {} PROVE FALSE
      OBVIOUS
    <2>2. PICK n \in Wrong : \A m \in Wrong : n <= m
      <3>1. Wrong \in SUBSET Nat
        OBVIOUS
      <3> HIDE DEF Wrong
      <3>2. QED BY <2>1, <3>1, LeastNumber
    <2>3. PICK T \in SUBSET S : iter[T] # g[T] /\ Cardinality(T) = n
      OBVIOUS
    <2>4. iter[T] = Step(iter)[T]
      BY <1>3
    <2>5. T # {}
      BY <2>3, <2>4 DEF IsSummation
    <2> DEFINE x == CHOOSE y \in T : TRUE
    <2>6. x \in T
      BY <2>5
    <2>7. iter[T] = f[x] + iter[T \ {x}]
      BY <2>4, <2>5
    <2> HIDE DEF x
    <2>8. T \ {x} \in SUBSET S /\ Cardinality(T \ {x}) = n - 1 /\ Cardinality(T \ {x}) \in Nat
      BY <1>4, <2>3, <2>6, FS_RemoveElement
    <2>9. iter[T \ {x}] = g[T \ {x}]
      BY <2>2, <2>8
    <2>10. QED BY <2>3, <2>6, <2>7, <2>9 DEF IsSummation
  <1>6. iter[S] = g[S]
    BY <1>4, <1>5
  <1>7. QED BY <1>1, <1>6 DEF IsSummation

LEMMA SumType ==
  ASSUME NEW S, IsFiniteSet(S), NEW f \in [S -> Int]
  PROVE  SumFunction(f) \in Int
  <1>1. PICK g : IsSummation(g, f, S)
    BY SummationExists
  <1>2. QED BY <1>1, SumIs

LEMMA SumPlus ==
  ASSUME NEW S, IsFiniteSet(S), NEW f \in [S -> Int], NEW g \in [S -> Int]
  PROVE  SumFunction([i \in S |-> f[i] + g[i]]) = SumFunction(f) + SumFunction(g)
  <1>1. PICK a : IsSummation(a, f, S)
    BY SummationExists
  <1>2. PICK b : IsSummation(b, g, S)
    BY SummationExists
  <1> DEFINE h == [i \in S |-> f[i] + g[i]]
             c == [T \in SUBSET S |-> a[T] + b[T]]
  <1>3. IsSummation(c, h, S)
    <2>1. /\ \A x \in S : h[x] \in Int
          /\ c \in [SUBSET S -> Int] /\ c[{}] = 0
      BY <1>1, <1>2 DEF IsSummation
    <2>2. ASSUME NEW T \in SUBSET S, NEW x \in T PROVE c[T] = h[x] + c[T \ {x}]
      <3>1. T \ {x} \in SUBSET S /\ x \in S
        OBVIOUS
      <3>2. a[T] = f[x] + a[T \ {x}] /\ b[T] = g[x] + b[T \ {x}]
        BY <1>1, <1>2 DEF IsSummation
      <3>3. a[T \ {x}] \in Int /\ b[T \ {x}] \in Int /\ f[x] \in Int /\ g[x] \in Int
        BY <1>1, <1>2, <3>1 DEF IsSummation
      <3>4. QED BY <3>1, <3>2, <3>3
    <2>3. QED BY <2>1, <2>2 DEF IsSummation
  <1>4. SumFunction(h) = c[S]
    <2> HIDE DEF c
    <2>1. DOMAIN h = S
      OBVIOUS
    <2> HIDE DEF h
    <2>2. QED BY <1>3, <2>1, SumIs
  <1>5. DOMAIN f = S /\ DOMAIN g = S
    OBVIOUS
  <1>6. SumFunction(f) = a[S] /\ SumFunction(g) = b[S]
    BY <1>1, <1>2, <1>5, SumIs
  <1>7. QED BY <1>4, <1>6

LEMMA SumTimes ==
  ASSUME NEW S, IsFiniteSet(S), NEW f \in [S -> Int], NEW n \in Int
  PROVE  SumFunction([i \in S |-> n * f[i]]) = n * SumFunction(f)
  <1>1. PICK a : IsSummation(a, f, S)
    BY SummationExists
  <1> DEFINE h == [i \in S |-> n * f[i]]
             c == [T \in SUBSET S |-> n * a[T]]
  <1>2. IsSummation(c, h, S)
    <2>1. /\ \A x \in S : h[x] \in Int
          /\ c \in [SUBSET S -> Int] /\ c[{}] = 0
      BY <1>1 DEF IsSummation
    <2>2. ASSUME NEW T \in SUBSET S, NEW x \in T PROVE c[T] = h[x] + c[T \ {x}]
      <3>1. T \ {x} \in SUBSET S /\ x \in S
        OBVIOUS
      <3>2. a[T] = f[x] + a[T \ {x}]
        BY <1>1 DEF IsSummation
      <3>3. a[T \ {x}] \in Int /\ f[x] \in Int
        BY <1>1, <3>1 DEF IsSummation
      <3>4. \A y, z \in Int : n * (y + z) = n * y + n * z
        OBVIOUS
      <3>5. QED BY <3>1, <3>2, <3>3, <3>4
    <2>3. QED BY <2>1, <2>2 DEF IsSummation
  <1>3. SumFunction(h) = c[S]
    <2> HIDE DEF c
    <2>1. DOMAIN h = S
      OBVIOUS
    <2> HIDE DEF h
    <2>2. QED BY <1>2, <2>1, SumIs
  <1>4. DOMAIN f = S
    OBVIOUS
  <1>5. QED BY <1>1, <1>3, <1>4, SumIs

LEMMA SumCounts ==
  ASSUME NEW S, IsFiniteSet(S), NEW U \in SUBSET S
  PROVE  SumFunction([i \in S |-> IF i \in U THEN 1 ELSE 0]) = Cardinality(U)
  <1> DEFINE h == [i \in S |-> IF i \in U THEN 1 ELSE 0]
             c == [T \in SUBSET S |-> Cardinality(T \cap U)]
  <1>1. \A T \in SUBSET S : IsFiniteSet(T \cap U) /\ Cardinality(T \cap U) \in Nat
    <2>1. \A T \in SUBSET S : T \cap U \in SUBSET S
      OBVIOUS
    <2>2. QED BY <2>1, FS_Subset, FS_CardinalityType
  <1>2. c \in [SUBSET S -> Int]
    BY <1>1
  <1>3. c[{}] = 0
    BY FS_EmptySet
  <1>4. ASSUME NEW T \in SUBSET S, NEW x \in T PROVE c[T] = h[x] + c[T \ {x}]
    <2>1. (T \ {x}) \cap U = (T \cap U) \ {x} /\ T \ {x} \in SUBSET S
      OBVIOUS
    <2>2. Cardinality((T \cap U) \ {x})
            = IF x \in T \cap U THEN Cardinality(T \cap U) - 1 ELSE Cardinality(T \cap U)
      BY <1>1, FS_RemoveElement
    <2>3. Cardinality((T \ {x}) \cap U) = Cardinality((T \cap U) \ {x})
      BY <2>1
    <2>4. h[x] = IF x \in T \cap U THEN 1 ELSE 0
      OBVIOUS
    <2>5. c[T] = Cardinality(T \cap U) /\ c[T \ {x}] = Cardinality((T \ {x}) \cap U)
      BY <2>1
    <2>6. Cardinality(T \cap U) \in Nat
      BY <1>1
    <2>7. QED BY <2>2, <2>3, <2>4, <2>5, <2>6
  <1>5. IsSummation(c, h, S)
    <2>1. \A x \in S : h[x] \in Int
      OBVIOUS
    <2>2. QED BY <1>2, <1>3, <1>4, <2>1 DEF IsSummation
  <1>6. DOMAIN h = S /\ c[S] = Cardinality(U)
    <2>1. S \cap U = U
      OBVIOUS
    <2>2. QED BY <2>1
  <1>7. QED
    <2> HIDE DEF c, h
    <2>1. SumFunction(h) = c[S]
      BY <1>5, <1>6, SumIs
    <2>2. QED BY <1>6, <2>1 DEF h

LEMMA SumNonNegative ==
  ASSUME NEW S, IsFiniteSet(S), NEW f \in [S -> Int], \A i \in S : f[i] >= 0
  PROVE  /\ SumFunction(f) >= 0
         /\ \A i \in S : f[i] <= SumFunction(f)
  <1>1. PICK g : IsSummation(g, f, S)
    BY SummationExists
  <1> DEFINE Good == {T \in SUBSET S : g[T] >= 0}
  <1>2. {} \in Good
    BY <1>1 DEF IsSummation
  <1>3. ASSUME NEW T \in SUBSET S, NEW x \in S \ T, g[T] >= 0
        PROVE  g[T \cup {x}] >= 0
    <2>1. (T \cup {x}) \ {x} = T /\ T \cup {x} \in SUBSET S
      OBVIOUS
    <2>2. g[T \cup {x}] = f[x] + g[(T \cup {x}) \ {x}]
      BY <1>1, <2>1 DEF IsSummation
    <2>3. g[T \cup {x}] = f[x] + g[T]
      BY <2>1, <2>2
    <2>4. f[x] \in Int /\ f[x] >= 0 /\ g[T] \in Int
      BY <1>1 DEF IsSummation
    <2>5. QED BY <1>3, <2>3, <2>4
  <1>4. ASSUME NEW R \in SUBSET S PROVE g[R] >= 0
    <2>1. IsFiniteSet(R)
      BY FS_Subset
    <2>2. \A T \in SUBSET R : \A x \in R \ T : T \in Good => T \cup {x} \in Good
      BY <1>3
    <2>3. R \in Good
      <3> HIDE DEF Good
      <3>1. QED BY <1>2, <2>1, <2>2, SetInduction
    <2>4. QED BY <2>3
  <1>5. DOMAIN f = S
    OBVIOUS
  <1>6. SumFunction(f) = g[S] /\ g[S] \in Int
    BY <1>1, <1>5, SumIs
  <1>7. ASSUME NEW i \in S PROVE f[i] <= g[S]
    <2>1. g[S] = f[i] + g[S \ {i}] /\ g[S \ {i}] \in Int /\ g[S \ {i}] >= 0
      BY <1>1, <1>4 DEF IsSummation
    <2>2. QED BY <2>1
  <1>8. QED BY <1>4, <1>6, <1>7

LEMMA SumMonotone ==
  ASSUME NEW S, IsFiniteSet(S), NEW f \in [S -> Int], NEW g \in [S -> Int],
         \A i \in S : f[i] <= g[i]
  PROVE  SumFunction(f) <= SumFunction(g)
  <1> DEFINE h == [i \in S |-> g[i] - f[i]]
             s == [i \in S |-> f[i] + h[i]]
  <1>1. h \in [S -> Int] /\ \A i \in S : h[i] >= 0
    OBVIOUS
  <1>2. s = g
    OBVIOUS
  <1>3. SumFunction(s) = SumFunction(f) + SumFunction(h)
    <2> HIDE DEF h
    <2> QED BY <1>1, SumPlus
  <1>4. SumFunction(h) >= 0
    <2> HIDE DEF h
    <2> QED BY <1>1, SumNonNegative
  <1>5. SumFunction(f) \in Int /\ SumFunction(h) \in Int
    <2> HIDE DEF h
    <2> QED BY <1>1, SumType
  <1>6. QED
    <2> HIDE DEF h, s
    <2> QED BY <1>2, <1>3, <1>4, <1>5

(* A sum over a part of a set is the sum over the set with zeros elsewhere.  *)
LEMMA SumWithin ==
  ASSUME NEW S, IsFiniteSet(S), NEW U \in SUBSET S, NEW f \in [U -> Int]
  PROVE  SumFunction(f) = SumFunction([i \in S |-> IF i \in U THEN f[i] ELSE 0])
  <1> DEFINE h == [i \in S |-> IF i \in U THEN f[i] ELSE 0]
  <1>1. IsFiniteSet(U) /\ DOMAIN f = U /\ \A x \in U : f[x] \in Int
    BY FS_Subset
  <1>2. PICK a : IsSummation(a, f, U)
    BY <1>1, SummationExists
  <1> DEFINE c == [T \in SUBSET S |-> a[T \cap U]]
  <1>3. IsSummation(c, h, S)
    <2>1. /\ \A x \in S : h[x] \in Int
          /\ c \in [SUBSET S -> Int]
      BY <1>2 DEF IsSummation
    <2>2. c[{}] = 0
      <3>1. {} \cap U = {}
        OBVIOUS
      <3>2. QED BY <3>1, <1>2 DEF IsSummation
    <2>3. ASSUME NEW T \in SUBSET S, NEW x \in T PROVE c[T] = h[x] + c[T \ {x}]
      <3>1. T \cap U \in SUBSET U /\ c[T] = a[T \cap U] /\ c[T \ {x}] = a[(T \ {x}) \cap U]
        OBVIOUS
      <3>2. a[T \cap U] \in Int
        BY <1>2, <3>1 DEF IsSummation
      <3>3. CASE x \in U
        <4>1. (T \ {x}) \cap U = (T \cap U) \ {x} /\ x \in T \cap U /\ h[x] = f[x]
          BY <3>3
        <4>2. a[T \cap U] = f[x] + a[(T \cap U) \ {x}]
          BY <1>2, <3>1, <4>1 DEF IsSummation
        <4>3. QED BY <3>1, <4>1, <4>2
      <3>4. CASE x \notin U
        <4>1. (T \ {x}) \cap U = T \cap U /\ h[x] = 0
          BY <3>4
        <4> HIDE DEF c, h
        <4>2. c[T] = c[T \ {x}] /\ c[T] \in Int
          BY <3>1, <3>2, <4>1
        <4>3. QED BY <4>1, <4>2
      <3>5. QED BY <3>3, <3>4
    <2>4. QED BY <2>1, <2>2, <2>3 DEF IsSummation
  <1>4. DOMAIN h = S /\ c[S] = a[U]
    <2>1. S \cap U = U
      OBVIOUS
    <2>2. QED BY <2>1
  <1>5. QED
    <2> HIDE DEF c, h
    <2>1. SumFunction(h) = c[S]
      BY <1>3, <1>4, SumIs
    <2>2. SumFunction(f) = a[U]
      BY <1>1, <1>2, SumIs
    <2>3. QED BY <1>4, <2>1, <2>2 DEF h

LEMMA SumZero ==
  ASSUME NEW S, IsFiniteSet(S)
  PROVE  SumFunction([i \in S |-> 0]) = 0
  <1>1. [i \in S |-> 0] = [i \in S |-> IF i \in {} THEN 1 ELSE 0]
    OBVIOUS
  <1>2. SumFunction([i \in S |-> IF i \in {} THEN 1 ELSE 0]) = Cardinality({})
    BY SumCounts
  <1>3. QED BY <1>1, <1>2, FS_EmptySet

-----------------------------------------------------------------------------
(* The largest-remainder method. *)

ItemOK(item) ==
  item.type \in ItemType /\ item.price \in Nat /\ item.quantity \in Nat /\ item.purchase \in Nat

OrderOK(order) == IsFiniteSet(DOMAIN order) /\ \A i \in DOMAIN order : ItemOK(order[i])

LEMMA DivMod ==
  ASSUME NEW a \in Nat, NEW b \in Nat, b > 0
  PROVE  /\ a \div b \in Nat /\ a % b \in Nat /\ a % b < b
         /\ a = (b * (a \div b)) + (a % b)
  OBVIOUS

LEMMA ProductNat == \A m, n \in Nat : m * n \in Nat
  OBVIOUS

LEMMA SubtotalType ==
  ASSUME NEW order, OrderOK(order)
  PROVE  /\ Subtotal(order) \in Nat
         /\ \A i \in DOMAIN order : Amount(order[i]) \in Nat /\ Amount(order[i]) <= Subtotal(order)
  <1> DEFINE S == DOMAIN order
             f == [i \in S |-> Amount(order[i])]
  <1>1. \A i \in S : Amount(order[i]) \in Nat
    BY ProductNat DEF OrderOK, ItemOK, Amount
  <1>2. f \in [S -> Int] /\ IsFiniteSet(S) /\ \A i \in S : f[i] >= 0
    BY <1>1 DEF OrderOK
  <1>3. SumFunction(f) \in Int /\ SumFunction(f) >= 0 /\ \A i \in S : f[i] <= SumFunction(f)
    <2> HIDE DEF f
    <2>1. QED BY <1>2, SumType, SumNonNegative
  <1>4. QED BY <1>1, <1>3 DEF Subtotal

LEMMA Shares ==
  ASSUME NEW order, OrderOK(order), Subtotal(order) > 0, NEW d \in Nat, NEW i \in DOMAIN order
  PROVE  /\ RoundedDown(d, order, i) \in Nat
         /\ Remainder(d, order, i) \in Nat /\ Remainder(d, order, i) < Subtotal(order)
         /\ d * Amount(order[i]) = Subtotal(order) * RoundedDown(d, order, i) + Remainder(d, order, i)
  <1>1. d * Amount(order[i]) \in Nat /\ Subtotal(order) \in Nat
    BY SubtotalType, ProductNat
  <1>2. QED BY <1>1, DivMod DEF RoundedDown, Remainder

(* The cents left are what the remainders add up to.                         *)
LEMMA RemaindersAddUp ==
  ASSUME NEW order, OrderOK(order), Subtotal(order) > 0, NEW d \in Nat
  PROVE  /\ RemainedCents(d, order) \in Nat
         /\ SumFunction([i \in DOMAIN order |-> RoundedDown(d, order, i)]) \in Int
         /\ Subtotal(order) * RemainedCents(d, order)
              = SumFunction([i \in DOMAIN order |-> Remainder(d, order, i)])
  <1> DEFINE S == DOMAIN order
             a == [i \in S |-> Amount(order[i])]
             q == [i \in S |-> RoundedDown(d, order, i)]
             r == [i \in S |-> Remainder(d, order, i)]
             total == Subtotal(order)
             da == [i \in S |-> d * a[i]]
             tq == [i \in S |-> total * q[i]]
             sum == [i \in S |-> tq[i] + r[i]]
  <1>1. total \in Nat /\ total > 0 /\ IsFiniteSet(S)
    BY SubtotalType DEF OrderOK
  <1>2. a \in [S -> Int] /\ q \in [S -> Int] /\ r \in [S -> Int] /\ \A i \in S : r[i] >= 0
    BY SubtotalType, Shares
  <1>3. tq \in [S -> Int]
    BY <1>1, <1>2
  <1>4. da = sum
    BY Shares
  <1>5. SumFunction(a) = total
    BY DEF Subtotal
  <1>6. d - SumFunction(q) = RemainedCents(d, order)
    BY DEF RemainedCents
  <1> HIDE DEF a, q, r, total
  <1>7. SumFunction(da) = d * SumFunction(a)
    BY <1>1, <1>2, SumTimes
  <1>8. SumFunction(tq) = total * SumFunction(q)
    BY <1>1, <1>2, SumTimes
  <1>9. SumFunction(sum) = SumFunction(tq) + SumFunction(r)
    <2> HIDE DEF tq
    <2> QED BY <1>1, <1>2, <1>3, SumPlus
  <1>10. SumFunction(q) \in Int /\ SumFunction(r) \in Int /\ SumFunction(r) >= 0
    BY <1>1, <1>2, SumType, SumNonNegative
  <1> HIDE DEF da, tq, sum
  <1>11. d * total = total * SumFunction(q) + SumFunction(r)
    BY <1>4, <1>5, <1>7, <1>8, <1>9
  <1>12. \A t, x, y \in Int : t * (x - y) = x * t - t * y
    OBVIOUS
  <1>13. total * (d - SumFunction(q)) = SumFunction(r)
    BY <1>1, <1>10, <1>11, <1>12
  <1>14. \A t, x \in Int : t > 0 /\ t * x >= 0 => x >= 0
    OBVIOUS
  <1>15. d - SumFunction(q) \in Int /\ d - SumFunction(q) >= 0
    BY <1>1, <1>10, <1>13, <1>14
  <1>16. QED BY <1>6, <1>10, <1>13, <1>15 DEF q, r, total

Spread(d, order, S) ==
  [i \in DOMAIN order |-> RoundedDown(d, order, i) + (IF i \in S THEN 1 ELSE 0)]

(* Before the caps every cent of the discount is handed out.                 *)
LEMMA SharesAddUp ==
  ASSUME NEW order, OrderOK(order), Subtotal(order) > 0, NEW d \in Nat, NEW U \in RoundedUp(d, order)
  PROVE  /\ Spread(d, order, U) \in [DOMAIN order -> Nat]
         /\ SumFunction(Spread(d, order, U)) = d
  <1> DEFINE S == DOMAIN order
             q == [i \in S |-> RoundedDown(d, order, i)]
             up == [i \in S |-> IF i \in U THEN 1 ELSE 0]
             sum == [i \in S |-> q[i] + up[i]]
  <1>1. IsFiniteSet(S) /\ U \in SUBSET S
    BY DEF OrderOK, RoundedUp
  <1>2. q \in [S -> Int] /\ up \in [S -> Int]
    BY Shares
  <1>3. Spread(d, order, U) = sum
    BY DEF Spread
  <1>4. SumFunction(up) = Cardinality(U)
    BY <1>1, SumCounts
  <1>5. Cardinality(U) = d - SumFunction(q)
    BY DEF RoundedUp, RemainedCents
  <1>6. SumFunction(q) \in Int
    BY RemaindersAddUp
  <1>7. SumFunction(sum) = SumFunction(q) + SumFunction(up)
    <2> HIDE DEF q, up
    <2> QED BY <1>1, <1>2, SumPlus
  <1>8. Spread(d, order, U) \in [S -> Nat]
    BY Shares DEF Spread
  <1>9. SumFunction(Spread(d, order, U)) = d
    <2> HIDE DEF q, up, sum
    <2> QED BY <1>3, <1>4, <1>5, <1>6, <1>7
  <1>10. QED BY <1>8, <1>9

(* Nobody whose share is a whole number of cents gets a cent more: the cents *)
(* left are fewer than the items with a remainder.                           *)
LEMMA RoundedUpHasRemainder ==
  ASSUME NEW order, OrderOK(order), Subtotal(order) > 0, NEW d \in Nat, NEW U \in RoundedUp(d, order),
         NEW i \in U
  PROVE  Remainder(d, order, i) > 0
  <1> DEFINE S == DOMAIN order
             r == [j \in S |-> Remainder(d, order, j)]
             up == [j \in S |-> IF j \in U THEN 1 ELSE 0]
             total == Subtotal(order)
             bound == [j \in S |-> (total - 1) * up[j]]
  <1>1. IsFiniteSet(S) /\ U \in SUBSET S /\ total \in Nat /\ total > 0
    BY SubtotalType DEF OrderOK, RoundedUp
  <1>2. r \in [S -> Int] /\ up \in [S -> Int] /\ total - 1 \in Int /\ total - 1 >= 0
    BY <1>1, Shares
  <1>3. SUFFICES ASSUME Remainder(d, order, i) = 0 PROVE FALSE
    BY <1>1, Shares
  <1>4. ASSUME NEW j \in S PROVE r[j] <= (total - 1) * up[j]
    <2>1. CASE j \in U
      <3>1. up[j] = 1 /\ r[j] \in Nat /\ r[j] < total
        BY <2>1, Shares
      <3>2. QED BY <1>1, <3>1
    <2>2. CASE j \notin U
      <3>1. up[j] = 0 /\ r[j] \in Nat /\ Remainder(d, order, i) >= r[j]
        BY <2>2, Shares DEF RoundedUp
      <3>2. QED BY <1>1, <1>3, <3>1
    <2>3. QED BY <2>1, <2>2
  <1>5. SumFunction(up) = Cardinality(U)
    BY <1>1, SumCounts
  <1>6. Cardinality(U) = RemainedCents(d, order) /\ RemainedCents(d, order) \in Nat
    BY RemaindersAddUp DEF RoundedUp
  <1>7. total * Cardinality(U) = SumFunction(r)
    BY <1>6, RemaindersAddUp
  <1> HIDE DEF r, up, total
  <1>8. bound \in [S -> Int] /\ \A j \in S : bound[j] = (total - 1) * up[j]
    BY <1>1, <1>2
  <1>9. SumFunction(bound) = (total - 1) * SumFunction(up)
    BY <1>1, <1>2, SumTimes
  <1>10. SumFunction(r) <= SumFunction(bound)
    <2> HIDE DEF bound
    <2> QED BY <1>1, <1>2, <1>4, <1>8, SumMonotone
  <1>11. Cardinality(U) \in Nat /\ Cardinality(U) > 0
    <2>1. IsFiniteSet(U)
      BY <1>1, FS_Subset
    <2>2. QED BY <2>1, FS_EmptySet, FS_CardinalityType
  <1> HIDE DEF bound
  <1>12. total * Cardinality(U) <= (total - 1) * Cardinality(U)
    BY <1>5, <1>7, <1>9, <1>10
  <1>13. \A t, c \in Nat : c > 0 => ~(t * c <= (t - 1) * c)
    OBVIOUS
  <1>14. QED BY <1>1, <1>11, <1>12, <1>13

LEMMA CappedType ==
  ASSUME NEW item, ItemOK(item), NEW x \in Nat
  PROVE  /\ Capped(item, x) \in Int /\ Capped(item, x) <= x
         /\ item.type # "alcohol" => Capped(item, x) = x
         /\ item.type = "alcohol" => Capped(item, x) <= MaxDiscount(item)
         /\ Capped(item, x) < 0 => item.type = "alcohol" /\ item.purchase > item.price
  <1> DEFINE unit == Least(item.price - item.purchase, (item.price * 35) \div 100)
  <1>1. item.price \in Nat /\ item.purchase \in Nat /\ item.quantity \in Nat
    BY DEF ItemOK
  <1>2. (item.price * 35) \div 100 \in Nat
    <2>1. item.price * 35 \in Nat
      BY <1>1
    <2>2. QED BY <2>1, DivMod
  <1>3. unit \in Int /\ (unit < 0 => item.purchase > item.price)
    BY <1>1, <1>2 DEF Least
  <1> HIDE DEF unit
  <1>4. unit * item.quantity \in Int /\ (unit * item.quantity < 0 => unit < 0)
    <2>1. \A m \in Int, n \in Nat : m * n \in Int /\ (m * n < 0 => m < 0)
      OBVIOUS
    <2>2. QED BY <1>1, <1>3, <2>1
  <1>5. MaxDiscount(item) = unit * item.quantity
    BY DEF MaxDiscount, unit
  <1>6. QED BY <1>3, <1>4, <1>5 DEF Capped, Least

LEMMA NothingToDistribute ==
  ASSUME NEW order, OrderOK(order), Subtotal(order) = 0, NEW d \in Nat, NEW D \in Distributions(d, order)
  PROVE  /\ D \in [DOMAIN order -> Int] /\ \A i \in DOMAIN order : D[i] = 0
         /\ DiscountValue(D) = 0
  <1>1. D = [i \in DOMAIN order |-> 0]
    BY DEF Distributions
  <1>2. QED BY <1>1, SumZero DEF OrderOK, DiscountValue

(* The caps only take away, and only from alcohol.                           *)
LEMMA DistributionOf ==
  ASSUME NEW order, OrderOK(order), Subtotal(order) > 0, NEW d \in Nat, NEW D \in Distributions(d, order)
  PROVE  /\ D \in [DOMAIN order -> Int]
         /\ DiscountValue(D) \in Int /\ DiscountValue(D) <= d
         /\ (\A i \in DOMAIN order : order[i].type # "alcohol") => DiscountValue(D) = d
         /\ \E U \in RoundedUp(d, order) : \A i \in DOMAIN order :
              D[i] = Capped(order[i], RoundedDown(d, order, i) + (IF i \in U THEN 1 ELSE 0))
  <1>1. PICK U \in RoundedUp(d, order) :
          D = [i \in DOMAIN order |->
                 Capped(order[i], RoundedDown(d, order, i) + (IF i \in U THEN 1 ELSE 0))]
    BY DEF Distributions
  <1> DEFINE s == Spread(d, order, U)
  <1>2. s \in [DOMAIN order -> Nat] /\ SumFunction(s) = d
    BY SharesAddUp
  <1>3. \A i \in DOMAIN order : D[i] = Capped(order[i], s[i])
    BY <1>1 DEF Spread
  <1> HIDE DEF s
  <1>4. \A i \in DOMAIN order :
          D[i] \in Int /\ D[i] <= s[i] /\ (order[i].type # "alcohol" => D[i] = s[i])
    BY <1>2, <1>3, CappedType DEF OrderOK
  <1> DEFINE S == DOMAIN order
  <1>5. IsFiniteSet(S)
    BY DEF OrderOK
  <1>6. D \in [S -> Int]
    <2>1. DOMAIN D = S /\ D = [i \in S |-> D[i]]
      BY <1>1
    <2>2. QED BY <1>4, <2>1
  <1>7. s \in [S -> Int]
    BY <1>2
  <1>8. \A i \in S : D[i] <= s[i] /\ (order[i].type # "alcohol" => D[i] = s[i])
    BY <1>4
  <1> HIDE DEF S
  <1>9. SumFunction(D) \in Int
    BY <1>5, <1>6, SumType
  <1>10. SumFunction(D) <= d
    BY <1>2, <1>5, <1>6, <1>7, <1>8, SumMonotone
  <1>11. (\A i \in S : order[i].type # "alcohol") => D = s
    BY <1>6, <1>7, <1>8
  <1>12. QED BY <1>1, <1>2, <1>6, <1>9, <1>10, <1>11 DEF DiscountValue, S
=============================================================================
