------------------------- MODULE OrderEventsProofs -------------------------
(***************************************************************************)
(* The safety properties of OrderEvents, for any number of workers,        *)
(* partitions, messages and faults.                                        *)
(***************************************************************************)
EXTENDS OrderEvents, FiniteSetTheorems, TLAPS

USE EventsAssumption

LEMMA MessageForm ==
  /\ \A p \in Partition : \A n \in 1..MaxMessages[p] : <<p, n>> \in Message
  /\ \A m \in Message : /\ m = <<m[1], m[2]>> /\ m[1] \in Partition
                        /\ m[2] \in 1..MaxMessages[m[1]]
  BY DEF Message

LEMMA NullNoMessage == Null \notin Message /\ Null \notin Worker
  BY DEF Message

-----------------------------------------------------------------------------
(* Types. *)

LEMMA FaultCounted ==
  ASSUME TypeOK, NEW kind \in Fault, Fails(kind)
  PROVE  /\ faults' \in [Fault -> Nat]
         /\ faults'[kind] = faults[kind] + 1
         /\ \A other \in Fault \ {kind} : faults'[other] = faults[other]
  BY DEF Fails, TypeOK

LEMMA Rebalanced ==
  ASSUME TypeOK, NEW live \in SUBSET Worker, Rebalance(live)
  PROVE  /\ committed' \in [Partition -> Nat] /\ owner' \in [Partition -> Worker \cup {Null}]
         /\ position' = position
         /\ \A p \in Partition : committed'[p] \in {committed[p], position[p]}
         /\ \A p \in Partition : owner'[p] = Null
  BY DEF Rebalance, PositionsGivenBack, TypeOK

(* What a loop begins is the first message after its position.              *)
Next1(q) == <<q, position[q] + 1>>

LEMMA Beginning ==
  ASSUME TypeOK, NEW w \in Worker, NEW q \in Partition, Begin(w, q)
  PROVE  /\ position[q] \in Nat /\ position[q] + 1 <= Len(log[q]) /\ Next1(q) \in Produced
         /\ owner[q] = w /\ owner[q] # Null /\ inflight[w] = Null
         /\ inflight' = [inflight EXCEPT ![w] = Next1(q)]
         /\ position' \in [Partition -> Nat] /\ position' = [position EXCEPT ![q] = @ + 1]
         /\ begun' \in [Message -> Nat] /\ begun'[Next1(q)] = begun[Next1(q)] + 1
         /\ \A m \in Message \ {Next1(q)} : begun'[m] = begun[m]
         /\ UNCHANGED <<log, committed, owner, loop, handled, faults>>
  <1>1. /\ position[q] \in Nat /\ position[q] + 1 <= Len(log[q])
        /\ owner[q] = w /\ owner[q] # Null /\ inflight[w] = Null
    BY NullNoMessage DEF Begin, CanTake, TypeOK
  <1>2. position[q] + 1 \in 1..MaxMessages[q]
    BY <1>1 DEF TypeOK
  <1>3. Next1(q) \in Message /\ Next1(q) \in Produced
    BY <1>1, <1>2, MessageForm DEF Produced, Next1
  <1>4. /\ begun' = [begun EXCEPT ![Next1(q)] = @ + 1] /\ begun \in [Message -> Nat]
        /\ inflight' = [inflight EXCEPT ![w] = Next1(q)]
        /\ position \in [Partition -> Nat] /\ position' = [position EXCEPT ![q] = @ + 1]
        /\ UNCHANGED <<log, committed, owner, loop, handled, faults>>
    BY DEF Begin, TypeOK, Next1
  <1> HIDE DEF Next1
  <1>5. QED BY <1>1, <1>3, <1>4

LEMMA TypeInit == Init => TypeOK
  <1> SUFFICES ASSUME Init PROVE TypeOK
    OBVIOUS
  <1>1. \A p \in Partition : log[p] = <<>> /\ Len(log[p]) = 0
    BY DEF Init
  <1>2. log \in [Partition -> Seq(Content)]
    BY DEF Init
  <1>3. QED BY <1>1, <1>2 DEF Init, TypeOK, Fault

LEMMA TypeNext == TypeOK /\ [Next]_vars => TypeOK'
  <1> SUFFICES ASSUME TypeOK, [Next]_vars PROVE TypeOK'
    OBVIOUS
  <1> USE MessageForm, NullNoMessage
  <1>1. ASSUME NEW p \in Partition, Produce(p) PROVE TypeOK'
    <2>1. log' \in [Partition -> Seq(Content)] /\ \A q \in Partition : Len(log'[q]) >= Len(log[q])
      BY <1>1 DEF Produce, TypeOK, Content
    <2>2. \A q \in Partition : Len(log'[q]) <= MaxMessages[q]
      BY <1>1 DEF Produce, TypeOK, Content
    <2>3. Produced \subseteq Produced'
      BY <2>1 DEF Produced, TypeOK
    <2>4. QED BY <1>1, <2>1, <2>2, <2>3 DEF Produce, TypeOK, groupVars
  <1>2. ASSUME NEW p \in Partition, ProduceMalformed(p) PROVE TypeOK'
    <2>1. log' \in [Partition -> Seq(Content)] /\ \A q \in Partition : Len(log'[q]) >= Len(log[q])
      BY <1>2 DEF ProduceMalformed, TypeOK
    <2>2. \A q \in Partition : Len(log'[q]) <= MaxMessages[q]
      BY <1>2 DEF ProduceMalformed, TypeOK
    <2>3. Produced \subseteq Produced'
      BY <2>1 DEF Produced, TypeOK
    <2>4. faults' \in [Fault -> Nat]
      BY <1>2, FaultCounted DEF ProduceMalformed, Fault
    <2>5. QED BY <1>2, <2>1, <2>2, <2>3, <2>4 DEF ProduceMalformed, TypeOK, groupVars
  <1>3. ASSUME NEW p \in Partition, Assign(p) PROVE TypeOK'
    BY <1>3 DEF Assign, StartPosition, TypeOK, Produced
  <1>4. ASSUME NEW w \in Worker, AutoCommit(w) PROVE TypeOK'
    BY <1>4 DEF AutoCommit, CommittedByTimer, TypeOK, Produced
  <1>5. ASSUME NEW w \in Worker, Start(w) PROVE TypeOK'
    BY <1>5, Rebalanced DEF Start, TypeOK, Produced
  <1>6. ASSUME NEW w \in Worker, StartFails(w) PROVE TypeOK'
    BY <1>6, FaultCounted DEF StartFails, TypeOK, Produced, groupVars, Fault
  <1>7. ASSUME NEW w \in Worker, NEW p \in Partition, Begin(w, p) PROVE TypeOK'
    <2>1. /\ Next1(p) \in Produced /\ inflight' = [inflight EXCEPT ![w] = Next1(p)]
          /\ position[p] \in Nat /\ position[p] + 1 <= Len(log[p])
          /\ position' \in [Partition -> Nat] /\ position' = [position EXCEPT ![p] = @ + 1]
          /\ begun' \in [Message -> Nat] /\ UNCHANGED <<log, committed, owner, loop, handled, faults>>
      BY <1>7, Beginning
    <2>2. Produced' = Produced
      BY <2>1 DEF Produced
    <2>3. inflight' \in [Worker -> Produced \cup {Null}]
      BY <2>1 DEF TypeOK
    <2>4. \A r \in Partition : position'[r] <= Len(log[r])
      BY <2>1 DEF TypeOK
    <2>5. QED BY <2>1, <2>2, <2>3, <2>4 DEF TypeOK
  <1>8. ASSUME NEW w \in Worker, NEW p \in Partition, LoopDies(w, p) PROVE TypeOK'
    BY <1>8 DEF LoopDies, CanTake, TypeOK, Produced
  <1>9. ASSUME NEW w \in Worker, HandlerReturns(w) PROVE TypeOK'
    BY <1>9 DEF HandlerReturns, TypeOK, Produced, groupVars
  <1>10. ASSUME NEW w \in Worker, HandlerRaises(w) PROVE TypeOK'
    BY <1>10, FaultCounted DEF HandlerRaises, TypeOK, Produced, groupVars, Fault
  <1>11. ASSUME NEW w \in Worker, Crash(w) PROVE TypeOK'
    BY <1>11, FaultCounted, Rebalanced DEF Crash, TypeOK, Produced, Fault
  <1>12. ASSUME NEW w \in Worker, Stop(w) PROVE TypeOK'
    BY <1>12, FaultCounted, Rebalanced DEF Stop, TypeOK, Produced, Fault
  <1>13. ASSUME NEW w \in Worker, LoseSession(w) PROVE TypeOK'
    BY <1>13, FaultCounted, Rebalanced DEF LoseSession, TypeOK, Produced, Fault
  <1>14. CASE UNCHANGED vars
    BY <1>14 DEF vars, groupVars, TypeOK, Produced
  <1>15. QED
    BY <1>1, <1>2, <1>3, <1>4, <1>5, <1>6, <1>7, <1>8, <1>9, <1>10, <1>11, <1>12, <1>13, <1>14
    DEF Next

(* The positions, commits and messages in flight are those of messages that *)
(* there are, whatever fails.                                               *)
THEOREM EventsTypeCorrect == Spec => []TypeOK
  BY TypeInit, TypeNext, PTL DEF Spec

-----------------------------------------------------------------------------
(* What is committed has been begun.  Not inductive: the timer commits a    *)
(* position, so all that a loop has taken must have been begun as well.     *)

BegunUpTo(p, k) == \A n \in 1..k : log[p][n] = "good" => begun[<<p, n>>] > 0

TakenWasBegun ==
  \A p \in Partition :
    /\ BegunUpTo(p, committed[p])
    /\ owner[p] # Null => BegunUpTo(p, position[p])

LEMMA TakenImpliesCommitted == TypeOK /\ TakenWasBegun => CommittedWasBegun
  BY MessageForm DEF TypeOK, TakenWasBegun, BegunUpTo, CommittedWasBegun, Committed, WellFormed, Produced

(* A step that appends to a log, or begins a message, forgets nothing.      *)
LEMMA BegunStays ==
  ASSUME TypeOK, NEW p \in Partition, NEW k \in Nat, k <= Len(log[p]), BegunUpTo(p, k),
         \A n \in 1..Len(log[p]) : log'[p][n] = log[p][n],
         \A m \in Message : begun'[m] >= begun[m], begun' \in [Message -> Nat]
  PROVE  BegunUpTo(p, k)'
  <1> SUFFICES ASSUME NEW n \in 1..k, log'[p][n] = "good" PROVE begun'[<<p, n>>] > 0
    BY DEF BegunUpTo
  <1>1. n \in 1..Len(log[p]) /\ <<p, n>> \in Message
    BY MessageForm DEF TypeOK
  <1>2. begun[<<p, n>>] > 0 /\ begun[<<p, n>>] \in Nat /\ begun'[<<p, n>>] \in Nat
    BY <1>1 DEF BegunUpTo, TypeOK
  <1>3. QED BY <1>1, <1>2

LEMMA TakenRebalance ==
  ASSUME TypeOK, TakenWasBegun, NEW live \in SUBSET Worker, Rebalance(live), UNCHANGED <<log, begun>>
  PROVE  TakenWasBegun'
  BY NullNoMessage DEF Rebalance, PositionsGivenBack, TakenWasBegun, BegunUpTo, TypeOK

LEMMA TakenInit == Init => TakenWasBegun
  BY DEF Init, TakenWasBegun, BegunUpTo

LEMMA TakenNext == TypeOK /\ TakenWasBegun /\ [Next]_vars => TakenWasBegun'
  <1> SUFFICES ASSUME TypeOK, TakenWasBegun, [Next]_vars PROVE TakenWasBegun'
    OBVIOUS
  <1>1. ASSUME NEW q \in Partition, NEW content \in Content,
               log' = [log EXCEPT ![q] = Append(@, content)], UNCHANGED <<groupVars, begun>>
        PROVE TakenWasBegun'
    <2>1. \A p \in Partition : \A n \in 1..Len(log[p]) : log'[p][n] = log[p][n]
      BY <1>1 DEF TypeOK
    <2>2. \A m \in Message : begun'[m] >= begun[m]
      BY <1>1 DEF TypeOK
    <2>3. ASSUME NEW p \in Partition, NEW k \in Nat, k <= Len(log[p]), BegunUpTo(p, k)
          PROVE  BegunUpTo(p, k)'
      BY <1>1, <2>1, <2>2, <2>3, BegunStays DEF TypeOK
    <2>4. QED BY <1>1, <2>3 DEF TakenWasBegun, TypeOK, groupVars
  <1>2. ASSUME NEW p \in Partition, Produce(p) \/ ProduceMalformed(p) PROVE TakenWasBegun'
    BY <1>1, <1>2 DEF Produce, ProduceMalformed, Content
  <1>3. ASSUME NEW p \in Partition, Assign(p) PROVE TakenWasBegun'
    BY <1>3 DEF Assign, StartPosition, TakenWasBegun, BegunUpTo, TypeOK
  <1>4. ASSUME NEW w \in Worker, AutoCommit(w) PROVE TakenWasBegun'
    BY <1>4, NullNoMessage DEF AutoCommit, CommittedByTimer, TakenWasBegun, BegunUpTo, TypeOK
  <1>5. ASSUME NEW w \in Worker, Start(w) \/ Crash(w) \/ Stop(w) \/ LoseSession(w) PROVE TakenWasBegun'
    BY <1>5, TakenRebalance DEF Start, Crash, Stop, LoseSession
  <1>6. ASSUME NEW w \in Worker, StartFails(w) \/ HandlerReturns(w) \/ HandlerRaises(w) PROVE TakenWasBegun'
    BY <1>6 DEF StartFails, HandlerReturns, HandlerRaises, groupVars, TakenWasBegun, BegunUpTo
  <1>7. ASSUME NEW w \in Worker, NEW q \in Partition, Begin(w, q) PROVE TakenWasBegun'
    <2>1. /\ Next1(q) \in Message /\ begun \in [Message -> Nat] /\ begun' \in [Message -> Nat]
          /\ begun'[Next1(q)] = begun[Next1(q)] + 1
          /\ \A m \in Message \ {Next1(q)} : begun'[m] = begun[m]
          /\ position[q] \in Nat /\ position[q] + 1 <= Len(log[q]) /\ owner[q] # Null
          /\ position \in [Partition -> Nat] /\ position' = [position EXCEPT ![q] = @ + 1]
          /\ UNCHANGED <<log, committed, owner>>
      BY <1>7, Beginning DEF TypeOK, Produced
    <2>2. ASSUME NEW m \in Message PROVE begun'[m] >= begun[m]
      <3>1. CASE m = Next1(q)
        BY <2>1, <3>1
      <3>2. CASE m # Next1(q)
        BY <2>1, <3>2
      <3>3. QED BY <3>1, <3>2
    <2>3. ASSUME NEW p \in Partition, NEW k \in Nat, k <= Len(log[p]), BegunUpTo(p, k)
          PROVE  BegunUpTo(p, k)'
      BY <2>1, <2>2, <2>3, BegunStays
    <2>4. BegunUpTo(q, position[q])'
      <3>1. BegunUpTo(q, position[q]) /\ position[q] <= Len(log[q])
        BY <2>1 DEF TakenWasBegun, TypeOK
      <3>2. \A n \in 1..position[q] : log'[q][n] = "good" => begun'[<<q, n>>] > 0
        BY <2>1, <2>2, <3>1, MessageForm DEF BegunUpTo, TypeOK
      <3>3. begun'[<<q, position[q] + 1>>] > 0
        BY <2>1 DEF Next1
      <3>4. position'[q] = position[q] + 1
        BY <2>1
      <3>5. ASSUME NEW n \in 1..position'[q], log'[q][n] = "good" PROVE begun'[<<q, n>>] > 0
        <4>1. CASE n = position[q] + 1
          BY <3>3, <4>1
        <4>2. CASE n # position[q] + 1
          <5>1. n \in 1..position[q]
            BY <2>1, <3>4, <4>2
          <5>2. QED BY <3>2, <3>5, <5>1
        <4>3. QED BY <4>1, <4>2
      <3>6. QED BY <3>5 DEF BegunUpTo
    <2>5. QED
      <3>1. \A p \in Partition : BegunUpTo(p, committed[p])'
        BY <2>1, <2>3 DEF TakenWasBegun, TypeOK
      <3>2. ASSUME NEW p \in Partition, owner'[p] # Null PROVE BegunUpTo(p, position[p])'
        <4>1. CASE p = q
          BY <2>4, <4>1
        <4>2. CASE p # q
          BY <2>1, <2>3, <3>2, <4>2 DEF TakenWasBegun, TypeOK
        <4>3. QED BY <4>1, <4>2
      <3>3. QED BY <3>1, <3>2 DEF TakenWasBegun
  <1>8. ASSUME NEW w \in Worker, NEW q \in Partition, LoopDies(w, q) PROVE TakenWasBegun'
    <2>1. owner[q] # Null /\ log[q][position[q] + 1] # "good"
      BY <1>8, NullNoMessage DEF LoopDies, CanTake
    <2>2. BegunUpTo(q, position[q] + 1)
      BY <2>1 DEF TakenWasBegun, BegunUpTo, TypeOK
    <2>3. QED BY <1>8, <2>1, <2>2 DEF LoopDies, TakenWasBegun, BegunUpTo, TypeOK
  <1>9. CASE UNCHANGED vars
    BY <1>9 DEF vars, groupVars, TakenWasBegun, BegunUpTo
  <1>10. QED
    BY <1>2, <1>3, <1>4, <1>5, <1>6, <1>7, <1>8, <1>9 DEF Next

(* No message is passed over, whatever fails.                               *)
THEOREM NoMessagePassedOver == Spec => []CommittedWasBegun
  <1>1. Init => TypeOK /\ TakenWasBegun
    BY TypeInit, TakenInit
  <1>2. TypeOK /\ TakenWasBegun /\ [Next]_vars => (TypeOK /\ TakenWasBegun)'
    BY TypeNext, TakenNext
  <1>3. QED BY <1>1, <1>2, TakenImpliesCommitted, PTL DEF Spec

-----------------------------------------------------------------------------
(* Redeliveries.  Not inductive: what is neither committed nor taken by an  *)
(* owner must have been begun once less often, since it will be begun again. *)

Reruns == faults["crash"] + faults["session"]

Ahead(p, n) == n > committed[p] /\ (owner[p] # Null => n > position[p])

RerunsInv ==
  /\ \A p \in Partition : owner[p] # Null => committed[p] <= position[p]
  /\ \A p \in Partition : \A n \in 1..MaxMessages[p] :
       /\ begun[<<p, n>>] <= 1 + Reruns
       /\ Ahead(p, n) => begun[<<p, n>>] <= Reruns

LEMMA RerunsImply == TypeOK /\ RerunsInv => RedeliveriesBounded
  <1> SUFFICES ASSUME TypeOK, RerunsInv, NEW m \in Message
               PROVE  begun[m] <= 1 + faults.crash + faults.session
    BY DEF RedeliveriesBounded
  <1>1. m = <<m[1], m[2]>> /\ m[1] \in Partition /\ m[2] \in 1..MaxMessages[m[1]]
    BY MessageForm
  <1>2. begun[m] <= 1 + Reruns
    BY <1>1 DEF RerunsInv
  <1>3. faults["crash"] \in Nat /\ faults["session"] \in Nat
    BY DEF TypeOK, Fault
  <1>4. QED BY <1>2, <1>3 DEF Reruns

LEMMA BegunNat ==
  ASSUME TypeOK
  PROVE  /\ Reruns \in Nat
         /\ \A p \in Partition : \A n \in 1..MaxMessages[p] : begun[<<p, n>>] \in Nat
  BY MessageForm DEF TypeOK, Reruns, Fault

(* A step that begins nothing and makes nothing new lie ahead.              *)
LEMMA RerunsStay ==
  ASSUME TypeOK, TypeOK', RerunsInv, begun' = begun, Reruns' >= Reruns,
         \A p \in Partition : owner'[p] # Null => committed'[p] <= position'[p],
         \A p \in Partition : \A n \in 1..MaxMessages[p] : Ahead(p, n)' => Ahead(p, n)
  PROVE  RerunsInv'
  <1>1. \A p \in Partition : \A n \in 1..MaxMessages[p] : begun[<<p, n>>] \in Nat
    BY BegunNat
  <1>2. Reruns \in Nat /\ Reruns' \in Nat
    BY BegunNat DEF TypeOK, Reruns, Fault
  <1>3. ASSUME NEW p \in Partition, NEW n \in 1..MaxMessages[p]
        PROVE  begun'[<<p, n>>] <= 1 + Reruns' /\ (Ahead(p, n)' => begun'[<<p, n>>] <= Reruns')
    <2>1. begun'[<<p, n>>] = begun[<<p, n>>] /\ begun[<<p, n>>] \in Nat /\ (Ahead(p, n)' => Ahead(p, n))
      BY <1>1
    <2>2. begun[<<p, n>>] <= 1 + Reruns /\ (Ahead(p, n) => begun[<<p, n>>] <= Reruns)
      BY DEF RerunsInv
    <2>3. QED BY <1>2, <2>1, <2>2
  <1>4. QED BY <1>3 DEF RerunsInv

LEMMA RerunsInit == Init => RerunsInv
  BY MessageForm DEF Init, RerunsInv, Reruns, Fault

LEMMA RerunsNext == TypeOK /\ RerunsInv /\ [Next]_vars => RerunsInv'
  <1> SUFFICES ASSUME TypeOK, RerunsInv, [Next]_vars PROVE RerunsInv'
    OBVIOUS
  <1>0. TypeOK'
    BY TypeNext
  <1>1. ASSUME UNCHANGED <<groupVars, begun>>, Reruns' >= Reruns PROVE RerunsInv'
    BY <1>0, <1>1, RerunsStay DEF groupVars, Ahead, RerunsInv
  <1>2. ASSUME NEW p \in Partition, Produce(p) \/ ProduceMalformed(p) PROVE RerunsInv'
    <2>1. Reruns' = Reruns /\ Reruns \in Nat
      BY <1>2, BegunNat, FaultCounted DEF Produce, ProduceMalformed, Reruns, Fault
    <2>2. QED BY <1>1, <1>2, <2>1 DEF Produce, ProduceMalformed
  <1>3. ASSUME NEW p \in Partition, Assign(p) PROVE RerunsInv'
    <2>1. Reruns' = Reruns /\ Reruns \in Nat
      BY <1>3, BegunNat DEF Assign, Reruns
    <2>2. \A q \in Partition : owner'[q] # Null => committed'[q] <= position'[q]
      BY <1>3 DEF Assign, StartPosition, RerunsInv, TypeOK
    <2>3. \A q \in Partition : \A n \in 1..MaxMessages[q] : Ahead(q, n)' => Ahead(q, n)
      BY <1>3 DEF Assign, StartPosition, Ahead, TypeOK
    <2>4. QED BY <1>0, <1>3, <2>1, <2>2, <2>3, RerunsStay DEF Assign
  <1>4. ASSUME NEW w \in Worker, AutoCommit(w) PROVE RerunsInv'
    <2>1. Reruns' = Reruns /\ Reruns \in Nat
      BY <1>4, BegunNat DEF AutoCommit, Reruns
    <2>2. \A q \in Partition : owner'[q] # Null => committed'[q] <= position'[q]
      BY <1>4 DEF AutoCommit, CommittedByTimer, RerunsInv, TypeOK
    <2>3. \A q \in Partition : \A n \in 1..MaxMessages[q] : Ahead(q, n)' => Ahead(q, n)
      <3> SUFFICES ASSUME NEW q \in Partition, NEW n \in 1..MaxMessages[q], Ahead(q, n)' PROVE Ahead(q, n)
        OBVIOUS
      <3>1. /\ owner' = owner /\ position' = position /\ n \in Nat
            /\ committed'[q] = IF owner[q] = w THEN position[q] ELSE committed[q]
            /\ committed[q] \in Nat /\ position[q] \in Nat
        BY <1>4 DEF AutoCommit, CommittedByTimer, TypeOK
      <3>2. CASE owner[q] = w
        BY <3>1, <3>2, NullNoMessage DEF Ahead, RerunsInv
      <3>3. CASE owner[q] # w
        BY <3>1, <3>3 DEF Ahead
      <3>4. QED BY <3>2, <3>3
    <2>4. QED BY <1>0, <1>4, <2>1, <2>2, <2>3, RerunsStay DEF AutoCommit
  <1>5. ASSUME NEW w \in Worker, Start(w) \/ Stop(w) PROVE RerunsInv'
    <2>1. Reruns' = Reruns /\ Reruns \in Nat
      BY <1>5, BegunNat, FaultCounted DEF Start, Stop, Reruns, Fault
    <2>2. Rebalance(Worker) /\ begun' = begun
      BY <1>5 DEF Start, Stop
    <2>3. \A q \in Partition : owner'[q] = Null
      BY <2>2 DEF Rebalance
    <2>4. \A q \in Partition : \A n \in 1..MaxMessages[q] : Ahead(q, n)' => Ahead(q, n)
      BY <2>2, NullNoMessage DEF Rebalance, PositionsGivenBack, Ahead, RerunsInv, TypeOK
    <2>5. QED BY <1>0, <2>1, <2>2, <2>3, <2>4, RerunsStay
  <1>6. ASSUME NEW w \in Worker, Crash(w) \/ LoseSession(w) PROVE RerunsInv'
    <2>1. Reruns' = Reruns + 1
      BY <1>6, FaultCounted DEF Crash, LoseSession, Reruns, Fault, TypeOK
    <2>2. \A q \in Partition : owner'[q] = Null
      BY <1>6 DEF Crash, LoseSession, Rebalance
    <2>3. begun' = begun
      BY <1>6 DEF Crash, LoseSession
    <2>4. QED BY <2>1, <2>2, <2>3, BegunNat DEF RerunsInv
  <1>7. ASSUME NEW w \in Worker, StartFails(w) \/ HandlerRaises(w) PROVE RerunsInv'
    <2>1. Reruns' = Reruns /\ Reruns \in Nat
      BY <1>7, BegunNat, FaultCounted DEF StartFails, HandlerRaises, Reruns, Fault
    <2>2. QED BY <1>1, <1>7, <2>1 DEF StartFails, HandlerRaises
  <1>8. ASSUME NEW w \in Worker, HandlerReturns(w) PROVE RerunsInv'
    BY <1>1, <1>8, BegunNat DEF HandlerReturns, Reruns
  <1>9. ASSUME NEW w \in Worker, NEW q \in Partition, Begin(w, q) PROVE RerunsInv'
    <2>1. /\ Next1(q) \in Message /\ begun'[Next1(q)] = begun[Next1(q)] + 1
          /\ \A m \in Message \ {Next1(q)} : begun'[m] = begun[m]
          /\ position[q] \in Nat /\ position[q] + 1 <= Len(log[q]) /\ owner[q] # Null
          /\ position \in [Partition -> Nat] /\ position' = [position EXCEPT ![q] = @ + 1]
          /\ UNCHANGED <<log, committed, owner, faults>>
      BY <1>9, Beginning DEF TypeOK, Produced
    <2>2. Reruns' = Reruns /\ Reruns \in Nat
      BY <2>1, BegunNat DEF Reruns
    <2>3. \A p \in Partition : owner'[p] # Null => committed'[p] <= position'[p]
      BY <2>1 DEF RerunsInv, TypeOK
    <2>4. ASSUME NEW p \in Partition, NEW n \in 1..MaxMessages[p]
          PROVE  begun'[<<p, n>>] <= 1 + Reruns /\ (Ahead(p, n)' => begun'[<<p, n>>] <= Reruns)
      <3>1. CASE p = q /\ n = position[q] + 1
        <4>1. Ahead(p, n) /\ ~Ahead(p, n)'
          BY <2>1, <3>1 DEF Ahead, RerunsInv, TypeOK
        <4>2. begun[<<p, n>>] <= Reruns /\ begun[<<p, n>>] \in Nat
          BY <4>1, BegunNat DEF RerunsInv
        <4>3. begun'[<<p, n>>] = begun[<<p, n>>] + 1
          BY <2>1, <3>1 DEF Next1
        <4>4. QED BY <2>2, <4>1, <4>2, <4>3
      <3>2. CASE ~(p = q /\ n = position[q] + 1)
        <4>1. begun'[<<p, n>>] = begun[<<p, n>>]
          BY <2>1, <3>2, MessageForm DEF Next1
        <4>2. Ahead(p, n)' => Ahead(p, n)
          BY <2>1 DEF Ahead, TypeOK
        <4>3. QED BY <4>1, <4>2 DEF RerunsInv
      <3>3. QED BY <3>1, <3>2
    <2>5. QED BY <2>2, <2>3, <2>4 DEF RerunsInv
  <1>10. ASSUME NEW w \in Worker, NEW q \in Partition, LoopDies(w, q) PROVE RerunsInv'
    <2>1. Reruns' = Reruns /\ Reruns \in Nat
      BY <1>10, BegunNat DEF LoopDies, Reruns
    <2>2. \A p \in Partition : owner'[p] # Null => committed'[p] <= position'[p]
      BY <1>10 DEF LoopDies, RerunsInv, TypeOK
    <2>3. \A p \in Partition : \A n \in 1..MaxMessages[p] : Ahead(p, n)' => Ahead(p, n)
      BY <1>10 DEF LoopDies, Ahead, TypeOK
    <2>4. QED BY <1>0, <1>10, <2>1, <2>2, <2>3, RerunsStay DEF LoopDies
  <1>11. CASE UNCHANGED vars
    BY <1>1, <1>11, BegunNat DEF vars, Reruns
  <1>12. QED
    BY <1>2, <1>3, <1>4, <1>5, <1>6, <1>7, <1>8, <1>9, <1>10, <1>11 DEF Next

(* A message is begun once more for each crash and lost session at most.    *)
THEOREM RedeliveriesAreBounded == Spec => []RedeliveriesBounded
  <1>1. Init => TypeOK /\ RerunsInv
    BY TypeInit, RerunsInit
  <1>2. TypeOK /\ RerunsInv /\ [Next]_vars => (TypeOK /\ RerunsInv)'
    BY TypeNext, RerunsNext
  <1>3. QED BY <1>1, <1>2, RerunsImply, PTL DEF Spec

-----------------------------------------------------------------------------
(* Losses.  Lost says nothing of a message given up and not committed yet,  *)
(* which the timer may commit later; Abandoned counts that one already.     *)

Losses == faults["handler"] + faults["crash"] + faults["stop"]

Abandoned == {m \in Message : begun[m] > 0 /\ m \notin handled /\ \A w \in Worker : inflight[w] # m}

LossInv == IsFiniteSet(Abandoned) /\ Cardinality(Abandoned) <= Losses

LEMMA LossesNat == TypeOK => Losses \in Nat
  BY DEF TypeOK, Losses, Fault

(* A step that gives up no message, and one that gives up one.              *)
LEMMA NoneGivenUp ==
  ASSUME LossInv, TypeOK, Abandoned' \subseteq Abandoned, Losses' \in Nat, Losses' >= Losses
  PROVE  LossInv'
  <1>1. IsFiniteSet(Abandoned') /\ Cardinality(Abandoned') <= Cardinality(Abandoned)
    BY FS_Subset DEF LossInv
  <1>2. Cardinality(Abandoned) \in Nat /\ Cardinality(Abandoned') \in Nat
    BY <1>1, FS_CardinalityType DEF LossInv
  <1>3. Cardinality(Abandoned) <= Losses /\ Losses \in Nat
    BY LossesNat DEF LossInv
  <1>4. Cardinality(Abandoned') <= Losses'
    BY <1>1, <1>2, <1>3
  <1>5. QED BY <1>1, <1>4 DEF LossInv

LEMMA OneGivenUp ==
  ASSUME LossInv, TypeOK, NEW m, Abandoned' \subseteq Abandoned \cup {m}, Losses' = Losses + 1
  PROVE  LossInv'
  <1>1. IsFiniteSet(Abandoned \cup {m})
        /\ Cardinality(Abandoned \cup {m}) <= Cardinality(Abandoned) + 1
    <2>1. IsFiniteSet(Abandoned) /\ Cardinality(Abandoned) \in Nat
      BY FS_CardinalityType DEF LossInv
    <2>2. /\ IsFiniteSet(Abandoned \cup {m})
          /\ Cardinality(Abandoned \cup {m})
             = IF m \in Abandoned THEN Cardinality(Abandoned) ELSE Cardinality(Abandoned) + 1
      BY <2>1, FS_AddElement, Zenon
    <2>3. QED BY <2>1, <2>2
  <1>2. IsFiniteSet(Abandoned') /\ Cardinality(Abandoned') <= Cardinality(Abandoned \cup {m})
    BY <1>1, FS_Subset
  <1>3. /\ Cardinality(Abandoned) \in Nat /\ Cardinality(Abandoned') \in Nat
        /\ Cardinality(Abandoned \cup {m}) \in Nat
    BY <1>1, <1>2, FS_CardinalityType DEF LossInv
  <1>4. Cardinality(Abandoned) <= Losses /\ Losses \in Nat
    BY LossesNat DEF LossInv
  <1>5. Cardinality(Abandoned') <= Losses'
    BY <1>1, <1>2, <1>3, <1>4
  <1>6. QED BY <1>2, <1>5 DEF LossInv

LEMMA LossInit == Init => LossInv
  <1> SUFFICES ASSUME Init PROVE LossInv
    OBVIOUS
  <1>1. Abandoned = {}
    BY DEF Init, Abandoned
  <1>2. Losses = 0
    BY DEF Init, Losses, Fault
  <1>3. QED BY <1>1, <1>2, FS_EmptySet DEF LossInv

LEMMA LossNext == TypeOK /\ LossInv /\ [Next]_vars => LossInv'
  <1> SUFFICES ASSUME TypeOK, LossInv, [Next]_vars PROVE LossInv'
    OBVIOUS
  <1>0. Losses \in Nat
    BY LossesNat
  <1>1. ASSUME UNCHANGED <<inflight, begun, handled>>, Losses' = Losses PROVE LossInv'
    <2>1. Abandoned' = Abandoned
      BY <1>1 DEF Abandoned
    <2>2. QED BY <1>0, <1>1, <2>1, NoneGivenUp
  <1>2. ASSUME NEW w \in Worker, inflight' = [inflight EXCEPT ![w] = Null],
               UNCHANGED <<begun, handled>>, Losses' = Losses + 1
        PROVE LossInv'
    <2>1. Abandoned' \subseteq Abandoned \cup {inflight[w]}
      BY <1>2 DEF Abandoned, TypeOK
    <2>2. QED BY <1>2, <2>1, OneGivenUp
  <1>3. ASSUME NEW p \in Partition, Produce(p) \/ ProduceMalformed(p) \/ Assign(p) PROVE LossInv'
    <2>1. Losses' = Losses
      BY <1>3, FaultCounted DEF Produce, ProduceMalformed, Assign, Losses, Fault
    <2>2. QED BY <1>1, <1>3, <2>1 DEF Produce, ProduceMalformed, Assign
  <1>4. ASSUME NEW w \in Worker, AutoCommit(w) \/ Start(w) \/ StartFails(w) \/ LoseSession(w)
        PROVE LossInv'
    <2>1. Losses' = Losses
      BY <1>4, FaultCounted DEF AutoCommit, Start, StartFails, LoseSession, Losses, Fault
    <2>2. QED BY <1>1, <1>4, <2>1 DEF AutoCommit, Start, StartFails, LoseSession
  <1>5. ASSUME NEW w \in Worker, HandlerRaises(w) \/ Crash(w) \/ Stop(w) PROVE LossInv'
    <2>1. Losses' = Losses + 1
      <3> faults["handler"] \in Nat /\ faults["crash"] \in Nat /\ faults["stop"] \in Nat
        BY DEF TypeOK, Fault
      <3>1. CASE HandlerRaises(w)
        BY <3>1, FaultCounted DEF HandlerRaises, Losses, Fault
      <3>2. CASE Crash(w)
        BY <3>2, FaultCounted DEF Crash, Losses, Fault
      <3>3. CASE Stop(w)
        BY <3>3, FaultCounted DEF Stop, Losses, Fault
      <3>4. QED BY <1>5, <3>1, <3>2, <3>3
    <2>2. QED BY <1>2, <1>5, <2>1 DEF HandlerRaises, Crash, Stop
  <1>6. ASSUME NEW w \in Worker, HandlerReturns(w) PROVE LossInv'
    <2>1. Losses' = Losses
      BY <1>6 DEF HandlerReturns, Losses
    <2>2. Abandoned' \subseteq Abandoned
      BY <1>6 DEF HandlerReturns, Abandoned, TypeOK
    <2>3. QED BY <1>0, <2>1, <2>2, NoneGivenUp
  <1>7. ASSUME NEW w \in Worker, NEW q \in Partition, Begin(w, q) PROVE LossInv'
    <2>1. /\ inflight[w] = Null /\ inflight' = [inflight EXCEPT ![w] = Next1(q)]
          /\ \A m \in Message \ {Next1(q)} : begun'[m] = begun[m]
          /\ UNCHANGED <<handled, faults>>
      BY <1>7, Beginning
    <2>2. ASSUME NEW m \in Abandoned' PROVE m \in Abandoned
      <3>1. /\ m \in Message /\ begun'[m] > 0 /\ m \notin handled'
            /\ \A v \in Worker : inflight'[v] # m
        BY <2>2 DEF Abandoned
      <3>2. m # Next1(q)
        BY <2>1, <3>1 DEF TypeOK
      <3>3. ASSUME NEW v \in Worker PROVE inflight[v] # m
        BY <2>1, <3>1, NullNoMessage DEF TypeOK
      <3>4. QED BY <2>1, <3>1, <3>2, <3>3 DEF Abandoned
    <2>3. Losses' = Losses
      BY <2>1 DEF Losses
    <2>4. QED BY <1>0, <2>2, <2>3, NoneGivenUp
  <1>8. ASSUME NEW w \in Worker, NEW q \in Partition, LoopDies(w, q) PROVE LossInv'
    BY <1>1, <1>8 DEF LoopDies, Losses
  <1>9. CASE UNCHANGED vars
    BY <1>1, <1>9 DEF vars, Losses
  <1>10. QED
    BY <1>3, <1>4, <1>5, <1>6, <1>7, <1>8, <1>9 DEF Next

LEMMA LossImplies == TypeOK /\ CommittedWasBegun /\ LossInv => LossBounded
  <1> SUFFICES ASSUME TypeOK, CommittedWasBegun, LossInv PROVE LossBounded
    OBVIOUS
  <1>1. Lost \subseteq Abandoned
    BY DEF Lost, Abandoned, CommittedWasBegun, Committed, WellFormed, Produced
  <1>2. /\ IsFiniteSet(Lost) /\ Cardinality(Lost) <= Cardinality(Abandoned)
        /\ Cardinality(Lost) \in Nat /\ Cardinality(Abandoned) \in Nat
    BY <1>1, FS_Subset, FS_CardinalityType DEF LossInv
  <1>3. Cardinality(Abandoned) <= Losses /\ Losses \in Nat
    BY LossesNat DEF LossInv
  <1>4. Cardinality(Lost) <= Losses
    BY <1>2, <1>3
  <1>5. QED BY <1>4 DEF LossBounded, Losses

(* At most one message is lost for each failing handler, crash and stop.    *)
THEOREM LossIsBounded == Spec => []LossBounded
  <1>1. Init => TypeOK /\ TakenWasBegun /\ LossInv
    BY TypeInit, TakenInit, LossInit
  <1>2. TypeOK /\ TakenWasBegun /\ LossInv /\ [Next]_vars => (TypeOK /\ TakenWasBegun /\ LossInv)'
    BY TypeNext, TakenNext, LossNext
  <1>3. TypeOK /\ TakenWasBegun /\ LossInv => LossBounded
    BY TakenImpliesCommitted, LossImplies
  <1>4. QED BY <1>1, <1>2, <1>3, PTL DEF Spec
=============================================================================
