--------------------------- MODULE ReferralCoupon ---------------------------
(***************************************************************************)
(* create_referral_coupon: looks for the customer's referral coupon,       *)
(* draws names until one is free, and inserts the coupon.  It is the third *)
(* writer of the table of coupons beside the two uploads of BulkUpload,    *)
(* with which it shares the table, its unique index and its locks.         *)
(***************************************************************************)
EXTENDS BulkUpload

CONSTANT Referrer    \* handlers of create_referral_coupon

ASSUME ReferralAssumption ==
    /\ IsFiniteSet(Referrer) /\ Referrer \cap (Uploader \cup ValueUploader) = {}
    /\ Null \notin Referrer \cup Customer

VARIABLES
    stage,     \* program counter of the handlers
    customer,  \* who asks
    picked,    \* the name drawn
    promised   \* ghost: <<customer, name>> of every answer

referralVars == <<stage, customer, picked, promised>>
vars == <<bulkVars, referralVars>>

\* What the settings make of a referral coupon, which has no permits.
ReferralRecord(k) == [name |-> <<k, "UPPER">>, active |-> TRUE, only |-> [kind \in Kind |-> {}]]

OwnedBy(c) == {k \in Key : coupons[k] # Null /\ coupons[k].owner = c}

Init ==
    /\ BulkInit
    /\ stage = [r \in Referrer |-> "idle"]
    /\ customer = [r \in Referrer |-> Null]
    /\ picked = [r \in Referrer |-> Null]
    /\ promised = {}

otherVars == <<permits, values, pc, request, todo, deleted, checkVars, published>>

Ask(r) ==
    /\ stage[r] = "idle" /\ calls < MaxCalls
    /\ \E c \in Customer : customer' = [customer EXCEPT ![r] = c]
    /\ stage' = [stage EXCEPT ![r] = "find"]
    /\ calls' = calls + 1
    /\ UNCHANGED <<coupons, lock, otherVars, picked, promised>>

EndReferral(r) ==
    /\ stage' = [stage EXCEPT ![r] = "idle"]
    /\ customer' = [customer EXCEPT ![r] = Null]
    /\ picked' = [picked EXCEPT ![r] = Null]

\* get_active_referral_coupon: there is one; referral_active is never reset, and
\* the row's own active is not asked.
FindReferral(r) ==
    /\ stage[r] = "find"
    /\ \E k \in OwnedBy(customer[r]) : promised' = promised \cup {<<customer[r], k>>}
    /\ EndReferral(r)
    /\ UNCHANGED <<coupons, lock, otherVars, calls>>

\* MUTANT: the lookup misses.
FindNoReferralEver(r) ==
    /\ stage[r] = "find"
    /\ stage' = [stage EXCEPT ![r] = "draw"]
    /\ UNCHANGED <<coupons, lock, otherVars, calls, customer, picked, promised>>

FindNoReferral(r) ==
    /\ stage[r] = "find" /\ OwnedBy(customer[r]) = {}
    /\ stage' = [stage EXCEPT ![r] = "draw"]
    /\ UNCHANGED <<coupons, lock, otherVars, calls, customer, picked, promised>>

\* A random name that no active coupon has; the taken ones are drawn again.
DrawName(r) ==
    /\ stage[r] = "draw"
    /\ \E k \in Key : ~IsActive(k) /\ picked' = [picked EXCEPT ![r] = k]
    /\ stage' = [stage EXCEPT ![r] = "insert"]
    /\ UNCHANGED <<coupons, lock, otherVars, calls, customer, promised>>

\* The INSERT: it waits for a transaction that is about to use the name.
Insert(r) ==
    /\ stage[r] = "insert" /\ coupons[picked[r]] = Null /\ lock[picked[r]] = Null
    /\ lock' = [lock EXCEPT ![picked[r]] = r]
    /\ stage' = [stage EXCEPT ![r] = "inserted"]
    /\ UNCHANGED <<coupons, otherVars, calls, customer, picked, promised>>

\* MUTANT: ON CONFLICT DO NOTHING, and the name is returned.
InsertFailsNot(r) ==
    /\ stage[r] = "insert" /\ coupons[picked[r]] # Null
    /\ promised' = promised \cup {<<customer[r], picked[r]>>}
    /\ EndReferral(r)
    /\ UNCHANGED <<coupons, lock, otherVars, calls>>

\* ... and raises when there is a coupon of this name, an inactive one too.
InsertFails(r) ==
    /\ stage[r] = "insert" /\ coupons[picked[r]] # Null
    /\ EndReferral(r)
    /\ UNCHANGED <<coupons, lock, otherVars, calls, promised>>

CommitReferral(r) ==
    /\ stage[r] = "inserted"
    /\ coupons' = [coupons EXCEPT ![picked[r]] = [record |-> ReferralRecord(picked[r]), owner |-> customer[r]]]
    /\ UNCHANGED <<permits, values, pc, request, todo, deleted, order, at, published, calls>>
    /\ SeeVersions
    /\ lock' = Released(r)
    /\ promised' = promised \cup {<<customer[r], picked[r]>>}
    /\ EndReferral(r)

FailReferral(r) ==
    /\ stage[r] # "idle"
    /\ lock' = Released(r)
    /\ EndReferral(r)
    /\ UNCHANGED <<coupons, otherVars, calls, promised>>

ReferralStep(r) ==
    \/ FindReferral(r) \/ FindNoReferral(r) \/ DrawName(r)
    \/ Insert(r) \/ InsertFails(r) \/ CommitReferral(r)

Next ==
    \/ BulkNext /\ UNCHANGED referralVars
    \/ \E r \in Referrer : Ask(r) \/ ReferralStep(r) \/ FailReferral(r)

Fairness == BulkFairness /\ \A r \in Referrer : WF_vars(ReferralStep(r))
Spec == Init /\ [][Next]_vars
FairSpec == Spec /\ Fairness

-----------------------------------------------------------------------------
TypeOK ==
    /\ coupons \in [Key -> Row \cup {Null}]
    /\ permits \subseteq Permit
    /\ values \subseteq ValueRow
    /\ lock \in [Key -> Uploader \cup ValueUploader \cup Referrer \cup {Null}]
    /\ pc \in [Handler -> {"idle", "lock", "overwritten", "coupon", "any", "mine", "accepted", "rejected"}]
    /\ request \in [Uploader \cup ValueUploader -> CouponRequests \cup ValueRequests \cup {<<>>}]
    /\ todo \in [Uploader \cup ValueUploader -> SUBSET Key]
    /\ deleted \in [Uploader \cup ValueUploader -> SUBSET (Permit \cup ValueRow)]
    /\ order \in [Checker -> Orders \cup {Null}]
    /\ at \in [Checker -> 1..3]
    /\ stage \in [Referrer -> {"idle", "find", "draw", "insert", "inserted"}]
    /\ customer \in [Referrer -> Customer \cup {Null}]
    /\ picked \in [Referrer -> Key \cup {Null}]
    /\ promised \subseteq Customer \X Key

\* A customer has at most as many referral coupons as requests overlapped: the
\* second comes from a double click, never from asking again, an upload or a
\* failed request.
ReferralsBounded == \A c \in Customer : Cardinality(OwnedBy(c)) <= Cardinality(Referrer)

\* Every name a customer was ever given is still the customer's, though nothing
\* but the unique index tells two draws of one name apart, and uploads may
\* overwrite the coupon.
PromisedNamesKept ==
    \A c \in Customer, k \in Key : <<c, k>> \in promised => coupons[k] # Null /\ coupons[k].owner = c

\* Every upload, check and referral request comes to an end: locks are given
\* back, and a circle of waiting uploads is broken; unless all names are taken.
\* (MaxCalls bounds the requests, so when each of them ends, all have ended.)
AllTaken == \A k \in Key : IsActive(k)

RequestsEnd == []<>
    /\ \A u \in Uploader \cup ValueUploader : pc[u] = "idle"
    /\ \A c \in Checker : pc[c] \in {"idle", "accepted", "rejected"}
    /\ (\A r \in Referrer : stage[r] = "idle") \/ AllTaken
=============================================================================
