----------------------------- MODULE BulkUpload -----------------------------
(***************************************************************************)
(* The tables of coupons as the back office replaces them: uploads of      *)
(* coupons with the lists of users, warehouses and categories they are     *)
(* permitted for (save_coupons), uploads of their values per number of     *)
(* orders (save_coupon_values), and the checks of add_coupon that read     *)
(* these tables meanwhile, one SQL statement at a time.                    *)
(*                                                                         *)
(* Postgres runs each statement at READ COMMITTED on the rows committed    *)
(* when it begins, so an upload is: lock the coupons one by one (the       *)
(* upsert, or SELECT ... FOR UPDATE), delete what is visible, insert,      *)
(* commit.  ReferralCoupon adds the third writer of the table and the      *)
(* specification.                                                          *)
(***************************************************************************)
EXTENDS Integers, FiniteSets, Sequences

CONSTANTS
    Uploader,        \* handlers of save_coupons that can be in flight
    ValueUploader,   \* handlers of save_coupon_values
    Checker,         \* add_coupon requests, up to the check of the categories
    Key,             \* names of coupons, as the column compares them: without case
    Customer,        \* customers who may own a referral coupon
    Id,              \* ids of users, warehouses and categories
    Known,           \* those the customer, warehouse and catalog services know
    CouponRequests,  \* uploads: sequences of CouponRecord
    ValueRequests,   \* uploads: sequences of ValueRecord
    Orders,          \* what add_coupon is asked: Order
    InitialCoupons,  \* [Key -> CouponRecord or Null], what is in the table at the start
    MaxCalls,        \* bound: requests in a behaviour
    Null

Kinds == <<"users", "warehouses", "categories">>
Kind == {"users", "warehouses", "categories"}

CouponRecord == [name: Key \X {"lower", "UPPER"}, active: BOOLEAN, only: [Kind -> SUBSET Id]]
ValueRecord == [name: Key \X {"lower", "UPPER"}, number: Nat, value: Nat]
Order == [coupon: Key, of: [Kind -> Id]]
Row == [record: CouponRecord, owner: Customer \cup {Null}]

ASSUME BulkAssumption ==
    /\ IsFiniteSet(Key)
    /\ Uploader \cap ValueUploader = {} /\ Checker \cap (Uploader \cup ValueUploader) = {}
    /\ Null \notin Uploader \cup ValueUploader /\ Null \notin Row
    /\ Known \subseteq Id
    /\ CouponRequests \subseteq Seq(CouponRecord)
    /\ ValueRequests \subseteq Seq(ValueRecord)
    /\ Orders \subseteq Order /\ Null \notin Orders
    /\ \A k \in Key : InitialCoupons[k] \in CouponRecord \cup {Null}
    /\ MaxCalls \in Nat

VARIABLES
    coupons,    \* rows of coupons: the record applied last and the owner of a referral coupon, or Null
    permits,    \* rows of the three permit tables: [coupon, kind, id]
    values,     \* rows of coupons_value_orders_number: [coupon, number, value]
    lock,       \* who holds the lock of a coupon's row, or of its name before there is a row
    pc, request,
    todo,       \* the coupons a handler has still to lock
    deleted,    \* the rows its DELETE statements saw
    order,      \* what a checker was asked
    at,         \* the kind of permission it checks, an index of Kinds
    versions,   \* ghost: what the checker's coupon has been since the check began
    published,  \* ghost: the values of the last upload that was committed for a coupon
    calls

Handler == Uploader \cup ValueUploader \cup Checker

bulkVars == <<coupons, permits, values, lock, pc, request, todo, deleted, order, at, versions, published, calls>>

-----------------------------------------------------------------------------
(* What an upload asks for. *)

\* record.data.name.lower(), as the column compares names.
NameOf(record) == record.name[1]

\* MUTANT: the names are compared as they are spelled.
UpsertedSpelled(req) == {i \in DOMAIN req : \A j \in DOMAIN req : j > i => req[j].name # req[i].name}

\* The records that are left when of those with the same name all but the last
\* have got a DuplicatedItemError.
Upserted(req) ==
    {i \in DOMAIN req : \A j \in DOMAIN req : j > i => NameOf(req[j]) # NameOf(req[i])}

UploadKeys(req) == {NameOf(req[i]) : i \in Upserted(req)}
Position(req, k) == CHOOSE i \in Upserted(req) : NameOf(req[i]) = k
RecordOf(req, k) == req[Position(req, k)]

\* valid_users, valid_warehouses and valid_categories: the ids another service
\* does not know are left out with a warning, and a list of which nothing is
\* left is None, no restriction.
Valid(ids) == ids \cap Known

Permit == [coupon: Key, kind: Kind, id: Id]
ValueRow == [coupon: Key, number: Nat, value: Nat]

PermitRows(req) ==
    {p \in Permit : \E i \in Upserted(req) : NameOf(req[i]) = p.coupon /\ p.id \in Valid(req[i].only[p.kind])}

\* The values that are created: the last of each number of orders.
Created(req) ==
    {i \in DOMAIN req : \A j \in DOMAIN req :
        j > i => NameOf(req[j]) # NameOf(req[i]) \/ req[j].number # req[i].number}

ValueRows(req, keys) ==
    {[coupon |-> NameOf(req[i]), number |-> req[i].number, value |-> req[i].value] :
        i \in {j \in Created(req) : NameOf(req[j]) \in keys}}

-----------------------------------------------------------------------------
(* What the tables permit. *)

PermittedIds(k, kind) == {row.id : row \in {p \in permits : p.coupon = k /\ p.kind = kind}}
IsActive(k) == coupons[k] # Null /\ coupons[k].record.active
Version(k) == [active |-> IsActive(k), only |-> [kind \in Kind |-> PermittedIds(k, kind)]]
Permits(version, kind, id) == version.only[kind] = {} \/ id \in version.only[kind]

Locked(h) == {k \in Key : lock[k] = h}
Released(h) == [k \in Key |-> IF lock[k] = h THEN Null ELSE lock[k]]

-----------------------------------------------------------------------------
BulkInit ==
    /\ coupons = [k \in Key |-> IF InitialCoupons[k] = Null THEN Null
                                ELSE [record |-> InitialCoupons[k], owner |-> Null]]
    /\ permits = {p \in Permit : InitialCoupons[p.coupon] # Null
                                  /\ p.id \in Valid(InitialCoupons[p.coupon].only[p.kind])}
    /\ values = {}
    /\ lock = [k \in Key |-> Null]
    /\ pc = [h \in Handler |-> "idle"]
    /\ request = [u \in Uploader \cup ValueUploader |-> <<>>]
    /\ todo = [u \in Uploader \cup ValueUploader |-> {}]
    /\ deleted = [u \in Uploader \cup ValueUploader |-> {}]
    /\ order = [c \in Checker |-> Null]
    /\ at = [c \in Checker |-> 1]
    /\ versions = [c \in Checker |-> {}]
    /\ published = [k \in Key |-> {}]
    /\ calls = 0

checkVars == <<order, at, versions>>

\* An upload of coupons: duplicates, validation by the other services, and the
\* upsert, which takes the rows in the order of the records that are left.
BeginUpload(u) ==
    /\ pc[u] = "idle" /\ calls < MaxCalls
    /\ \E req \in CouponRequests :
        /\ request' = [request EXCEPT ![u] = req]
        /\ todo' = [todo EXCEPT ![u] = UploadKeys(req)]
    /\ pc' = [pc EXCEPT ![u] = "lock"]
    /\ calls' = calls + 1
    /\ UNCHANGED <<coupons, permits, values, lock, deleted, checkVars, published>>

\* An upload of values: SELECT ... FOR UPDATE of the coupons there are.
BeginValueUpload(u) ==
    /\ pc[u] = "idle" /\ calls < MaxCalls
    /\ \E req \in ValueRequests :
        /\ request' = [request EXCEPT ![u] = req]
        /\ todo' = [todo EXCEPT ![u] = {NameOf(req[i]) : i \in DOMAIN req} \cap {k \in Key : coupons[k] # Null}]
    /\ pc' = [pc EXCEPT ![u] = "lock"]
    /\ calls' = calls + 1
    /\ UNCHANGED <<coupons, permits, values, lock, deleted, checkVars, published>>

\* MUTANT: the database may take the records in any order.
NextToLockAny(u) == todo[u]

\* The coupons whose lock a handler may wait for next: the first record left, or
\* any row, as nothing orders the rows of the SELECT.
NextToLock(u) ==
    IF u \in Uploader
    THEN {k \in todo[u] : \A j \in todo[u] : Position(request[u], k) <= Position(request[u], j)}
    ELSE todo[u]

Lock(u, k) ==
    /\ pc[u] = "lock" /\ k \in NextToLock(u) /\ lock[k] = Null
    /\ lock' = [lock EXCEPT ![k] = u]
    /\ todo' = [todo EXCEPT ![u] = @ \ {k}]
    /\ UNCHANGED <<coupons, permits, values, pc, request, deleted, checkVars, published, calls>>

\* MUTANT: without a transaction the deletion is seen at once.
OverwriteCommitted(u) ==
    /\ pc[u] = "lock" /\ todo[u] = {}
    /\ permits' = {p \in permits : p.coupon \notin UploadKeys(request[u])}
    /\ pc' = [pc EXCEPT ![u] = "overwritten"]
    /\ UNCHANGED <<coupons, values, lock, request, todo, deleted, checkVars, published, calls>>

\* The DELETE and INSERT statements of overwrite_warehouses, overwrite_users and
\* overwrite_categories, of which others see nothing before the commit.
Overwrite(u) ==
    /\ pc[u] = "lock" /\ todo[u] = {}
    /\ deleted' = [deleted EXCEPT ![u] = {p \in permits : p.coupon \in UploadKeys(request[u])}]
    /\ pc' = [pc EXCEPT ![u] = "overwritten"]
    /\ UNCHANGED <<coupons, permits, values, lock, request, todo, checkVars, published, calls>>

\* MUTANT: only values of the same number of orders are replaced.
OverwriteValuesSameNumber(u) ==
    /\ pc[u] = "lock" /\ todo[u] = {}
    /\ deleted' = [deleted EXCEPT ![u] = {v \in values : \E new \in ValueRows(request[u], Locked(u)) :
                                            v.coupon = new.coupon /\ v.number = new.number}]
    /\ pc' = [pc EXCEPT ![u] = "overwritten"]
    /\ UNCHANGED <<coupons, permits, values, lock, request, todo, checkVars, published, calls>>

\* The DELETE and INSERT of overwrite_coupon_values.
OverwriteValues(u) ==
    /\ pc[u] = "lock" /\ todo[u] = {}
    /\ deleted' = [deleted EXCEPT ![u] = {v \in values : v.coupon \in Locked(u)}]
    /\ pc' = [pc EXCEPT ![u] = "overwritten"]
    /\ UNCHANGED <<coupons, permits, values, lock, request, todo, checkVars, published, calls>>

\* A transaction ends, and with it the handler.
End(u) ==
    /\ pc' = [pc EXCEPT ![u] = "idle"]
    /\ request' = [request EXCEPT ![u] = <<>>]
    /\ todo' = [todo EXCEPT ![u] = {}]
    /\ deleted' = [deleted EXCEPT ![u] = {}]
    /\ lock' = Released(u)

OwnerOf(k) == IF coupons[k] = Null THEN Null ELSE coupons[k].owner

\* Ghost: every check sees the versions that are committed while it runs.
SeeVersions ==
    versions' = [c \in Checker |-> IF order[c] = Null THEN versions[c]
                                   ELSE versions[c] \cup {Version(order[c].coupon)'}]

Commit(u) ==
    LET req == request[u]
    IN  /\ pc[u] = "overwritten"
        /\ coupons' = [k \in Key |-> IF k \in UploadKeys(req)
                                     THEN [record |-> RecordOf(req, k), owner |-> OwnerOf(k)]
                                     ELSE coupons[k]]
        /\ permits' = (permits \ deleted[u]) \cup PermitRows(req)
        /\ UNCHANGED <<values, order, at, published, calls>>
        /\ SeeVersions
        /\ End(u)

CommitValues(u) ==
    LET new == ValueRows(request[u], Locked(u))
    IN  /\ pc[u] = "overwritten"
        /\ values' = (values \ deleted[u]) \cup new
        /\ published' = [k \in Key |-> IF k \in Locked(u) THEN {v \in new : v.coupon = k} ELSE published[k]]
        /\ End(u)
        /\ UNCHANGED <<coupons, permits, checkVars, calls>>

\* MUTANT: the connection goes back to the pool with its transaction open.
RollbackNothing(u) ==
    /\ pc' = [pc EXCEPT ![u] = "idle"]
    /\ UNCHANGED <<coupons, permits, values, lock, request, todo, deleted, checkVars, published, calls>>

\* A validation raises, the database does, the request is cancelled, or the
\* worker dies: the transaction is rolled back.
Rollback(u) ==
    /\ End(u)
    /\ UNCHANGED <<coupons, permits, values, checkVars, published, calls>>

FailUpload(u) == pc[u] \in {"lock", "overwritten"} /\ Rollback(u)

\* Uploads that wait for each other in a circle.
Deadlocked(u) ==
    \E circle \in SUBSET (Uploader \cup ValueUploader) :
        /\ u \in circle
        /\ \A w \in circle : pc[w] = "lock" /\ todo[w] # {}
                             /\ \A k \in NextToLock(w) : lock[k] \in circle \ {w}

\* The database finds the circle and aborts one of the transactions.
AbortUpload(u) == Deadlocked(u) /\ Rollback(u)

-----------------------------------------------------------------------------
(* The checks of add_coupon, lines 116 to 148. *)

BeginCheck(c) ==
    /\ pc[c] = "idle" /\ calls < MaxCalls
    /\ \E o \in Orders :
        /\ order' = [order EXCEPT ![c] = o]
        /\ versions' = [versions EXCEPT ![c] = {Version(o.coupon)}]
    /\ pc' = [pc EXCEPT ![c] = "coupon"]
    /\ at' = [at EXCEPT ![c] = 1]
    /\ calls' = calls + 1
    /\ UNCHANGED <<coupons, permits, values, lock, request, todo, deleted, published>>

Goto(c, label) ==
    /\ pc' = [pc EXCEPT ![c] = label]
    /\ UNCHANGED <<coupons, permits, values, lock, request, todo, deleted, order, versions, published, calls>>

\* get_active_coupon_by_name
ReadCoupon(c) ==
    /\ pc[c] = "coupon"
    /\ Goto(c, IF IsActive(order[c].coupon) THEN "any" ELSE "rejected")
    /\ UNCHANGED at

\* MUTANT: the index runs past the last kind.
NextKindOff(c) ==
    /\ Goto(c, IF at[c] = Len(Kinds) THEN "accepted" ELSE "any")
    /\ at' = [at EXCEPT ![c] = @ + 1]

\* On to the next kind of permission, or past the last.
NextKind(c) ==
    /\ Goto(c, IF at[c] = Len(Kinds) THEN "accepted" ELSE "any")
    /\ at' = [at EXCEPT ![c] = IF @ = Len(Kinds) THEN @ ELSE @ + 1]

\* is_permitted_user and is_permitted_warehouse: is there any row?
\* get_permitted_categories_ids is one statement, so it is decided at once.
ReadAny(c) ==
    LET kind == Kinds[at[c]]
        ids  == PermittedIds(order[c].coupon, kind)
    IN  /\ pc[c] = "any"
        /\ CASE ids = {} -> NextKind(c)
             [] ids # {} /\ kind # "categories" -> Goto(c, "mine") /\ UNCHANGED at
             [] ids # {} /\ kind = "categories" /\ order[c].of[kind] \in ids -> NextKind(c)
             [] OTHER -> Goto(c, "rejected") /\ UNCHANGED at

\* MUTANT: the second statement forgets whom it is about.
ReadMineOther(c) ==
    LET kind == Kinds[at[c]]
    IN  /\ pc[c] = "mine"
        /\ IF PermittedIds(order[c].coupon, kind) # {}
           THEN NextKind(c)
           ELSE Goto(c, "rejected") /\ UNCHANGED at

\* ... and is there one of mine?
ReadMine(c) ==
    LET kind == Kinds[at[c]]
    IN  /\ pc[c] = "mine"
        /\ IF order[c].of[kind] \in PermittedIds(order[c].coupon, kind)
           THEN NextKind(c)
           ELSE Goto(c, "rejected") /\ UNCHANGED at

-----------------------------------------------------------------------------
UploadStep(u) == (\E k \in Key : Lock(u, k)) \/ Overwrite(u) \/ Commit(u)
ValueUploadStep(u) == (\E k \in Key : Lock(u, k)) \/ OverwriteValues(u) \/ CommitValues(u)
CheckStep(c) == ReadCoupon(c) \/ ReadAny(c) \/ ReadMine(c)

BulkNext ==
    \/ \E u \in Uploader : BeginUpload(u) \/ UploadStep(u)
    \/ \E u \in ValueUploader : BeginValueUpload(u) \/ ValueUploadStep(u)
    \/ \E u \in Uploader \cup ValueUploader : FailUpload(u) \/ AbortUpload(u)
    \/ \E c \in Checker : BeginCheck(c) \/ CheckStep(c)

\* Every statement is answered; nothing makes a request come, or fail.
BulkFairness ==
    /\ \A u \in Uploader : WF_bulkVars(UploadStep(u))
    /\ \A u \in ValueUploader : WF_bulkVars(ValueUploadStep(u))
    /\ \A c \in Checker : WF_bulkVars(CheckStep(c))
    /\ WF_bulkVars(\E u \in Uploader \cup ValueUploader : AbortUpload(u))

-----------------------------------------------------------------------------
(* Properties. *)

\* The permit tables hold, for every coupon, the known ids of the very upload
\* whose columns its row holds: uploads that overlap on some coupons never mix,
\* and one that fails leaves nothing behind.
Coherent ==
    \A k \in Key : \A kind \in Kind :
        PermittedIds(k, kind) = IF coupons[k] = Null THEN {} ELSE Valid(coupons[k].record.only[kind])

\* A coupon's values are those of one upload, the last that was committed: two
\* overlapping uploads never leave the union of their values.
ValuesFromOneUpload == \A k \in Key : {v \in values : v.coupon = k} = published[k]

\* A check that accepts an order finds each permission granted by some version
\* of the coupon that was committed while it ran: nobody gets through the gap
\* between the deletion and the insertion of an upload.
AcceptedBySomeVersion ==
    \A c \in Checker : pc[c] = "accepted" =>
        /\ \E v \in versions[c] : v.active
        /\ \A kind \in Kind : \E v \in versions[c] : Permits(v, kind, order[c].of[kind])

\* When no upload of the coupon is committed during a check, the two statements
\* per table and the early ends decide what the tables say.
QuietCheckExact ==
    \A c \in Checker : \A v \in versions[c] : versions[c] = {v} =>
        LET permitted == v.active /\ \A kind \in Kind : Permits(v, kind, order[c].of[kind])
        IN  (pc[c] = "accepted" => permitted) /\ (pc[c] = "rejected" => ~permitted)

\* Uploads deadlock only when no order of the coupons agrees with the order in
\* which all of them take their locks: a back office that sorts its uploads
\* never sees one aborted, whatever happens at the same time.
Agrees(rank, u) ==
    LET mine == todo[u] \cup Locked(u)
    IN  IF u \in Uploader
        THEN \A j, k \in mine : Position(request[u], j) < Position(request[u], k) => rank[j] < rank[k]
        ELSE Cardinality(mine) <= 1

DeadlockNeedsDisorder ==
    (\E u \in Uploader \cup ValueUploader : Deadlocked(u)) =>
        ~\E rank \in [Key -> 1..Cardinality(Key)] :
            \A u \in Uploader \cup ValueUploader : pc[u] # "idle" => Agrees(rank, u)
=============================================================================
