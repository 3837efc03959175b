-------------------------- MODULE CouponTableProofs -------------------------
(***************************************************************************)
(* What the writers of the table of coupons keep, what a check of          *)
(* add_coupon may conclude from statements between which uploads are       *)
(* committed, and which uploads can wait for each other, for any number of *)
(* uploads, checks, referral requests, coupons and ids.                    *)
(***************************************************************************)
EXTENDS ReferralCoupon, FiniteSetTheorems, TLAPS

USE BulkAssumption, ReferralAssumption

-----------------------------------------------------------------------------
(* Uploads. *)

LEMMA UploadTypes ==
  ASSUME NEW req \in CouponRequests
  PROVE  /\ UploadKeys(req) \subseteq Key
         /\ \A k \in UploadKeys(req) : RecordOf(req, k) \in CouponRecord
         /\ \A i \in Upserted(req) : req[i] \in CouponRecord /\ NameOf(req[i]) \in Key
  <1>1. req \in Seq(CouponRecord) /\ Upserted(req) \subseteq DOMAIN req
    BY DEF Upserted
  <1>2. \A i \in DOMAIN req : req[i] \in CouponRecord
    BY <1>1
  <1>3. \A i \in Upserted(req) : req[i] \in CouponRecord /\ NameOf(req[i]) \in Key
    BY <1>1, <1>2 DEF NameOf, CouponRecord
  <1>4. UploadKeys(req) \subseteq Key
    BY <1>3 DEF UploadKeys
  <1>5. ASSUME NEW k \in UploadKeys(req) PROVE RecordOf(req, k) \in CouponRecord
    <2>1. \E i \in Upserted(req) : NameOf(req[i]) = k
      BY DEF UploadKeys
    <2>2. Position(req, k) \in Upserted(req)
      BY <2>1 DEF Position
    <2>3. QED BY <1>3, <2>2 DEF RecordOf
  <1>6. QED BY <1>3, <1>4, <1>5

LEMMA ValueTypes ==
  ASSUME NEW req \in ValueRequests, NEW keys
  PROVE  ValueRows(req, keys) \subseteq ValueRow /\ \A v \in ValueRows(req, keys) : v.coupon \in keys
  <1>1. req \in Seq(ValueRecord) /\ Created(req) \subseteq DOMAIN req
    BY DEF Created
  <1>2. \A i \in DOMAIN req : req[i] \in ValueRecord
    BY <1>1
  <1>3. \A i \in Created(req) : req[i] \in ValueRecord /\ NameOf(req[i]) \in Key
    BY <1>1, <1>2 DEF NameOf, ValueRecord
  <1>4. ASSUME NEW v \in ValueRows(req, keys) PROVE v \in ValueRow /\ v.coupon \in keys
    <2>1. PICK i \in Created(req) :
            NameOf(req[i]) \in keys
            /\ v = [coupon |-> NameOf(req[i]), number |-> req[i].number, value |-> req[i].value]
      BY DEF ValueRows
    <2>2. QED BY <1>3, <2>1 DEF ValueRow, ValueRecord
  <1>5. QED BY <1>4

(* A name has one record that is left, the one both the columns and the     *)
(* permits come from.                                                       *)
LEMMA OneRecordPerName ==
  ASSUME NEW req \in CouponRequests, NEW i \in Upserted(req)
  PROVE  RecordOf(req, NameOf(req[i])) = req[i]
  <1> DEFINE k == NameOf(req[i])
  <1>1. req \in Seq(CouponRecord) /\ \A j \in Upserted(req) : j \in DOMAIN req /\ j \in Nat
    BY DEF Upserted
  <1>2. Position(req, k) \in Upserted(req) /\ NameOf(req[Position(req, k)]) = k
    BY DEF Position
  <1>3. Position(req, k) = i
    BY <1>1, <1>2 DEF Upserted
  <1>4. QED BY <1>3 DEF RecordOf

LEMMA PermitsOfUpload ==
  ASSUME NEW req \in CouponRequests, NEW kind \in Kind, NEW k \in UploadKeys(req)
  PROVE  {p.id : p \in {q \in PermitRows(req) : q.coupon = k /\ q.kind = kind}}
         = Valid(RecordOf(req, k).only[kind])
  <1> DEFINE rows == {q \in PermitRows(req) : q.coupon = k /\ q.kind = kind}
             ids  == Valid(RecordOf(req, k).only[kind])
  <1>1. ASSUME NEW p \in rows PROVE p.id \in ids
    <2>1. PICK i \in Upserted(req) : NameOf(req[i]) = k /\ p.id \in Valid(req[i].only[kind])
      BY DEF PermitRows
    <2>2. QED BY <2>1, OneRecordPerName
  <1>2. ASSUME NEW id \in ids PROVE \E p \in rows : p.id = id
    <2>1. PICK i \in Upserted(req) : NameOf(req[i]) = k
      BY DEF UploadKeys
    <2>2. RecordOf(req, k) = req[i]
      BY <2>1, OneRecordPerName
    <2>3. id \in Id /\ k \in Key
      BY UploadTypes DEF Valid
    <2>4. [coupon |-> k, kind |-> kind, id |-> id] \in rows
      BY <2>1, <2>2, <2>3 DEF PermitRows, Permit
    <2>5. QED BY <2>4
  <1>3. QED BY <1>1, <1>2

-----------------------------------------------------------------------------
(* Types.  Not inductive alone: a handler beyond its first step must have    *)
(* got its request.                                                          *)

CallInv ==
  /\ \A u \in Uploader : pc[u] # "idle" => request[u] \in CouponRequests
  /\ \A u \in ValueUploader : pc[u] # "idle" => request[u] \in ValueRequests
  /\ \A r \in Referrer : stage[r] # "idle" => customer[r] \in Customer
  /\ \A r \in Referrer : stage[r] \in {"insert", "inserted"} => picked[r] \in Key
  /\ \A c \in Checker : pc[c] # "idle" => order[c] \in Orders

TypeInv == TypeOK /\ CallInv

LEMMA TypeInit == Init => TypeInv
  <1> SUFFICES ASSUME Init PROVE TypeInv
    OBVIOUS
  <1>1. coupons \in [Key -> Row \cup {Null}]
    BY DEF Init, BulkInit, Row
  <1>2. permits \subseteq Permit /\ values \subseteq ValueRow
    BY DEF Init, BulkInit
  <1>3. QED BY <1>1, <1>2 DEF Init, BulkInit, TypeInv, TypeOK, CallInv, Handler

LEMMA ReleasedType == TypeOK => \A h : Released(h) \in [Key -> Uploader \cup ValueUploader \cup Referrer \cup {Null}]
  BY DEF TypeOK, Released

LEMMA TypeEnd ==
  ASSUME TypeInv, NEW u \in Uploader \cup ValueUploader, End(u),
         coupons' \in [Key -> Row \cup {Null}], permits' \subseteq Permit, values' \subseteq ValueRow,
         UNCHANGED <<order, at, referralVars>>
  PROVE  TypeInv'
  <1>1. TypeOK'
    BY ReleasedType DEF TypeInv, TypeOK, End, referralVars, Handler
  <1>2. CallInv'
    BY DEF TypeInv, TypeOK, CallInv, End, referralVars, Handler
  <1>3. QED BY <1>1, <1>2 DEF TypeInv

LEMMA TypeCommit ==
  ASSUME TypeInv, NEW u \in Uploader, Commit(u), UNCHANGED referralVars
  PROVE  TypeInv'
  <1>1. request[u] \in CouponRequests
    BY DEF Commit, TypeInv, CallInv
  <1>2. ASSUME NEW k \in Key PROVE OwnerOf(k) \in Customer \cup {Null}
    BY DEF OwnerOf, TypeInv, TypeOK, Row
  <1>3. coupons' \in [Key -> Row \cup {Null}]
    BY <1>1, <1>2, UploadTypes DEF Commit, TypeInv, TypeOK, Row
  <1>4. permits' \subseteq Permit
    BY DEF Commit, PermitRows, TypeInv, TypeOK
  <1>5. QED BY <1>3, <1>4, TypeEnd DEF Commit, TypeInv, TypeOK

LEMMA TypeCommitValues ==
  ASSUME TypeInv, NEW u \in ValueUploader, CommitValues(u), UNCHANGED referralVars
  PROVE  TypeInv'
  <1>1. request[u] \in ValueRequests
    BY DEF CommitValues, TypeInv, CallInv
  <1>2. values' \subseteq ValueRow
    BY <1>1, ValueTypes DEF CommitValues, TypeInv, TypeOK
  <1>3. QED BY <1>2, TypeEnd DEF CommitValues, TypeInv, TypeOK, checkVars

LEMMA TypeUpload ==
  ASSUME TypeInv, NEW u \in Uploader, BeginUpload(u) \/ UploadStep(u), UNCHANGED referralVars
  PROVE  TypeInv'
  <1>1. CASE BeginUpload(u)
    <2>1. PICK req \in CouponRequests : /\ request' = [request EXCEPT ![u] = req]
                                        /\ todo' = [todo EXCEPT ![u] = UploadKeys(req)]
      BY <1>1 DEF BeginUpload
    <2>2. TypeOK'
      BY <1>1, <2>1, UploadTypes DEF BeginUpload, TypeInv, TypeOK, Handler, referralVars, checkVars
    <2>3. CallInv'
      BY <1>1, <2>1 DEF BeginUpload, TypeInv, TypeOK, CallInv, Handler, referralVars, checkVars
    <2>4. QED BY <2>2, <2>3 DEF TypeInv
  <1>2. ASSUME NEW k \in Key, Lock(u, k) PROVE TypeInv'
    BY <1>2 DEF Lock, TypeInv, TypeOK, CallInv, referralVars, checkVars
  <1>3. CASE Overwrite(u)
    <2>1. TypeOK'
      BY <1>3 DEF Overwrite, TypeInv, TypeOK, Handler, referralVars, checkVars
    <2>2. CallInv'
      BY <1>3 DEF Overwrite, TypeInv, TypeOK, CallInv, Handler, referralVars, checkVars
    <2>3. QED BY <2>1, <2>2 DEF TypeInv
  <1>4. QED BY <1>1, <1>2, <1>3, TypeCommit DEF UploadStep

LEMMA TypeValueUpload ==
  ASSUME TypeInv, NEW u \in ValueUploader, BeginValueUpload(u) \/ ValueUploadStep(u),
         UNCHANGED referralVars
  PROVE  TypeInv'
  <1>1. CASE BeginValueUpload(u)
    <2>1. PICK req \in ValueRequests : request' = [request EXCEPT ![u] = req]
      BY <1>1 DEF BeginValueUpload
    <2>2. todo' \in [Uploader \cup ValueUploader -> SUBSET Key]
      BY <1>1 DEF BeginValueUpload, TypeInv, TypeOK
    <2>3. TypeOK'
      BY <1>1, <2>1, <2>2 DEF BeginValueUpload, TypeInv, TypeOK, Handler, referralVars, checkVars
    <2>4. CallInv'
      BY <1>1, <2>1 DEF BeginValueUpload, TypeInv, TypeOK, CallInv, Handler, referralVars, checkVars
    <2>5. QED BY <2>3, <2>4 DEF TypeInv
  <1>2. ASSUME NEW k \in Key, Lock(u, k) PROVE TypeInv'
    BY <1>2 DEF Lock, TypeInv, TypeOK, CallInv, referralVars, checkVars
  <1>3. CASE OverwriteValues(u)
    <2>1. TypeOK'
      BY <1>3 DEF OverwriteValues, TypeInv, TypeOK, Handler, referralVars, checkVars
    <2>2. CallInv'
      BY <1>3 DEF OverwriteValues, TypeInv, TypeOK, CallInv, Handler, referralVars, checkVars
    <2>3. QED BY <2>1, <2>2 DEF TypeInv
  <1>4. QED BY <1>1, <1>2, <1>3, TypeCommitValues DEF ValueUploadStep

LEMMA TypeRollback ==
  ASSUME TypeInv, NEW u \in Uploader \cup ValueUploader, FailUpload(u) \/ AbortUpload(u),
         UNCHANGED referralVars
  PROVE  TypeInv'
  BY TypeEnd DEF FailUpload, AbortUpload, Rollback, checkVars, TypeInv, TypeOK

LEMMA TypeCheck ==
  ASSUME TypeInv, NEW c \in Checker, BeginCheck(c) \/ CheckStep(c), UNCHANGED referralVars
  PROVE  TypeInv'
  <1> DEFINE tables == <<coupons, permits, values, lock, request, todo, deleted>>
  <1>1. UNCHANGED <<tables, stage, customer, picked, promised>>
    BY DEF BeginCheck, CheckStep, ReadCoupon, ReadAny, ReadMine, NextKind, Goto, referralVars
  <1>2. order' \in [Checker -> Orders \cup {Null}] /\ \A d \in Checker : pc'[d] # "idle" => order'[d] \in Orders
    <2>1. CASE BeginCheck(c)
      BY <2>1 DEF BeginCheck, TypeInv, TypeOK, CallInv, Handler
    <2>2. CASE CheckStep(c)
      <3>1. order' = order /\ pc[c] # "idle" /\ \A d \in Checker \ {c} : pc'[d] = pc[d]
        BY <2>2 DEF CheckStep, ReadCoupon, ReadAny, ReadMine, NextKind, Goto, TypeInv, TypeOK, Handler
      <3>2. QED BY <3>1 DEF TypeInv, TypeOK, CallInv
    <2>3. QED BY <2>1, <2>2
  <1>3. /\ pc' \in [Handler -> {"idle", "lock", "overwritten", "coupon", "any", "mine", "accepted", "rejected"}]
        /\ \A u \in Uploader \cup ValueUploader : pc'[u] = pc[u]
    BY DEF BeginCheck, CheckStep, ReadCoupon, ReadAny, ReadMine, NextKind, Goto, TypeInv, TypeOK, Handler
  <1>4. at' \in [Checker -> 1..3]
    <2>1. NextKind(c) => at' \in [Checker -> 1..3]
      BY DEF NextKind, Kinds, TypeInv, TypeOK
    <2>2. CASE BeginCheck(c)
      BY <2>2 DEF BeginCheck, TypeInv, TypeOK
    <2>3. CASE CheckStep(c)
      BY <2>1, <2>3 DEF CheckStep, ReadCoupon, ReadAny, ReadMine, TypeInv, TypeOK
    <2>4. QED BY <2>2, <2>3
  <1>5. QED BY <1>1, <1>2, <1>3, <1>4 DEF TypeInv, TypeOK, CallInv

LEMMA TypeReferral ==
  ASSUME TypeInv, NEW r \in Referrer, Ask(r) \/ ReferralStep(r) \/ FailReferral(r)
  PROVE  TypeInv'
  <1> USE DEF TypeInv, TypeOK, CallInv, otherVars, checkVars
  <1>1. CASE Ask(r)
    BY <1>1 DEF Ask
  <1>2. CASE FindReferral(r)
    <2>1. customer[r] \in Customer /\ promised' \subseteq Customer \X Key
      BY <1>2 DEF FindReferral, OwnedBy
    <2>2. QED BY <1>2, <2>1 DEF FindReferral, EndReferral
  <1>3. CASE FindNoReferral(r)
    BY <1>3 DEF FindNoReferral
  <1>4. CASE DrawName(r)
    BY <1>4 DEF DrawName
  <1>5. CASE Insert(r)
    BY <1>5 DEF Insert
  <1>6. CASE InsertFails(r)
    BY <1>6 DEF InsertFails, EndReferral
  <1>7. CASE CommitReferral(r)
    <2>1. customer[r] \in Customer /\ picked[r] \in Key
      BY <1>7 DEF CommitReferral
    <2>2. ReferralRecord(picked[r]) \in CouponRecord
      BY <2>1 DEF ReferralRecord, CouponRecord
    <2>3. coupons' \in [Key -> Row \cup {Null}] /\ promised' \subseteq Customer \X Key
      BY <1>7, <2>1, <2>2 DEF CommitReferral, Row
    <2>4. QED BY <1>7, <2>3, ReleasedType DEF CommitReferral, EndReferral
  <1>8. CASE FailReferral(r)
    BY <1>8, ReleasedType DEF FailReferral, EndReferral
  <1>9. QED
    BY <1>1, <1>2, <1>3, <1>4, <1>5, <1>6, <1>7, <1>8 DEF ReferralStep

LEMMA TypeNext == TypeInv /\ [Next]_vars => TypeInv'
  <1> SUFFICES ASSUME TypeInv, [Next]_vars PROVE TypeInv'
    OBVIOUS
  <1>1. CASE BulkNext /\ UNCHANGED referralVars
    BY <1>1, TypeUpload, TypeValueUpload, TypeRollback, TypeCheck DEF BulkNext
  <1>2. CASE \E r \in Referrer : Ask(r) \/ ReferralStep(r) \/ FailReferral(r)
    BY <1>2, TypeReferral
  <1>3. CASE UNCHANGED vars
    BY <1>3 DEF vars, bulkVars, checkVars, referralVars, TypeInv, TypeOK, CallInv
  <1>4. QED BY <1>1, <1>2, <1>3 DEF Next

(* Rows, locks and requests are what they should be, whatever is aborted.   *)
THEOREM TableTypeCorrect == Spec => []TypeOK
  <1>1. TypeInv => TypeOK
    BY DEF TypeInv
  <1>2. QED BY <1>1, TypeInit, TypeNext, PTL DEF Spec

-----------------------------------------------------------------------------
(* The locks.  A transaction holds the rows of the names it is past, and    *)
(* what its DELETE statements saw stays what there is to delete: nobody     *)
(* else writes rows of coupons that it has locked.                          *)

UploadInv ==
  \A u \in Uploader :
    /\ pc[u] \in {"lock", "overwritten"} =>
         \A k \in UploadKeys(request[u]) \ todo[u] : lock[k] = u
    /\ pc[u] = "overwritten" =>
         /\ todo[u] = {}
         /\ deleted[u] = {p \in permits : p.coupon \in UploadKeys(request[u])}

ValueInv ==
  \A u \in ValueUploader :
    pc[u] = "overwritten" => deleted[u] = {v \in values : v.coupon \in Locked(u)}

ReferralInv ==
  \A r \in Referrer :
    stage[r] = "inserted" => lock[picked[r]] = r /\ coupons[picked[r]] = Null

TableInv == TypeInv /\ UploadInv /\ ValueInv /\ ReferralInv

LEMMA TableInit == Init => TableInv
  <1>1. Init => UploadInv /\ ValueInv /\ ReferralInv
    BY DEF Init, BulkInit, UploadInv, ValueInv, ReferralInv, Handler
  <1>2. QED BY <1>1, TypeInit DEF TableInv

(* What an upload is about to write nobody else holds.                      *)
LEMMA Holding ==
  ASSUME TableInv, NEW u \in Uploader, pc[u] = "overwritten"
  PROVE  /\ request[u] \in CouponRequests /\ UploadKeys(request[u]) \subseteq Key
         /\ \A k \in UploadKeys(request[u]) : lock[k] = u
         /\ \A v \in Uploader \ {u} : pc[v] = "overwritten" =>
              UploadKeys(request[u]) \cap UploadKeys(request[v]) = {}
         /\ \A r \in Referrer : stage[r] = "inserted" => picked[r] \notin UploadKeys(request[u])
  <1>1. request[u] \in CouponRequests /\ UploadKeys(request[u]) \subseteq Key
    BY UploadTypes DEF TableInv, TypeInv, CallInv
  <1>2. \A v \in Uploader : pc[v] = "overwritten" => \A k \in UploadKeys(request[v]) : lock[k] = v
    BY DEF TableInv, UploadInv
  <1>3. \A r \in Referrer : stage[r] = "inserted" => lock[picked[r]] = r
    BY DEF TableInv, ReferralInv
  <1>4. QED BY <1>1, <1>2, <1>3

(* A transaction that ends gives back its own locks only.                   *)
LEMMA OthersKeepLocks ==
  ASSUME TableInv, NEW h
  PROVE  \A k \in Key : /\ lock[k] # h => Released(h)[k] = lock[k]
                        /\ \A g : g # h /\ g # Null => (Released(h)[k] = g <=> lock[k] = g)
  BY DEF TableInv, TypeInv, TypeOK, Released

LEMMA TableEnd ==
  ASSUME TableInv, NEW u \in Uploader \cup ValueUploader, pc[u] # "idle", End(u), TypeInv',
         UNCHANGED referralVars,
         \A v \in Uploader \ {u} : pc[v] = "overwritten" =>
           {p \in permits' : p.coupon \in UploadKeys(request[v])}
           = {p \in permits : p.coupon \in UploadKeys(request[v])},
         \A v \in ValueUploader \ {u} : pc[v] = "overwritten" =>
           {w \in values' : w.coupon \in Locked(v)} = {w \in values : w.coupon \in Locked(v)},
         \A r \in Referrer : stage[r] = "inserted" => coupons'[picked[r]] = coupons[picked[r]]
  PROVE  TableInv'
  <1>1. /\ pc'[u] = "idle"
        /\ \A v \in (Uploader \cup ValueUploader) \ {u} :
             pc'[v] = pc[v] /\ request'[v] = request[v] /\ todo'[v] = todo[v] /\ deleted'[v] = deleted[v]
        /\ lock' = Released(u)
    BY DEF End, TableInv, TypeInv, TypeOK, Handler
  <1>2. ASSUME NEW v, v # u, v # Null, NEW k \in Key PROVE lock'[k] = v <=> lock[k] = v
    BY <1>1, <1>2, OthersKeepLocks
  <1>3. UploadInv'
    <2> SUFFICES ASSUME NEW v \in Uploader, pc'[v] # "idle"
                 PROVE  /\ pc'[v] \in {"lock", "overwritten"} =>
                             \A k \in UploadKeys(request'[v]) \ todo'[v] : lock'[k] = v
                        /\ pc'[v] = "overwritten" =>
                             /\ todo'[v] = {}
                             /\ deleted'[v] = {p \in permits' : p.coupon \in UploadKeys(request'[v])}
      BY DEF UploadInv
    <2>1. v # u /\ v # Null
      BY <1>1
    <2>2. request[v] \in CouponRequests /\ UploadKeys(request[v]) \subseteq Key
      BY <1>1, <2>1, UploadTypes DEF TableInv, TypeInv, CallInv
    <2>3. QED BY <1>1, <1>2, <2>1, <2>2 DEF TableInv, UploadInv
  <1>4. ValueInv'
    <2> SUFFICES ASSUME NEW v \in ValueUploader, pc'[v] = "overwritten"
                 PROVE  deleted'[v] = {w \in values' : w.coupon \in Locked(v)'}
      BY DEF ValueInv
    <2>1. v # u /\ v # Null
      BY <1>1
    <2>2. Locked(v)' = Locked(v)
      BY <1>2, <2>1 DEF Locked
    <2>3. QED BY <1>1, <2>1, <2>2 DEF TableInv, ValueInv
  <1>5. ReferralInv'
    <2> SUFFICES ASSUME NEW r \in Referrer, stage'[r] = "inserted"
                 PROVE  lock'[picked'[r]] = r /\ coupons'[picked'[r]] = Null
      BY DEF ReferralInv
    <2>1. stage[r] = "inserted" /\ picked'[r] = picked[r] /\ picked[r] \in Key /\ r # u /\ r # Null
      BY DEF referralVars, TableInv, TypeInv, CallInv
    <2>2. QED BY <1>2, <2>1 DEF TableInv, ReferralInv
  <1>6. QED BY <1>3, <1>4, <1>5 DEF TableInv

LEMMA TableCommit ==
  ASSUME TableInv, NEW u \in Uploader, Commit(u), UNCHANGED referralVars
  PROVE  TableInv'
  <1>1. pc[u] = "overwritten" /\ TypeInv' /\ values' = values
    BY TypeCommit DEF Commit, TableInv
  <1>2. \A p \in PermitRows(request[u]) : p.coupon \in UploadKeys(request[u])
    BY DEF PermitRows, UploadKeys
  <1>3. \A p \in deleted[u] : p.coupon \in UploadKeys(request[u])
    BY <1>1 DEF TableInv, UploadInv
  <1>4. \A p : p.coupon \notin UploadKeys(request[u]) => (p \in permits' <=> p \in permits)
    BY <1>2, <1>3 DEF Commit
  <1>5. ASSUME NEW v \in Uploader \ {u}, pc[v] = "overwritten"
        PROVE  {p \in permits' : p.coupon \in UploadKeys(request[v])}
               = {p \in permits : p.coupon \in UploadKeys(request[v])}
    <2>1. \A k \in UploadKeys(request[v]) : k \notin UploadKeys(request[u])
      BY <1>1, <1>5, Holding
    <2>2. QED BY <1>4, <2>1
  <1>6. ASSUME NEW r \in Referrer, stage[r] = "inserted" PROVE coupons'[picked[r]] = coupons[picked[r]]
    <2>1. picked[r] \notin UploadKeys(request[u]) /\ picked[r] \in Key
      BY <1>1, <1>6, Holding DEF TableInv, TypeInv, CallInv
    <2>2. QED BY <2>1 DEF Commit
  <1>7. End(u) /\ pc[u] # "idle"
    BY DEF Commit
  <1>8. QED BY <1>1, <1>5, <1>6, <1>7, TableEnd

LEMMA TableCommitValues ==
  ASSUME TableInv, NEW u \in ValueUploader, CommitValues(u), UNCHANGED referralVars
  PROVE  TableInv'
  <1>1. /\ pc[u] = "overwritten" /\ TypeInv' /\ permits' = permits /\ coupons' = coupons
        /\ request[u] \in ValueRequests
    BY TypeCommitValues DEF CommitValues, TableInv, TypeInv, CallInv
  <1>2. \A v : v.coupon \notin Locked(u) => (v \in values' <=> v \in values)
    BY <1>1, ValueTypes DEF CommitValues, TableInv, ValueInv
  <1>3. ASSUME NEW v \in ValueUploader \ {u}
        PROVE  {w \in values' : w.coupon \in Locked(v)} = {w \in values : w.coupon \in Locked(v)}
    <2>1. \A k \in Locked(v) : k \notin Locked(u)
      BY DEF Locked
    <2>2. QED BY <1>2, <2>1
  <1>4. End(u) /\ pc[u] # "idle"
    BY DEF CommitValues
  <1>5. QED BY <1>1, <1>3, <1>4, TableEnd

LEMMA TableRollback ==
  ASSUME TableInv, NEW u \in Uploader \cup ValueUploader, FailUpload(u) \/ AbortUpload(u),
         UNCHANGED referralVars
  PROVE  TableInv'
  <1>1. End(u) /\ pc[u] # "idle" /\ UNCHANGED <<coupons, permits, values>>
    BY DEF FailUpload, AbortUpload, Rollback, Deadlocked
  <1>2. TypeInv'
    BY TypeRollback DEF TableInv
  <1>3. QED BY <1>1, <1>2, TableEnd

(* A step that leaves the tables and adds locks at most.                    *)
LEMMA TableLock ==
  ASSUME TableInv, NEW u \in Uploader \cup ValueUploader, NEW k \in Key, Lock(u, k), TypeInv',
         UNCHANGED referralVars
  PROVE  TableInv'
  <1>1. /\ pc[u] = "lock" /\ lock[k] = Null /\ lock' = [lock EXCEPT ![k] = u]
        /\ todo' = [todo EXCEPT ![u] = @ \ {k}]
        /\ UNCHANGED <<coupons, permits, values, pc, request, deleted>>
    BY DEF Lock
  <1>2. lock'[k] = u /\ \A j \in Key \ {k} : lock'[j] = lock[j]
    BY <1>1 DEF TableInv, TypeInv, TypeOK
  <1>3. \A j \in Key : lock[j] # Null => lock'[j] = lock[j]
    BY <1>1, <1>2
  <1>4. UploadInv'
    <2> SUFFICES ASSUME NEW v \in Uploader, pc[v] # "idle"
                 PROVE  /\ pc[v] \in {"lock", "overwritten"} =>
                             \A j \in UploadKeys(request[v]) \ todo'[v] : lock'[j] = v
                        /\ pc[v] = "overwritten" =>
                             /\ todo'[v] = {}
                             /\ deleted[v] = {p \in permits : p.coupon \in UploadKeys(request[v])}
      BY <1>1 DEF UploadInv
    <2>1. UploadKeys(request[v]) \subseteq Key /\ v # Null
      BY UploadTypes DEF TableInv, TypeInv, CallInv
    <2>2. CASE v = u
      BY <1>1, <1>2, <1>3, <2>1, <2>2 DEF TableInv, UploadInv, TypeInv, TypeOK
    <2>3. CASE v # u
      <3>1. todo'[v] = todo[v]
        BY <1>1, <2>3 DEF TableInv, TypeInv, TypeOK
      <3>2. QED BY <1>3, <2>1, <3>1 DEF TableInv, UploadInv
    <2>4. QED BY <2>2, <2>3
  <1>5. ValueInv'
    <2> SUFFICES ASSUME NEW v \in ValueUploader, pc[v] = "overwritten"
                 PROVE  Locked(v)' = Locked(v)
      BY <1>1 DEF ValueInv, TableInv
    <2>1. v # u /\ v # Null
      BY <1>1
    <2>2. QED BY <1>1, <1>2, <2>1 DEF Locked
  <1>6. ReferralInv'
    BY <1>1, <1>3 DEF ReferralInv, TableInv, TypeInv, CallInv, referralVars
  <1>7. QED BY <1>4, <1>5, <1>6 DEF TableInv

LEMMA TableUpload ==
  ASSUME TableInv, NEW u \in Uploader, BeginUpload(u) \/ UploadStep(u), UNCHANGED referralVars
  PROVE  TableInv'
  <1>0. TypeInv'
    BY TypeUpload DEF TableInv
  <1>1. CASE BeginUpload(u)
    <2>1. PICK req \in CouponRequests : /\ request' = [request EXCEPT ![u] = req]
                                        /\ todo' = [todo EXCEPT ![u] = UploadKeys(req)]
      BY <1>1 DEF BeginUpload
    <2>2. /\ pc' = [pc EXCEPT ![u] = "lock"]
          /\ UNCHANGED <<coupons, permits, values, lock, deleted>>
      BY <1>1 DEF BeginUpload
    <2>3. UploadInv'
      BY <2>1, <2>2 DEF UploadInv, TableInv, TypeInv, TypeOK, Handler
    <2>4. ValueInv' /\ ReferralInv'
      BY <2>2 DEF ValueInv, ReferralInv, Locked, TableInv, TypeInv, TypeOK, Handler, referralVars
    <2>5. QED BY <1>0, <2>3, <2>4 DEF TableInv
  <1>2. CASE Overwrite(u)
    <2>1. /\ pc[u] = "lock" /\ todo[u] = {} /\ pc' = [pc EXCEPT ![u] = "overwritten"]
          /\ deleted' = [deleted EXCEPT ![u] = {p \in permits : p.coupon \in UploadKeys(request[u])}]
          /\ UNCHANGED <<coupons, permits, values, lock, request, todo>>
      BY <1>2 DEF Overwrite
    <2>2. UploadInv'
      BY <2>1 DEF UploadInv, TableInv, TypeInv, TypeOK, Handler
    <2>3. ValueInv' /\ ReferralInv'
      BY <2>1 DEF ValueInv, ReferralInv, Locked, TableInv, TypeInv, TypeOK, Handler, referralVars
    <2>4. QED BY <1>0, <2>2, <2>3 DEF TableInv
  <1>3. QED BY <1>0, <1>1, <1>2, TableLock, TableCommit DEF UploadStep

LEMMA TableValueUpload ==
  ASSUME TableInv, NEW u \in ValueUploader, BeginValueUpload(u) \/ ValueUploadStep(u),
         UNCHANGED referralVars
  PROVE  TableInv'
  <1>0. TypeInv'
    BY TypeValueUpload DEF TableInv
  <1>1. CASE BeginValueUpload(u)
    <2>1. /\ pc' = [pc EXCEPT ![u] = "lock"]
          /\ \A v \in Uploader : request'[v] = request[v] /\ todo'[v] = todo[v]
          /\ UNCHANGED <<coupons, permits, values, lock, deleted>>
      BY <1>1 DEF BeginValueUpload, TableInv, TypeInv, TypeOK
    <2>2. UploadInv'
      BY <2>1 DEF UploadInv, TableInv, TypeInv, TypeOK, Handler
    <2>3. ValueInv' /\ ReferralInv'
      BY <2>1 DEF ValueInv, ReferralInv, Locked, TableInv, TypeInv, TypeOK, Handler, referralVars
    <2>4. QED BY <1>0, <2>2, <2>3 DEF TableInv
  <1>2. CASE OverwriteValues(u)
    <2>1. /\ pc' = [pc EXCEPT ![u] = "overwritten"]
          /\ deleted' = [deleted EXCEPT ![u] = {v \in values : v.coupon \in Locked(u)}]
          /\ UNCHANGED <<coupons, permits, values, lock, request, todo>>
      BY <1>2 DEF OverwriteValues
    <2>2. UploadInv'
      BY <2>1 DEF UploadInv, TableInv, TypeInv, TypeOK, Handler
    <2>3. ValueInv' /\ ReferralInv'
      BY <2>1 DEF ValueInv, ReferralInv, Locked, TableInv, TypeInv, TypeOK, Handler, referralVars
    <2>4. QED BY <1>0, <2>2, <2>3 DEF TableInv
  <1>3. QED BY <1>0, <1>1, <1>2, TableLock, TableCommitValues DEF ValueUploadStep

LEMMA TableCheck ==
  ASSUME TableInv, NEW c \in Checker, BeginCheck(c) \/ CheckStep(c), UNCHANGED referralVars
  PROVE  TableInv'
  <1>1. UNCHANGED <<coupons, permits, values, lock, request, todo, deleted>>
    BY DEF BeginCheck, CheckStep, ReadCoupon, ReadAny, ReadMine, NextKind, Goto
  <1>2. \A u \in Uploader \cup ValueUploader : pc'[u] = pc[u]
    BY DEF BeginCheck, CheckStep, ReadCoupon, ReadAny, ReadMine, NextKind, Goto, TableInv, TypeInv, TypeOK, Handler
  <1>3. TypeInv'
    BY TypeCheck DEF TableInv
  <1>4. UploadInv' /\ ValueInv' /\ ReferralInv'
    BY <1>1, <1>2 DEF TableInv, UploadInv, ValueInv, ReferralInv, Locked, referralVars
  <1>5. QED BY <1>3, <1>4 DEF TableInv

LEMMA TableReferral ==
  ASSUME TableInv, NEW r \in Referrer, Ask(r) \/ ReferralStep(r) \/ FailReferral(r)
  PROVE  TableInv'
  <1>0. TypeInv'
    BY TypeReferral DEF TableInv
  <1>1. UNCHANGED <<permits, values, pc, request, todo, deleted>>
    BY DEF Ask, ReferralStep, FindReferral, FindNoReferral, DrawName, Insert, InsertFails, CommitReferral,
           FailReferral, otherVars
  <1>2. ASSUME NEW v \in Uploader \cup ValueUploader, NEW k \in Key PROVE lock'[k] = v <=> lock[k] = v
    <2>1. CASE lock' = lock
      BY <2>1
    <2>2. CASE lock' = Released(r)
      BY <2>2, OthersKeepLocks
    <2>3. CASE Insert(r)
      <3>1. lock[picked[r]] = Null /\ lock' = [lock EXCEPT ![picked[r]] = r] /\ v # r /\ v # Null
        BY <2>3 DEF Insert
      <3>2. QED BY <3>1 DEF TableInv, TypeInv, TypeOK
    <2>4. QED
      BY <2>1, <2>2, <2>3
      DEF Ask, ReferralStep, FindReferral, FindNoReferral, DrawName, InsertFails, CommitReferral, FailReferral
  <1>3. UploadInv'
    <2>1. \A v \in Uploader : pc[v] # "idle" => UploadKeys(request[v]) \subseteq Key
      BY UploadTypes DEF TableInv, TypeInv, CallInv
    <2>2. QED BY <1>1, <1>2, <2>1 DEF TableInv, UploadInv
  <1>4. ValueInv'
    BY <1>1, <1>2 DEF TableInv, ValueInv, Locked
  <1>5. ASSUME NEW q \in Referrer, stage'[q] = "inserted"
        PROVE  lock'[picked'[q]] = q /\ coupons'[picked'[q]] = Null
    <2>1. CASE q = r
      <3>1. Insert(r)
        BY <1>5, <2>1
        DEF Ask, ReferralStep, FindReferral, FindNoReferral, DrawName, InsertFails, CommitReferral,
            FailReferral, EndReferral, TableInv, TypeInv, TypeOK
      <3>2. picked[r] \in Key
        BY <3>1 DEF Insert, TableInv, TypeInv, CallInv
      <3>3. QED BY <2>1, <3>1, <3>2 DEF Insert, TableInv, TypeInv, TypeOK
    <2>2. CASE q # r
      <3>1. stage[q] = "inserted" /\ picked'[q] = picked[q]
        BY <1>5, <2>2
        DEF Ask, ReferralStep, FindReferral, FindNoReferral, DrawName, Insert, InsertFails, CommitReferral,
            FailReferral, EndReferral, TableInv, TypeInv, TypeOK
      <3>2. picked[q] \in Key /\ lock[picked[q]] = q /\ coupons[picked[q]] = Null /\ q # Null
        BY <3>1 DEF TableInv, TypeInv, CallInv, ReferralInv
      <3>3. lock'[picked[q]] = q
        <4>1. CASE Insert(r)
          BY <3>2, <4>1 DEF Insert, TableInv, TypeInv, TypeOK
        <4>2. CASE lock' = lock
          BY <3>2, <4>2
        <4>3. CASE lock' = Released(r)
          BY <2>2, <3>2, <4>3, OthersKeepLocks
        <4>4. QED
          BY <4>1, <4>2, <4>3
          DEF Ask, ReferralStep, FindReferral, FindNoReferral, DrawName, InsertFails, CommitReferral, FailReferral
      <3>4. coupons'[picked[q]] = Null
        <4>1. CASE coupons' = coupons
          BY <3>2, <4>1
        <4>2. CASE CommitReferral(r)
          <5>1. lock[picked[r]] = r
            BY <4>2 DEF CommitReferral, TableInv, ReferralInv
          <5>2. QED BY <2>2, <3>2, <4>2, <5>1 DEF CommitReferral, TableInv, TypeInv, TypeOK
        <4>3. QED
          BY <4>1, <4>2
          DEF Ask, ReferralStep, FindReferral, FindNoReferral, DrawName, Insert, InsertFails, FailReferral
      <3>5. QED BY <3>1, <3>3, <3>4
    <2>3. QED BY <2>1, <2>2
  <1>6. QED BY <1>0, <1>3, <1>4, <1>5 DEF TableInv, ReferralInv

LEMMA TableNext == TableInv /\ [Next]_vars => TableInv'
  <1> SUFFICES ASSUME TableInv, [Next]_vars PROVE TableInv'
    OBVIOUS
  <1>1. CASE BulkNext /\ UNCHANGED referralVars
    BY <1>1, TableUpload, TableValueUpload, TableRollback, TableCheck DEF BulkNext
  <1>2. CASE \E r \in Referrer : Ask(r) \/ ReferralStep(r) \/ FailReferral(r)
    BY <1>2, TableReferral
  <1>3. CASE UNCHANGED vars
    <2>1. TypeInv'
      BY <1>3, TypeNext DEF TableInv
    <2>2. QED
      BY <1>3, <2>1 DEF vars, bulkVars, checkVars, referralVars, TableInv, UploadInv, ValueInv, ReferralInv, Locked
  <1>4. QED BY <1>1, <1>2, <1>3 DEF Next

-----------------------------------------------------------------------------
(* Coherence. *)

LEMMA NoNullRow == \A record \in CouponRecord : \A owner \in Customer \cup {Null} :
                      [record |-> record, owner |-> owner] # Null
  BY DEF Row

LEMMA CoherentInit == Init => Coherent
  <1> SUFFICES ASSUME Init, NEW k \in Key, NEW kind \in Kind
               PROVE  PermittedIds(k, kind)
                      = IF coupons[k] = Null THEN {} ELSE Valid(coupons[k].record.only[kind])
    BY DEF Coherent
  <1>1. permits = {p \in Permit : InitialCoupons[p.coupon] # Null
                                  /\ p.id \in Valid(InitialCoupons[p.coupon].only[p.kind])}
    BY DEF Init, BulkInit
  <1>2. CASE InitialCoupons[k] = Null
    BY <1>1, <1>2 DEF Init, BulkInit, PermittedIds
  <1>3. CASE InitialCoupons[k] # Null
    <2>1. coupons[k] # Null /\ coupons[k].record = InitialCoupons[k]
      BY <1>3, NoNullRow DEF Init, BulkInit
    <2>2. ASSUME NEW id \in Valid(InitialCoupons[k].only[kind]) PROVE id \in PermittedIds(k, kind)
      <3>1. id \in Id
        BY DEF Valid
      <3>2. [coupon |-> k, kind |-> kind, id |-> id] \in permits
        BY <1>1, <1>3, <3>1 DEF Permit
      <3>3. QED BY <3>2 DEF PermittedIds
    <2>3. PermittedIds(k, kind) \subseteq Valid(InitialCoupons[k].only[kind])
      BY <1>1 DEF PermittedIds
    <2>4. QED BY <2>1, <2>2, <2>3
  <1>4. QED BY <1>2, <1>3

LEMMA CoherentCommit ==
  ASSUME TableInv, Coherent, NEW u \in Uploader, Commit(u)
  PROVE  Coherent'
  <1> DEFINE req == request[u]
             keys == UploadKeys(request[u])
  <1>1. pc[u] = "overwritten" /\ req \in CouponRequests
        /\ deleted[u] = {p \in permits : p.coupon \in keys}
    BY DEF Commit, TableInv, TypeInv, CallInv, UploadInv
  <1>2. /\ permits' = (permits \ deleted[u]) \cup PermitRows(req)
        /\ coupons' = [k \in Key |-> IF k \in keys THEN [record |-> RecordOf(req, k), owner |-> OwnerOf(k)]
                                     ELSE coupons[k]]
    BY DEF Commit
  <1>3. \A p \in PermitRows(req) : p.coupon \in keys
    BY DEF PermitRows, UploadKeys
  <1> SUFFICES ASSUME NEW k \in Key, NEW kind \in Kind
               PROVE  PermittedIds(k, kind)'
                      = IF coupons'[k] = Null THEN {} ELSE Valid(coupons'[k].record.only[kind])
    BY DEF Coherent
  <1> HIDE DEF keys
  <1>4. CASE k \in keys
    <2>1. {p \in permits' : p.coupon = k /\ p.kind = kind} = {p \in PermitRows(req) : p.coupon = k /\ p.kind = kind}
      BY <1>1, <1>2, <1>4
    <2>2. PermittedIds(k, kind)' = Valid(RecordOf(req, k).only[kind])
      BY <1>1, <1>4, <2>1, PermitsOfUpload DEF PermittedIds, keys
    <2>3. RecordOf(req, k) \in CouponRecord /\ OwnerOf(k) \in Customer \cup {Null}
      BY <1>1, <1>4, UploadTypes DEF keys, OwnerOf, TableInv, TypeInv, TypeOK, Row
    <2>4. coupons'[k] # Null /\ coupons'[k].record = RecordOf(req, k)
      BY <1>2, <1>4, <2>3, NoNullRow
    <2>5. QED BY <2>2, <2>4
  <1>5. CASE k \notin keys
    <2>1. {p \in permits' : p.coupon = k /\ p.kind = kind} = {p \in permits : p.coupon = k /\ p.kind = kind}
      BY <1>1, <1>2, <1>3, <1>5
    <2>2. coupons'[k] = coupons[k]
      BY <1>2, <1>5
    <2>3. QED BY <2>1, <2>2 DEF Coherent, PermittedIds
  <1>6. QED BY <1>4, <1>5

LEMMA CoherentReferral ==
  ASSUME TableInv, Coherent, NEW r \in Referrer, CommitReferral(r)
  PROVE  Coherent'
  <1>1. stage[r] = "inserted" /\ picked[r] \in Key /\ customer[r] \in Customer /\ coupons[picked[r]] = Null
    BY DEF CommitReferral, TableInv, TypeInv, CallInv, ReferralInv
  <1>2. /\ permits' = permits
        /\ coupons' = [coupons EXCEPT ![picked[r]] = [record |-> ReferralRecord(picked[r]), owner |-> customer[r]]]
    BY DEF CommitReferral
  <1> SUFFICES ASSUME NEW k \in Key, NEW kind \in Kind
               PROVE  PermittedIds(k, kind)
                      = IF coupons'[k] = Null THEN {} ELSE Valid(coupons'[k].record.only[kind])
    BY <1>2 DEF Coherent, PermittedIds
  <1>3. CASE k = picked[r]
    <2>1. PermittedIds(k, kind) = {}
      BY <1>1, <1>3 DEF Coherent
    <2>2. coupons'[k].record.only[kind] = {}
      BY <1>1, <1>2, <1>3 DEF ReferralRecord, TableInv, TypeInv, TypeOK
    <2>3. QED BY <2>1, <2>2 DEF Valid
  <1>4. CASE k # picked[r]
    BY <1>2, <1>4 DEF Coherent, TableInv, TypeInv, TypeOK
  <1>5. QED BY <1>3, <1>4

LEMMA CoherentNext == TableInv /\ Coherent /\ [Next]_vars => Coherent'
  <1> SUFFICES ASSUME TableInv, Coherent, [Next]_vars PROVE Coherent'
    OBVIOUS
  <1>1. CASE UNCHANGED <<coupons, permits>>
    BY <1>1 DEF Coherent, PermittedIds
  <1>2. CASE \E u \in Uploader : Commit(u)
    BY <1>2, CoherentCommit
  <1>3. CASE \E r \in Referrer : CommitReferral(r)
    BY <1>3, CoherentReferral
  <1>4. QED
    BY <1>1, <1>2, <1>3
    DEF Next, BulkNext, BeginUpload, UploadStep, Lock, Overwrite, BeginValueUpload, ValueUploadStep,
        OverwriteValues, CommitValues, FailUpload, AbortUpload, Rollback, BeginCheck, CheckStep, ReadCoupon,
        ReadAny, ReadMine, NextKind, Goto, Ask, ReferralStep, FindReferral, FindNoReferral, DrawName, Insert,
        InsertFails, FailReferral, otherVars, vars, bulkVars

(* Overlapping uploads never mix the columns of one with the permits of     *)
(* another, and a failed one leaves nothing behind.                         *)
THEOREM UploadsNeverMix == Spec => []Coherent
  <1>1. Init => TableInv /\ Coherent
    BY TableInit, CoherentInit
  <1>2. TableInv /\ Coherent /\ [Next]_vars => (TableInv /\ Coherent)'
    BY TableNext, CoherentNext
  <1>3. QED BY <1>1, <1>2, PTL DEF Spec

LEMMA ValuesNext == TableInv /\ ValuesFromOneUpload /\ [Next]_vars => ValuesFromOneUpload'
  <1> SUFFICES ASSUME TableInv, ValuesFromOneUpload, [Next]_vars PROVE ValuesFromOneUpload'
    OBVIOUS
  <1>1. CASE UNCHANGED <<values, published>>
    BY <1>1 DEF ValuesFromOneUpload
  <1>2. ASSUME NEW u \in ValueUploader, CommitValues(u) PROVE ValuesFromOneUpload'
    <2> DEFINE new == ValueRows(request[u], Locked(u))
    <2>1. /\ deleted[u] = {v \in values : v.coupon \in Locked(u)}
          /\ values' = (values \ deleted[u]) \cup new
          /\ published' = [k \in Key |-> IF k \in Locked(u) THEN {v \in new : v.coupon = k} ELSE published[k]]
      BY <1>2 DEF CommitValues, TableInv, ValueInv
    <2>2. \A v \in new : v.coupon \in Locked(u)
      BY <1>2, ValueTypes DEF CommitValues, TableInv, TypeInv, CallInv
    <2> HIDE DEF new
    <2>3. ASSUME NEW k \in Key PROVE {v \in values' : v.coupon = k} = published'[k]
      <3>1. CASE k \in Locked(u)
        BY <2>1, <3>1
      <3>2. CASE k \notin Locked(u)
        BY <2>1, <2>2, <3>2 DEF ValuesFromOneUpload
      <3>3. QED BY <3>1, <3>2
    <2>4. QED BY <2>3 DEF ValuesFromOneUpload
  <1>3. QED
    BY <1>1, <1>2
    DEF Next, BulkNext, BeginUpload, UploadStep, Lock, Overwrite, Commit, BeginValueUpload, ValueUploadStep,
        OverwriteValues, FailUpload, AbortUpload, Rollback, BeginCheck, CheckStep, ReadCoupon,
        ReadAny, ReadMine, NextKind, Goto, Ask, ReferralStep, FindReferral, FindNoReferral, DrawName, Insert,
        InsertFails, CommitReferral, FailReferral, otherVars, vars, bulkVars

(* The values of a coupon are never the union of two uploads'.              *)
THEOREM ValuesNeverMix == Spec => []ValuesFromOneUpload
  <1>1. Init => TableInv /\ ValuesFromOneUpload
    BY TableInit DEF Init, BulkInit, ValuesFromOneUpload
  <1>2. TableInv /\ ValuesFromOneUpload /\ [Next]_vars => (TableInv /\ ValuesFromOneUpload)'
    BY TableNext, ValuesNext
  <1>3. QED BY <1>1, <1>2, PTL DEF Spec

-----------------------------------------------------------------------------
(* Owners.  A row gets its owner when it is created, and keeps it.          *)

LEMMA OwnersCommit ==
  ASSUME TableInv, NEW u \in Uploader, Commit(u)
  PROVE  \A c \in Customer : OwnedBy(c)' = OwnedBy(c)
  <1> DEFINE req == request[u]
             keys == UploadKeys(request[u])
  <1>1. req \in CouponRequests
    BY DEF Commit, TableInv, TypeInv, CallInv
  <1>2. coupons' = [k \in Key |-> IF k \in keys THEN [record |-> RecordOf(req, k), owner |-> OwnerOf(k)]
                                  ELSE coupons[k]]
    BY DEF Commit
  <1>3. ASSUME NEW c \in Customer, NEW k \in Key
        PROVE  (coupons'[k] # Null /\ coupons'[k].owner = c) <=> (coupons[k] # Null /\ coupons[k].owner = c)
    <2>1. CASE k \in keys
      <3>1. RecordOf(req, k) \in CouponRecord /\ OwnerOf(k) \in Customer \cup {Null}
        BY <1>1, <2>1, UploadTypes DEF OwnerOf, TableInv, TypeInv, TypeOK, Row
      <3>2. coupons'[k] # Null /\ coupons'[k].owner = OwnerOf(k)
        BY <1>2, <2>1, <3>1, NoNullRow
      <3>3. QED BY <3>2 DEF OwnerOf
    <2>2. CASE k \notin keys
      BY <1>2, <2>2
    <2>3. QED BY <2>1, <2>2
  <1>4. QED BY <1>3 DEF OwnedBy

LEMMA OwnersReferral ==
  ASSUME TableInv, NEW r \in Referrer, CommitReferral(r)
  PROVE  /\ stage[r] = "inserted" /\ customer[r] \in Customer /\ picked[r] \in Key
         /\ \A c \in Customer : IF c = customer[r]
                                THEN picked[r] \notin OwnedBy(c) /\ OwnedBy(c)' = OwnedBy(c) \cup {picked[r]}
                                ELSE OwnedBy(c)' = OwnedBy(c)
  <1>1. stage[r] = "inserted" /\ picked[r] \in Key /\ customer[r] \in Customer /\ coupons[picked[r]] = Null
    BY DEF CommitReferral, TableInv, TypeInv, CallInv, ReferralInv
  <1>2. ReferralRecord(picked[r]) \in CouponRecord
    BY <1>1 DEF ReferralRecord, CouponRecord
  <1>3. /\ coupons' = [coupons EXCEPT ![picked[r]] = [record |-> ReferralRecord(picked[r]), owner |-> customer[r]]]
        /\ coupons \in [Key -> Row \cup {Null}]
    BY DEF CommitReferral, TableInv, TypeInv, TypeOK
  <1>4. coupons'[picked[r]] # Null /\ coupons'[picked[r]].owner = customer[r]
    BY <1>1, <1>2, <1>3, NoNullRow
  <1>5. \A k \in Key \ {picked[r]} : coupons'[k] = coupons[k]
    BY <1>3
  <1>6. QED BY <1>1, <1>4, <1>5 DEF OwnedBy

LEMMA OwnersOther ==
  ASSUME [Next]_vars, ~\E u \in Uploader : Commit(u), ~\E r \in Referrer : CommitReferral(r)
  PROVE  coupons' = coupons
  BY DEF Next, BulkNext, BeginUpload, UploadStep, Lock, Overwrite, BeginValueUpload, ValueUploadStep,
         OverwriteValues, CommitValues, FailUpload, AbortUpload, Rollback, BeginCheck, CheckStep, ReadCoupon,
         ReadAny, ReadMine, NextKind, Goto, Ask, ReferralStep, FindReferral, FindNoReferral, DrawName, Insert,
         InsertFails, FailReferral, otherVars, vars, bulkVars

PromisedOwned == \A c \in Customer, k \in Key : <<c, k>> \in promised => k \in OwnedBy(c)

LEMMA PromisesNext == TableInv /\ PromisedOwned /\ [Next]_vars => PromisedOwned'
  <1> SUFFICES ASSUME TableInv, PromisedOwned, [Next]_vars PROVE PromisedOwned'
    OBVIOUS
  <1>1. \A c \in Customer : OwnedBy(c) \subseteq OwnedBy(c)'
    <2>1. CASE \E u \in Uploader : Commit(u)
      BY <2>1, OwnersCommit
    <2>2. ASSUME NEW r \in Referrer, CommitReferral(r) PROVE \A c \in Customer : OwnedBy(c) \subseteq OwnedBy(c)'
      BY <2>2, OwnersReferral
    <2>3. CASE coupons' = coupons
      BY <2>3 DEF OwnedBy
    <2>4. QED BY <2>1, <2>2, <2>3, OwnersOther
  <1>2. CASE promised' = promised
    BY <1>1, <1>2 DEF PromisedOwned
  <1>3. ASSUME NEW r \in Referrer, FindReferral(r) PROVE PromisedOwned'
    <2>1. PICK k \in OwnedBy(customer[r]) : promised' = promised \cup {<<customer[r], k>>}
      BY <1>3 DEF FindReferral
    <2>2. QED BY <1>1, <2>1 DEF PromisedOwned
  <1>4. ASSUME NEW r \in Referrer, CommitReferral(r) PROVE PromisedOwned'
    <2>1. promised' = promised \cup {<<customer[r], picked[r]>>}
      BY <1>4 DEF CommitReferral
    <2>2. QED BY <1>1, <1>4, <2>1, OwnersReferral DEF PromisedOwned
  <1>5. QED
    BY <1>2, <1>3, <1>4
    DEF Next, BulkNext, Ask, ReferralStep, FindNoReferral, DrawName, Insert, InsertFails, FailReferral,
        referralVars, vars

(* A name that a customer was given stays the customer's.                   *)
THEOREM NamesAreKept == Spec => []PromisedNamesKept
  <1>1. Init => TableInv /\ PromisedOwned
    BY TableInit DEF Init, PromisedOwned
  <1>2. TableInv /\ PromisedOwned /\ [Next]_vars => (TableInv /\ PromisedOwned)'
    BY TableNext, PromisesNext
  <1>3. PromisedOwned => PromisedNamesKept
    BY DEF PromisedOwned, PromisedNamesKept, OwnedBy
  <1>4. QED BY <1>1, <1>2, <1>3, PTL DEF Spec

-----------------------------------------------------------------------------
(* How many referral coupons a customer has.  The requests that have found  *)
(* none count like the coupons they are about to create.                    *)

Active(c) == {r \in Referrer : customer[r] = c /\ stage[r] \in {"draw", "insert", "inserted"}}

CountInv == \A c \in Customer : Cardinality(OwnedBy(c)) + Cardinality(Active(c)) <= Cardinality(Referrer)

LEMMA Counts ==
  \A c : /\ IsFiniteSet(OwnedBy(c)) /\ Cardinality(OwnedBy(c)) \in Nat
         /\ IsFiniteSet(Active(c)) /\ Cardinality(Active(c)) \in Nat
         /\ Cardinality(Active(c)) <= Cardinality(Referrer) /\ Cardinality(Referrer) \in Nat
  <1> TAKE c
  <1>1. IsFiniteSet(Key) /\ IsFiniteSet(Referrer) /\ OwnedBy(c) \subseteq Key /\ Active(c) \subseteq Referrer
    BY DEF OwnedBy, Active
  <1>2. IsFiniteSet(OwnedBy(c)) /\ IsFiniteSet(Active(c)) /\ Cardinality(Active(c)) <= Cardinality(Referrer)
    BY <1>1, FS_Subset
  <1>3. QED BY <1>1, <1>2, FS_CardinalityType

LEMMA CountsNext ==
  \A c : /\ Cardinality(OwnedBy(c)') \in Nat /\ IsFiniteSet(Active(c)')
         /\ Cardinality(Active(c)') \in Nat /\ Cardinality(Active(c)') <= Cardinality(Referrer)
  <1> TAKE c
  <1>1. IsFiniteSet(Key) /\ IsFiniteSet(Referrer) /\ OwnedBy(c)' \subseteq Key /\ Active(c)' \subseteq Referrer
    BY DEF OwnedBy, Active
  <1>2. IsFiniteSet(OwnedBy(c)') /\ IsFiniteSet(Active(c)') /\ Cardinality(Active(c)') <= Cardinality(Referrer)
    BY <1>1, FS_Subset
  <1>3. QED BY <1>1, <1>2, FS_CardinalityType

(* A step that creates no coupon, and lets no request pass the lookup, of   *)
(* a customer who has one.                                                  *)
LEMMA CountStays ==
  ASSUME CountInv, NEW c \in Customer, OwnedBy(c)' = OwnedBy(c),
         Active(c)' \subseteq Active(c) \/ OwnedBy(c) = {}
  PROVE  Cardinality(OwnedBy(c)') + Cardinality(Active(c)') <= Cardinality(Referrer)
  <1>1. CASE Active(c)' \subseteq Active(c)
    <2>1. Cardinality(Active(c)') <= Cardinality(Active(c))
      BY <1>1, Counts, FS_Subset
    <2>2. Cardinality(OwnedBy(c)) + Cardinality(Active(c)) <= Cardinality(Referrer)
      BY DEF CountInv
    <2>3. QED BY <2>1, <2>2, Counts, CountsNext
  <1>2. CASE OwnedBy(c) = {}
    BY <1>2, CountsNext, FS_EmptySet
  <1>3. QED BY <1>1, <1>2

LEMMA CountNext == TableInv /\ CountInv /\ [Next]_vars => CountInv'
  <1> SUFFICES ASSUME TableInv, CountInv, [Next]_vars, NEW c \in Customer
               PROVE  Cardinality(OwnedBy(c)') + Cardinality(Active(c)') <= Cardinality(Referrer)
    BY DEF CountInv
  <1>1. ASSUME NEW r \in Referrer, CommitReferral(r), customer[r] = c
        PROVE  Cardinality(OwnedBy(c)') + Cardinality(Active(c)') <= Cardinality(Referrer)
    <2>1. /\ picked[r] \notin OwnedBy(c) /\ OwnedBy(c)' = OwnedBy(c) \cup {picked[r]}
          /\ stage[r] = "inserted"
      BY <1>1, OwnersReferral
    <2>2. r \in Active(c) /\ Active(c)' \subseteq Active(c) \ {r}
      BY <1>1, <2>1 DEF Active, CommitReferral, EndReferral, TableInv, TypeInv, TypeOK
    <2>3. Cardinality(OwnedBy(c)') = Cardinality(OwnedBy(c)) + 1
      BY <2>1, Counts, FS_AddElement
    <2>4. Cardinality(Active(c) \ {r}) = Cardinality(Active(c)) - 1 /\ IsFiniteSet(Active(c) \ {r})
      BY <2>2, Counts, FS_RemoveElement
    <2>5. Cardinality(Active(c)') <= Cardinality(Active(c)) - 1
      BY <2>2, <2>4, FS_Subset
    <2>6. Cardinality(OwnedBy(c)) + Cardinality(Active(c)) <= Cardinality(Referrer)
      BY DEF CountInv
    <2>7. QED BY <2>3, <2>5, <2>6, Counts, CountsNext
  <1>2. ASSUME NEW r \in Referrer, CommitReferral(r), customer[r] # c
        PROVE  OwnedBy(c)' = OwnedBy(c) /\ Active(c)' \subseteq Active(c)
    <2>1. OwnedBy(c)' = OwnedBy(c)
      BY <1>2, OwnersReferral
    <2>2. Active(c)' \subseteq Active(c)
      BY <1>2 DEF Active, CommitReferral, EndReferral, TableInv, TypeInv, TypeOK
    <2>3. QED BY <2>1, <2>2
  <1>3. ASSUME \A r \in Referrer : ~CommitReferral(r) PROVE OwnedBy(c)' = OwnedBy(c)
    <2>1. CASE coupons' = coupons
      BY <2>1 DEF OwnedBy
    <2>2. CASE \E u \in Uploader : Commit(u)
      BY <2>2, OwnersCommit
    <2>3. QED BY <1>3, <2>1, <2>2, OwnersOther
  <1>4. ASSUME NEW r \in Referrer, FindNoReferral(r) PROVE Active(c)' \subseteq Active(c) \/ OwnedBy(c) = {}
    <2>1. CASE customer[r] = c
      BY <1>4, <2>1 DEF FindNoReferral
    <2>2. CASE customer[r] # c
      BY <1>4, <2>2 DEF FindNoReferral, Active, TableInv, TypeInv, TypeOK
    <2>3. QED BY <2>1, <2>2
  <1>5. ASSUME NEW r \in Referrer,
               Ask(r) \/ FindReferral(r) \/ DrawName(r) \/ Insert(r) \/ InsertFails(r) \/ FailReferral(r)
        PROVE  Active(c)' \subseteq Active(c)
    BY <1>5
    DEF Ask, FindReferral, DrawName, Insert, InsertFails, FailReferral, EndReferral, Active,
        TableInv, TypeInv, TypeOK
  <1>6. CASE UNCHANGED referralVars
    <2>1. Active(c)' = Active(c) /\ \A r \in Referrer : ~CommitReferral(r)
      BY <1>6 DEF Active, referralVars, CommitReferral, EndReferral, TableInv, TypeInv, TypeOK
    <2>2. QED BY <1>3, <2>1, CountStays
  <1>7. ASSUME NEW r \in Referrer, Ask(r) \/ ReferralStep(r) \/ FailReferral(r)
        PROVE  Cardinality(OwnedBy(c)') + Cardinality(Active(c)') <= Cardinality(Referrer)
    <2>1. CASE CommitReferral(r)
      BY <1>1, <1>2, <2>1, CountStays
    <2>2. CASE \E q \in Referrer : CommitReferral(q)
      BY <1>1, <1>2, <2>2, CountStays
    <2>3. CASE \A q \in Referrer : ~CommitReferral(q)
      BY <1>3, <1>4, <1>5, <1>7, <2>3, CountStays DEF ReferralStep
    <2>4. QED BY <2>2, <2>3
  <1>8. QED
    BY <1>6, <1>7 DEF Next, vars

(* A customer has at most as many referral coupons as requests overlapped.  *)
THEOREM ReferralsAreBounded == Spec => []ReferralsBounded
  <1>1. Init => TableInv /\ CountInv
    <2> SUFFICES ASSUME Init PROVE TableInv /\ CountInv
      OBVIOUS
    <2>1. \A c \in Customer : OwnedBy(c) = {} /\ Active(c) = {}
      BY DEF Init, BulkInit, OwnedBy, Active
    <2>2. CountInv
      BY <2>1, Counts, FS_EmptySet DEF CountInv
    <2>3. QED BY <2>2, TableInit
  <1>2. TableInv /\ CountInv /\ [Next]_vars => (TableInv /\ CountInv)'
    BY TableNext, CountNext
  <1>3. CountInv => ReferralsBounded
    BY Counts DEF CountInv, ReferralsBounded
  <1>4. QED BY <1>1, <1>2, <1>3, PTL DEF Spec

-----------------------------------------------------------------------------
(***************************************************************************)
(* What a check of add_coupon may conclude from statements between which   *)
(* uploads are committed.                                                  *)
(***************************************************************************)

(* The check has found permission j granted.                                *)
Granted(c, j) == \E v \in versions[c] : Permits(v, Kinds[j], order[c].of[Kinds[j]])

(* It has found a list that some version restricts and mine is not on.      *)
Refused(c) ==
  \/ \E v \in versions[c] : ~v.active
  \/ \E kind \in Kind : \E v, w \in versions[c] : v.only[kind] # {} /\ order[c].of[kind] \notin w.only[kind]

(* The last version is the one in the tables; what a check is past it has   *)
(* seen in one of them.                                                     *)
CheckOf(c) ==
  /\ pc[c] # "idle" => Version(order[c].coupon) \in versions[c]
  /\ pc[c] = "coupon" => at[c] = 1
  /\ pc[c] \in {"any", "mine", "accepted"} => \E v \in versions[c] : v.active
  /\ pc[c] \in {"any", "mine"} => \A j \in 1..(at[c] - 1) : Granted(c, j)
  /\ pc[c] = "mine" => \E v \in versions[c] : v.only[Kinds[at[c]]] # {}
  /\ pc[c] = "accepted" => \A j \in 1..3 : Granted(c, j)
  /\ pc[c] = "rejected" => Refused(c)

CheckInv == versions = [c \in Checker |-> versions[c]] /\ \A c \in Checker : CheckOf(c)

LEMMA KindOf == /\ \A j \in 1..3 : Kinds[j] \in Kind
                /\ \A kind \in Kind : \E j \in 1..3 : kind = Kinds[j]
                /\ Len(Kinds) = 3
  BY DEF Kinds, Kind

LEMMA VersionOnly == \A k : \A kind \in Kind : /\ Version(k).only[kind] = PermittedIds(k, kind)
                                               /\ Version(k).active = IsActive(k)
  BY DEF Version

-----------------------------------------------------------------------------
(* A step of somebody else.                                                 *)
LEMMA CheckKept ==
  ASSUME NEW c \in Checker, CheckOf(c), NEW k, k = order[c].coupon,
         pc'[c] = pc[c], order'[c] = order[c], at'[c] = at[c], versions[c] \subseteq versions'[c],
         pc[c] # "idle" => Version(k)' \in versions'[c]
  PROVE  CheckOf(c)'
  <1>1. pc'[c] # "idle" => Version(order[c].coupon)' \in versions'[c]
    BY DEF Version, IsActive, PermittedIds
  <1>2. \A j : Granted(c, j) => Granted(c, j)'
    BY DEF Granted
  <1>3. Refused(c) => Refused(c)'
    BY DEF Refused
  <1>4. QED BY <1>1, <1>2, <1>3 DEF CheckOf

LEMMA VersionKept ==
  ASSUME UNCHANGED <<coupons, permits>>, NEW k
  PROVE  Version(k)' = Version(k)
  BY DEF Version, IsActive, PermittedIds

LEMMA CheckQuiet ==
  ASSUME CheckInv, UNCHANGED <<coupons, permits, order, at, versions>>,
         \A c \in Checker : pc'[c] = pc[c]
  PROVE  CheckInv'
  <1>1. ASSUME NEW c \in Checker PROVE CheckOf(c)'
    <2>1. CheckOf(c)
      BY DEF CheckInv
    <2>2. pc[c] # "idle" => Version(order[c].coupon)' \in versions'[c]
      BY <2>1 DEF CheckOf, Version, IsActive, PermittedIds
    <2>3. QED BY <2>1, <2>2, CheckKept, VersionKept DEF CheckOf
  <1>2. QED BY <1>1 DEF CheckInv

LEMMA CheckCommitted ==
  ASSUME TypeInv, CheckInv, SeeVersions, UNCHANGED <<order, at>>, \A c \in Checker : pc'[c] = pc[c]
  PROVE  CheckInv'
  <1>1. versions' = [c \in Checker |-> IF order[c] = Null THEN versions[c]
                                       ELSE versions[c] \cup {Version(order[c].coupon)'}]
    BY DEF SeeVersions
  <1>2. ASSUME NEW c \in Checker PROVE CheckOf(c)'
    <2>1. CheckOf(c) /\ versions[c] \subseteq versions'[c]
      BY <1>1 DEF CheckInv
    <2>2. PICK k : k = order[c].coupon
      OBVIOUS
    <2>3. ASSUME pc[c] # "idle" PROVE Version(k)' \in versions'[c]
      <3>1. order[c] # Null
        BY <2>3 DEF TypeInv, CallInv
      <3>2. Version(order[c].coupon)' \in versions'[c]
        BY <1>1, <3>1
      <3>3. QED BY <2>2, <3>2 DEF Version, IsActive, PermittedIds
    <2>4. QED BY <2>1, <2>2, <2>3, CheckKept
  <1>3. versions' = [c \in Checker |-> versions'[c]]
    BY <1>1
  <1>4. QED BY <1>2, <1>3 DEF CheckInv

-----------------------------------------------------------------------------
(* A step of the check.                                                     *)
LEMMA CheckGoes ==
  ASSUME CheckInv, TypeInv, NEW c \in Checker, pc[c] # "idle",
         UNCHANGED <<coupons, permits, order, versions>>,
         \A d \in Checker \ {c} : pc'[d] = pc[d] /\ at'[d] = at[d],
         CheckOf(c)'
  PROVE  CheckInv'
  <1>1. ASSUME NEW d \in Checker, d # c PROVE CheckOf(d)'
    <2>1. CheckOf(d)
      BY DEF CheckInv
    <2>2. pc'[d] = pc[d] /\ at'[d] = at[d]
      BY <1>1
    <2>3. QED BY <2>1, <2>2, CheckKept, VersionKept DEF CheckOf
  <1>2. QED BY <1>1 DEF CheckInv

LEMMA CheckBegins ==
  ASSUME TypeInv, CheckInv, NEW c \in Checker, BeginCheck(c)
  PROVE  CheckInv'
  <1>1. PICK o \in Orders : /\ order' = [order EXCEPT ![c] = o]
                            /\ versions' = [versions EXCEPT ![c] = {Version(o.coupon)}]
    BY DEF BeginCheck
  <1>2. /\ pc' = [pc EXCEPT ![c] = "coupon"] /\ at' = [at EXCEPT ![c] = 1]
        /\ UNCHANGED <<coupons, permits>>
    BY DEF BeginCheck
  <1>3. versions = [d \in Checker |-> versions[d]]
    BY DEF CheckInv
  <1>4. /\ order'[c] = o /\ versions'[c] = {Version(o.coupon)} /\ pc'[c] = "coupon"
        /\ \A d \in Checker \ {c} : order'[d] = order[d] /\ versions'[d] = versions[d]
                                    /\ pc'[d] = pc[d] /\ at'[d] = at[d]
    BY <1>1, <1>2, <1>3 DEF TypeInv, TypeOK, Handler
  <1>5. CheckOf(c)'
    <2>1. Version(order'[c].coupon) \in versions'[c]
      BY <1>4
    <2>2. Version(order[c].coupon)' \in versions'[c]
      BY <1>2, <2>1 DEF Version, IsActive, PermittedIds
    <2>3. at'[c] = 1
      BY <1>2 DEF TypeInv, TypeOK
    <2>4. QED BY <1>4, <2>2, <2>3 DEF CheckOf
  <1>6. ASSUME NEW d \in Checker, d # c PROVE CheckOf(d)'
    <2>1. CheckOf(d)
      BY DEF CheckInv
    <2>2. PICK k : k = order[d].coupon
      OBVIOUS
    <2>3. /\ order'[d] = order[d] /\ versions'[d] = versions[d] /\ pc'[d] = pc[d] /\ at'[d] = at[d]
          /\ Version(k)' = Version(k)
      BY <1>2, <1>4, <1>6, VersionKept
    <2>4. pc[d] # "idle" => Version(k) \in versions[d]
      BY <2>1, <2>2 DEF CheckOf
    <2>5. QED BY <2>1, <2>2, <2>3, <2>4, CheckKept
  <1>7. versions' = [d \in Checker |-> versions'[d]]
    BY <1>1, <1>3
  <1>8. QED BY <1>5, <1>6, <1>7 DEF CheckInv

(* NextKind, when the permission just read is granted.                      *)
LEMMA NextGranted ==
  ASSUME TypeInv, NEW c \in Checker, CheckOf(c), pc[c] \in {"any", "mine"}, NextKind(c), Granted(c, at[c]),
         UNCHANGED <<coupons, permits, order, versions>>
  PROVE  CheckOf(c)'
  <1>1. at[c] \in 1..3 /\ \A j \in 1..at[c] : Granted(c, j)
    BY DEF CheckOf, TypeInv, TypeOK
  <1>2. /\ pc'[c] = IF at[c] = 3 THEN "accepted" ELSE "any"
        /\ at'[c] = IF at[c] = 3 THEN at[c] ELSE at[c] + 1
    BY KindOf DEF NextKind, Goto, TypeInv, TypeOK, Handler
  <1>3. \A j : Granted(c, j)' <=> Granted(c, j)
    BY DEF Granted
  <1>4. Version(order[c].coupon)' = Version(order[c].coupon)
    BY DEF Version, IsActive, PermittedIds
  <1>5. CASE at[c] = 3
    BY <1>1, <1>2, <1>3, <1>4, <1>5 DEF CheckOf
  <1>6. CASE at[c] # 3
    <2>1. pc'[c] = "any" /\ at'[c] - 1 = at[c]
      BY <1>1, <1>2, <1>6
    <2>2. QED BY <1>1, <1>3, <1>4, <2>1 DEF CheckOf
  <1>7. QED BY <1>5, <1>6

LEMMA CheckStepKeeps ==
  ASSUME TypeInv, CheckInv, NEW c \in Checker, CheckStep(c)
  PROVE  CheckInv'
  <1> DEFINE kind == Kinds[at[c]]
             now  == Version(order[c].coupon)
  <1>1. /\ pc[c] # "idle" /\ UNCHANGED <<coupons, permits, order, versions>>
        /\ \A d \in Checker \ {c} : pc'[d] = pc[d] /\ at'[d] = at[d]
    BY DEF CheckStep, ReadCoupon, ReadAny, ReadMine, NextKind, Goto, TypeInv, TypeOK, Handler
  <1>2. CheckOf(c) /\ at[c] \in 1..3 /\ kind \in Kind
    BY KindOf DEF CheckInv, TypeInv, TypeOK
  <1>3. /\ now \in versions[c] /\ now.active = IsActive(order[c].coupon)
        /\ now.only[kind] = PermittedIds(order[c].coupon, kind)
    BY <1>1, <1>2, VersionOnly DEF CheckOf
  <1>4. now' = now /\ \A j : Granted(c, j)' <=> Granted(c, j)
    BY <1>1 DEF Granted, Version, IsActive, PermittedIds
  <1>5. Refused(c)' <=> Refused(c)
    BY <1>1 DEF Refused
  <1> HIDE DEF kind, now
  <1>6. CASE ReadCoupon(c)
    <2>1. /\ pc'[c] = IF IsActive(order[c].coupon) THEN "any" ELSE "rejected"
          /\ pc[c] = "coupon" /\ at'[c] = at[c]
      BY <1>6 DEF ReadCoupon, Goto, TypeInv, TypeOK, Handler
    <2>2. CASE IsActive(order[c].coupon)
      <3>1. at'[c] = 1 /\ pc'[c] = "any"
        BY <1>2, <2>1, <2>2 DEF CheckOf
      <3>2. \E v \in versions'[c] : v.active
        BY <1>1, <1>3, <2>2
      <3>3. \A j \in 1..(at'[c] - 1) : Granted(c, j)'
        BY <3>1
      <3>4. CheckOf(c)'
        BY <1>1, <1>3, <1>4, <3>1, <3>2, <3>3 DEF CheckOf, now
      <3>5. QED BY <1>1, <3>4, CheckGoes
    <2>3. CASE ~IsActive(order[c].coupon)
      <3>1. Refused(c)
        BY <1>3, <2>3 DEF Refused
      <3>2. pc'[c] = "rejected"
        BY <2>1, <2>3
      <3>3. CheckOf(c)'
        BY <1>1, <1>3, <1>4, <1>5, <3>1, <3>2 DEF CheckOf, now
      <3>4. QED BY <1>1, <3>3, CheckGoes
    <2>4. QED BY <2>2, <2>3
  <1>7. CASE ReadAny(c)
    <2>1. pc[c] = "any"
      BY <1>7 DEF ReadAny
    <2>2. CASE now.only[kind] = {}
      <3>1. NextKind(c)
        BY <1>3, <1>7, <2>2 DEF ReadAny, kind
      <3>2. Granted(c, at[c])
        BY <1>3, <2>2 DEF Granted, Permits, kind
      <3>3. QED BY <1>1, <1>2, <2>1, <3>1, <3>2, NextGranted, CheckGoes
    <2>3. CASE now.only[kind] # {} /\ kind # "categories"
      <3>1. pc'[c] = "mine" /\ at'[c] = at[c]
        BY <1>3, <1>7, <2>3 DEF ReadAny, kind, Goto, TypeInv, TypeOK, Handler
      <3>2. \E v \in versions'[c] : v.only[Kinds[at'[c]]] # {}
        BY <1>1, <1>3, <2>3, <3>1 DEF kind
      <3>3. CheckOf(c)'
        BY <1>1, <1>2, <1>3, <1>4, <2>1, <3>1, <3>2 DEF CheckOf, now
      <3>4. QED BY <1>1, <3>3, CheckGoes
    <2>4. CASE now.only[kind] # {} /\ kind = "categories" /\ order[c].of[kind] \in now.only[kind]
      <3>1. NextKind(c)
        BY <1>3, <1>7, <2>4 DEF ReadAny, kind
      <3>2. Granted(c, at[c])
        BY <1>3, <2>4 DEF Granted, Permits, kind
      <3>3. QED BY <1>1, <1>2, <2>1, <3>1, <3>2, NextGranted, CheckGoes
    <2>5. CASE now.only[kind] # {} /\ kind = "categories" /\ order[c].of[kind] \notin now.only[kind]
      <3>1. pc'[c] = "rejected"
        BY <1>3, <1>7, <2>5 DEF ReadAny, kind, Goto, TypeInv, TypeOK, Handler
      <3>2. Refused(c)
        BY <1>2, <1>3, <2>5 DEF Refused
      <3>3. CheckOf(c)'
        BY <1>1, <1>3, <1>4, <1>5, <3>1, <3>2 DEF CheckOf, now
      <3>4. QED BY <1>1, <3>3, CheckGoes
    <2>6. QED BY <2>2, <2>3, <2>4, <2>5
  <1>8. CASE ReadMine(c)
    <2>1. pc[c] = "mine"
      BY <1>8 DEF ReadMine
    <2>2. CASE order[c].of[kind] \in now.only[kind]
      <3>1. NextKind(c)
        BY <1>3, <1>8, <2>2 DEF ReadMine, kind
      <3>2. Granted(c, at[c])
        BY <1>3, <2>2 DEF Granted, Permits, kind
      <3>3. QED BY <1>1, <1>2, <2>1, <3>1, <3>2, NextGranted, CheckGoes
    <2>3. CASE order[c].of[kind] \notin now.only[kind]
      <3>1. pc'[c] = "rejected"
        BY <1>3, <1>8, <2>3 DEF ReadMine, kind, Goto, TypeInv, TypeOK, Handler
      <3>2. \E v \in versions[c] : v.only[kind] # {}
        BY <1>2, <2>1 DEF CheckOf, kind
      <3>3. Refused(c)
        BY <1>2, <1>3, <2>3, <3>2 DEF Refused
      <3>4. CheckOf(c)'
        BY <1>1, <1>3, <1>4, <1>5, <3>1, <3>3 DEF CheckOf, now
      <3>5. QED BY <1>1, <3>4, CheckGoes
    <2>4. QED BY <2>2, <2>3
  <1>9. QED BY <1>6, <1>7, <1>8 DEF CheckStep

LEMMA CheckNext == TypeInv /\ CheckInv /\ [Next]_vars => CheckInv'
  <1> SUFFICES ASSUME TypeInv, CheckInv, [Next]_vars PROVE CheckInv'
    OBVIOUS
  <1>1. ASSUME NEW u \in Uploader, Commit(u) PROVE CheckInv'
    <2>1. \A c \in Checker : pc'[c] = pc[c]
      BY <1>1 DEF Commit, End, TypeInv, TypeOK, Handler
    <2>2. QED BY <1>1, <2>1, CheckCommitted DEF Commit
  <1>2. ASSUME NEW r \in Referrer, CommitReferral(r) PROVE CheckInv'
    BY <1>2, CheckCommitted DEF CommitReferral
  <1>3. ASSUME NEW c \in Checker, BeginCheck(c) \/ CheckStep(c) PROVE CheckInv'
    BY <1>3, CheckBegins, CheckStepKeeps
  <1>4. ASSUME NEW u \in Uploader \cup ValueUploader,
               \/ BeginUpload(u) /\ u \in Uploader
               \/ BeginValueUpload(u) /\ u \in ValueUploader
               \/ \E k \in Key : Lock(u, k)
               \/ Overwrite(u) \/ OverwriteValues(u) \/ CommitValues(u) \/ FailUpload(u) \/ AbortUpload(u)
        PROVE CheckInv'
    <2>1. /\ UNCHANGED <<coupons, permits, order, at, versions>>
          /\ \A c \in Checker : pc'[c] = pc[c]
      BY <1>4
      DEF BeginUpload, BeginValueUpload, Lock, Overwrite, OverwriteValues, CommitValues, FailUpload,
          AbortUpload, Rollback, End, checkVars, TypeInv, TypeOK, Handler
    <2>2. QED BY <2>1, CheckQuiet
  <1>5. ASSUME NEW r \in Referrer,
               \/ Ask(r) \/ FindReferral(r) \/ FindNoReferral(r) \/ DrawName(r) \/ Insert(r)
               \/ InsertFails(r) \/ FailReferral(r)
        PROVE CheckInv'
    BY <1>5, CheckQuiet
    DEF Ask, FindReferral, FindNoReferral, DrawName, Insert, InsertFails, FailReferral, otherVars, checkVars
  <1>6. CASE UNCHANGED vars
    BY <1>6, CheckQuiet DEF vars, bulkVars
  <1>7. QED
    BY <1>1, <1>2, <1>3, <1>4, <1>5, <1>6 DEF Next, BulkNext, UploadStep, ValueUploadStep, ReferralStep

LEMMA CheckInit == Init => CheckInv
  BY DEF Init, BulkInit, CheckInv, CheckOf, Handler

LEMMA CheckAlways == Spec => [](TypeInv /\ CheckInv)
  <1>1. Init => TypeInv /\ CheckInv
    BY TypeInit, CheckInit
  <1>2. TypeInv /\ CheckInv /\ [Next]_vars => (TypeInv /\ CheckInv)'
    BY TypeNext, CheckNext
  <1>3. QED BY <1>1, <1>2, PTL DEF Spec

(* Nobody gets through the gap between the deletion and the insertion of    *)
(* permits: an accepted order had each permission from some version that    *)
(* was committed during the check.                                          *)
THEOREM AcceptedByVersions == Spec => []AcceptedBySomeVersion
  <1>1. CheckInv => AcceptedBySomeVersion
    <2> SUFFICES ASSUME CheckInv, NEW c \in Checker, pc[c] = "accepted"
                 PROVE  /\ \E v \in versions[c] : v.active
                        /\ \A kind \in Kind : \E v \in versions[c] : Permits(v, kind, order[c].of[kind])
      BY DEF AcceptedBySomeVersion
    <2>1. CheckOf(c)
      BY DEF CheckInv
    <2>2. QED BY <2>1, KindOf DEF CheckOf, Granted
  <1>2. QED BY <1>1, CheckAlways, PTL

(* A check that no commit disturbs decides what the tables say.             *)
THEOREM QuietChecksAreExact == Spec => []QuietCheckExact
  <1>1. CheckInv => QuietCheckExact
    <2> SUFFICES ASSUME CheckInv, NEW c \in Checker, NEW v \in versions[c], versions[c] = {v}
                 PROVE  LET permitted == v.active /\ \A kind \in Kind : Permits(v, kind, order[c].of[kind])
                        IN  (pc[c] = "accepted" => permitted) /\ (pc[c] = "rejected" => ~permitted)
      BY DEF QuietCheckExact
    <2>1. CheckOf(c)
      BY DEF CheckInv
    <2>2. ASSUME pc[c] = "accepted" PROVE v.active /\ \A kind \in Kind : Permits(v, kind, order[c].of[kind])
      BY <2>1, <2>2, KindOf DEF CheckOf, Granted
    <2>3. ASSUME pc[c] = "rejected"
          PROVE  ~(v.active /\ \A kind \in Kind : Permits(v, kind, order[c].of[kind]))
      BY <2>1, <2>3 DEF CheckOf, Refused, Permits
    <2>4. QED BY <2>2, <2>3
  <1>2. QED BY <1>1, CheckAlways, PTL

-----------------------------------------------------------------------------
(* Deadlocks.  An upload takes its locks in the order of its records: what   *)
(* it has is before all it still waits for.                                  *)

OrderOf(u) ==
  /\ pc[u] = "idle" => Locked(u) = {}
  /\ pc[u] = "lock" =>
       /\ todo[u] \subseteq UploadKeys(request[u])
       /\ Locked(u) \subseteq UploadKeys(request[u])
       /\ \A k \in Locked(u), j \in todo[u] : Position(request[u], k) < Position(request[u], j)

OrderInv == \A u \in Uploader : OrderOf(u)

LEMMA PositionOf ==
  ASSUME NEW req \in CouponRequests
  PROVE  \A k \in UploadKeys(req) :
           Position(req, k) \in Nat /\ NameOf(req[Position(req, k)]) = k
  <1>1. Upserted(req) \subseteq Nat
    BY DEF Upserted
  <1>2. ASSUME NEW k \in UploadKeys(req)
        PROVE  Position(req, k) \in Upserted(req) /\ NameOf(req[Position(req, k)]) = k
    <2>1. \E i \in Upserted(req) : NameOf(req[i]) = k
      BY DEF UploadKeys
    <2>2. QED BY <2>1 DEF Position
  <1>3. QED BY <1>1, <1>2

LEMMA OrderStays ==
  ASSUME NEW u, OrderOf(u), pc'[u] = pc[u], request'[u] = request[u], todo'[u] = todo[u],
         Locked(u)' = Locked(u)
  PROVE  OrderOf(u)'
  BY DEF OrderOf

LEMMA OrderEnd ==
  ASSUME TableInv, OrderInv, NEW u \in Uploader \cup ValueUploader, End(u)
  PROVE  OrderInv'
  <1> SUFFICES ASSUME NEW v \in Uploader PROVE OrderOf(v)'
    BY DEF OrderInv
  <1>1. lock' = Released(u) /\ v # Null
    BY DEF End
  <1>2. CASE v = u
    <2>1. pc'[v] = "idle"
      BY <1>2 DEF End, TableInv, TypeInv, TypeOK, Handler
    <2>2. Locked(v)' = {}
      BY <1>1, <1>2 DEF Locked, Released
    <2>3. QED BY <2>1, <2>2 DEF OrderOf
  <1>3. CASE v # u
    <2>1. pc'[v] = pc[v] /\ request'[v] = request[v] /\ todo'[v] = todo[v]
      BY <1>3 DEF End, TableInv, TypeInv, TypeOK, Handler
    <2>2. Locked(v)' = Locked(v)
      BY <1>1, <1>3, OthersKeepLocks DEF Locked
    <2>3. QED BY <2>1, <2>2, OrderStays DEF OrderInv
  <1>4. QED BY <1>2, <1>3

LEMMA OrderLock ==
  ASSUME TableInv, OrderInv, NEW u \in Uploader \cup ValueUploader, NEW k \in Key, Lock(u, k)
  PROVE  OrderInv'
  <1> SUFFICES ASSUME NEW v \in Uploader PROVE OrderOf(v)'
    BY DEF OrderInv
  <1>1. /\ pc[u] = "lock" /\ k \in NextToLock(u) /\ lock[k] = Null
        /\ lock' = [lock EXCEPT ![k] = u] /\ todo' = [todo EXCEPT ![u] = @ \ {k}]
        /\ UNCHANGED <<pc, request>> /\ v # Null
    BY DEF Lock
  <1>2. lock'[k] = u /\ \A j \in Key \ {k} : lock'[j] = lock[j]
    BY <1>1 DEF TableInv, TypeInv, TypeOK
  <1>3. CASE v # u
    <2>1. todo'[v] = todo[v]
      BY <1>1, <1>3 DEF TableInv, TypeInv, TypeOK
    <2>2. Locked(v)' = Locked(v)
      BY <1>1, <1>2, <1>3 DEF Locked
    <2>3. QED BY <1>1, <2>1, <2>2, OrderStays DEF OrderInv
  <1>4. CASE v = u
    <2>1. todo'[u] = todo[u] \ {k} /\ Locked(u)' = Locked(u) \cup {k}
      BY <1>1, <1>2 DEF Locked, TableInv, TypeInv, TypeOK
    <2>2. /\ todo[u] \subseteq UploadKeys(request[u]) /\ Locked(u) \subseteq UploadKeys(request[u])
          /\ \A i \in Locked(u), j \in todo[u] : Position(request[u], i) < Position(request[u], j)
      BY <1>1, <1>4 DEF OrderInv, OrderOf
    <2>3. k \in todo[u] /\ \A j \in todo[u] : Position(request[u], k) <= Position(request[u], j)
      BY <1>1, <1>4 DEF NextToLock
    <2>4. request[u] \in CouponRequests
      BY <1>1, <1>4 DEF TableInv, TypeInv, CallInv
    <2>5. ASSUME NEW j \in todo[u] \ {k} PROVE Position(request[u], k) < Position(request[u], j)
      <3>1. /\ Position(request[u], k) \in Nat /\ Position(request[u], j) \in Nat
            /\ Position(request[u], k) # Position(request[u], j)
        BY <2>2, <2>3, <2>4, PositionOf
      <3>2. QED BY <2>3, <3>1
    <2>6. request' = request /\ pc'[u] = "lock"
      BY <1>1
    <2>7. QED BY <1>4, <2>1, <2>2, <2>3, <2>5, <2>6 DEF OrderOf
  <1>5. QED BY <1>3, <1>4

(* A step that leaves every lock and every upload, or moves one uploader on. *)
LEMMA OrderKept ==
  ASSUME OrderInv, UNCHANGED lock,
         \A u \in Uploader : /\ pc'[u] = pc[u] \/ pc'[u] = "overwritten"
                             /\ request'[u] = request[u] /\ todo'[u] = todo[u]
  PROVE  OrderInv'
  <1> SUFFICES ASSUME NEW u \in Uploader PROVE OrderOf(u)'
    BY DEF OrderInv
  <1>1. Locked(u)' = Locked(u)
    BY DEF Locked
  <1>2. CASE pc'[u] = "overwritten"
    BY <1>2 DEF OrderOf
  <1>3. CASE pc'[u] = pc[u]
    BY <1>1, <1>3, OrderStays DEF OrderInv
  <1>4. QED BY <1>2, <1>3

LEMMA OrderBegin ==
  ASSUME TableInv, OrderInv, NEW u \in Uploader, BeginUpload(u)
  PROVE  OrderInv'
  <1> SUFFICES ASSUME NEW v \in Uploader PROVE OrderOf(v)'
    BY DEF OrderInv
  <1>1. PICK req \in CouponRequests : /\ request' = [request EXCEPT ![u] = req]
                                      /\ todo' = [todo EXCEPT ![u] = UploadKeys(req)]
    BY DEF BeginUpload
  <1>2. pc[u] = "idle" /\ pc' = [pc EXCEPT ![u] = "lock"] /\ UNCHANGED lock
    BY DEF BeginUpload
  <1>3. Locked(v)' = Locked(v)
    BY <1>2 DEF Locked
  <1>4. CASE v # u
    <2>1. pc'[v] = pc[v] /\ request'[v] = request[v] /\ todo'[v] = todo[v]
      BY <1>1, <1>2, <1>4 DEF TableInv, TypeInv, TypeOK, Handler
    <2>2. QED BY <1>3, <2>1, OrderStays DEF OrderInv
  <1>5. CASE v = u
    <2>1. pc'[v] = "lock" /\ request'[v] = req /\ todo'[v] = UploadKeys(req)
      BY <1>1, <1>2, <1>5 DEF TableInv, TypeInv, TypeOK, Handler
    <2>2. Locked(v)' = {}
      BY <1>2, <1>3, <1>5 DEF OrderInv, OrderOf
    <2>3. QED BY <2>1, <2>2 DEF OrderOf
  <1>6. QED BY <1>4, <1>5

LEMMA OrderReferral ==
  ASSUME TableInv, OrderInv, NEW r \in Referrer, Ask(r) \/ ReferralStep(r) \/ FailReferral(r)
  PROVE  OrderInv'
  <1>1. UNCHANGED <<pc, request, todo>>
    BY DEF Ask, ReferralStep, FailReferral, FindReferral, FindNoReferral, DrawName, Insert,
           InsertFails, CommitReferral, otherVars
  <1>2. CASE UNCHANGED lock
    BY <1>1, <1>2, OrderKept
  <1>3. ASSUME \A v \in Uploader : Locked(v)' = Locked(v) PROVE OrderInv'
    BY <1>1, <1>3, OrderStays DEF OrderInv
  <1>4. CASE Insert(r)
    <2>1. /\ picked[r] \in Key /\ lock[picked[r]] = Null
          /\ lock' = [lock EXCEPT ![picked[r]] = r]
      BY <1>4 DEF Insert, TableInv, TypeInv, CallInv
    <2>2. \A v \in Uploader : Locked(v)' = Locked(v)
      BY <2>1 DEF Locked, TableInv, TypeInv, TypeOK
    <2>3. QED BY <1>3, <2>2
  <1>5. CASE lock' = Released(r)
    <2>1. \A v \in Uploader : Locked(v)' = Locked(v)
      BY <1>5, OthersKeepLocks DEF Locked
    <2>2. QED BY <1>3, <2>1
  <1>6. QED
    BY <1>2, <1>4, <1>5
    DEF Ask, ReferralStep, FailReferral, FindReferral, FindNoReferral, DrawName,
        InsertFails, CommitReferral, otherVars

LEMMA OrderNext == TableInv /\ OrderInv /\ [Next]_vars => OrderInv'
  <1> SUFFICES ASSUME TableInv, OrderInv, [Next]_vars PROVE OrderInv'
    OBVIOUS
  <1>1. ASSUME NEW u \in Uploader, BeginUpload(u) PROVE OrderInv'
    BY <1>1, OrderBegin
  <1>2. ASSUME NEW u \in Uploader \cup ValueUploader, NEW k \in Key, Lock(u, k) PROVE OrderInv'
    BY <1>2, OrderLock
  <1>3. ASSUME NEW u \in Uploader \cup ValueUploader,
               Commit(u) \/ CommitValues(u) \/ FailUpload(u) \/ AbortUpload(u)
        PROVE  OrderInv'
    BY <1>3, OrderEnd DEF Commit, CommitValues, FailUpload, AbortUpload, Rollback
  <1>4. ASSUME NEW u \in Uploader \cup ValueUploader,
               \/ Overwrite(u) \/ OverwriteValues(u)
               \/ u \in ValueUploader /\ BeginValueUpload(u)
        PROVE  OrderInv'
    BY <1>4, OrderKept
    DEF Overwrite, OverwriteValues, BeginValueUpload, TableInv, TypeInv, TypeOK, Handler
  <1>5. ASSUME NEW c \in Checker, BeginCheck(c) \/ CheckStep(c) PROVE OrderInv'
    BY <1>5, OrderKept
    DEF BeginCheck, CheckStep, ReadCoupon, ReadAny, ReadMine, NextKind, Goto,
        TableInv, TypeInv, TypeOK, Handler
  <1>6. CASE UNCHANGED vars
    BY <1>6, OrderKept DEF vars, bulkVars
  <1>7. QED
    BY <1>1, <1>2, <1>3, <1>4, <1>5, <1>6, OrderReferral
    DEF Next, BulkNext, UploadStep, ValueUploadStep

LEMMA LeastOf ==
  ASSUME NEW M \in SUBSET Nat, M # {}
  PROVE  \E n \in M : \A m \in M : n <= m
  <1>1. \E n \in M : \A m \in M : <<m, n>> \notin OpToRel(<, Nat)
    BY NatLessThanWellFounded, WFMin
  <1>2. \A m, n \in Nat : <<m, n>> \notin OpToRel(<, Nat) => n <= m
    BY DEF OpToRel
  <1>3. QED BY <1>1, <1>2

(* Who has something to lock waits for something.                            *)
LEMMA SomethingNext ==
  ASSUME TableInv, OrderInv, NEW u \in Uploader \cup ValueUploader, pc[u] = "lock", todo[u] # {}
  PROVE  NextToLock(u) # {} /\ NextToLock(u) \subseteq todo[u]
  <1>1. CASE u \notin Uploader
    BY <1>1 DEF NextToLock
  <1>2. CASE u \in Uploader
    <2> DEFINE Places == {n \in Nat : \E k \in todo[u] : Position(request[u], k) = n}
    <2>1. request[u] \in CouponRequests /\ todo[u] \subseteq UploadKeys(request[u])
      BY <1>2 DEF OrderInv, OrderOf, TableInv, TypeInv, CallInv
    <2>2. \A k \in todo[u] : Position(request[u], k) \in Nat
      BY <2>1, PositionOf
    <2>3. Places # {} /\ Places \in SUBSET Nat
      BY <2>2
    <2>4. PICK n \in Places : \A m \in Places : n <= m
      <3> HIDE DEF Places
      <3> QED BY <2>3, LeastOf
    <2>5. PICK k \in todo[u] : Position(request[u], k) = n
      OBVIOUS
    <2>6. \A j \in todo[u] : Position(request[u], k) <= Position(request[u], j)
      BY <2>2, <2>4, <2>5
    <2>7. QED BY <1>2, <2>6 DEF NextToLock
  <1>3. QED BY <1>1, <1>2

(* What an upload has is ranked before what it waits for.                    *)
LEMMA RankedBefore ==
  ASSUME TableInv, OrderInv, NEW u \in Uploader \cup ValueUploader, pc[u] = "lock",
         NEW rank \in [Key -> 1..Cardinality(Key)], Agrees(rank, u),
         NEW k \in Locked(u), NEW j \in todo[u], lock[j] # u
  PROVE  rank[k] < rank[j]
  <1> DEFINE mine == todo[u] \cup Locked(u)
  <1>1. k \in mine /\ j \in mine /\ k # j
    BY DEF Locked
  <1>2. CASE u \in Uploader
    <2>1. Position(request[u], k) < Position(request[u], j)
      BY <1>2 DEF OrderInv, OrderOf
    <2>2. QED BY <1>1, <1>2, <2>1 DEF Agrees
  <1>3. CASE u \notin Uploader
    <2>1. mine \subseteq Key
      BY DEF Locked, TableInv, TypeInv, TypeOK
    <2>2. IsFiniteSet(mine) /\ Cardinality(mine) <= 1
      BY <1>3, <2>1, FS_Subset DEF Agrees
    <2> HIDE DEF mine
    <2>3. IsFiniteSet(mine \ {k}) /\ Cardinality(mine \ {k}) = Cardinality(mine) - 1
      BY <1>1, <2>2, FS_RemoveElement
    <2>4. Cardinality(mine) \in Nat /\ Cardinality(mine \ {k}) \in Nat
      BY <2>2, <2>3, FS_CardinalityType
    <2>5. Cardinality(mine \ {k}) = 0
      BY <2>2, <2>3, <2>4
    <2>6. mine \ {k} = {}
      BY <2>3, <2>5, FS_EmptySet
    <2>7. QED BY <1>1, <2>6
  <1>4. QED BY <1>2, <1>3

(* In a circle, take the coupon of the highest rank that somebody waits for: *)
(* who holds it waits for one of a higher rank.                              *)
LEMMA NoCircle ==
  ASSUME TableInv, OrderInv, NEW u \in Uploader \cup ValueUploader, Deadlocked(u),
         NEW rank \in [Key -> 1..Cardinality(Key)],
         \A v \in Uploader \cup ValueUploader : pc[v] # "idle" => Agrees(rank, v)
  PROVE  FALSE
  <1>1. PICK circle \in SUBSET (Uploader \cup ValueUploader) :
          /\ u \in circle
          /\ \A w \in circle : /\ pc[w] = "lock" /\ todo[w] # {}
                                /\ \A k \in NextToLock(w) : lock[k] \in circle \ {w}
    BY DEF Deadlocked
  <1> DEFINE Awaited == UNION {NextToLock(w) : w \in circle}
             top == Cardinality(Key)
             Below == {top - rank[k] : k \in Awaited}
  <1>2. \A w \in circle : NextToLock(w) # {} /\ NextToLock(w) \subseteq todo[w] /\ todo[w] \subseteq Key
    <2>1. \A w \in circle : todo[w] \subseteq Key
      BY DEF TableInv, TypeInv, TypeOK
    <2>2. QED BY <1>1, <2>1, SomethingNext
  <1>3. Awaited # {} /\ Awaited \subseteq Key
    BY <1>1, <1>2
  <1>4. top \in Nat
    BY FS_CardinalityType
  <1>5. Below # {} /\ Below \in SUBSET Nat
    BY <1>3, <1>4
  <1>6. PICK n \in Below : \A m \in Below : n <= m
    <2> HIDE DEF Below
    <2> QED BY <1>5, LeastOf
  <1>7. PICK k \in Awaited : n = top - rank[k]
    OBVIOUS
  <1>8. PICK w \in circle : k \in NextToLock(w)
    OBVIOUS
  <1> DEFINE holder == lock[k]
  <1>9. holder \in circle /\ k \in Locked(holder)
    BY <1>1, <1>3, <1>8 DEF Locked
  <1>10. PICK j \in NextToLock(holder) : TRUE
    BY <1>2, <1>9
  <1>11. j \in todo[holder] /\ lock[j] # holder /\ j \in Awaited
    BY <1>1, <1>2, <1>9
  <1>12. rank[k] < rank[j]
    <2>1. pc[holder] = "lock" /\ Agrees(rank, holder)
      BY <1>1, <1>9
    <2> HIDE DEF holder
    <2>2. QED BY <1>9, <1>11, <2>1, RankedBefore
  <1>13. top - rank[j] \in Below
    BY <1>11
  <1>14. n <= top - rank[j]
    BY <1>6, <1>13
  <1>15. rank[k] \in Nat /\ rank[j] \in Nat
    BY <1>3, <1>11
  <1>16. QED BY <1>4, <1>7, <1>12, <1>14, <1>15

(* Uploads whose lists agree on one order of the coupons are never aborted   *)
(* by the database for a deadlock (save_coupons, save_coupon_values).        *)
THEOREM SortedUploadsNeverDeadlock == Spec => []DeadlockNeedsDisorder
  <1>1. Init => TableInv /\ OrderInv
    <2>1. Init => OrderInv
      BY DEF Init, BulkInit, OrderInv, OrderOf, Locked, Handler
    <2>2. QED BY <2>1, TableInit
  <1>2. TableInv /\ OrderInv /\ [Next]_vars => (TableInv /\ OrderInv)'
    BY TableNext, OrderNext
  <1>3. TableInv /\ OrderInv => DeadlockNeedsDisorder
    BY NoCircle DEF DeadlockNeedsDisorder
  <1>4. QED BY <1>1, <1>2, <1>3, PTL DEF Spec
=============================================================================
