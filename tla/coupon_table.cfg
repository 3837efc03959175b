SPECIFICATION FairSpec
CONSTANTS
    a = a
    b = b
    c = c
    d = d
    u1 = u1
    u2 = u2
    w1 = w1
    w2 = w2
    c1 = c1
    r1 = r1
    r2 = r2
    ann = ann
    bob = bob
    Null = Null
    Uploader = {u1, u2}
    ValueUploader = {w1, w2}
    Checker = {c1}
    Referrer = {r1, r2}
    Customer = {ann, bob}
    Key = {a, b, c, d}
    Id = {1, 2, 3}
    Known <- MCKnown
    CouponRequests <- MCCouponRequests
    ValueRequests <- MCValueRequests
    Orders <- MCOrders
    InitialCoupons <- MCInitialCoupons
    MaxCalls = 3
INVARIANTS
    TypeOK
    Coherent
    ValuesFromOneUpload
    AcceptedBySomeVersion
    QuietCheckExact
    DeadlockNeedsDisorder
    ReferralsBounded
    PromisedNamesKept
PROPERTIES
    RequestsEnd
CHECK_DEADLOCK FALSE
