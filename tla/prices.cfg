SPECIFICATION Spec
CONSTANTS
    wine = wine
    beer = beer
    r1 = r1
    r2 = r2
    Null = Null
    Product = {wine, beer}
    Price = {1, 2}
    PricesOf <- MCPricesOf
    Baskets <- MCBaskets
    Reader = {r1, r2}
    TTL = 2
    Latency = 1
SYMMETRY Symmetry
INVARIANTS
    PriceNotStale
    KnownPricesReturned
