SPECIFICATION Spec
CONSTANTS
    Undefined = Undefined
    Null = Null
    Epoch = Epoch
    None = None
    k1 = k1
    k2 = k2
    c1 = c1
    c2 = c2
    c3 = c3
    n1 = n1
    b1 = b1
    red = red
    day = day
    Skus = {k1, k2}
    Codes = {c1, c2, c3}
    Seasons = {n1}
    Values <- MCValues
    ProductDtos <- MCProductDtos
    StockDtos <- MCStockDtos
    Workers = {w1, w2}
    MaxMessages = 3
CHECK_DEADLOCK FALSE
INVARIANTS
    TypeOK
    ProductsNeverDeadlock
PROPERTIES
    NeverAPlaceholderAgain
    CatalogueAsInLedger
