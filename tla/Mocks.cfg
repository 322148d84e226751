CONSTANTS
    platform = platform
    acct1 = acct1
    acct2 = acct2
    nothing = nothing
    half = half
    r1 = r1
    r2 = r2
    r3 = r3
    k1 = k1
    k2 = k2
    key = key
    none = none
SPECIFICATION MCSpec
INVARIANTS MoneyInv BillingInv MocksInv
CHECK_DEADLOCK FALSE
PROPERTIES BooksSettle RequestsEnd
