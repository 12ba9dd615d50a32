SPECIFICATION Spec
CONSTANTS
    Orders = {o1}
    Creates = {k1, k2}
    Customers = {c1, c2}
    AddressIds = {a1, a2, a3}
    Contents = {x, y}
    Offsets <- corners
    MaxAddresses = 1
    None = None
SYMMETRY alike
CHECK_DEADLOCK FALSE
INVARIANT TypeOK
INVARIANT PricedHasAddresses
INVARIANT MisquoteNeedsUpdate
INVARIANT LimitIsNearlyKept
