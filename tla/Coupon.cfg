SPECIFICATION Spec
CONSTANTS
    Codes = {save20, freedelivery}
    Hours <- const_Hours
    MaxStock = 3
    MaxTime = 2
INVARIANT TypeOK
INVARIANT StockConserved
PROPERTY ExpirationNeverShortened
PROPERTY ExhaustedIsCleared
