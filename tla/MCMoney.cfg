SPECIFICATION PriceSpec
CONSTANTS
    Texts <- MCTexts
    Decimals <- MCDecimals
    Value <- MCValue
    MinPlaces = 1
    MAX = 99
    Word = 512
    Limit = 1000
    MaxScale = 2
INVARIANTS
    DocumentedIsExact
    SolanaAgrees
CHECK_DEADLOCK FALSE
