CONSTANTS
    Keys = {k1, k2}
    NoKey = NoKey
    Doubles <- MCDoubles
    MaxAttrs = 2
    MaxLists = 2
SPECIFICATION Spec
INVARIANT TypeOK
INVARIANT FindReturnsFirstMatch
INVARIANT MultiplierIsLastRatio
CHECK_DEADLOCK FALSE
