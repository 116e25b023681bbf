CONSTANTS
    Writers = {w1, w2}
    Keys = {k1, k2}
    Values = {v1, v2}
    NoValue = NoValue
    Torn = Torn
    Missing = Missing
    Guarded = TRUE

SPECIFICATION Spec
PROPERTY ImplementsAtomic
