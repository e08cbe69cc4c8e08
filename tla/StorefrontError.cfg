SPECIFICATION Spec
CONSTANTS
    a1 = a1
    e1 = e1
    o1 = o1
    o2 = o2
    usd = usd
    eur = eur
    Adds = {a1}
    Clears = {e1}
    Orders = {o1, o2}
    Currencies = {usd, eur}
    Sessions <- MCSessions
    Other = other
    NoOrder = none
INVARIANTS
    ErrorMeansNotPlaced
CHECK_DEADLOCK FALSE
