SPECIFICATION Spec
CONSTANTS
    s1 = s1
    g1 = g1
    w1 = w1
    w2 = w2
    p1 = p1
    NoIncident = NoIncident
    Requests = {s1}
    Reports = {g1}
    Hooks = {w1, w2}
    Puts = {p1}
    ImprovedRates = {23}
PROPERTIES
    ImpactRaisesRate
