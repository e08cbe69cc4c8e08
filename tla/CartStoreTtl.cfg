SPECIFICATION Spec
CONSTANTS
    u1 = u1
    p1 = p1
    p2 = p2
    a1 = a1
    a2 = a2
    a3 = a3
    e1 = e1
    NoCart = NoCart
    NoUser = NoUser
    Users = {u1}
    Products = {p1, p2}
    Adds = {a1, a2, a3}
    Empties = {e1}
    UserOf <- MCUserOf
    ItemOf <- MCItemOf
    Together <- MCTogether
    TtlTicks = 1
INVARIANTS NoImmortalCart
CHECK_DEADLOCK FALSE
