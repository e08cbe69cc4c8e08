SPECIFICATION Spec
CONSTANTS
    o1 = o1
    o2 = o2
    o3 = o3
    Orders = {o1, o2}
    Overloads = {0}
    Capacity = 1
PROPERTIES OffsetIsOwn
CHECK_DEADLOCK FALSE
