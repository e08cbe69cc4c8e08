SPECIFICATION FairSpec
CONSTANTS
    o1 = o1
    o2 = o2
    o3 = o3
    Orders = {o1, o2, o3}
    Overloads = {0, 1}
    Capacity = 1
INVARIANTS
    TypeOK
    AnswersConserved
PROPERTIES
    AnsweredUnlessDrained
    AcceptedUnlessClogged
CHECK_DEADLOCK FALSE
