SPECIFICATION Spec
CONSTANTS
    u1 = u1
    l1 = l1
    l2 = l2
    Users = {u1}
    Requests = {r1}
    Lines = {l1, l2}
    UserOf <- MCUserOf
    OwnerOf <- MCOwnerOf
    PriceUsd <- MCPriceUsd
    PriceLocal <- MCPriceLocal
    Thresholds = {0, 1}
    KafkaEnabled = TRUE
SYMMETRY MCSymmetry
INVARIANTS NoItemAboveThreshold
CHECK_DEADLOCK FALSE
