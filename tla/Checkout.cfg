SPECIFICATION Spec
CONSTANTS
    u1 = u1
    l1 = l1
    l2 = l2
    Users = {u1}
    Requests = {r1, r2}
    Lines = {l1, l2}
    UserOf <- MCUserOf
    OwnerOf <- MCOwnerOf
    PriceUsd <- MCPriceUsd
    PriceLocal <- MCPriceLocal
    Thresholds = {0, 1}
    KafkaEnabled = TRUE
SYMMETRY MCSymmetry
INVARIANTS
    TypeOK
    ShippedWasPaid
    StatusTellsFate
    AnnouncedWasShipped
    PaidPassedCheck
    NoSecondOrder
PROPERTIES LedgerSpec
CHECK_DEADLOCK FALSE
