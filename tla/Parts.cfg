SPECIFICATION MCSpec
CONSTANTS
    NanosMod = 10
    Int32Half = 21
    Currencies = {"USD"}
    Unspecified = "none"
    UserCurrency = "USD"
    Prices <- MCPrices
    MaxItems = 2
    MaxQuantity = 4
    MaxUnits = 2
    MaxNanos = 11
    Schema <- MCSchema
    Payloads <- MCPayloads
    MaxSafe = 5
    Strings = {"", "a"}
    t1 = t1
    t2 = t2
    t3 = t3
    Services = {"checkout", "frontend"}
    Traces = {t1, t2, t3}
    ServiceOf <- MCServiceOf
    TimeWindow = 2
    ErrorThreshold = 2
    MonitorTime = 4
    MaxHanded = 2
    FailureWindow = 3
    FailureThreshold = 2
    Cooldown = 1
    DetectorTime = 3
    MaxFailures = 4
    page1 = page1
    page2 = page2
    f1 = f1
    f2 = f2
    BasicPages = {page1}
    AdvancedPages = {page2}
    Flags = {f1, f2}
    Typed <- MCTyped
    MaxWrites = 2
    Null = Null
    Damaged = Damaged
    Error = Error
    Unusable = Unusable
    NoRead = NoRead
    Asked = Asked
    MaxRecords = 3
    MaxStops = 1
    r1 = r1
    r2 = r2
    r3 = r3
    Requests = {r1, r2, r3}
INVARIANTS
    TotalExact
    PanicOnlyOnFractions
    ShownTotal
    SumIsExact
    ArrivesAsSent
    ReportedWhenDue
    FlagsSurvive
    SkippedOnlyWhenStopped
    NoWorkersWhileOff
CHECK_DEADLOCK FALSE
