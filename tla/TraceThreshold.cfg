SPECIFICATION Spec
CONSTANTS
    t1 = t1
    t2 = t2
    t3 = t3
    Services = {"checkout", "frontend"}
    Traces = {t1, t2, t3}
    ServiceOf <- MCServiceOf
    TimeWindow = 2
    ErrorThreshold = 2
    MaxTime = 4
    MaxHanded = 2
INVARIANTS ErrorsTriggerIncident
CHECK_DEADLOCK FALSE
