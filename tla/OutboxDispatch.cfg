\* Three events, two workers, batches of two, every fault.
CONSTANTS
    e1 = e1   e2 = e2   e3 = e3   w1 = w1   w2 = w2
    Nothing = Nothing
    Events = {e1, e2, e3}
    Workers = {w1, w2}
    Limit = 2
    Faults = {"publish", "store", "stop"}
SPECIFICATION FairSpec
INVARIANTS
    TypeOK
    ClaimedOnce
PROPERTIES
    ReopenedOnlyIfUnsure
    EventsSettle
CHECK_DEADLOCK FALSE
