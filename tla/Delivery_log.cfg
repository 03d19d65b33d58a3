\* The log exporter and the log receiver on D1.
SPECIFICATION DeliverySpec
CONSTANTS
    Cap = 2
    AutoFlush = 2
    SpanExporter = FALSE
    MaxItems = 4
    MaxFailures = 2
    Requests = {q1, q2}
    MaxPerRequest = 2
    Idempotent = FALSE
    SharedStatement = FALSE
    MaxStoreFaults = 1
INVARIANTS TypeOK SingleFlight Accounting OrderKept DropsOldest CopiesBounded
PROPERTIES EventuallyLeaves ImplementsAtLeastOnce
