SPECIFICATION DigestSpec
CONSTANTS
    Requests = {r1, r2}
    MaxDays = 2
    MaxStops = 1
    MaxDbFaults = 1
INVARIANTS
    PlainDaysHaveDigest
    ReportsAreTrue
CHECK_DEADLOCK FALSE
