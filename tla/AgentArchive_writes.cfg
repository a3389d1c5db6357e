SPECIFICATION Spec
CONSTANTS
    Agents = {a1, a2}
    Requests = {r1}
    Nobody = nobody
    Mac = TRUE
    MaxCalls = 2
INVARIANTS
    OutcomeIsExact
    CutOffHidesOneTool
    TaskLineStays
    TornIsReported
CHECK_DEADLOCK FALSE
