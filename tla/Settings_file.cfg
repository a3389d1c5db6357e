SPECIFICATION Spec
CONSTANTS
    Procs = {server, sidecar}
    Desktop = {sidecar}
    Values = {d, v}
    Default = d
    MaxStops = 2
INVARIANTS
    AloneIsDurable
PROPERTIES
    ClearNeverReturns
