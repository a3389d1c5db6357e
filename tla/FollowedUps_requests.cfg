SPECIFICATION Spec
CONSTANTS
    Keys = {k1, k2}
    Bilibili = {k1}
    Clients = {c1, c2}
    Limit = 2
    MaxRows = 3
    MaxFaults = 1
INVARIANTS
    LimitSlack
    DuplicatesOverlap
