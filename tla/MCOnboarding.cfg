SPECIFICATION Spec
CONSTANTS
    Workers = {w1, w2}
    Docs = {d1, d2, d3}
    Group = {d1, d2}
    Unlike = {d1}
    Alike = {d3}
    Old = {d1, d3}
    Ids = {x1, x2}
    Current = 2
    Capacity = 1
    Retention = 1
    BatchSize = 1
    Absent = Absent
    Nobody = Nobody
    MaxCalls = 3
    MaxFaults = 1
    MaxTicks = 1
SYMMETRY Symmetric
INVARIANTS
    KeyOpensProject
    GroupComplete
    StatusHonest
    AdmissionBounded
CHECK_DEADLOCK FALSE
