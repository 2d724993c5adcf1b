SPECIFICATION Spec
CONSTANTS
    d1 = d1
    d2 = d2
    u1 = u1
    u2 = u2
    e1 = e1
    e2 = e2
    None = None
    Department = {d1, d2}
    User = {u1, u2}
    Device = {e1, e2}
    Code = {1, 2}
    ListLimit = 1
    Seed <- MCSeed
    Request = {q1, q2}
    MaxRequests = 2
CHECK_DEADLOCK FALSE
SYMMETRY Interchangeable
INVARIANTS TypeOK CirclesNeedEdits
PROPERTY SavesWhatWasMeant
