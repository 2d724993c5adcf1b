SPECIFICATION Spec
CONSTANTS
    u1 = u1
    u2 = u2
    k1 = k1
    k2 = k2
    k3 = k3
    k4 = k4
    q1 = q1
    q2 = q2
    dept = dept
    Nobody = Nobody
    Global = Global
    User = {u1, u2}
    Scope = {Global, dept}
    SessId = {k1, k2, k3, k4}
    Request = {q1, q2}
    MaxRole = 3
SYMMETRY Symmetry
INVARIANTS TypeOK DisabledSessionNeedsRace SessionIdsKeepTheirOwner
PROPERTY LastAdminFallsToAStaleActor
