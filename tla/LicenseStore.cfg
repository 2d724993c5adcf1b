SPECIFICATION Spec
CONSTANTS
    l1 = l1
    l2 = l2
    d1 = d1
    d2 = d2
    q1 = q1
    q2 = q2
    sales = sales
    dev = dev
    other = other
    Stale = Stale
    None = None
    License = {l1, l2}
    Key = {sales, dev, other}
    Dir = {"a", "a_2", "b"}
    Candidates <- MCCandidates
    Doc = {d1, d2}
    Request = {q1, q2}
    MaxRequests = 4
SYMMETRY Symmetry
INVARIANTS StoredPathsHold DirsApart 
PROPERTY FilesNeverLost
