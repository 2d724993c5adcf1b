SPECIFICATION Spec
CONSTANTS
    l1 = l1
    l2 = l2
    article = article
    Dept = {old, new}
    User = {u}
    Device = {d}
    Account = {a}
    Product = {p}
    License = {l1, l2}
    Article <- MCArticle
    Request = {q1, q2}
    MaxRow = 2
    MaxRequests = 4
    None = None
CHECK_DEADLOCK FALSE
INVARIANTS ActiveOnce
PROPERTIES  MigrationLeavesConflictsOnly OnlySeenRowsAreRevoked 
SYMMETRY Interchangeable
