SPECIFICATION Spec
CONSTANTS
    Hours = 2
    NoRecord = NoRecord
    Vendor = {v1, v2}
    Product = {p1, p2}
    Alias = {a1, a2}
    License = {l1}
    VendorName = {1, 2}
    ProductName = {x}
    AliasName = {y}
    Edition = {e}
    NoEdition = NoEdition
    WebType <- MCWebType
    FileType <- MCFileType
    FirstType = "installed"
    WebDefault <- MCWebDefault
    FileDefault <- MCFileDefault
    FirstDefault = "unknown"
    ListLimit = 1
    Request = {q1, q2}
    MaxRequests = 3
    MaxRecorded = 1
    New = New
    Gone = Gone
CHECK_DEADLOCK FALSE
SYMMETRY Interchangeable
INVARIANTS ReferencesHold KeysOnce 
PROPERTY FormsKeepTheRest
