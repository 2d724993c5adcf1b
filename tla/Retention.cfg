SPECIFICATION FairSpec
CONSTANTS
    i1 = i1
    None = None
    Unsent = Unsent
    Unset = Unset
    Bad = Bad
    Raw = {r1}
    Import = {i1}
    Audit = {a1}
    Notification = {n1}
    Parent <- MCParent
    Default <- MCDefault
    Seed <- MCSeed
    Days = {2, 7}
    Half = 4
    MaxDay = 2
    MaxChanges = 1
    MaxFailures = 1
 
PROPERTIES OnlyExpired DryRunForetells ExpiredGoes
