SPECIFICATION FairSpec
CONSTANTS
    mgr = mgr
    adm = adm
    mute = mute
    mgrMail = mgrMail
    admMail = admMail
    NoEmail = NoEmail
    Summary = Summary
    Event = {e1}
    Channel = {c1, c2}
    Person = {adm}
    EmailOf <- MCEmailOf
    Limits = {1, 2}
    Configs = {{c1}, {c2}}
    DueDays = {0, 1}
    SecondsPerDay = 2
    Retention = 1
    RunsApart = FALSE
    MaxTime = 1
    MaxRow = 2
    MaxInterrupts = 1
PROPERTY FailedIsSettled
