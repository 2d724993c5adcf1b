SPECIFICATION Spec
CONSTANTS
    mgr = mgr
    adm = adm
    mute = mute
    mgrMail = mgrMail
    admMail = admMail
    NoEmail = NoEmail
    Summary = Summary
    Event = {e1}
    Channel = {c1}
    Person = {adm}
    EmailOf <- MCEmailOf
    Limits = {2}
    Configs = {{c1}}
    DueDays = {0}
    SecondsPerDay = 2
    Retention = 1
    RunsApart = FALSE
    MaxTime = 1
    MaxRow = 3
    MaxInterrupts = 1
INVARIANT NeverResendsSuperseded
