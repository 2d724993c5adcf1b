SPECIFICATION Spec
CONSTANTS
    mgr = mgr
    adm = adm
    mute = mute
    mgrMail = mgrMail
    admMail = admMail
    NoEmail = NoEmail
    Summary = Summary
    Event = {e1}
    Channel = {c1}
    Person = {mgr, adm, mute}
    EmailOf <- MCEmailOf
    Limits = {1, 2}
    Configs = {{c1}}
    DueDays = {0}
    SecondsPerDay = 2
    Retention = 1
    RunsApart = TRUE
    MaxTime = 3
    MaxRow = 5
    MaxInterrupts = 1
INVARIANTS RecordsAreTrue DuplicateNeedsLapse GaveUpNotForgotten OneSummaryADay
PROPERTY EveryRecipientTried
CHECK_DEADLOCK FALSE
