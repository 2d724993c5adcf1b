------------------------------ MODULE Retention ------------------------------
(***************************************************************************)
(* appmgr-prune-logs and the settings page it depends on.                  *)
(*                                                                         *)
(* A run reads how many days each of four tables keeps its records, then   *)
(* deletes what is older, one statement per table and no transaction       *)
(* around them, while records arrive, days are changed and rows of         *)
(* app_settings are edited by hand.  A lock keeps runs apart (LockFile).   *)
(***************************************************************************)
EXTENDS Integers, FiniteSets

CONSTANTS
    Raw, Import,       \* raw_installations and import_logs, parents of the first
    Audit,             \* audit_logs
    Notification,      \* notifications
    Parent,            \* [Raw -> Import]: import_log_id
    Default,           \* [Table -> days kept when app_settings has no row]
    Seed,              \* [Table -> what app_settings holds at first]
    Days,              \* bound: the numbers that somebody enters
    Half,              \* AddDate wraps round: times are in -Half .. Half - 1
    MaxDay,            \* bound: the clock
    MaxChanges,        \* bound: settings changed, by whatever way
    MaxFailures,       \* bound: runs that do not come to their end
    None, Unsent, Unset, Bad

\* The tables, in the order in which their days are read.
Rank   == [raw |-> 1, import |-> 2, audit |-> 3, notification |-> 4]
Table  == DOMAIN Rank
Record == Raw \cup Import \cup Audit \cup Notification

Of(t) == CASE t = "raw"    -> Raw
           [] t = "import" -> Import
           [] t = "audit"  -> Audit
           [] OTHER        -> Notification

Time == 0 .. MaxDay

ASSUME RetentionAssumption ==
    /\ Parent \in [Raw -> Import]
    /\ Days \subseteq Nat \ {0}
    /\ Default \in [Table -> Nat \ {0}]
    /\ \A t \in Table : Default[t] <= Half
    /\ Seed \in [Table -> Days \cup {Bad, Unset}]
    /\ Half \in Nat /\ MaxDay \in Nat /\ MaxDay < Half
    /\ MaxChanges \in Nat /\ MaxFailures \in Nat
    /\ {None, Unsent, Unset, Bad} \cap Int = {}
    /\ None # Unsent /\ Unset # Bad
    /\ \A t, u \in Table : t # u => Of(t) \cap Of(u) = {}

VARIABLES
    clock,    \* the day
    stored,   \* [Record -> its day, Unsent, or None when there is no row]
    setting,  \* app_settings: [Table -> days, Bad or Unset]
    run,      \* the run in progress
    changes,  \* how many changes of settings
    failures, \* how many runs failed
    inForce   \* history: [Table -> days in force since the run began]

vars == <<clock, stored, setting, run, changes, failures, inForce>>

-----------------------------------------------------------------------------
Kept == Days \cup {Default[t] : t \in Table}

\* kept: the days read so far, 0 for those to read; now is read at the start.
Idle == [pc |-> "idle", dry |-> FALSE, now |-> 0, kept |-> [t \in Table |-> 0]]

Run == [pc : {"idle", "read"} \cup Table, dry : BOOLEAN, now : Time,
        kept : [Table -> Kept \cup {0}]]

Rows == {r \in Record : stored[r] # None}

TypeOK ==
    /\ clock \in Time
    /\ stored \in [Record -> Time \cup {None, Unsent}]
    /\ setting \in [Table -> Days \cup {Bad, Unset}]
    /\ run \in Run
    /\ run.now <= clock
    /\ changes \in 0 .. MaxChanges /\ failures \in 0 .. MaxFailures
    /\ inForce \in [Table -> SUBSET (Kept \cup {Bad})]

Init ==
    /\ clock = 0
    /\ stored = [r \in Record |-> None]
    /\ setting = Seed
    /\ run = Idle
    /\ changes = 0
    /\ failures = 0
    /\ inForce = [t \in Table |-> {}]

-----------------------------------------------------------------------------
(* Records arrive                                                          *)

Tick ==
    /\ clock < MaxDay
    /\ clock' = clock + 1
    /\ UNCHANGED <<stored, setting, run, changes, failures, inForce>>

\* The importers: a raw installation with the log of its import.
StoreImport(i) ==
    /\ stored[i] = None
    /\ stored' = [stored EXCEPT ![i] = clock]
    /\ UNCHANGED <<clock, setting, run, changes, failures, inForce>>

StoreRaw(r) ==
    /\ stored[r] = None
    /\ stored[Parent[r]] # None
    /\ stored' = [stored EXCEPT ![r] = clock]
    /\ UNCHANGED <<clock, setting, run, changes, failures, inForce>>

\* Every handler that records what it did.
StoreAudit(a) ==
    /\ stored[a] = None
    /\ stored' = [stored EXCEPT ![a] = clock]
    /\ UNCHANGED <<clock, setting, run, changes, failures, inForce>>

\* sent_at is set when the notification went out.
Notify(n) ==
    /\ stored[n] = None
    /\ stored' = [stored EXCEPT ![n] = Unsent]
    /\ UNCHANGED <<clock, setting, run, changes, failures, inForce>>

Sent(n) ==
    /\ stored[n] = Unsent
    /\ stored' = [stored EXCEPT ![n] = clock]
    /\ UNCHANGED <<clock, setting, run, changes, failures, inForce>>

-----------------------------------------------------------------------------
(* The settings page                                                       *)

InForce(t, value) == IF value = Unset THEN Default[t] ELSE value

Change(t, value) ==
    /\ changes < MaxChanges
    /\ changes' = changes + 1
    /\ setting' = [setting EXCEPT ![t] = value]
    /\ inForce' = IF run = Idle THEN inForce
                  ELSE [inForce EXCEPT ![t] = @ \cup {InForce(t, value)}]
    /\ UNCHANGED <<clock, run, failures>>

\* The row and its audit record are written in one transaction.
Recorded ==
    \E a \in Audit : stored[a] = None /\ stored' = [stored EXCEPT ![a] = clock]

\* Any number of days that is a positive int.
Update(t) ==
    /\ \E d \in Days : Change(t, d)
    /\ Recorded

Reset(t) ==
    /\ setting[t] # Unset
    /\ Change(t, Unset)
    /\ Recorded

\* By hand, past the page: no number, or none above zero.
Meddle(t) ==
    /\ Change(t, Bad)
    /\ UNCHANGED stored

-----------------------------------------------------------------------------
(* A run                                                                   *)

Start(dry) ==
    /\ run = Idle
    /\ run' = [Idle EXCEPT !.pc = "read", !.now = clock, !.dry = dry]
    /\ inForce' = [t \in Table |-> {InForce(t, setting[t])}]
    /\ UNCHANGED <<clock, stored, setting, changes, failures>>

End == run' = Idle /\ inForce' = [t \in Table |-> {}]

Reads(t) == run.pc = "read" /\ \A u \in Table : run.kept[u] # 0 <=> Rank[u] < Rank[t]

\* A variant with a bug: a value that does not parse is taken for the default.
ResolveLenient(t) ==
    /\ Reads(t)
    /\ run' = [run EXCEPT !.kept[t] = IF setting[t] = Bad THEN Default[t]
                                      ELSE InForce(t, setting[t])]
    /\ UNCHANGED <<clock, stored, setting, changes, failures, inForce>>

\* resolveRetentionDays
Resolve(t) ==
    /\ Reads(t)
    /\ setting[t] # Bad
    /\ run' = [run EXCEPT !.kept[t] = InForce(t, setting[t])]
    /\ UNCHANGED <<clock, stored, setting, changes, failures, inForce>>

\* One value that does not parse ends the run.
Refuse(t) ==
    /\ Reads(t)
    /\ setting[t] = Bad
    /\ End
    /\ UNCHANGED <<clock, stored, setting, changes, failures>>

\* Days too many for a time lead round to the other end of it.
Cutoff(now, days) ==
    LET day == now - days
    IN  IF day >= -Half THEN day ELSE ((day + Half) % (2 * Half)) - Half

Expired(t, now, days) ==
    {r \in Of(t) \cap Rows : stored[r] # Unsent /\ stored[r] < Cutoff(now, days)}

Childless(i) == \A r \in Raw \cap Rows : Parent[r] # i

\* A variant with a bug: the count has the condition of the deletion.
CountedAsDeleted ==
    {i \in Expired("import", run.now, run.kept["import"]) : Childless(i)}

\* The count of a dry run looks ahead: a child that would go is no child.
CountPrunableImportLogs ==
    {i \in Expired("import", run.now, run.kept["import"]) :
       \A r \in Raw \cap Rows :
          Parent[r] = i => r \in Expired("raw", run.now, run.kept["raw"])}

\* A dry run logs what it counts and ends.
DryRun ==
    /\ run.pc = "read" /\ run.dry
    /\ \A t \in Table : run.kept[t] # 0
    /\ End
    /\ UNCHANGED <<clock, stored, setting, changes, failures>>

Resolved ==
    /\ run.pc = "read" /\ ~run.dry
    /\ \A t \in Table : run.kept[t] # 0
    /\ run' = [run EXCEPT !.pc = "raw"]
    /\ UNCHANGED <<clock, stored, setting, changes, failures, inForce>>

Without(gone) == [r \in Record |-> IF r \in gone THEN None ELSE stored[r]]

PrunableImportLogs ==
    {i \in Expired("import", run.now, run.kept["import"]) : Childless(i)}

PruneRawInstallations ==
    /\ run.pc = "raw"
    /\ stored' = Without(Expired("raw", run.now, run.kept["raw"]))
    /\ run' = [run EXCEPT !.pc = "import"]
    /\ UNCHANGED <<clock, setting, changes, failures, inForce>>

\* Variants with a bug: parents go before their children; the foreign key stops
\* the statement, and the run with it.
PruneImportLogsAll ==
    /\ run.pc = "import"
    /\ stored' = Without(Expired("import", run.now, run.kept["import"]))
    /\ run' = [run EXCEPT !.pc = "audit"]
    /\ UNCHANGED <<clock, setting, changes, failures, inForce>>
PruneImportLogsStopped ==
    LET gone == Expired("import", run.now, run.kept["import"]) IN
    /\ run.pc = "import"
    /\ IF \A i \in gone : Childless(i)
       THEN stored' = Without(gone) /\ run' = [run EXCEPT !.pc = "audit"]
            /\ UNCHANGED inForce
       ELSE End /\ UNCHANGED stored
    /\ UNCHANGED <<clock, setting, changes, failures>>

PruneImportLogs ==
    /\ run.pc = "import"
    /\ stored' = Without(PrunableImportLogs)
    /\ run' = [run EXCEPT !.pc = "audit"]
    /\ UNCHANGED <<clock, setting, changes, failures, inForce>>

PruneAuditLogs ==
    /\ run.pc = "audit"
    /\ stored' = Without(Expired("audit", run.now, run.kept["audit"]))
    /\ run' = [run EXCEPT !.pc = "notification"]
    /\ UNCHANGED <<clock, setting, changes, failures, inForce>>

PruneSentNotifications ==
    /\ run.pc = "notification"
    /\ stored' = Without(Expired("notification", run.now, run.kept["notification"]))
    /\ End
    /\ UNCHANGED <<clock, setting, changes, failures>>

\* A statement that fails, or a crash, before the next statement.
Fail ==
    /\ run # Idle
    /\ failures < MaxFailures
    /\ failures' = failures + 1
    /\ End
    /\ UNCHANGED <<clock, stored, setting, changes>>

-----------------------------------------------------------------------------
RunStep ==
    \/ \E t \in Table : Resolve(t) \/ Refuse(t)
    \/ DryRun \/ Resolved
    \/ PruneRawInstallations \/ PruneImportLogs \/ PruneAuditLogs
    \/ PruneSentNotifications

Next ==
    \/ Tick
    \/ \E i \in Import : StoreImport(i)
    \/ \E r \in Raw : StoreRaw(r)
    \/ \E a \in Audit : StoreAudit(a)
    \/ \E n \in Notification : Notify(n) \/ Sent(n)
    \/ \E t \in Table : Update(t) \/ Reset(t) \/ Meddle(t)
    \/ (\E dry \in BOOLEAN : Start(dry)) \/ RunStep \/ Fail

Spec == Init /\ [][Next]_vars

\* The scheduler starts the batch day after day, whatever dry runs somebody
\* starts in between, and a run that does not fail goes on.
FairSpec == Spec /\ SF_vars(Start(FALSE)) /\ WF_vars(RunStep)

-----------------------------------------------------------------------------
(* Properties                                                              *)

\* A raw installation keeps the log of its import, although both go at ages of
\* their own, no transaction spans the two deletions, and new ones arrive in
\* between (pruneAll, PruneImportLogs).
ParentsStay == \A r \in Raw \cap Rows : Parent[r] \in Rows

\* What goes is older than a number of days that was in force while the run was
\* under way, and nothing goes when one of the four settings could at no time
\* of the run be read.  Days so many that the subtraction wraps are excepted:
\* with these young records go, too (pruneAll, resolveRetentionDays).
OnlyExpired ==
    [][\A t \in Table : \A r \in Of(t) \cap Rows : stored'[r] = None =>
         /\ \E d \in inForce[t] \ {Bad} : stored[r] + d < clock \/ d > Half
         /\ \A u \in Table : inForce[u] \ {Bad} # {}]_vars

\* The logs a dry run announces are the ones a run at the same place goes on to
\* delete, after it deleted raw installations (dryRunPrune).
DryRunForetells ==
    [][run.pc = "raw" /\ run'.pc = "import"
         => PrunableImportLogs' = CountPrunableImportLogs]_vars

\* Old by what is in force now, and so is all that hangs on it.
Overdue(t, r) ==
    /\ \A u \in Table : InForce(u, setting[u]) \in 1 .. Half
    /\ r \in Expired(t, clock, InForce(t, setting[t]))
    /\ t = "import" =>
         \A c \in Raw \cap Rows : Parent[c] = r =>
            c \in Expired("raw", clock, InForce("raw", setting["raw"]))

\* No record stays overdue for ever, whatever the other tables hold: what a run
\* that failed left is taken by a later one (pruneAll: the batch is idempotent
\* and converges).
ExpiredGoes == \A t \in Table : \A r \in Of(t) : []<>~Overdue(t, r)
=============================================================================
