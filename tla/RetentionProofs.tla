--------------------------- MODULE RetentionProofs ---------------------------
(***************************************************************************)
(* Proofs about Retention, for any records, ages, settings and bounds.     *)
(*                                                                         *)
(* IInv adds to the types and the foreign key what a run knows: the days   *)
(* it read were in force since it began, and once it deletes it has read   *)
(* all four.                                                               *)
(***************************************************************************)
EXTENDS Retention, TLAPS

\* Every number a run has read was in force while the run was under way.
ReadInForce ==
    \A t \in Table : run.kept[t] # 0 => run.kept[t] \in inForce[t]

\* What is in force now was in force during the run.
NowInForce ==
    run.pc # "idle" => \A t \in Table : InForce(t, setting[t]) \in inForce[t]

\* A run that deletes has read all four numbers.
AllRead == run.pc \in Table => \A t \in Table : run.kept[t] # 0

\* No run has read anything.
IdleRun == run.pc = "idle" => run = Idle

IInv == TypeOK /\ ParentsStay /\ ReadInForce /\ NowInForce /\ AllRead /\ IdleRun

-----------------------------------------------------------------------------
\* The tables by name.
LEMMA Tables ==
    /\ Table = {"raw", "import", "audit", "notification"}
    /\ Of("raw") = Raw /\ Of("import") = Import
    /\ Of("audit") = Audit /\ Of("notification") = Notification
    /\ "idle" \notin Table /\ "read" \notin Table
BY DEF Table, Rank, Of

\* Numbers of days are positive, and none is Bad.
LEMMA KeptPositive ==
    /\ Kept \subseteq Nat \ {0}
    /\ Bad \notin Kept /\ Unset \notin Kept
    /\ \A t \in Table, v \in Days \cup {Bad, Unset} :
          /\ InForce(t, v) \in Kept \cup {Bad}
          /\ v # Bad => InForce(t, v) \in Kept
<1>1. Kept \subseteq Nat \ {0}
    <2>1. \A t \in Table : Default[t] \in Nat \ {0}
        BY RetentionAssumption
    <2> QED BY <2>1, RetentionAssumption DEF Kept
<1>2. Bad \notin Int /\ Unset \notin Int
    BY RetentionAssumption
<1>3. Bad \notin Kept /\ Unset \notin Kept
    <2>1. \A x \in Nat : x \in Int
        OBVIOUS
    <2> QED BY <1>1, <1>2, <2>1, Zenon
<1>4. ASSUME NEW t \in Table, NEW v \in Days \cup {Bad, Unset}
      PROVE  InForce(t, v) \in Kept \cup {Bad} /\ (v # Bad => InForce(t, v) \in Kept)
    BY DEF Kept, InForce
<1> QED BY <1>1, <1>3, <1>4

\* The start of a run and its end are well-typed.
LEMMA IdleType == Idle \in Run /\ Idle.pc = "idle" /\ Idle.now = 0
BY RetentionAssumption DEF Idle, Run, Time

\* A table's rows are records.
LEMMA OfRecord == \A t \in Table : Of(t) \subseteq Record
BY Tables DEF Record

\* What has expired was stored more than the given days before the cutoff,
\* unless the subtraction wrapped (AddDate in pruneAll).
LEMMA ExpiredIsOld ==
    ASSUME TypeOK, NEW t \in Table, NEW days \in Kept,
           NEW r \in Expired(t, run.now, days)
    PROVE  /\ r \in Of(t) /\ r \in Rows
           /\ stored[r] + days < clock \/ days > Half
<1>1. r \in Of(t) /\ r \in Rows /\ stored[r] # Unsent
    BY DEF Expired
<1>2. stored[r] \in 0 .. MaxDay
    BY <1>1, OfRecord DEF TypeOK, Rows, Time
<1>3. run.now \in 0 .. MaxDay /\ run.now <= clock /\ clock \in 0 .. MaxDay
    BY DEF TypeOK, Run, Time
<1>4. days \in Nat /\ Half \in Nat /\ MaxDay \in Nat
    BY KeptPositive, RetentionAssumption
<1>5. CASE days <= Half
    <2>1. Cutoff(run.now, days) = run.now - days
        BY <1>3, <1>4, <1>5 DEF Cutoff
    <2>2. stored[r] < run.now - days
        BY <2>1 DEF Expired
    <2> QED BY <1>1, <1>2, <1>3, <1>4, <2>2
<1> QED BY <1>1, <1>4, <1>5

\* Deleting keeps the types, and what is left stays what it was.
LEMMA WithoutType ==
    ASSUME TypeOK, NEW gone
    PROVE  /\ Without(gone) \in [Record -> Time \cup {None, Unsent}]
           /\ \A r \in Record : /\ r \in gone => Without(gone)[r] = None
                                /\ r \notin gone => Without(gone)[r] = stored[r]
BY DEF TypeOK, Without

-----------------------------------------------------------------------------
LEMMA InitInv == Init => IInv
<1> SUFFICES ASSUME Init PROVE IInv
    OBVIOUS
<1> USE RetentionAssumption
<1>1. TypeOK
    BY IdleType DEF Init, TypeOK, Time
<1>2. ParentsStay
    BY DEF Init, ParentsStay, Rows, Record
<1>3. ReadInForce /\ NowInForce /\ AllRead /\ IdleRun
    BY IdleType, Tables DEF Init, ReadInForce, NowInForce, AllRead, IdleRun, Idle
<1> QED BY <1>1, <1>2, <1>3 DEF IInv

\* The conjuncts about the run depend on the run and the settings only.
LEMMA RunUnchanged ==
    IInv /\ UNCHANGED <<run, setting, inForce>> =>
        (ReadInForce /\ NowInForce /\ AllRead /\ IdleRun)'
BY DEF IInv, ReadInForce, NowInForce, AllRead, IdleRun

\* A row that comes or gets a day disturbs nothing, if its parent is there.
LEMMA StoreInv ==
    ASSUME IInv, NEW r \in Record, NEW v \in Time \cup {Unsent},
           r \in Raw => Parent[r] \in Rows,
           stored' = [stored EXCEPT ![r] = v],
           UNCHANGED <<clock, setting, run, changes, failures, inForce>>
    PROVE  IInv'
<1>1. TypeOK'
    BY DEF IInv, TypeOK
<1>2. v # None
    BY RetentionAssumption DEF Time
<1>3. Rows \subseteq Rows' /\ Rows' \subseteq Rows \cup {r}
    BY <1>2 DEF IInv, TypeOK, Rows
<1>4. ParentsStay'
    BY <1>3 DEF IInv, ParentsStay
<1> QED BY <1>1, <1>4, RunUnchanged DEF IInv

\* An audit record does not disturb the foreign key.
LEMMA RecordedInv ==
    ASSUME IInv, Recorded
    PROVE  /\ stored' \in [Record -> Time \cup {None, Unsent}]
           /\ ParentsStay'
<1>1. PICK a \in Audit : stored[a] = None /\ stored' = [stored EXCEPT ![a] = clock]
    BY DEF Recorded
<1>2. stored' \in [Record -> Time \cup {None, Unsent}]
    BY <1>1 DEF IInv, TypeOK
<1>3. a \notin Raw
    BY RetentionAssumption, Tables
<1>4. clock # None
    BY RetentionAssumption DEF IInv, TypeOK, Time
<1>5. a \in Record
    BY DEF Record
<1>6. Rows \subseteq Rows' /\ Rows' \subseteq Rows \cup {a}
    BY <1>1, <1>4, <1>5 DEF IInv, TypeOK, Rows
<1>7. ParentsStay'
    BY <1>3, <1>6 DEF IInv, ParentsStay
<1> QED BY <1>2, <1>7

\* A change of a setting is remembered while a run is under way.
LEMMA ChangeInv ==
    ASSUME IInv, NEW t \in Table, NEW v \in Days \cup {Bad, Unset}, Change(t, v),
           stored' \in [Record -> Time \cup {None, Unsent}], ParentsStay'
    PROVE  IInv'
<1> USE DEF IInv
<1>1. InForce(t, v) \in Kept \cup {Bad}
    BY KeptPositive
<1>2. /\ setting' = [setting EXCEPT ![t] = v] /\ run' = run /\ clock' = clock
      /\ inForce' = IF run = Idle THEN inForce
                    ELSE [inForce EXCEPT ![t] = @ \cup {InForce(t, v)}]
      /\ changes < MaxChanges /\ changes' = changes + 1 /\ failures' = failures
    BY DEF Change
<1>3. changes' \in 0 .. MaxChanges
    BY <1>2, RetentionAssumption DEF TypeOK
<1>4. inForce' \in [Table -> SUBSET (Kept \cup {Bad})]
    BY <1>1, <1>2 DEF TypeOK
<1>5. TypeOK'
    BY <1>2, <1>3, <1>4 DEF TypeOK
<1>6. \A u \in Table : inForce[u] \subseteq inForce'[u]
    BY <1>2 DEF TypeOK
<1>7. ReadInForce'
    BY <1>2, <1>6 DEF ReadInForce
<1>8. NowInForce'
    <2> SUFFICES ASSUME run.pc # "idle", NEW u \in Table
                 PROVE  InForce(u, setting'[u]) \in inForce'[u]
        BY <1>2 DEF NowInForce
    <2>1. run # Idle
        BY IdleType
    <2>2. CASE u = t
        BY <1>2, <2>1, <2>2 DEF TypeOK
    <2>3. CASE u # t
        <3>1. setting'[u] = setting[u]
            BY <1>2, <2>3 DEF TypeOK
        <3> QED BY <1>6, <3>1 DEF NowInForce
    <2> QED BY <2>2, <2>3
<1>9. (AllRead /\ IdleRun)'
    BY <1>2 DEF AllRead, IdleRun
<1> QED BY <1>5, <1>7, <1>8, <1>9

\* The end of a run leaves nothing to know.
LEMMA EndInv ==
    ASSUME IInv, End, UNCHANGED <<clock, setting, changes>>,
           failures' \in 0 .. MaxFailures,
           stored' \in [Record -> Time \cup {None, Unsent}], ParentsStay'
    PROVE  IInv'
<1>1. run' = Idle /\ inForce' = [t \in Table |-> {}]
    BY DEF End
<1>2. 0 <= clock
    BY DEF IInv, TypeOK, Time
<1>3. TypeOK'
    BY <1>1, <1>2, IdleType DEF IInv, TypeOK
<1>4. (ReadInForce /\ NowInForce /\ AllRead /\ IdleRun)'
    BY <1>1, IdleType, Tables DEF ReadInForce, NowInForce, AllRead, IdleRun, Idle
<1> QED BY <1>3, <1>4 DEF IInv

\* The next statement of a run that has read everything.
LEMMA PhaseInv ==
    ASSUME IInv, NEW pc \in Table, \A t \in Table : run.kept[t] # 0,
           run' = [run EXCEPT !.pc = pc], run.pc # "idle",
           UNCHANGED <<clock, setting, changes, failures, inForce>>,
           stored' \in [Record -> Time \cup {None, Unsent}], ParentsStay'
    PROVE  IInv'
<1>1. /\ run' \in Run /\ run'.pc = pc
      /\ run'.kept = run.kept /\ run'.now = run.now
    BY DEF IInv, TypeOK, Run
<1>2. TypeOK'
    BY <1>1 DEF IInv, TypeOK
<1>3. (ReadInForce /\ NowInForce /\ AllRead /\ IdleRun)'
    BY <1>1, Tables DEF IInv, ReadInForce, NowInForce, AllRead, IdleRun
<1> QED BY <1>2, <1>3 DEF IInv

\* Deleting rows keeps the foreign key when no parent goes before its children.
LEMMA DeleteInv ==
    ASSUME IInv, NEW gone, stored' = Without(gone),
           \A i \in gone \cap Import : Childless(i)
    PROVE  /\ stored' \in [Record -> Time \cup {None, Unsent}]
           /\ ParentsStay'
<1>1. /\ stored' \in [Record -> Time \cup {None, Unsent}]
      /\ \A r \in Record : /\ r \in gone => stored'[r] = None
                           /\ r \notin gone => stored'[r] = stored[r]
    BY WithoutType DEF IInv
<1>2. Rows' \subseteq Rows
    BY <1>1 DEF Rows
<1>3. ParentsStay'
    <2> SUFFICES ASSUME NEW r \in Raw, r \in Rows' PROVE Parent[r] \in Rows'
        BY DEF ParentsStay
    <2>1. r \in Rows /\ Parent[r] \in Rows /\ Parent[r] \in Import
        BY <1>2, RetentionAssumption DEF IInv, ParentsStay
    <2>2. Parent[r] \notin gone
        BY <2>1 DEF Childless
    <2> QED BY <1>1, <2>1, <2>2 DEF Rows
<1> QED BY <1>1, <1>3

-----------------------------------------------------------------------------
LEMMA TickInv == IInv /\ Tick => IInv'
<1> SUFFICES ASSUME IInv, Tick PROVE IInv'
    OBVIOUS
<1>1. TypeOK'
    BY RetentionAssumption DEF IInv, TypeOK, Tick, Time, Run
<1>2. ParentsStay'
    BY DEF IInv, ParentsStay, Rows, Tick
<1> QED BY <1>1, <1>2, RunUnchanged DEF IInv, Tick

LEMMA StoreImportInv == \A i \in Import : IInv /\ StoreImport(i) => IInv'
<1> SUFFICES ASSUME NEW i \in Import, IInv, StoreImport(i) PROVE IInv'
    OBVIOUS
<1>1. i \in Record /\ i \notin Raw
    BY RetentionAssumption, Tables DEF Record
<1>2. clock \in Time
    BY DEF IInv, TypeOK
<1> QED BY <1>1, <1>2, StoreInv DEF StoreImport

LEMMA StoreRawInv == \A r \in Raw : IInv /\ StoreRaw(r) => IInv'
<1> SUFFICES ASSUME NEW r \in Raw, IInv, StoreRaw(r) PROVE IInv'
    OBVIOUS
<1>1. r \in Record /\ Parent[r] \in Record
    BY RetentionAssumption DEF Record
<1>2. clock \in Time
    BY DEF IInv, TypeOK
<1>3. Parent[r] \in Rows
    BY <1>1 DEF Rows, StoreRaw
<1> QED BY <1>1, <1>2, <1>3, StoreInv DEF StoreRaw

LEMMA StoreAuditInv == \A a \in Audit : IInv /\ StoreAudit(a) => IInv'
<1> SUFFICES ASSUME NEW a \in Audit, IInv, StoreAudit(a) PROVE IInv'
    OBVIOUS
<1>1. a \in Record /\ a \notin Raw
    BY RetentionAssumption, Tables DEF Record
<1>2. clock \in Time
    BY DEF IInv, TypeOK
<1> QED BY <1>1, <1>2, StoreInv DEF StoreAudit

LEMMA NotifyInv == \A n \in Notification : IInv /\ (Notify(n) \/ Sent(n)) => IInv'
<1> SUFFICES ASSUME NEW n \in Notification, IInv, Notify(n) \/ Sent(n) PROVE IInv'
    OBVIOUS
<1>1. n \in Record /\ n \notin Raw
    BY RetentionAssumption, Tables DEF Record
<1>2. clock \in Time
    BY DEF IInv, TypeOK
<1>3. CASE Notify(n)
    BY <1>1, <1>3, StoreInv DEF Notify
<1>4. CASE Sent(n)
    BY <1>1, <1>2, <1>4, StoreInv DEF Sent
<1> QED BY <1>3, <1>4

LEMMA SettingsInv ==
    \A t \in Table : IInv /\ (Update(t) \/ Reset(t) \/ Meddle(t)) => IInv'
<1> SUFFICES ASSUME NEW t \in Table, IInv, Update(t) \/ Reset(t) \/ Meddle(t)
             PROVE  IInv'
    OBVIOUS
<1>1. CASE Update(t)
    <2>1. PICK d \in Days : Change(t, d)
        BY <1>1 DEF Update
    <2> QED BY <1>1, <2>1, RecordedInv, ChangeInv DEF Update
<1>2. CASE Reset(t)
    BY <1>2, RecordedInv, ChangeInv DEF Reset
<1>3. CASE Meddle(t)
    <2>1. stored' \in [Record -> Time \cup {None, Unsent}] /\ ParentsStay'
        BY <1>3 DEF Meddle, IInv, TypeOK, ParentsStay, Rows
    <2> QED BY <1>3, <2>1, ChangeInv DEF Meddle
<1> QED BY <1>1, <1>2, <1>3

LEMMA StartInv == \A dry \in BOOLEAN : IInv /\ Start(dry) => IInv'
<1> SUFFICES ASSUME NEW dry \in BOOLEAN, IInv, Start(dry) PROVE IInv'
    OBVIOUS
<1>1. /\ run' \in Run /\ run'.pc = "read" /\ run'.now = clock
      /\ \A t \in Table : run'.kept[t] = 0
    BY IdleType DEF Start, IInv, TypeOK, Run, Idle
<1>2. inForce' = [t \in Table |-> {InForce(t, setting[t])}]
    BY DEF Start
<1>3. inForce' \in [Table -> SUBSET (Kept \cup {Bad})]
    BY <1>2, KeptPositive DEF IInv, TypeOK
<1>4. TypeOK'
    BY <1>1, <1>3 DEF Start, IInv, TypeOK, Time
<1>5. ParentsStay'
    BY DEF Start, IInv, ParentsStay, Rows
<1>6. (ReadInForce /\ NowInForce /\ AllRead /\ IdleRun)'
    BY <1>1, <1>2, Tables DEF Start, ReadInForce, NowInForce, AllRead, IdleRun
<1> QED BY <1>4, <1>5, <1>6 DEF IInv

LEMMA ResolveInv == \A t \in Table : IInv /\ Resolve(t) => IInv'
<1> SUFFICES ASSUME NEW t \in Table, IInv, Resolve(t) PROVE IInv'
    OBVIOUS
<1> DEFINE days == InForce(t, setting[t])
<1>1. days \in Kept
    BY KeptPositive DEF Resolve, IInv, TypeOK
<1>2. /\ run.pc = "read" /\ run' = [run EXCEPT !.kept[t] = days]
      /\ UNCHANGED <<clock, stored, setting, changes, failures, inForce>>
    BY DEF Resolve, Reads
<1>3. /\ run' \in Run /\ run'.pc = "read" /\ run'.now = run.now
      /\ run'.kept = [run.kept EXCEPT ![t] = days]
    BY <1>1, <1>2 DEF IInv, TypeOK, Run
<1>4. TypeOK'
    BY <1>2, <1>3 DEF IInv, TypeOK
<1>5. ParentsStay'
    BY <1>2 DEF IInv, ParentsStay, Rows
<1>6. days \in inForce[t]
    BY <1>2 DEF IInv, NowInForce
<1>7. ReadInForce'
    <2> SUFFICES ASSUME NEW u \in Table, run'.kept[u] # 0
                 PROVE  run'.kept[u] \in inForce[u]
        BY <1>2 DEF ReadInForce
    <2>1. run.kept \in [Table -> Kept \cup {0}]
        BY DEF IInv, TypeOK, Run
    <2>2. CASE u = t
        BY <1>3, <1>6, <2>1, <2>2
    <2>3. CASE u # t
        BY <1>3, <2>1, <2>3 DEF IInv, ReadInForce
    <2> QED BY <2>2, <2>3
<1>8. (NowInForce /\ AllRead /\ IdleRun)'
    BY <1>2, <1>3, Tables DEF IInv, NowInForce, AllRead, IdleRun
<1> QED BY <1>4, <1>5, <1>7, <1>8 DEF IInv

\* A run that ends and touches no row.
LEMMA EndedInv ==
    IInv /\ End /\ UNCHANGED <<clock, stored, setting, changes>> /\ failures' \in 0 .. MaxFailures => IInv'
<1> SUFFICES ASSUME IInv, End, UNCHANGED <<clock, stored, setting, changes>>,
                    failures' \in 0 .. MaxFailures
             PROVE  IInv'
    OBVIOUS
<1>1. stored' \in [Record -> Time \cup {None, Unsent}] /\ ParentsStay'
    BY DEF IInv, TypeOK, ParentsStay, Rows
<1> QED BY <1>1, EndInv

LEMMA RefuseInv == \A t \in Table : IInv /\ Refuse(t) => IInv'
BY EndedInv DEF Refuse, IInv, TypeOK

LEMMA DryRunInv == IInv /\ DryRun => IInv'
BY EndedInv DEF DryRun, IInv, TypeOK

LEMMA FailInv == IInv /\ Fail => IInv'
<1> SUFFICES ASSUME IInv, Fail PROVE IInv'
    OBVIOUS
<1>1. failures' \in 0 .. MaxFailures
    BY RetentionAssumption DEF Fail, IInv, TypeOK
<1> QED BY <1>1, EndedInv DEF Fail

LEMMA ResolvedInv == IInv /\ Resolved => IInv'
<1> SUFFICES ASSUME IInv, Resolved PROVE IInv'
    OBVIOUS
<1>1. stored' \in [Record -> Time \cup {None, Unsent}] /\ ParentsStay'
    BY DEF Resolved, IInv, TypeOK, ParentsStay, Rows
<1> QED BY <1>1, PhaseInv, Tables DEF Resolved

\* Only the second statement deletes from import_logs, and no parent.
LEMMA NoParentsGo ==
    ASSUME NEW t \in Table, NEW now, NEW days
    PROVE  /\ t # "import" => Expired(t, now, days) \cap Import = {}
           /\ \A i \in PrunableImportLogs : Childless(i)
<1>1. ASSUME t # "import" PROVE Of(t) \cap Import = {}
    BY <1>1, Tables, RetentionAssumption
<1> QED BY <1>1 DEF Expired, PrunableImportLogs

LEMMA PruneRawInv == IInv /\ PruneRawInstallations => IInv'
<1> SUFFICES ASSUME IInv, PruneRawInstallations PROVE IInv'
    OBVIOUS
<1>1. stored' \in [Record -> Time \cup {None, Unsent}] /\ ParentsStay'
    BY DeleteInv, NoParentsGo, Tables DEF PruneRawInstallations
<1> QED BY <1>1, PhaseInv, Tables DEF PruneRawInstallations, IInv, AllRead

LEMMA PruneImportInv == IInv /\ PruneImportLogs => IInv'
<1> SUFFICES ASSUME IInv, PruneImportLogs PROVE IInv'
    OBVIOUS
<1>1. stored' \in [Record -> Time \cup {None, Unsent}] /\ ParentsStay'
    BY DeleteInv, NoParentsGo, Tables DEF PruneImportLogs
<1> QED BY <1>1, PhaseInv, Tables DEF PruneImportLogs, IInv, AllRead

LEMMA PruneAuditInv == IInv /\ PruneAuditLogs => IInv'
<1> SUFFICES ASSUME IInv, PruneAuditLogs PROVE IInv'
    OBVIOUS
<1>1. stored' \in [Record -> Time \cup {None, Unsent}] /\ ParentsStay'
    BY DeleteInv, NoParentsGo, Tables DEF PruneAuditLogs
<1> QED BY <1>1, PhaseInv, Tables DEF PruneAuditLogs, IInv, AllRead

LEMMA PruneSentInv == IInv /\ PruneSentNotifications => IInv'
<1> SUFFICES ASSUME IInv, PruneSentNotifications PROVE IInv'
    OBVIOUS
<1>1. stored' \in [Record -> Time \cup {None, Unsent}] /\ ParentsStay'
    BY DeleteInv, NoParentsGo, Tables DEF PruneSentNotifications
<1> QED BY <1>1, EndInv DEF PruneSentNotifications, IInv, TypeOK

\* No step leaves the inductive invariant.
LEMMA NextInv == IInv /\ [Next]_vars => IInv'
<1> SUFFICES ASSUME IInv, [Next]_vars PROVE IInv'
    OBVIOUS
<1>1. CASE UNCHANGED vars
    <2>1. (TypeOK /\ ParentsStay)'
        BY <1>1 DEF IInv, vars, TypeOK, ParentsStay, Rows
    <2> QED BY <1>1, <2>1, RunUnchanged DEF IInv, vars
<1>2. CASE Tick
    BY <1>2, TickInv
<1>3. CASE \E i \in Import : StoreImport(i)
    BY <1>3, StoreImportInv
<1>4. CASE \E r \in Raw : StoreRaw(r)
    BY <1>4, StoreRawInv
<1>5. CASE \E a \in Audit : StoreAudit(a)
    BY <1>5, StoreAuditInv
<1>6. CASE \E n \in Notification : Notify(n) \/ Sent(n)
    BY <1>6, NotifyInv
<1>7. CASE \E t \in Table : Update(t) \/ Reset(t) \/ Meddle(t)
    BY <1>7, SettingsInv
<1>8. CASE \E dry \in BOOLEAN : Start(dry)
    BY <1>8, StartInv
<1>9. CASE RunStep
    BY <1>9, ResolveInv, RefuseInv, DryRunInv, ResolvedInv, PruneRawInv,
       PruneImportInv, PruneAuditInv, PruneSentInv DEF RunStep
<1>10. CASE Fail
    BY <1>10, FailInv
<1> QED BY <1>1, <1>2, <1>3, <1>4, <1>5, <1>6, <1>7, <1>8, <1>9, <1>10 DEF Next

-----------------------------------------------------------------------------
\* The inductive invariant holds in every state (runner.go: runPrune).
THEOREM Invariance == Spec => []IInv
BY InitInv, NextInv, PTL DEF Spec

\* The types, for any records, settings and bounds.
THEOREM TypeCorrect == Spec => []TypeOK
<1>1. IInv => TypeOK
    BY DEF IInv
<1> QED BY <1>1, Invariance, PTL

\* A raw installation keeps the log of its import (pruneAll).
THEOREM ForeignKeyHolds == Spec => []ParentsStay
<1>1. IInv => ParentsStay
    BY DEF IInv
<1> QED BY <1>1, Invariance, PTL

\* A statement of a run only deletes what is older than some number of days in
\* force during the run, all four of which could be read.
LEMMA DeletesExpired ==
    ASSUME IInv, NEW t \in Table, run.pc = t,
           NEW r \in Expired(t, run.now, run.kept[t])
    PROVE  /\ \E d \in inForce[t] \ {Bad} : stored[r] + d < clock \/ d > Half
           /\ \A u \in Table : inForce[u] \ {Bad} # {}
<1>1. \A u \in Table : run.kept[u] \in Kept /\ run.kept[u] \in inForce[u] \ {Bad}
    BY KeptPositive, RetentionAssumption DEF IInv, TypeOK, Run, AllRead, ReadInForce
<1>2. stored[r] + run.kept[t] < clock \/ run.kept[t] > Half
    BY <1>1, ExpiredIsOld DEF IInv
<1> QED BY <1>1, <1>2

\* Deleting rows of one table leaves those of the others.
LEMMA DeletesOwn ==
    ASSUME NEW t \in Table, NEW u \in Table, NEW gone \in SUBSET Of(u),
           NEW r \in Of(t) \cap Rows, stored' = Without(gone), stored'[r] = None
    PROVE  t = u /\ r \in gone
<1>1. r \in Record /\ stored[r] # None
    BY OfRecord DEF Rows
<1>2. r \in gone
    BY <1>1 DEF Without
<1> QED BY <1>2, RetentionAssumption

\* What goes is older than a number of days in force during the run, and no
\* unreadable setting is passed over (pruneAll, resolveRetentionDays).
THEOREM NothingYoungGoes == Spec => OnlyExpired
<1> DEFINE P == \A t \in Table : \A r \in Of(t) \cap Rows : stored'[r] = None =>
         /\ \E d \in inForce[t] \ {Bad} : stored[r] + d < clock \/ d > Half
         /\ \A u \in Table : inForce[u] \ {Bad} # {}
<1>1. ASSUME IInv, [Next]_vars PROVE P
    <2> SUFFICES ASSUME NEW t \in Table, NEW r \in Of(t) \cap Rows, stored'[r] = None
                 PROVE  /\ \E d \in inForce[t] \ {Bad} : stored[r] + d < clock \/ d > Half
                        /\ \A u \in Table : inForce[u] \ {Bad} # {}
        OBVIOUS
    <2> USE <1>1
    <2>1. r \in Record /\ stored[r] # None
        BY OfRecord DEF Rows
    <2>2. clock # None /\ Unsent # None
        BY RetentionAssumption DEF IInv, TypeOK, Time
    <2>3. stored' # stored
        BY <2>1
    <2>4. ASSUME NEW q, NEW v, stored' = [stored EXCEPT ![q] = v], v # None
          PROVE  FALSE
        BY <2>1, <2>4 DEF IInv, TypeOK
    <2>5. ASSUME Recorded PROVE FALSE
        BY <2>2, <2>4, <2>5 DEF Recorded
    <2>6. ASSUME PruneRawInstallations \/ PruneAuditLogs \/ PruneSentNotifications
          PROVE  run.pc \in Table /\ stored' = Without(Expired(run.pc, run.now, run.kept[run.pc]))
        BY <2>6, Tables DEF PruneRawInstallations, PruneAuditLogs, PruneSentNotifications
    <2>7. CASE PruneRawInstallations \/ PruneAuditLogs \/ PruneSentNotifications
        <3> DEFINE gone == Expired(run.pc, run.now, run.kept[run.pc])
        <3>1. gone \in SUBSET Of(run.pc)
            BY DEF Expired
        <3>2. t = run.pc /\ r \in gone
            BY <2>6, <2>7, <3>1, DeletesOwn
        <3> QED BY <3>2, DeletesExpired
    <2>8. CASE PruneImportLogs
        <3>1. PrunableImportLogs \in SUBSET Of("import")
            BY DEF PrunableImportLogs, Expired
        <3>2. t = "import" /\ r \in PrunableImportLogs
            BY <2>8, <3>1, DeletesOwn, Tables DEF PruneImportLogs
        <3>3. run.pc = "import"
            BY <2>8 DEF PruneImportLogs
        <3> QED BY <3>2, <3>3, DeletesExpired DEF PrunableImportLogs
    <2>9. ASSUME NEW i, StoreImport(i) \/ StoreRaw(i) \/ StoreAudit(i) \/ Notify(i) \/ Sent(i)
          PROVE  FALSE
        BY <2>2, <2>4, <2>9 DEF StoreImport, StoreRaw, StoreAudit, Notify, Sent
    <2>10. ASSUME NEW u, Update(u) \/ Reset(u) \/ Meddle(u)
           PROVE  FALSE
        BY <2>3, <2>5, <2>10 DEF Update, Reset, Meddle
    <2>11. ASSUME NEW u, Start(u) \/ Resolve(u) \/ Refuse(u) \/ Tick \/ DryRun \/ Resolved \/ Fail
           PROVE  FALSE
        BY <2>3, <2>11 DEF Start, Resolve, Refuse, Tick, DryRun, Resolved, Fail
    <2>12. Next
        BY <2>3 DEF vars
    <2> QED BY <2>7, <2>8, <2>9, <2>10, <2>11, <2>12 DEF Next, RunStep
<1> QED BY <1>1, Invariance, PTL DEF Spec, OnlyExpired

\* The logs a dry run counts are those the next two statements delete
\* (dryRunPrune, PruneImportLogs).
THEOREM ForetellsRun == Spec => DryRunForetells
<1> DEFINE P == run.pc = "raw" /\ run'.pc = "import"
                  => PrunableImportLogs' = CountPrunableImportLogs
<1>1. ASSUME IInv, [Next]_vars PROVE P
    <2> SUFFICES ASSUME run.pc = "raw", run'.pc = "import"
                 PROVE  PrunableImportLogs' = CountPrunableImportLogs
        OBVIOUS
    <2> USE <1>1
    <2>1. PruneRawInstallations
        <3>1. run' # run
            OBVIOUS
        <3>2. run' # Idle
            BY IdleType
        <3>3. Next
            BY <3>1 DEF vars
        <3> QED BY <3>1, <3>2, <3>3 DEF Next, RunStep, Tick, StoreImport, StoreRaw,
                StoreAudit, Notify, Sent, Update, Reset, Meddle, Change, Start, Resolve,
                Reads, Refuse, End, DryRun, Resolved, PruneImportLogs, PruneAuditLogs,
                PruneSentNotifications, Fail, Idle
    <2> DEFINE gone == Expired("raw", run.now, run.kept["raw"])
    <2>2. stored' = Without(gone) /\ run'.now = run.now /\ run'.kept = run.kept
        BY <2>1 DEF PruneRawInstallations, IInv, TypeOK, Run
    <2>3. gone \subseteq Raw /\ Raw \cap Import = {} /\ Import \subseteq Record /\ Raw \subseteq Record
        BY Tables, RetentionAssumption DEF Expired, Record
    <2>4. \A i \in Import : stored'[i] = stored[i]
        BY <2>2, <2>3 DEF Without
    <2>5. Expired("import", run.now, run.kept["import"])'
            = Expired("import", run.now, run.kept["import"])
        BY <2>2, <2>3, <2>4, Tables DEF Expired, Rows
    <2>6. Raw \cap Rows' = (Raw \cap Rows) \ gone
        BY <2>2, <2>3 DEF Without, Rows
    <2> QED BY <2>5, <2>6 DEF PrunableImportLogs, CountPrunableImportLogs, Childless
<1> QED BY <1>1, Invariance, PTL DEF Spec, DryRunForetells
=============================================================================
