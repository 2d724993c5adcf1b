---------------------------- MODULE NotifyProofs ----------------------------
(***************************************************************************)
(* What holds of the notification batch for every set of licences,         *)
(* channels and people, and every bound; and, in the last part, what holds *)
(* of the lock that it and the other batches run under.                    *)
(***************************************************************************)
EXTENDS Notify, LockFile, WellFoundedInduction, TLAPS

-----------------------------------------------------------------------------
(* The inductive invariant                                                 *)

\* The record in hand: created by a daily run, or taken from the queue.
InHand(i) == run.step \in {"send", "mark"} /\ run.cur = i

\* What a run holds at each of its steps.
RunShape ==
    /\ run.step = "idle" => run = Idle
    /\ run.step \in {"events", "deliver"} => run.limit = 0
    /\ run.step = "retry" => run.limit # 0
    /\ run.limit = 0 => run.queue = {}
    /\ run.work \subseteq Channel \X WithEmail(Person)
    /\ \A i \in Id : InHand(i) /\ run.limit = 0 => rows[i].status = "pending"
    /\ \A i \in Id : InHand(i) /\ run.limit # 0 =>
         rows[i].status = "failed" /\ rows[i].retries < run.limit /\ i \notin run.queue
    /\ \A i \in run.queue :
         i \in Ids /\ rows[i].status = "failed" /\ rows[i].retries < run.limit

\* Which columns go with which status.
RowShape ==
    \A i \in Ids :
        /\ rows[i].status = "sent" <=> rows[i].sentAt # Null
        /\ rows[i].status = "pending" => rows[i].retries = 0
        /\ rows[i].created <= clock

\* What the table says of deliveries, also while a run is under way.
Deliveries ==
    /\ \A i \in Id : i >= nextId => delivered[i] = 0
    /\ run.step = "mark" /\ run.ok => delivered[run.cur] > 0
    /\ \A i \in Ids :
         /\ rows[i].status = "sent" => delivered[i] > 0
         /\ rows[i].status # "sent" /\ delivered[i] > 0 =>
              i \in lapsed \/ (InHand(i) /\ run.step = "mark" /\ run.ok)
         /\ rows[i].status = "pending" => InHand(i) \/ interrupts > 0

\* Nothing that was given up is hidden from every summary: it went out, or it
\* is in the body of each summary that was created after it was given up.
Hidden(i, s) ==
    /\ rows[i].status = "gave_up" /\ rows[i].ev # Summary /\ i \notin reported
    /\ rows[s].ev = Summary /\ i \notin rows[s].body
    /\ rows[i].attempted <= rows[s].created

Summaries ==
    /\ \A i, s \in Ids : ~Hidden(i, s)
    /\ \A s \in Ids : rows[s].status = "sent" => rows[s].body \subseteq reported
    /\ run.step = "mark" /\ run.ok => rows[run.cur].body \subseteq reported
    /\ run = Idle => \A s \in Ids : rows[s].created <= ended
    /\ run.limit # 0 => \A s \in Ids : rows[s].created < clock
    /\ run.step \in {"deliver", "send", "mark"} /\ run.limit = 0 /\ run.ev = Summary =>
         \A i \in Ids : rows[i].status = "gave_up" /\ rows[i].ev # Summary =>
             i \in reported \/ i \in run.body

IInv == TypeOK /\ RunShape /\ RowShape /\ Deliveries /\ RetriesBounded /\ DuplicateNeedsLapse

-----------------------------------------------------------------------------
(* What single steps do to the table                                       *)

LEMMA IdsBounded == ASSUME NotifyAssumption, TypeOK PROVE Ids \subseteq Id
PROOF
<1>1. nextId \in 1 .. MaxRow + 1 /\ MaxRow \in Nat /\ Ids \subseteq 1 .. nextId - 1
  BY DEF TypeOK, NotifyAssumption
<1>2. QED
  BY <1>1 DEF Id

\* The three Mark statements change one row, the one in hand, and keep its key.
LEMMA MarkedRow ==
    ASSUME TypeOK, MarkSent \/ MarkFailed \/ IncrementRetry
    PROVE  /\ run.cur \in Ids /\ DOMAIN rows' = Ids
           /\ \A i \in Ids : i # run.cur => rows'[i] = rows[i]
           /\ rows'[run.cur] \in Row
           /\ rows'[run.cur].ev = rows[run.cur].ev
           /\ rows'[run.cur].ch = rows[run.cur].ch /\ rows'[run.cur].to = rows[run.cur].to
           /\ rows'[run.cur].body = rows[run.cur].body
           /\ rows'[run.cur].created = rows[run.cur].created
           /\ rows'[run.cur].attempted = clock
PROOF
<1>1. run.cur \in Ids /\ rows[run.cur] \in Row
  BY DEF TypeOK, MarkSent, MarkFailed, IncrementRetry
<1>2. CASE MarkSent
  BY <1>1, <1>2 DEF TypeOK, MarkSent, Row, Status, Ids
<1>3. CASE MarkFailed
  BY <1>1, <1>3 DEF TypeOK, MarkFailed, Row, Status, Ids
<1>4. CASE IncrementRetry
  <2> DEFINE n == rows[run.cur].retries + 1
             st == IF n >= run.limit THEN "gave_up" ELSE "failed"
  <2>1. n \in Nat /\ st \in Status
    BY <1>1 DEF Row, Status
  <2>2. rows' = [rows EXCEPT ![run.cur].retries = n, ![run.cur].attempted = clock,
                             ![run.cur].status = st]
    BY <1>4 DEF IncrementRetry
  <2>3. clock \in Time
    BY DEF TypeOK
  <2> HIDE DEF n, st
  <2>4. QED
    BY <1>1, <2>1, <2>2, <2>3 DEF Row, Ids
<1>5. QED
  BY <1>2, <1>3, <1>4

\* A new row is the last one; the others stay.
LEMMA CreatedRow ==
    ASSUME NotifyAssumption, TypeOK, RunShape, NEW w \in Channel \X Person, Create(w)
    PROVE  /\ nextId \in Id /\ nextId \notin Ids /\ DOMAIN rows' = Ids \cup {nextId}
           /\ \A i \in Ids : rows'[i] = rows[i]
           /\ rows'[nextId] \in Row
           /\ rows'[nextId].ev = run.ev
           /\ rows'[nextId].ch = w[1] /\ rows'[nextId].to = EmailOf[w[2]]
           /\ rows'[nextId].body = run.body
           /\ rows'[nextId].created = clock
           /\ rows'[nextId].status = "pending"
           /\ rows'[nextId].retries = 0
           /\ rows'[nextId].sentAt = Null
PROOF
<1>1. nextId \in Id /\ nextId \notin Ids
  BY DEF NotifyAssumption, TypeOK, Create, Id, Ids
<1>2. w[1] \in Channel /\ EmailOf[w[2]] \in Address
  BY DEF WithEmail, Address, RunShape, Create
<1>3. run.ev \in Kind /\ run.body \in SUBSET Id
  BY DEF TypeOK, RunState
<1>4. QED
  BY <1>1, <1>2, <1>3 DEF TypeOK, Create, Row, Status, Ids, Null

\* A first failure and a failed retry, of a row that was not sent.
LEMMA FailedRow ==
    ASSUME NotifyAssumption, TypeOK, RunShape, MarkFailed
    PROVE  /\ rows[run.cur].status = "pending" /\ rows'[run.cur].status = "failed"
           /\ rows'[run.cur].retries = rows[run.cur].retries
           /\ rows'[run.cur].sentAt = rows[run.cur].sentAt
PROOF
<1>1. run.cur \in Ids /\ run.cur \in Id /\ rows[run.cur] \in Row
  BY DEF TypeOK, MarkFailed, Id, NotifyAssumption
<1>2. QED
  BY <1>1 DEF MarkFailed, Row, Ids, RunShape, InHand

LEMMA RetriedRow ==
    ASSUME NotifyAssumption, TypeOK, RunShape, IncrementRetry
    PROVE  /\ rows[run.cur].status = "failed" /\ rows[run.cur].retries < run.limit
           /\ rows'[run.cur].status = IF rows'[run.cur].retries >= run.limit
                                      THEN "gave_up" ELSE "failed"
           /\ rows'[run.cur].retries = rows[run.cur].retries + 1
           /\ rows'[run.cur].sentAt = rows[run.cur].sentAt
PROOF
<1>1. run.cur \in Ids /\ run.cur \in Id /\ rows[run.cur] \in Row
  BY DEF TypeOK, IncrementRetry, Id, NotifyAssumption
<1>2. rows[run.cur].status = "failed" /\ rows[run.cur].retries < run.limit
  BY <1>1 DEF IncrementRetry, RunShape, InHand
<1> DEFINE n == rows[run.cur].retries + 1
           st == IF n >= run.limit THEN "gave_up" ELSE "failed"
<1>3. rows' = [rows EXCEPT ![run.cur].retries = n, ![run.cur].attempted = clock,
                           ![run.cur].status = st]
  BY DEF IncrementRetry
<1>4. n = rows[run.cur].retries + 1 /\ st = IF n >= run.limit THEN "gave_up" ELSE "failed"
  OBVIOUS
<1> HIDE DEF n, st
<1>5. rows'[run.cur].retries = n /\ rows'[run.cur].status = st
      /\ rows'[run.cur].sentAt = rows[run.cur].sentAt
  BY <1>1, <1>3 DEF Row, Ids
<1>6. QED
  BY <1>2, <1>4, <1>5

-----------------------------------------------------------------------------
(* Types                                                                   *)

LEMMA InitTyped == ASSUME NotifyAssumption, Init PROVE TypeOK
PROOF
<1>1. rows = [i \in {} |-> 0] /\ Ids = {}
  BY DEF Init, Ids
<1>2. run \in RunState /\ run.step = "idle"
  BY DEF Init, Idle, RunState, Kind, Time, Null
<1>3. 0 \in Time /\ 0 \in 0 .. MaxInterrupts /\ 1 \in 1 .. MaxRow + 1 /\ 0 \in 0 .. 2
  BY DEF NotifyAssumption, Time
<1>4. QED
  BY <1>1, <1>2, <1>3 DEF Init, TypeOK, Null

\* The part of TypeOK that speaks of the table and the run.
LEMMA IdleTyped == NotifyAssumption => Idle \in RunState /\ Idle.step = "idle"
BY DEF NotifyAssumption, Idle, RunState, Kind, Time, Null

LEMMA NextTyped ==
    ASSUME NotifyAssumption, TypeOK, RunShape, RowShape, [Next]_vars PROVE TypeOK'
PROOF
<1> USE DEF Ids
<1>1. CASE Tick
  BY <1>1 DEF Tick, TypeOK, Time, env, table, history, NotifyAssumption
<1>2. ASSUME NEW e \in Event, Renew(e) PROVE TypeOK'
  BY <1>2 DEF Renew, TypeOK, table, history
<1>3. CASE SetMaxRetry
  BY <1>3 DEF SetMaxRetry, TypeOK, table, history
<1>4. CASE Reconfigure
  BY <1>4 DEF Reconfigure, TypeOK, table, history
<1>5. CASE Prune
  <2>1. DOMAIN rows' \subseteq DOMAIN rows /\ \A i \in DOMAIN rows' : rows'[i] = rows[i]
    BY <1>5 DEF Prune
  <2>2. ASSUME run.step \in {"send", "mark"} PROVE run.cur \in DOMAIN rows'
    <3>1. run.cur \in DOMAIN rows /\ run.cur \in Id
      BY <2>2 DEF TypeOK, Id
    <3>2. rows[run.cur].status # "sent"
      BY <2>2, <3>1 DEF InHand, RunShape
    <3>3. QED
      BY <1>5, <3>1, <3>2 DEF Prune, Prunable, RowShape
  <2>3. QED
    BY <1>5, <2>1, <2>2 DEF Prune, TypeOK, env, history
<1>6. CASE StartDaily
  <2>1. DueNow \in SUBSET Event /\ channels \in SUBSET Channel
    BY DEF DueNow, TypeOK, NotifyAssumption
  <2>2. run' \in RunState /\ run'.step = "events"
    BY <1>6, <2>1, IdleTyped DEF StartDaily, RunState, TypeOK
  <2>3. QED
    BY <1>6, <2>2 DEF StartDaily, TypeOK, env, table, history
<1>7. ASSUME NEW e \in Event, NEW managers \in SUBSET Person, NEW admins \in SUBSET Person,
             PlanEvent(e, managers, admins)
      PROVE  TypeOK'
  <2> DEFINE pairs == {c \in run.chans : SentForEvent(e, c) = {}}
                        \X DeptRecipients(managers, admins)
             owed == {<<e, w[1], w[2]>> : w \in pairs}
  <2>1. pairs \in SUBSET (Channel \X Person)
    BY DEF TypeOK, RunState, DeptRecipients, WithEmail
  <2>2. owed \in SUBSET (Event \X Channel \X Person)
    BY <2>1
  <2>3. run' = [run EXCEPT !.step = "deliver", !.todo = @ \ {e}, !.ev = e, !.work = pairs,
                           !.owed = @ \cup owed]
    BY <1>7 DEF PlanEvent
  <2> HIDE DEF pairs, owed
  <2>4. run' \in RunState /\ run'.step = "deliver"
    BY <2>1, <2>2, <2>3 DEF TypeOK, RunState, Kind
  <2>5. QED
    BY <1>7, <2>4 DEF PlanEvent, TypeOK, env, table, history
<1>8. ASSUME NEW admins \in SUBSET Person, PlanSummary(admins) PROVE TypeOK'
  <2> DEFINE pairs == run.chans \X WithEmail(admins)
  <2>1. pairs \in SUBSET (Channel \X Person) /\ UnsummarizedGaveUp \in SUBSET Id
    BY DEF TypeOK, RunState, WithEmail, UnsummarizedGaveUp, Id
  <2>2. run' \in RunState /\ run'.step \in {"idle", "deliver"}
    <3>1. CASE Finish
      BY <3>1, IdleTyped DEF Finish
    <3>2. CASE run' = [run EXCEPT !.step = "deliver", !.ev = Summary, !.work = pairs,
                                  !.body = UnsummarizedGaveUp]
      <4> HIDE DEF pairs
      <4>1. QED
        BY <2>1, <3>2 DEF TypeOK, RunState, Kind
    <3>3. QED
      BY <1>8, <3>1, <3>2 DEF PlanSummary
  <2>3. ended' \in Time \cup {Null}
    BY <1>8 DEF PlanSummary, Finish, TypeOK
  <2>4. QED
    BY <1>8, <2>2, <2>3 DEF PlanSummary, TypeOK, env, table
<1>9. ASSUME NEW w \in Channel \X Person, Create(w) PROVE TypeOK'
  <2>1. run' \in RunState /\ run'.step = "send" /\ run'.cur = nextId
    <3>1. nextId \in Nat
      BY DEF TypeOK, NotifyAssumption
    <3>2. QED
      BY <1>9, <3>1 DEF Create, TypeOK, RunState
  <2>2. nextId' \in 1 .. MaxRow + 1 /\ nextId' = nextId + 1
    BY <1>9 DEF Create, TypeOK, NotifyAssumption
  <2>3. /\ DOMAIN rows' \subseteq 1 .. nextId' - 1 /\ nextId \in DOMAIN rows'
        /\ \A i \in DOMAIN rows' : rows'[i] \in Row
    BY <1>9, <2>2, CreatedRow DEF TypeOK
  <2>4. QED
    BY <1>9, <2>1, <2>2, <2>3 DEF Create, TypeOK, env, history
<1>10. CASE Delivered
  <2>1. run' \in RunState /\ run'.step \in {"idle", "events"} /\ ended' \in Time \cup {Null}
    BY <1>10, IdleTyped DEF Delivered, Finish, TypeOK, RunState
  <2>2. QED
    BY <1>10, <2>1 DEF Delivered, TypeOK, env, table
<1>11. CASE StartRetry
  <2>1. Retryable(maxRetry) \in SUBSET Id /\ channels \in SUBSET Channel
    BY DEF Retryable, TypeOK, NotifyAssumption, Id
  <2>2. run' \in RunState /\ run'.step = "retry"
    BY <1>11, <2>1, IdleTyped DEF StartRetry, RunState, TypeOK
  <2>3. QED
    BY <1>11, <2>2 DEF StartRetry, TypeOK, env, table, history
<1>12. ASSUME NEW i \in Id, Retry(i) PROVE TypeOK'
  <2>1. run' \in RunState /\ run'.cur = i /\ i \in DOMAIN rows
    <3>1. i \in Nat /\ i \in DOMAIN rows
      BY <1>12 DEF Retry, RunShape, NotifyAssumption, Id
    <3>2. PICK st \in {"send", "retry"} :
            run' = [run EXCEPT !.queue = @ \ {i}, !.cur = i, !.step = st]
      BY <1>12 DEF Retry
    <3>3. QED
      BY <3>1, <3>2 DEF TypeOK, RunState
  <2>2. QED
    BY <1>12, <2>1 DEF Retry, TypeOK, env, table, history
<1>13. CASE Retried
  BY <1>13, IdleTyped DEF Retried, Finish, TypeOK, env, table
<1>14. CASE Send
  <2>1. run.cur \in Id /\ rows[run.cur].body \subseteq Id
    BY <1>14 DEF Send, TypeOK, Id, Row
  <2>2. /\ run' \in RunState /\ run'.cur = run.cur
        /\ delivered' \in [Id -> 0 .. 2] /\ lapsed' \subseteq Id /\ reported' \subseteq Id
    <3>1. PICK out \in BOOLEAN, ok \in BOOLEAN :
            /\ run' = [run EXCEPT !.step = "mark", !.ok = ok]
            /\ delivered' = [delivered EXCEPT ![run.cur] = IF out /\ @ < 2 THEN @ + 1 ELSE @]
            /\ lapsed' = IF out /\ ~ok THEN lapsed \cup {run.cur} ELSE lapsed
            /\ reported' = IF out THEN reported \cup rows[run.cur].body ELSE reported
      BY <1>14 DEF Send
    <3>2. run' \in RunState /\ run'.cur = run.cur
      BY <3>1 DEF TypeOK, RunState
    <3>3. delivered' \in [Id -> 0 .. 2]
      BY <2>1, <3>1 DEF TypeOK
    <3>4. lapsed' \subseteq Id /\ reported' \subseteq Id
      BY <2>1, <3>1 DEF TypeOK
    <3>5. QED
      BY <3>2, <3>3, <3>4
  <2>3. QED
    BY <1>14, <2>2 DEF Send, TypeOK, env, table
<1>15. CASE MarkSent \/ MarkFailed \/ IncrementRetry
  <2>1. run' = [run EXCEPT !.step = Resume] /\ UNCHANGED <<clock, env, nextId, history>>
    BY <1>15 DEF MarkSent, MarkFailed, IncrementRetry
  <2>2. run' \in RunState /\ run'.step \in {"deliver", "retry"}
    BY <2>1 DEF TypeOK, RunState, Resume
  <2>3. DOMAIN rows' = DOMAIN rows /\ \A i \in DOMAIN rows : rows'[i] \in Row
    BY <1>15, MarkedRow DEF TypeOK
  <2>4. QED
    BY <2>1, <2>2, <2>3 DEF TypeOK, env, history
<1>16. CASE Interrupt
  <2>1. lapsed' \subseteq Id /\ interrupts' \in 0 .. MaxInterrupts /\ ended' \in Time \cup {Null}
    <3>1. run.step = "mark" => run.cur \in Id
      BY DEF TypeOK, Id
    <3>2. lapsed' \subseteq Id
      BY <1>16, <3>1 DEF Interrupt, TypeOK
    <3>3. QED
      BY <1>16, <3>2 DEF Interrupt, Finish, TypeOK, NotifyAssumption
  <2>2. QED
    BY <1>16, <2>1, IdleTyped DEF Interrupt, Finish, TypeOK, env, table
<1>17. CASE UNCHANGED vars
  BY <1>17 DEF vars, TypeOK, env, table, history
<1>18. QED
  BY <1>1, <1>2, <1>3, <1>4, <1>5, <1>6, <1>7, <1>8, <1>9, <1>10, <1>11, <1>12, <1>13,
     <1>14, <1>15, <1>16, <1>17 DEF Next, RunStep, Environment

-----------------------------------------------------------------------------
(* Steps that leave the run or the table alone                             *)

\* Pruning deletes sent rows only, and none that a run has in hand or in line.
LEMMA PrunedRows ==
    ASSUME TypeOK, RunShape, RowShape, Prune
    PROVE  /\ DOMAIN rows' \subseteq Ids /\ \A i \in DOMAIN rows' : rows'[i] = rows[i]
           /\ \A i \in Ids : rows[i].status # "sent" => i \in DOMAIN rows'
PROOF
BY DEF Prune, Prunable, RowShape

\* The steps of a run that only read the table.
Reads ==
    \/ StartDaily \/ StartRetry \/ Delivered \/ Retried \/ Interrupt \/ Send
    \/ \E e \in Event, managers, admins \in SUBSET Person : PlanEvent(e, managers, admins)
    \/ \E admins \in SUBSET Person : PlanSummary(admins)
    \/ \E i \in Id : Retry(i)

Marks == MarkSent \/ MarkFailed \/ IncrementRetry

\* Everything but a read, a record and a mark leaves the run alone.
LEMMA NextCases ==
    ASSUME [Next]_vars
    PROVE  \/ Reads \/ Marks \/ (\E w \in Channel \X Person : Create(w)) \/ Prune
           \/ (Environment /\ UNCHANGED <<table, run, history>>)
           \/ UNCHANGED vars
PROOF
<1>1. CASE Environment
  BY <1>1 DEF Environment, Tick, Renew, SetMaxRetry, Reconfigure
<1>2. QED
  BY <1>1 DEF Next, RunStep, Reads, Marks

LEMMA ReadsKeepTable == Reads => UNCHANGED <<clock, env, table>>
BY DEF Reads, StartDaily, StartRetry, Delivered, Retried, Interrupt, Send, PlanEvent,
       PlanSummary, Retry

-----------------------------------------------------------------------------
(* What a run holds                                                        *)

LEMMA IdleShape == run' = Idle => RunShape'
BY DEF Idle, RunShape, InHand

LEMMA NextRunShape ==
    ASSUME NotifyAssumption, TypeOK, RunShape, RowShape, [Next]_vars PROVE RunShape'
PROOF
<1>1. CASE UNCHANGED <<table, run>>
  BY <1>1 DEF RunShape, InHand, table, Ids
<1>2. CASE Prune
  BY <1>2, PrunedRows DEF Prune, RunShape, InHand, TypeOK, Id, Ids
<1>3. ASSUME NEW w \in Channel \X Person, Create(w) PROVE RunShape'
  BY <1>3, CreatedRow DEF Create, RunShape, InHand, TypeOK, RunState
<1>4. CASE Marks
  BY <1>4, MarkedRow DEF Marks, MarkSent, MarkFailed, IncrementRetry, Resume, RunShape, InHand, TypeOK, RunState, Ids
<1>5. CASE StartDaily
  BY <1>5 DEF StartDaily, Idle, RunShape, InHand
<1>6. CASE StartRetry
  BY <1>6 DEF StartRetry, Idle, RunShape, InHand, Retryable, table, Ids, TypeOK, NotifyAssumption
<1>7. ASSUME NEW e \in Event, NEW managers \in SUBSET Person, NEW admins \in SUBSET Person,
             PlanEvent(e, managers, admins)
      PROVE  RunShape'
  BY <1>7 DEF PlanEvent, RunShape, InHand, DeptRecipients, WithEmail, TypeOK, RunState
<1>8. ASSUME NEW admins \in SUBSET Person, PlanSummary(admins) PROVE RunShape'
  <2> DEFINE pairs == run.chans \X WithEmail(admins)
  <2>1. pairs \subseteq Channel \X WithEmail(Person)
    BY DEF TypeOK, RunState, WithEmail
  <2>2. CASE Finish
    BY <2>2, IdleShape DEF Finish
  <2>3. CASE run' = [run EXCEPT !.step = "deliver", !.ev = Summary, !.work = pairs,
                                !.body = UnsummarizedGaveUp]
    <3>1. run.limit = 0
      BY <1>8 DEF PlanSummary, RunShape
    <3> HIDE DEF pairs
    <3>2. QED
      BY <2>1, <2>3, <3>1 DEF RunShape, InHand, TypeOK, RunState
  <2>4. QED
    BY <1>8, <2>2, <2>3 DEF PlanSummary
<1>9. CASE Delivered
  BY <1>9, IdleShape DEF Delivered, Finish, RunShape, InHand, TypeOK, RunState
<1>10. ASSUME NEW i \in Id, Retry(i) PROVE RunShape'
  BY <1>10 DEF Retry, RunShape, InHand, TypeOK, RunState, table, Ids
<1>11. CASE Retried \/ Interrupt
  BY <1>11, IdleShape DEF Retried, Interrupt, Finish
<1>12. CASE Send
  BY <1>12 DEF Send, RunShape, InHand, TypeOK, RunState, table, Ids
<1>13. QED
  BY <1>1, <1>2, <1>3, <1>4, <1>5, <1>6, <1>7, <1>8, <1>9, <1>10, <1>11, <1>12, NextCases
     DEF Reads, vars

-----------------------------------------------------------------------------
(* What the rows hold                                                      *)

LEMMA NextRowShape ==
    ASSUME NotifyAssumption, TypeOK, RunShape, RowShape, [Next]_vars PROVE RowShape'
PROOF
<1>1. clock <= clock' /\ clock' \in Nat /\ clock \in Nat
  <2>1. clock' = clock \/ clock' = clock + 1
    BY NextCases, ReadsKeepTable DEF Environment, Tick, Renew, SetMaxRetry, Reconfigure, Prune,
       Create, Marks, MarkSent, MarkFailed, IncrementRetry, vars
  <2>2. QED
    BY <2>1 DEF TypeOK, Time
<1>2. CASE UNCHANGED table
  BY <1>1, <1>2 DEF RowShape, Ids, table, TypeOK, Row, Time
<1>3. CASE Prune
  BY <1>1, <1>3, PrunedRows DEF RowShape, Ids, TypeOK, Row, Time
<1>4. ASSUME NEW w \in Channel \X Person, Create(w) PROVE RowShape'
  BY <1>1, <1>4, CreatedRow DEF RowShape, Ids, TypeOK, Row, Time, Create
<1>5. CASE MarkSent
  BY <1>1, <1>5, MarkedRow DEF RowShape, Ids, TypeOK, Row, Time, MarkSent, Null
<1>6. CASE MarkFailed
  BY <1>1, <1>6, MarkedRow, FailedRow DEF RowShape, Ids, TypeOK, Row, Time
<1>7. CASE IncrementRetry
  BY <1>1, <1>7, MarkedRow, RetriedRow DEF RowShape, Ids, TypeOK, Row, Time
<1>8. QED
  BY <1>2, <1>3, <1>4, <1>5, <1>6, <1>7, NextCases, ReadsKeepTable DEF Marks, vars

LEMMA NextRetries ==
    ASSUME NotifyAssumption, TypeOK, RunShape, RowShape, RetriesBounded, [Next]_vars
    PROVE  RetriesBounded'
PROOF
<1>2. CASE UNCHANGED table
  BY <1>2 DEF RetriesBounded, Ids, table
<1>3. CASE Prune
  BY <1>3, PrunedRows DEF RetriesBounded, Ids
<1>4. ASSUME NEW w \in Channel \X Person, Create(w) PROVE RetriesBounded'
  <2>1. PICK l \in Limits : l \in Nat \ {0}
    BY DEF NotifyAssumption
  <2>2. rows'[nextId].status = "pending" /\ rows'[nextId].retries = 0
    BY <1>4, CreatedRow
  <2>3. rows'[nextId].retries <= l
    BY <2>1, <2>2
  <2>4. DOMAIN rows' = Ids \cup {nextId} /\ \A i \in Ids : rows'[i] = rows[i]
    BY <1>4, CreatedRow
  <2>5. QED
    BY <2>1, <2>2, <2>3, <2>4 DEF RetriesBounded, Ids
<1>5. CASE MarkSent
  BY <1>5, MarkedRow DEF RetriesBounded, Ids, TypeOK, Row, MarkSent
<1>6. CASE MarkFailed
  <2>1. PICK l \in Limits : l \in Nat \ {0}
    BY DEF NotifyAssumption
  <2>2. rows[run.cur].retries = 0
    BY <1>6, MarkedRow, FailedRow DEF RowShape
  <2>3. QED
    BY <1>6, <2>1, <2>2, MarkedRow, FailedRow DEF RetriesBounded, Ids
<1>7. CASE IncrementRetry
  <2>1. run.limit \in Limits /\ run.limit \in Nat
    BY <1>7 DEF IncrementRetry, TypeOK, RunState, NotifyAssumption
  <2>2. rows[run.cur].retries \in Nat
    BY <1>7, MarkedRow DEF TypeOK, Row
  <2>3. QED
    BY <1>7, <2>1, <2>2, MarkedRow, RetriedRow DEF RetriesBounded, Ids
<1>8. QED
  BY <1>2, <1>3, <1>4, <1>5, <1>6, <1>7, NextCases, ReadsKeepTable DEF Marks, vars

-----------------------------------------------------------------------------
(* Deliveries                                                              *)

\* A Send touches the histories of the row in hand alone.
LEMMA SentOut ==
    ASSUME NotifyAssumption, TypeOK, Send
    PROVE  /\ run.step = "send" /\ run'.step = "mark" /\ run'.cur = run.cur
           /\ run.cur \in Ids /\ run.cur \in Id
           /\ \A i \in Id : i # run.cur => delivered'[i] = delivered[i]
           /\ delivered[run.cur] > 0 => delivered'[run.cur] > 0
           /\ delivered'[run.cur] > 1 => delivered[run.cur] > 0
           /\ run'.ok => delivered'[run.cur] > 0
           /\ delivered'[run.cur] > delivered[run.cur] => run'.ok \/ run.cur \in lapsed'
           /\ lapsed \subseteq lapsed' /\ reported \subseteq reported'
           /\ run'.ok => rows[run.cur].body \subseteq reported'
PROOF
<1>1. run.cur \in Ids /\ run.cur \in Id
  BY DEF Send, TypeOK, Id, NotifyAssumption
<1>2. PICK out \in BOOLEAN, ok \in BOOLEAN :
        /\ ok => out
        /\ run' = [run EXCEPT !.step = "mark", !.ok = ok]
        /\ delivered' = [delivered EXCEPT ![run.cur] = IF out /\ @ < 2 THEN @ + 1 ELSE @]
        /\ lapsed' = IF out /\ ~ok THEN lapsed \cup {run.cur} ELSE lapsed
        /\ reported' = IF out THEN reported \cup rows[run.cur].body ELSE reported
  BY DEF Send
<1>3. run.step = "send" /\ run'.step = "mark" /\ run'.cur = run.cur /\ run'.ok = ok
  BY <1>2 DEF Send, TypeOK, RunState
<1>4. delivered[run.cur] \in 0 .. 2
  BY <1>1 DEF TypeOK
<1>5. /\ \A i \in Id : i # run.cur => delivered'[i] = delivered[i]
      /\ delivered'[run.cur] = IF out /\ delivered[run.cur] < 2
                               THEN delivered[run.cur] + 1 ELSE delivered[run.cur]
  BY <1>1, <1>2 DEF TypeOK
<1>6. lapsed \subseteq lapsed' /\ reported \subseteq reported'
      /\ (out => rows[run.cur].body \subseteq reported')
      /\ (out /\ ~ok => run.cur \in lapsed')
  BY <1>2
<1>7. QED
  BY <1>1, <1>2, <1>3, <1>4, <1>5, <1>6

\* The reads that no delivery is known from or lost by.
LEMMA QuietReads ==
    ASSUME TypeOK, RunShape, Reads, ~Send, ~Interrupt
    PROVE  /\ run.step \notin {"send", "mark"} /\ run'.step # "mark"
           /\ UNCHANGED <<delivered, lapsed, reported, interrupts>>
PROOF
<1>1. run = Idle => run.step = "idle"
  BY DEF Idle
<1>2. Idle.step = "idle"
  BY DEF Idle
<1>3. CASE StartDaily \/ StartRetry \/ Delivered \/ Retried
  BY <1>1, <1>2, <1>3 DEF StartDaily, StartRetry, Delivered, Retried, MayStart, Finish, Idle,
                          history, TypeOK, RunState
<1>4. ASSUME NEW e \in Event, NEW managers \in SUBSET Person, NEW admins \in SUBSET Person,
             PlanEvent(e, managers, admins)
      PROVE  run.step = "events" /\ run'.step = "deliver" /\ UNCHANGED history
  BY <1>4 DEF PlanEvent, TypeOK, RunState
<1>5. ASSUME NEW admins \in SUBSET Person, PlanSummary(admins)
      PROVE  /\ run.step = "events" /\ run'.step \in {"idle", "deliver"}
             /\ UNCHANGED <<delivered, lapsed, reported, interrupts>>
  BY <1>2, <1>5 DEF PlanSummary, Finish, TypeOK, RunState
<1>6. ASSUME NEW i \in Id, Retry(i)
      PROVE  run.step = "retry" /\ run'.step \in {"retry", "send"} /\ UNCHANGED history
  BY <1>6 DEF Retry, TypeOK, RunState
<1>7. QED
  BY <1>3, <1>4, <1>5, <1>6 DEF Reads, history

LEMMA NextDeliveries ==
    ASSUME NotifyAssumption, TypeOK, RunShape, RowShape, Deliveries, DuplicateNeedsLapse,
           [Next]_vars
    PROVE  Deliveries' /\ DuplicateNeedsLapse'
PROOF
<1>1. CASE UNCHANGED <<table, run, history>>
  BY <1>1 DEF Deliveries, DuplicateNeedsLapse, InHand, table, history, Ids
<1>2. CASE Prune
  BY <1>2, PrunedRows DEF Prune, Deliveries, DuplicateNeedsLapse, InHand, history, Ids, TypeOK
<1>3. ASSUME NEW w \in Channel \X Person, Create(w) PROVE Deliveries' /\ DuplicateNeedsLapse'
  <2>1. /\ run.step = "deliver" /\ run'.step = "send" /\ run'.cur = nextId
        /\ nextId' = nextId + 1 /\ nextId \in Nat /\ UNCHANGED history
    BY <1>3 DEF Create, TypeOK, RunState, NotifyAssumption
  <2>2. delivered[nextId] = 0
    BY <1>3, <2>1, CreatedRow DEF Deliveries
  <2>3. QED
    BY <1>3, <2>1, <2>2, CreatedRow
       DEF Deliveries, DuplicateNeedsLapse, InHand, history, Ids, Id
<1>4. CASE Marks
  <2>1. /\ run.step = "mark" /\ run'.step \in {"deliver", "retry"}
        /\ UNCHANGED <<nextId, history>>
    BY <1>4 DEF Marks, MarkSent, MarkFailed, IncrementRetry, Resume, TypeOK, RunState
  <2>2. ~run.ok \/ (rows'[run.cur].status = "sent" /\ delivered[run.cur] > 0)
    BY <1>4, <2>1, MarkedRow DEF Marks, MarkSent, MarkFailed, IncrementRetry, Deliveries, TypeOK, Row, Ids
  <2>3. rows[run.cur].status # "sent" /\ run.cur \in Ids
    <3>1. run.cur \in Ids
      BY <1>4, MarkedRow DEF Marks
    <3>2. run.cur \in Id
      BY <3>1, IdsBounded
    <3>3. QED
      BY <2>1, <3>1, <3>2 DEF RunShape, InHand
  <2>4. rows'[run.cur].status # "pending"
    BY <1>4, FailedRow, RetriedRow, MarkedRow DEF Marks, MarkSent, TypeOK, Row, Ids
  <2>5. rows'[run.cur].status = "sent" => delivered[run.cur] > 0
    BY <1>4, <2>2, FailedRow, RetriedRow DEF Marks, MarkSent
  <2>6. QED
    BY <1>4, <2>1, <2>2, <2>3, <2>4, <2>5, MarkedRow
       DEF Marks, Deliveries, DuplicateNeedsLapse, InHand, history, Ids
<1>5. CASE Reads /\ ~Send /\ ~Interrupt
  BY <1>5, QuietReads, ReadsKeepTable
     DEF Deliveries, DuplicateNeedsLapse, InHand, table, Ids
<1>6. CASE Send
  <2>1. UNCHANGED <<rows, nextId, interrupts>>
    BY <1>6 DEF Send, table
  <2>2. rows[run.cur].status # "sent"
    BY <1>6, SentOut DEF RunShape, InHand
  <2>3. run.cur < nextId
    BY <1>6, SentOut DEF TypeOK, Ids
  <2>4. DuplicateNeedsLapse'
    BY <1>6, <2>2, SentOut DEF DuplicateNeedsLapse, Deliveries, InHand, TypeOK
  <2>5. Deliveries'
    BY <1>6, <2>1, <2>2, <2>3, SentOut DEF Deliveries, InHand, TypeOK, Ids, Id
  <2>6. QED
    BY <2>4, <2>5
<1>7. CASE Interrupt
  <2>1. /\ UNCHANGED <<rows, nextId, delivered>> /\ interrupts' > 0 /\ run' = Idle
        /\ lapsed \subseteq lapsed'
        /\ (run.step = "mark" /\ run.ok => run.cur \in lapsed')
    BY <1>7 DEF Interrupt, table, Finish, TypeOK, NotifyAssumption
  <2>2. run'.step = "idle"
    BY <2>1 DEF Idle
  <2>3. QED
    BY <2>1, <2>2 DEF Deliveries, DuplicateNeedsLapse, InHand, Ids
<1>8. QED
  BY <1>1, <1>2, <1>3, <1>4, <1>5, <1>6, <1>7, NextCases DEF vars

-----------------------------------------------------------------------------
(* Summaries                                                               *)

LEMMA ClockGrows == ASSUME TypeOK, [Next]_vars PROVE clock <= clock' /\ clock \in Nat /\ clock' \in Nat
PROOF
<1>1. clock' = clock \/ clock' = clock + 1
  BY NextCases, ReadsKeepTable DEF Environment, Tick, Renew, SetMaxRetry, Reconfigure, Prune,
     Create, Marks, MarkSent, MarkFailed, IncrementRetry, vars
<1>2. QED
  BY <1>1 DEF TypeOK, Time

\* What the next summary would list is all that no delivered one has.
LEMMA NothingLeftOut ==
    ASSUME TypeOK, Summaries, NEW i \in Ids,
           rows[i].status = "gave_up", rows[i].ev # Summary
    PROVE  i \in reported \/ i \in UnsummarizedGaveUp
PROOF
<1>1. ASSUME i \notin reported, NEW s \in Ids, rows[s].ev = Summary, rows[s].status = "sent"
      PROVE  rows[i].attempted > rows[s].created
  <2>1. i \notin rows[s].body /\ ~Hidden(i, s)
    BY <1>1 DEF Summaries
  <2>2. rows[i].attempted \in Int /\ rows[s].created \in Int
    BY DEF TypeOK, Row, Time, Null
  <2>3. QED
    BY <1>1, <2>1, <2>2 DEF Hidden
<1>2. QED
  BY <1>1 DEF UnsummarizedGaveUp

\* The reads that plan what to send, and when they end a run.
LEMMA NextSummariesReads ==
    ASSUME NotifyAssumption, RunsApart, TypeOK, RunShape, RowShape, Summaries, Reads
    PROVE  Summaries'
PROOF
<1>1. /\ UNCHANGED <<clock, rows>>
      /\ reported \subseteq reported' => \A i, s \in Ids : Hidden(i, s)' => Hidden(i, s)
  BY ReadsKeepTable DEF table, Hidden
<1>2. \A s \in Ids : rows[s].created \in Int /\ rows[s].created <= clock
  BY DEF RowShape, TypeOK, Row, Time
<1>3. CASE Finish /\ reported' = reported
  <2>1. run'.step = "idle" /\ run'.limit = 0 /\ ended' = clock
    BY <1>3 DEF Finish, Idle
  <2>2. QED
    BY <1>1, <1>2, <1>3, <2>1 DEF Summaries, Ids
<1>4. CASE StartDaily
  <2>1. run'.step = "events" /\ run'.limit = 0 /\ UNCHANGED history
    BY <1>4 DEF StartDaily, Idle
  <2>2. run' # Idle
    BY <2>1 DEF Idle
  <2>3. QED
    BY <1>1, <2>1, <2>2 DEF Summaries, Ids, history
<1>5. CASE StartRetry
  <2>1. run'.step = "retry" /\ UNCHANGED history
    BY <1>5 DEF StartRetry, Idle
  <2>2. run' # Idle
    BY <2>1 DEF Idle
  <2>3. \A s \in Ids : rows[s].created < clock
    <3>1. run = Idle /\ clock > ended
      BY <1>5 DEF StartRetry, MayStart
    <3>2. clock \in Int /\ ended \in Int
      BY DEF TypeOK, Time, Null
    <3>3. \A s \in Ids : rows[s].created <= ended
      BY <3>1 DEF Summaries
    <3>4. QED
      BY <1>2, <3>1, <3>2, <3>3
  <2>4. QED
    BY <1>1, <2>1, <2>2, <2>3 DEF Summaries, Ids, history
<1>6. ASSUME NEW e \in Event, NEW managers \in SUBSET Person, NEW admins \in SUBSET Person,
             PlanEvent(e, managers, admins)
      PROVE  Summaries'
  <2>1. /\ run.step = "events" /\ run'.step = "deliver" /\ run'.ev = e /\ run'.limit = run.limit
        /\ UNCHANGED history
    BY <1>6 DEF PlanEvent, TypeOK, RunState
  <2>2. run' # Idle /\ e # Summary
    BY <2>1 DEF Idle, NotifyAssumption
  <2>3. QED
    BY <1>1, <2>1, <2>2 DEF Summaries, Ids, history
<1>7. ASSUME NEW admins \in SUBSET Person, PlanSummary(admins), ~Finish PROVE Summaries'
  <2>1. /\ run'.step = "deliver" /\ run'.limit = run.limit
        /\ run'.body = UnsummarizedGaveUp /\ reported' = reported
    BY <1>7 DEF PlanSummary, TypeOK, RunState
  <2>2. run' # Idle
    BY <2>1 DEF Idle
  <2>3. QED
    BY <1>1, <2>1, <2>2, NothingLeftOut DEF Summaries, Ids
<1>8. CASE Delivered /\ ~Finish
  <2>1. run'.step = "events" /\ run'.limit = run.limit /\ reported' = reported
    BY <1>8 DEF Delivered, TypeOK, RunState
  <2>2. run' # Idle
    BY <2>1 DEF Idle
  <2>3. QED
    BY <1>1, <2>1, <2>2 DEF Summaries, Ids
<1>9. ASSUME NEW i \in Id, Retry(i) PROVE Summaries'
  <2>1. /\ run'.step \in {"send", "retry"} /\ run'.limit = run.limit /\ run.step = "retry"
        /\ UNCHANGED history
    BY <1>9 DEF Retry, TypeOK, RunState
  <2>2. run' # Idle /\ run.limit # 0
    BY <2>1 DEF Idle, RunShape
  <2>3. QED
    BY <1>1, <2>1, <2>2 DEF Summaries, Ids, history
<1>10. CASE Send
  <2>1. /\ run'.step = "mark" /\ run'.limit = run.limit /\ run'.cur = run.cur /\ run'.ev = run.ev
        /\ run'.body = run.body /\ run.step = "send" /\ reported \subseteq reported'
        /\ (run'.ok => rows[run.cur].body \subseteq reported')
    BY <1>10, SentOut DEF Send, TypeOK, RunState
  <2>2. run' # Idle
    BY <2>1 DEF Idle
  <2>3. QED
    BY <1>1, <2>1, <2>2 DEF Summaries, Ids
<1>11. QED
  BY <1>3, <1>4, <1>5, <1>6, <1>7, <1>8, <1>9, <1>10
     DEF Reads, PlanSummary, Delivered, Retried, Interrupt

LEMMA NextSummaries ==
    ASSUME NotifyAssumption, RunsApart, TypeOK, RunShape, RowShape, Summaries, [Next]_vars
    PROVE  Summaries'
PROOF
<1>1. clock <= clock' /\ clock \in Nat /\ clock' \in Nat /\ \A s \in Ids : rows[s].created \in Nat
  BY ClockGrows DEF TypeOK, Row, Time
<1>2. CASE UNCHANGED <<table, run, history>>
  <2>1. \A s \in Ids : rows[s].created < clock => rows[s].created < clock'
    BY <1>1
  <2>2. \A i, s \in Ids : Hidden(i, s)' => Hidden(i, s)
    BY <1>2 DEF Hidden, table, history
  <2>3. QED
    BY <1>2, <2>1, <2>2 DEF Summaries, table, history, Ids
<1>3. CASE Prune
  <2>1. UNCHANGED <<clock, run, history>>
    BY <1>3 DEF Prune
  <2>2. \A i, s \in DOMAIN rows' : Hidden(i, s)' => Hidden(i, s)
    BY <1>3, <2>1, PrunedRows DEF Hidden, history
  <2>3. run.step = "mark" => rows'[run.cur] = rows[run.cur]
    <3>1. ASSUME run.step = "mark" PROVE run.cur \in Id /\ run.cur \in Ids
      BY <3>1, IdsBounded DEF TypeOK
    <3>2. ASSUME run.step = "mark" PROVE rows[run.cur].status # "sent"
      BY <3>1, <3>2 DEF RunShape, InHand
    <3>3. QED
      BY <1>3, <3>1, <3>2, PrunedRows
  <2>4. QED
    BY <1>3, <2>1, <2>2, <2>3, PrunedRows DEF Summaries, history, Ids
<1>4. ASSUME NEW w \in Channel \X Person, Create(w) PROVE Summaries'
  <2>1. /\ run.step = "deliver" /\ run'.step = "send" /\ run.limit = 0 /\ run'.limit = run.limit
        /\ run'.ev = run.ev /\ run'.body = run.body /\ UNCHANGED <<clock, history>>
    BY <1>4 DEF Create, TypeOK, RunState, RunShape
  <2>2. run' # Idle
    BY <2>1 DEF Idle
  <2>3. \A i, s \in Ids : Hidden(i, s)' => Hidden(i, s)
    BY <1>4, <2>1, CreatedRow DEF Hidden, history
  <2>4. ASSUME NEW i \in Ids, NEW n, n = nextId PROVE ~Hidden(i, n)'
    <3>1. SUFFICES ASSUME Hidden(i, n)' PROVE FALSE
      OBVIOUS
    <3>2. rows'[i] = rows[i] /\ rows'[n].ev = run.ev /\ rows'[n].body = run.body
      BY <1>4, <2>4, CreatedRow
    <3>3. rows[i].status = "gave_up" /\ rows[i].ev # Summary /\ i \notin reported
          /\ run.ev = Summary /\ i \notin run.body
      BY <2>1, <3>1, <3>2 DEF Hidden, history
    <3>4. QED
      BY <2>1, <3>3 DEF Summaries
  <2>5. ASSUME NEW n, n = nextId, NEW s PROVE ~Hidden(n, s)'
    <3>1. rows'[n].status = "pending"
      BY <1>4, <2>5, CreatedRow
    <3>2. QED
      BY <3>1 DEF Hidden
  <2>6. /\ DOMAIN rows' = Ids \cup {nextId} /\ rows'[nextId].status = "pending"
        /\ \A i \in Ids : rows'[i] = rows[i]
    BY <1>4, CreatedRow
  <2>7. \A i, s \in Ids' : ~Hidden(i, s)'
    BY <2>3, <2>4, <2>5, <2>6 DEF Summaries, Ids
  <2>8. QED
    BY <2>1, <2>2, <2>6, <2>7 DEF Summaries, history, Ids
<1>5. CASE Marks
  <2>1. /\ run.step = "mark" /\ run'.step \in {"deliver", "retry"} /\ run'.limit = run.limit
        /\ run'.ev = run.ev /\ run'.body = run.body /\ UNCHANGED <<clock, history>>
    BY <1>5 DEF Marks, MarkSent, MarkFailed, IncrementRetry, Resume, TypeOK, RunState
  <2>2. run' # Idle
    BY <2>1 DEF Idle
  <2>3. rows'[run.cur].status = "sent" => run.ok
    BY <1>5, FailedRow, RetriedRow DEF Marks, MarkSent
  <2>4. rows'[run.cur].status = "gave_up" => run.limit # 0
    BY <1>5, FailedRow, MarkedRow DEF Marks, IncrementRetry, MarkSent, TypeOK, Row, Ids
  <2>5. \A i, s \in Ids : i # run.cur /\ Hidden(i, s)' => Hidden(i, s)
    BY <1>5, <2>1, MarkedRow DEF Marks, Hidden, history
  <2>6. ASSUME NEW i, i = run.cur, NEW s \in Ids PROVE ~Hidden(i, s)'
    <3>1. SUFFICES ASSUME Hidden(i, s)' PROVE FALSE
      OBVIOUS
    <3>2. rows[s].created < clock
      BY <2>4, <2>6, <3>1 DEF Hidden, Summaries
    <3>3. rows'[s].created = rows[s].created /\ rows'[i].attempted = clock
      BY <1>5, <2>6, MarkedRow DEF Marks
    <3>4. QED
      BY <1>1, <3>1, <3>2, <3>3 DEF Hidden
  <2>7. DOMAIN rows' = Ids /\ \A s \in Ids : rows'[s].created = rows[s].created
                                            /\ rows'[s].body = rows[s].body
                                            /\ rows'[s].ev = rows[s].ev
    BY <1>5, MarkedRow DEF Marks
  <2>8. \A s \in Ids : rows'[s].status \in {"sent", "gave_up"} /\ s # run.cur
                       => rows[s].status = rows'[s].status
    BY <1>5, MarkedRow DEF Marks
  <2>9. \A i, s \in Ids' : ~Hidden(i, s)'
    BY <2>5, <2>6, <2>7 DEF Summaries, Ids
  <2>10. \A s \in Ids' : rows'[s].status = "sent" => rows'[s].body \subseteq reported
    BY <2>1, <2>3, <2>7, <2>8 DEF Summaries, Ids
  <2>11. run.limit = 0 => \A i \in Ids' : rows'[i].status = "gave_up" => i # run.cur
    BY <2>4
  <2>12. QED
    BY <2>1, <2>2, <2>7, <2>8, <2>9, <2>10, <2>11 DEF Summaries, history, Ids
<1>6. CASE Reads
  BY <1>6, NextSummariesReads
<1>7. QED
  BY <1>2, <1>3, <1>4, <1>5, <1>6, NextCases DEF vars

-----------------------------------------------------------------------------
(* One summary a day                                                       *)

\* Nobody is written to twice under two names: the batch counts people, the
\* table addresses.
AddressesApart ==
    \A p, q \in WithEmail(Person) : EmailOf[p] = EmailOf[q] => p = q

DailyRun == run # Idle /\ run.limit = 0
Summarizing ==
    run.step \in {"deliver", "send", "mark"} /\ run.limit = 0 /\ run.ev = Summary

\* Up to its summary a run sees only older ones; from then on the table holds
\* those of earlier days and its own, each of a pair that is no longer open.
SummaryDays ==
    /\ DailyRun => run.now \in Time /\ run.now <= clock
    /\ DailyRun /\ ~Summarizing =>
         \A s \in Ids : rows[s].ev = Summary => rows[s].created <= run.now
    /\ Summarizing =>
         \A s \in Ids : rows[s].ev = Summary =>
           \/ Day(rows[s].created) < Day(run.now)
           \/ /\ run.now <= rows[s].created
              /\ \A w \in run.work : ~(rows[s].ch = w[1] /\ rows[s].to = EmailOf[w[2]])

\* Days do not run backwards.
LEMMA DayMonotone ==
    ASSUME NotifyAssumption, NEW a \in Nat, NEW b \in Nat, a <= b
    PROVE  Day(a) \in Nat /\ Day(b) \in Nat /\ Day(a) <= Day(b)
PROOF
<1>1. SecondsPerDay \in Nat \ {0}
  BY DEF NotifyAssumption
<1>2. \A t \in Nat : Day(t) \in Nat /\ Day(t) * SecondsPerDay <= t
                     /\ t < Day(t) * SecondsPerDay + SecondsPerDay
  BY <1>1, SMTT(60) DEF Day
<1> DEFINE x == Day(a)
           y == Day(b)
<1>3. x \in Nat /\ y \in Nat /\ x * SecondsPerDay <= a /\ b < y * SecondsPerDay + SecondsPerDay
  BY <1>2
<1> HIDE DEF x, y
<1>4. x <= y
  <2>1. SUFFICES ASSUME y + 1 <= x PROVE FALSE
    BY <1>3
  <2>2. (y + 1) * SecondsPerDay <= x * SecondsPerDay
    BY <1>1, <1>3, <2>1, SMTT(60)
  <2>3. (y + 1) * SecondsPerDay = y * SecondsPerDay + SecondsPerDay
    BY <1>1, <1>3, SMTT(60)
  <2>4. QED
    BY <1>1, <1>3, <2>2, <2>3, SMTT(60)
<1>5. QED
  BY <1>3, <1>4 DEF x, y

\* Where no row is new and none changes its key, and the run its place.
LEMMA SummaryDaysKept ==
    ASSUME TypeOK, SummaryDays, clock <= clock', clock \in Nat, clock' \in Nat, UNCHANGED run,
           Ids' \subseteq Ids,
           \A i \in Ids' : /\ rows'[i].ev = rows[i].ev /\ rows'[i].ch = rows[i].ch
                           /\ rows'[i].to = rows[i].to /\ rows'[i].created = rows[i].created
    PROVE  SummaryDays'
PROOF
<1>1. DailyRun' = DailyRun /\ Summarizing' = Summarizing
  BY DEF DailyRun, Summarizing
<1>2. DailyRun => run.now \in Time /\ run.now <= clock'
  BY DEF SummaryDays, Time
<1>3. QED
  BY <1>1, <1>2 DEF SummaryDays

\* The steps that only read: a run starts, plans, passes something over, ends.
LEMMA SummaryDaysReads ==
    ASSUME NotifyAssumption, TypeOK, RunShape, RowShape, SummaryDays, Reads
    PROVE  SummaryDays'
PROOF
<1>1. UNCHANGED <<clock, rows>> /\ clock \in Time /\ clock \in Nat
  BY ReadsKeepTable DEF table, TypeOK, Time
<1>2. \A s \in Ids : rows[s].created \in Nat /\ rows[s].created <= clock
  BY DEF RowShape, TypeOK, Row, Time
<1>3. ASSUME run' = Idle PROVE SummaryDays'
  BY <1>3 DEF SummaryDays, DailyRun, Summarizing, Idle
<1>4. CASE StartDaily
  <2>1. run'.step = "events" /\ run'.now = clock
    BY <1>4 DEF StartDaily, Idle
  <2>2. QED
    BY <1>1, <1>2, <2>1 DEF SummaryDays, DailyRun, Summarizing, Ids
<1>5. CASE StartRetry
  <2>1. run'.limit # 0
    BY <1>5 DEF StartRetry, Idle, TypeOK, NotifyAssumption
  <2>2. QED
    BY <2>1 DEF SummaryDays, DailyRun, Summarizing
<1>6. ASSUME NEW e \in Event, NEW managers \in SUBSET Person, NEW admins \in SUBSET Person,
             PlanEvent(e, managers, admins)
      PROVE  SummaryDays'
  <2>1. /\ run.step = "events" /\ run'.ev = e /\ e # Summary
        /\ run'.limit = run.limit /\ run'.now = run.now
    BY <1>6 DEF PlanEvent, TypeOK, RunState, NotifyAssumption
  <2>2. DailyRun
    BY <2>1 DEF DailyRun, RunShape, Idle
  <2>3. QED
    BY <1>1, <2>1, <2>2 DEF SummaryDays, DailyRun, Summarizing, Ids
<1>7. ASSUME NEW admins \in SUBSET Person, PlanSummary(admins), ~Finish PROVE SummaryDays'
  <2>1. /\ run.step = "events" /\ run'.step = "deliver" /\ run'.ev = Summary
        /\ run'.limit = run.limit /\ run'.now = run.now /\ SummariesOn(Day(run.now)) = {}
    BY <1>7 DEF PlanSummary, TypeOK, RunState
  <2>2. DailyRun /\ ~Summarizing
    BY <2>1 DEF DailyRun, Summarizing, RunShape, Idle
  <2>3. run.now \in Nat /\ run.now \in Time
    BY <2>2 DEF SummaryDays, Time
  <2>4. ASSUME NEW s \in Ids, rows[s].ev = Summary PROVE Day(rows[s].created) < Day(run.now)
    <3>1. rows[s].created <= run.now /\ rows[s].created \in Nat
      BY <1>2, <2>2, <2>4 DEF SummaryDays
    <3>2. Day(rows[s].created) # Day(run.now)
      BY <2>1, <2>4 DEF SummariesOn
    <3>3. QED
      BY <2>3, <3>1, <3>2, DayMonotone
  <2>5. Summarizing'
    BY <2>1, <2>2 DEF Summarizing, DailyRun
  <2>6. QED
    BY <1>1, <2>1, <2>2, <2>4, <2>5 DEF SummaryDays, Ids
<1>8. CASE Delivered /\ ~Finish
  <2>1. /\ run.step = "deliver" /\ run.ev # Summary /\ run'.step = "events"
        /\ run'.limit = run.limit /\ run'.now = run.now
    BY <1>8 DEF Delivered, TypeOK, RunState
  <2>2. DailyRun /\ ~Summarizing
    BY <2>1 DEF DailyRun, Summarizing, RunShape, Idle
  <2>3. QED
    BY <1>1, <2>1, <2>2 DEF SummaryDays, Summarizing, Ids
<1>9. ASSUME NEW i \in Id, Retry(i) PROVE SummaryDays'
  <2>1. run'.limit = run.limit /\ run.limit # 0
    BY <1>9 DEF Retry, TypeOK, RunState, RunShape
  <2>2. QED
    BY <2>1 DEF SummaryDays, DailyRun, Summarizing
<1>10. CASE Send
  <2>1. /\ run.step = "send" /\ run'.step = "mark" /\ run'.limit = run.limit
        /\ run'.now = run.now /\ run'.ev = run.ev /\ run'.work = run.work
    BY <1>10 DEF Send, TypeOK, RunState
  <2>2. DailyRun' => DailyRun
    BY <2>1 DEF DailyRun, Idle
  <2>3. Summarizing' = Summarizing
    BY <2>1 DEF Summarizing
  <2>4. QED
    BY <1>1, <2>1, <2>2, <2>3 DEF SummaryDays, Ids
<1>11. QED
  BY <1>3, <1>4, <1>5, <1>6, <1>7, <1>8, <1>9, <1>10
     DEF Reads, PlanSummary, Delivered, Retried, Interrupt, Finish

LEMMA NextSummaryDays ==
    ASSUME NotifyAssumption, AddressesApart, TypeOK, RunShape, RowShape, SummaryDays, [Next]_vars
    PROVE  SummaryDays'
PROOF
<1>1. clock <= clock' /\ clock \in Nat /\ clock' \in Nat
  BY ClockGrows
<1>2. CASE UNCHANGED <<table, run, history>>
  BY <1>1, <1>2, SummaryDaysKept DEF table, Ids
<1>3. CASE Prune
  BY <1>1, <1>3, PrunedRows, SummaryDaysKept DEF Prune, Ids
<1>4. ASSUME NEW w \in Channel \X Person, Create(w) PROVE SummaryDays'
  <2>1. /\ run.step = "deliver" /\ run'.step = "send" /\ run.limit = 0 /\ run'.limit = 0
        /\ run'.ev = run.ev /\ run'.now = run.now /\ run'.work = run.work \ {w}
        /\ w \in run.work /\ clock' = clock
    BY <1>4 DEF Create, TypeOK, RunState, RunShape
  <2>2. DailyRun /\ Summarizing' = Summarizing
    BY <2>1 DEF DailyRun, Summarizing, Idle
  <2>3. run.now \in Time /\ run.now <= clock
    BY <2>2 DEF SummaryDays
  <2>4. CASE ~Summarizing
    <3>1. run.ev # Summary
      BY <2>1, <2>4 DEF Summarizing
    <3>2. QED
      BY <1>4, <2>1, <2>2, <2>3, <2>4, <3>1, CreatedRow DEF SummaryDays, Ids
  <2>5. CASE Summarizing
    <3>1. ASSUME NEW v \in run.work \ {w}
          PROVE  ~(rows'[nextId].ch = v[1] /\ rows'[nextId].to = EmailOf[v[2]])
      <4>1. v \in Channel \X WithEmail(Person) /\ w \in Channel \X WithEmail(Person)
        BY <2>1, <3>1 DEF RunShape
      <4>2. v[1] # w[1] \/ v[2] # w[2]
        BY <3>1, <4>1
      <4>3. rows'[nextId].ch = w[1] /\ rows'[nextId].to = EmailOf[w[2]]
        BY <1>4, CreatedRow
      <4>4. v[2] \in WithEmail(Person) /\ w[2] \in WithEmail(Person)
        BY <4>1
      <4>5. QED
        BY <4>2, <4>3, <4>4 DEF AddressesApart
    <3>2. rows'[nextId].created = clock /\ Ids' = Ids \cup {nextId} /\ nextId \notin Ids
          /\ \A i \in Ids : rows'[i] = rows[i]
      BY <1>4, CreatedRow DEF Ids
    <3>3. \A s \in Ids : rows[s].ev = Summary =>
            \/ Day(rows[s].created) < Day(run.now)
            \/ /\ run.now <= rows[s].created
               /\ \A v \in run.work : ~(rows[s].ch = v[1] /\ rows[s].to = EmailOf[v[2]])
      BY <2>5 DEF SummaryDays
    <3>4. QED
      BY <2>1, <2>2, <2>3, <2>5, <3>1, <3>2, <3>3 DEF SummaryDays
  <2>6. QED
    BY <2>4, <2>5
<1>5. CASE Marks
  <2>1. /\ run.step = "mark" /\ run'.step = Resume /\ run'.limit = run.limit /\ run'.now = run.now
        /\ run'.ev = run.ev /\ run'.work = run.work /\ clock' = clock
    BY <1>5 DEF Marks, MarkSent, MarkFailed, IncrementRetry, TypeOK, RunState
  <2>2. /\ Ids' = Ids
        /\ \A i \in Ids : /\ rows'[i].ev = rows[i].ev /\ rows'[i].ch = rows[i].ch
                          /\ rows'[i].to = rows[i].to /\ rows'[i].created = rows[i].created
    BY <1>5, MarkedRow DEF Marks, Ids
  <2>3. DailyRun' => DailyRun
    BY <2>1 DEF DailyRun, Idle
  <2>4. Summarizing' = Summarizing
    BY <2>1 DEF Summarizing, Resume
  <2>5. QED
    BY <2>1, <2>2, <2>3, <2>4 DEF SummaryDays
<1>6. CASE Reads
  BY <1>6, SummaryDaysReads
<1>7. QED
  BY <1>2, <1>3, <1>4, <1>5, <1>6, NextCases DEF vars

\* No two summaries with one key have a day in common: that of a new one is
\* the day of the run or a later one, and its pair was open.
OwnDays ==
    \A i, j \in Ids :
        i # j /\ rows[i].ev = Summary /\ rows[j].ev = Summary /\ rows[i].ch = rows[j].ch
        /\ rows[i].to = rows[j].to
        => Day(rows[i].created) # Day(rows[j].created)

LEMMA NextOwnDays ==
    ASSUME NotifyAssumption, TypeOK, RunShape, RowShape, SummaryDays, OwnDays, [Next]_vars
    PROVE  OwnDays'
PROOF
<1>1. ASSUME Ids' \subseteq Ids,
             \A i \in Ids' : /\ rows'[i].ev = rows[i].ev /\ rows'[i].ch = rows[i].ch
                             /\ rows'[i].to = rows[i].to /\ rows'[i].created = rows[i].created
      PROVE  OwnDays'
  BY <1>1 DEF OwnDays
<1>2. CASE UNCHANGED table
  BY <1>1, <1>2 DEF table, Ids
<1>3. CASE Prune
  BY <1>1, <1>3, PrunedRows DEF Ids
<1>4. CASE Marks
  BY <1>1, <1>4, MarkedRow DEF Marks, Ids
<1>5. ASSUME NEW w \in Channel \X Person, Create(w) PROVE OwnDays'
  <2>1. Ids' = Ids \cup {nextId} /\ \A i \in Ids : rows'[i] = rows[i]
    BY <1>5, CreatedRow DEF Ids
  <2>2. ASSUME NEW s \in Ids, rows[s].ev = Summary, run.ev = Summary,
               rows[s].ch = w[1], rows[s].to = EmailOf[w[2]]
        PROVE  Day(rows[s].created) # Day(clock)
    <3>1. run.step = "deliver" /\ w \in run.work /\ run.limit = 0
      BY <1>5 DEF Create, RunShape
    <3>2. Summarizing /\ DailyRun
      BY <2>2, <3>1 DEF Summarizing, DailyRun, Idle
    <3>3. Day(rows[s].created) < Day(run.now)
      BY <2>2, <3>1, <3>2 DEF SummaryDays
    <3>4. Day(run.now) <= Day(clock) /\ Day(run.now) \in Nat /\ Day(clock) \in Nat
      BY <3>2, DayMonotone DEF SummaryDays, Time, TypeOK
    <3>5. Day(rows[s].created) \in Nat
      BY DayMonotone DEF TypeOK, Row, Time
    <3>6. QED
      BY <3>3, <3>4, <3>5
  <2>3. /\ rows'[nextId].ev = run.ev /\ rows'[nextId].ch = w[1]
        /\ rows'[nextId].to = EmailOf[w[2]] /\ rows'[nextId].created = clock
    BY <1>5, CreatedRow
  <2>4. QED
    BY <2>1, <2>2, <2>3 DEF OwnDays
<1>6. QED
  BY <1>2, <1>3, <1>4, <1>5, NextCases, ReadsKeepTable DEF vars

-----------------------------------------------------------------------------
(* What a daily run owes                                                   *)

\* Row i is for the pair that o names.
For(i, o) == rows[i].ev = o[1] /\ rows[i].ch = o[2] /\ rows[i].to = EmailOf[o[3]]

\* Somebody was tried, in a row that no prune of this run's time deletes.
Told(o) ==
    \E i \in Ids :
        /\ For(i, o)
        /\ rows[i].status # "pending"
        /\ rows[i].sentAt # Null => rows[i].sentAt >= run.now

\* Somebody is in the loop under way, or in hand.
ToTell(o) ==
    /\ run.step \in {"deliver", "send", "mark"}
    /\ run.ev = o[1]
    /\ \/ <<o[2], o[3]>> \in run.work
       \/ run.step # "deliver" /\ For(run.cur, o)

InTime == clock <= run.now + Retention * SecondsPerDay

Owing ==
    /\ DailyRun => run.now \in Time /\ run.now <= clock
    /\ run.limit # 0 \/ run = Idle => run.owed = {}
    /\ InTime => \A o \in run.owed : Told(o) \/ ToTell(o)

LEMMA OwedByDaily ==
    ASSUME TypeOK, Owing, run.owed # {}
    PROVE  DailyRun /\ run.limit = 0 /\ run.now \in Nat /\ run.now <= clock /\ clock \in Nat
PROOF
BY DEF Owing, DailyRun, TypeOK, Time

\* In a run that stays in time, no row that it wrote goes away.
LEMMA ToldSurvivesPrune ==
    ASSUME NotifyAssumption, TypeOK, RunShape, RowShape, Owing, InTime, Prune,
           NEW o \in run.owed, Told(o)
    PROVE  Told(o)'
PROOF
<1>1. PICK i \in Ids : /\ For(i, o) /\ rows[i].status # "pending"
                       /\ rows[i].sentAt # Null => rows[i].sentAt >= run.now
  BY DEF Told
<1> DEFINE window == Retention * SecondsPerDay
<1>2. window \in Nat
  BY SMTT(30) DEF NotifyAssumption
<1>3. i \notin Prunable
  <2>1. ASSUME rows[i].sentAt # Null PROVE ~(rows[i].sentAt < clock - window)
    <3>1. rows[i].sentAt \in Nat /\ rows[i].sentAt >= run.now
      BY <1>1, <2>1 DEF TypeOK, Row, Time
    <3>2. clock <= run.now + window /\ run.now \in Nat /\ clock \in Nat
      BY OwedByDaily DEF InTime
    <3> HIDE DEF window
    <3>3. QED
      BY <1>2, <3>1, <3>2
  <2>2. QED
    BY <2>1 DEF Prunable
<1>4. i \in DOMAIN rows' /\ rows'[i] = rows[i] /\ run' = run
  BY <1>3 DEF Prune, Ids
<1>5. QED
  BY <1>1, <1>4 DEF Told, For, Ids

\* Nor is a row changed, but for the one in hand, which is pending before.
LEMMA ToldSurvives ==
    ASSUME NEW o, Told(o), run'.now = run.now, Ids \subseteq Ids',
           \A i \in Ids : rows[i].status # "pending" => rows'[i] = rows[i]
    PROVE  Told(o)'
PROOF
<1>1. PICK i \in Ids : /\ For(i, o) /\ rows[i].status # "pending"
                       /\ rows[i].sentAt # Null => rows[i].sentAt >= run.now
  BY DEF Told
<1>2. i \in Ids' /\ rows'[i] = rows[i]
  BY <1>1
<1>3. QED
  BY <1>1, <1>2 DEF Told, For

\* Before the run goes on to the next licence, all of this one were told.
LEMMA AllTold ==
    ASSUME Owing, InTime, run.step = "events" \/ (run.step = "deliver" /\ run.work = {})
    PROVE  \A o \in run.owed : Told(o)
PROOF
BY DEF Owing, ToTell

LEMMA OwingReads ==
    ASSUME NotifyAssumption, TypeOK, RunShape, RowShape, Owing, Reads PROVE Owing'
PROOF
<1>1. UNCHANGED <<clock, rows>> /\ clock \in Time /\ clock \in Nat
  BY ReadsKeepTable DEF table, TypeOK, Time
<1>2. ASSUME NEW o, Told(o), run'.now = run.now PROVE Told(o)'
  BY <1>1, <1>2, ToldSurvives DEF Ids
<1>3. ASSUME run' = Idle PROVE Owing'
  BY <1>3 DEF Owing, DailyRun, Idle
<1>4. CASE StartDaily \/ StartRetry
  <2>1. run'.owed = {} /\ (run'.limit = 0 => run'.now = clock)
    BY <1>4 DEF StartDaily, StartRetry, Idle, TypeOK, NotifyAssumption
  <2>2. QED
    BY <1>1, <2>1 DEF Owing, DailyRun
<1>5. ASSUME NEW e \in Event, NEW managers \in SUBSET Person, NEW admins \in SUBSET Person,
             PlanEvent(e, managers, admins)
      PROVE  Owing'
  <2> DEFINE pairs == {c \in run.chans : SentForEvent(e, c) = {}}
                        \X DeptRecipients(managers, admins)
             new == {<<e, w[1], w[2]>> : w \in pairs}
  <2>1. run' = [run EXCEPT !.step = "deliver", !.todo = @ \ {e}, !.ev = e, !.work = pairs,
                           !.owed = @ \cup new]
    BY <1>5 DEF PlanEvent
  <2>2. ASSUME NEW o \in new PROVE o[1] = e /\ <<o[2], o[3]>> \in pairs
    <3>1. PICK w \in pairs : o = <<e, w[1], w[2]>>
      BY <2>2
    <3>2. w = <<w[1], w[2]>>
      BY <3>1
    <3>3. QED
      BY <3>1, <3>2
  <2> HIDE DEF pairs, new
  <2>3. /\ run.step = "events" /\ run'.step = "deliver" /\ run'.ev = e /\ run'.work = pairs
        /\ run'.owed = run.owed \cup new /\ run'.limit = run.limit /\ run'.now = run.now
    BY <1>5, <2>1 DEF PlanEvent, TypeOK, RunState
  <2>4. DailyRun /\ run.limit = 0 /\ run' # Idle
    BY <2>3 DEF DailyRun, RunShape, Idle
  <2>5. InTime' => InTime
    BY <1>1, <2>3 DEF InTime
  <2>6. ASSUME InTime', NEW o \in run'.owed PROVE Told(o)' \/ ToTell(o)'
    <3>1. CASE o \in run.owed
      BY <1>2, <2>3, <2>5, <2>6, <3>1, AllTold
    <3>2. CASE o \in new
      BY <2>2, <2>3, <3>2 DEF ToTell
    <3>3. QED
      BY <2>3, <2>6, <3>1, <3>2
  <2>7. QED
    BY <1>1, <2>3, <2>4, <2>6 DEF Owing
<1>6. ASSUME NEW admins \in SUBSET Person, PlanSummary(admins), ~Finish PROVE Owing'
  <2>1. /\ run.step = "events" /\ run'.step = "deliver" /\ run'.owed = run.owed
        /\ run'.limit = run.limit /\ run'.now = run.now
    BY <1>6 DEF PlanSummary, TypeOK, RunState
  <2>2. DailyRun /\ run.limit = 0 /\ run' # Idle
    BY <2>1 DEF DailyRun, RunShape, Idle
  <2>3. InTime' => InTime
    BY <1>1, <2>1 DEF InTime
  <2>4. QED
    BY <1>1, <1>2, <2>1, <2>2, <2>3, AllTold DEF Owing
<1>7. CASE Delivered /\ ~Finish
  <2>1. /\ run.step = "deliver" /\ run.work = {} /\ run'.step = "events"
        /\ run'.owed = run.owed /\ run'.limit = run.limit /\ run'.now = run.now
    BY <1>7 DEF Delivered, TypeOK, RunState
  <2>2. DailyRun /\ run.limit = 0 /\ run' # Idle
    BY <2>1 DEF DailyRun, RunShape, Idle
  <2>3. InTime' => InTime
    BY <1>1, <2>1 DEF InTime
  <2>4. QED
    BY <1>1, <1>2, <2>1, <2>2, <2>3, AllTold DEF Owing
<1>8. ASSUME NEW i \in Id, Retry(i) PROVE Owing'
  <2>1. run'.limit = run.limit /\ run.limit # 0 /\ run'.owed = run.owed
    BY <1>8 DEF Retry, TypeOK, RunState, RunShape
  <2>2. QED
    BY <2>1 DEF Owing, DailyRun
<1>9. CASE Send
  <2>1. /\ run.step = "send" /\ run'.step = "mark" /\ run'.owed = run.owed /\ run'.ev = run.ev
        /\ run'.work = run.work /\ run'.cur = run.cur
        /\ run'.limit = run.limit /\ run'.now = run.now
    BY <1>9 DEF Send, TypeOK, RunState
  <2>2. run # Idle /\ run' # Idle /\ (InTime' => InTime)
    BY <1>1, <2>1 DEF InTime, Idle
  <2>3. ASSUME NEW o, ToTell(o) PROVE ToTell(o)'
    BY <1>1, <2>1, <2>3 DEF ToTell, For
  <2>4. QED
    BY <1>1, <1>2, <2>1, <2>2, <2>3 DEF Owing, DailyRun
<1>10. QED
  BY <1>3, <1>4, <1>5, <1>6, <1>7, <1>8, <1>9
     DEF Reads, PlanSummary, Delivered, Retried, Interrupt, Finish

LEMMA NextOwing ==
    ASSUME NotifyAssumption, TypeOK, RunShape, RowShape, Owing, [Next]_vars PROVE Owing'
PROOF
<1>1. clock <= clock' /\ clock \in Nat /\ clock' \in Nat
  BY ClockGrows
<1>2. ASSUME run'.now = run.now, run'.owed # {}, run'.owed = run.owed, InTime'
      PROVE  InTime
  <2> DEFINE window == Retention * SecondsPerDay
  <2>1. window \in Nat
    BY SMTT(30) DEF NotifyAssumption
  <2>2. clock' <= run.now + window /\ run.now \in Nat
    BY <1>2, OwedByDaily DEF InTime
  <2> HIDE DEF window
  <2>3. clock <= run.now + window
    BY <1>1, <2>1, <2>2
  <2>4. QED
    BY <2>3 DEF window, InTime
<1>3. ASSUME UNCHANGED run PROVE DailyRun' => run'.now \in Time /\ run'.now <= clock'
  BY <1>1, <1>3 DEF Owing, DailyRun, Time
<1>4. CASE UNCHANGED <<table, run, history>>
  <2>1. UNCHANGED <<run, rows>>
    BY <1>4 DEF table
  <2>2. \A o : (Told(o) => Told(o)') /\ (ToTell(o) => ToTell(o)')
    BY <2>1 DEF Told, ToTell, For, Ids
  <2>3. QED
    BY <1>2, <1>3, <2>1, <2>2 DEF Owing
<1>5. CASE Prune
  <2>1. UNCHANGED <<clock, run>>
    BY <1>5 DEF Prune
  <2>2. ASSUME InTime', NEW o \in run.owed, ToTell(o) PROVE ToTell(o)'
    <3>1. run.step # "deliver" => rows'[run.cur] = rows[run.cur]
      <4>1. SUFFICES ASSUME run.step # "deliver" PROVE rows'[run.cur] = rows[run.cur]
        OBVIOUS
      <4>2. run.step \in {"send", "mark"}
        BY <2>2, <4>1 DEF ToTell
      <4>3. run.cur \in Ids /\ run.cur \in Id
        BY <4>2, IdsBounded DEF TypeOK
      <4>4. run.limit = 0
        BY <2>2, OwedByDaily
      <4>5. rows[run.cur].status = "pending"
        BY <4>2, <4>3, <4>4 DEF RunShape, InHand
      <4>6. QED
        BY <1>5, <4>3, <4>5, PrunedRows
    <3>2. QED
      BY <2>1, <2>2, <3>1 DEF ToTell, For
  <2>3. ASSUME InTime', NEW o \in run'.owed PROVE Told(o)' \/ ToTell(o)'
    BY <1>2, <1>5, <2>1, <2>2, <2>3, ToldSurvivesPrune DEF Owing
  <2>4. QED
    BY <1>3, <2>1, <2>3 DEF Owing
<1>6. ASSUME NEW w \in Channel \X Person, Create(w) PROVE Owing'
  <2>1. /\ run.step = "deliver" /\ run'.step = "send" /\ run.limit = 0 /\ run'.limit = 0
        /\ run'.ev = run.ev /\ run'.now = run.now /\ run'.work = run.work \ {w}
        /\ run'.cur = nextId /\ run'.owed = run.owed /\ clock' = clock
    BY <1>6 DEF Create, TypeOK, RunState, RunShape
  <2>2. DailyRun /\ run' # Idle
    BY <2>1 DEF DailyRun, Idle
  <2>3. ASSUME NEW o, Told(o) PROVE Told(o)'
    BY <1>6, <2>1, <2>3, CreatedRow, ToldSurvives DEF Ids
  <2>4. ASSUME NEW o, ToTell(o) PROVE ToTell(o)'
    <3>1. run.ev = o[1] /\ <<o[2], o[3]>> \in run.work
      BY <2>1, <2>4 DEF ToTell
    <3>2. CASE <<o[2], o[3]>> # w
      BY <2>1, <3>1, <3>2 DEF ToTell
    <3>3. CASE <<o[2], o[3]>> = w
      <4>1. rows'[nextId].ev = o[1] /\ rows'[nextId].ch = o[2] /\ rows'[nextId].to = EmailOf[o[3]]
        BY <1>6, <3>1, <3>3, CreatedRow
      <4>2. QED
        BY <2>1, <3>1, <4>1 DEF ToTell, For
    <3>4. QED
      BY <3>2, <3>3
  <2>5. QED
    BY <1>1, <1>2, <2>1, <2>2, <2>3, <2>4 DEF Owing
<1>7. CASE Marks
  <2>1. /\ run.step = "mark" /\ run'.step = Resume /\ run'.limit = run.limit
        /\ run'.now = run.now /\ run'.ev = run.ev /\ run'.work = run.work
        /\ run'.owed = run.owed /\ clock' = clock
    BY <1>7 DEF Marks, MarkSent, MarkFailed, IncrementRetry, TypeOK, RunState
  <2>2. run # Idle /\ run' # Idle
    BY <2>1 DEF Idle, Resume
  <2>3. ASSUME NEW o \in run.owed, InTime PROVE Told(o)' \/ ToTell(o)'
    <3>1. run.limit = 0 /\ run'.step = "deliver" /\ run.now \in Nat /\ run.now <= clock
      BY <2>1, <2>3, OwedByDaily DEF Resume
    <3>2. run.cur \in Ids /\ run.cur \in Id /\ rows[run.cur] \in Row
      BY <2>1, IdsBounded DEF TypeOK
    <3>3. rows[run.cur].status = "pending"
      BY <2>1, <3>1, <3>2 DEF RunShape, InHand
    <3>4. /\ DOMAIN rows' = Ids /\ \A i \in Ids : i # run.cur => rows'[i] = rows[i]
          /\ rows'[run.cur].ev = rows[run.cur].ev /\ rows'[run.cur].ch = rows[run.cur].ch
          /\ rows'[run.cur].to = rows[run.cur].to
      BY <1>7, MarkedRow DEF Marks
    <3>5. CASE Told(o)
      BY <2>1, <3>3, <3>4, <3>5, ToldSurvives DEF Ids
    <3>6. CASE ToTell(o) /\ For(run.cur, o)
      <4>1. CASE MarkSent
        <5>1. rows'[run.cur].status = "sent" /\ rows'[run.cur].sentAt = clock
          BY <3>2, <4>1 DEF MarkSent, Row, Ids
        <5>2. QED
          BY <1>1, <2>1, <3>1, <3>2, <3>4, <3>6, <5>1 DEF Told, For, Ids
      <4>2. CASE MarkFailed
        <5>1. rows'[run.cur].status = "failed" /\ rows'[run.cur].sentAt = Null
          BY <3>2, <3>3, <4>2, FailedRow DEF RowShape
        <5>2. QED
          BY <3>2, <3>4, <3>6, <5>1 DEF Told, For, Ids
      <4>3. QED
        BY <1>7, <3>1, <4>1, <4>2 DEF Marks, IncrementRetry
    <3>7. CASE ToTell(o) /\ ~For(run.cur, o)
      <4>1. run.ev = o[1] /\ <<o[2], o[3]>> \in run.work
        BY <3>7 DEF ToTell
      <4>2. QED
        BY <2>1, <3>1, <4>1 DEF ToTell
    <3>8. QED
      BY <2>3, <3>5, <3>6, <3>7 DEF Owing
  <2>4. QED
    BY <1>1, <1>2, <2>1, <2>2, <2>3 DEF Owing, DailyRun
<1>8. CASE Reads
  BY <1>8, OwingReads
<1>9. QED
  BY <1>4, <1>5, <1>6, <1>7, <1>8, NextCases DEF vars

-----------------------------------------------------------------------------
(* The theorems                                                            *)

LEMMA InitInvariant == ASSUME NotifyAssumption, Init PROVE IInv /\ Summaries
PROOF
<1>1. Ids = {} /\ run = Idle /\ run.step = "idle" /\ run.limit = 0 /\ run.work = {} /\ run.queue = {}
  BY DEF Init, Ids, Idle
<1>2. \A i \in Id : delivered[i] = 0
  BY DEF Init
<1>3. QED
  BY <1>1, <1>2, InitTyped DEF IInv, Summaries, RunShape, RowShape, Deliveries, RetriesBounded,
     DuplicateNeedsLapse, InHand

LEMMA NextInvariant == ASSUME NotifyAssumption, IInv, [Next]_vars PROVE IInv'
BY NextTyped, NextRunShape, NextRowShape, NextDeliveries, NextRetries DEF IInv

\* The inductive invariant holds in every reachable state.
THEOREM Invariance == Spec => []IInv
PROOF
<1>1. Init => IInv
  BY InitInvariant, NotifyAssumption
<1>2. IInv /\ [Next]_vars => IInv'
  BY NextInvariant, NotifyAssumption
<1>3. QED
  BY <1>1, <1>2, PTL DEF Spec

\* Every variable keeps its type: the row in hand is always in the table, and
\* no statement writes a status or an address that the table has no room for.
THEOREM TypeCorrect == Spec => []TypeOK
PROOF
<1>1. IInv => TypeOK
  BY DEF IInv
<1>2. QED
  BY <1>1, Invariance, PTL

\* retry_count stays within the limits that were ever set (retryAll).
THEOREM RetriesStayBounded == Spec => []RetriesBounded
PROOF
<1>1. IInv => RetriesBounded
  BY DEF IInv
<1>2. QED
  BY <1>1, Invariance, PTL

\* What the table says of a message is what became of it (deliver, retryAll).
THEOREM RecordsStayTrue == Spec => []RecordsAreTrue
PROOF
<1>1. IInv => RecordsAreTrue
  <2>1. ASSUME IInv, NEW i \in Ids, run = Idle PROVE ~InHand(i)
    BY <2>1 DEF InHand, Idle
  <2>2. QED
    BY <2>1 DEF IInv, Deliveries, RecordsAreTrue
<1>2. QED
  BY <1>1, Invariance, PTL

\* One record goes out twice only if the first delivery was not recorded.
THEOREM DuplicatesNeedALapse == Spec => []DuplicateNeedsLapse
PROOF
<1>1. IInv => DuplicateNeedsLapse
  BY DEF IInv
<1>2. QED
  BY <1>1, Invariance, PTL

\* Where runs do not start in the second in which another ended, a row that was
\* given up reaches a summary (ListUnsummarizedGaveUp).
THEOREM GaveUpStaysKnown == ASSUME RunsApart PROVE Spec => []GaveUpNotForgotten
PROOF
<1> DEFINE Inv == IInv /\ Summaries
<1>1. Init => Inv
  BY InitInvariant, NotifyAssumption
<1>2. Inv /\ [Next]_vars => Inv'
  BY NextInvariant, NextSummaries, NotifyAssumption, RunsApart DEF IInv
<1>3. Inv => GaveUpNotForgotten
  BY NothingLeftOut DEF IInv, GaveUpNotForgotten
<1> HIDE DEF Inv
<1>4. QED
  BY <1>1, <1>2, <1>3, PTL DEF Spec

\* Where no two people share an address, nobody is sent two summaries of one
\* day over one channel (CountNotificationsByKindOnDay, sendGaveUpSummary).
THEOREM SummariesStayDaily == ASSUME AddressesApart PROVE Spec => []OneSummaryADay
PROOF
<1> DEFINE Inv == IInv /\ SummaryDays /\ OwnDays
<1>1. Init => Inv
  <2>1. ASSUME Init PROVE run = Idle /\ Ids = {}
    BY <2>1 DEF Init, Ids
  <2>2. QED
    BY <2>1, InitInvariant, NotifyAssumption DEF SummaryDays, OwnDays, DailyRun, Summarizing, Idle
<1>2. Inv /\ [Next]_vars => Inv'
  BY NextInvariant, NextSummaryDays, NextOwnDays, NotifyAssumption, AddressesApart DEF IInv
<1>3. Inv => OneSummaryADay
  BY DEF OwnDays, OneSummaryADay, SameKey
<1> HIDE DEF Inv
<1>4. QED
  BY <1>1, <1>2, <1>3, PTL DEF Spec

\* A daily run that comes to its end has a record of an attempt for everyone it
\* set out to tell (notifyAll), whatever failed on the way.
THEOREM NobodyIsSkipped == Spec => EveryRecipientTried
PROOF
<1> DEFINE Inv == IInv /\ Owing
           Ended == run # Idle /\ run' = Idle /\ interrupts' = interrupts
                    /\ clock <= run.now + Retention * SecondsPerDay
           Tried == \A w \in run.owed : \E i \in Ids :
                      /\ rows[i].ev = w[1] /\ rows[i].ch = w[2] /\ rows[i].to = EmailOf[w[3]]
                      /\ rows[i].status # "pending"
<1>1. Init => Inv
  <2>1. ASSUME Init PROVE run = Idle
    BY <2>1 DEF Init
  <2>2. QED
    BY <2>1, InitInvariant, NotifyAssumption DEF Owing, DailyRun, Idle
<1>2. Inv /\ [Next]_vars => Inv'
  BY NextInvariant, NextOwing, NotifyAssumption DEF IInv
<1>3. ASSUME Inv, [Next]_vars PROVE Ended => Tried
  <2>1. SUFFICES ASSUME Ended, NEW w \in run.owed PROVE Told(w)
    BY DEF Told, For
  <2>2. DailyRun /\ run.limit = 0 /\ InTime
    BY <1>3, <2>1, OwedByDaily DEF InTime, IInv
  <2>3. ~Interrupt
    BY <1>3, <2>1 DEF Interrupt, IInv, TypeOK
  <2>4. CASE run.step = "events" \/ (run.step = "deliver" /\ run.work = {})
    BY <1>3, <2>1, <2>2, <2>4, AllTold
  <2>5. run'.step = "idle" /\ run.step # "idle" /\ run' # run
    BY <1>3, <2>1 DEF Idle, IInv, RunShape
  <2>6. ~Marks /\ ~(\E v \in Channel \X Person : Create(v)) /\ ~Prune
    BY <1>3, <2>5 DEF Marks, MarkSent, MarkFailed, IncrementRetry, Create, Prune, Resume,
       IInv, TypeOK, RunState
  <2>7. Reads
    BY <1>3, <2>5, <2>6, NextCases DEF vars
  <2>8. ~StartDaily /\ ~StartRetry /\ ~Send /\ ~(\E i \in Id : Retry(i))
        /\ ~(\E e \in Event, managers, admins \in SUBSET Person : PlanEvent(e, managers, admins))
    BY <1>3, <2>1, <2>5 DEF StartDaily, StartRetry, MayStart, Send, Retry, PlanEvent,
       IInv, TypeOK, RunState
  <2>9. ~Retried
    BY <1>3, <2>2 DEF Retried, IInv, RunShape
  <2>10. Delivered \/ \E admins \in SUBSET Person : PlanSummary(admins)
    BY <2>3, <2>7, <2>8, <2>9 DEF Reads
  <2>11. run.step = "events" \/ (run.step = "deliver" /\ run.work = {})
    BY <2>10 DEF Delivered, PlanSummary
  <2>12. QED
    BY <2>4, <2>11
<1> HIDE DEF Inv
<1>4. Spec => []Inv
  BY <1>1, <1>2, PTL DEF Spec
<1>5. Inv /\ [Next]_vars => [Ended => Tried]_vars
  BY <1>3
<1>6. QED
  BY <1>4, <1>5, PTL DEF Spec, EveryRecipientTried

-----------------------------------------------------------------------------
(***************************************************************************)
(* The lock: safety of LockFile for every set of processes, names and      *)
(* inodes and every order of batchBinaries.  The inductive invariant is    *)
(* LockIInv.                                                               *)
(***************************************************************************)

\* A flock belongs to a process that has the inode open, and until Release
\* begins it is one that Acquire recorded or is about to record.
FlockOwned(p) ==
    \A i \in Inode : flock[i] = p =>
        \E k \in Position :
            /\ fd[p][k] = i
            /\ \/ k \in held[p]
               \/ pc[p] = "meta" /\ k = at[p]
               \/ pc[p] \in Releasing

\* What is recorded as acquired is open and locked.
HeldLocked(p) ==
    \A i \in held[p] : fd[p][i] # None /\ flock[fd[p][i]] = p

\* What a process has open, recorded and locked at each program point.
Progress(p) ==
    /\ at[p] \in Wanted(p)
    /\ held[p] \subseteq Wanted(p)
    /\ \A k \in Position : fd[p][k] # None => k \in Wanted(p)
    /\ pc[p] \in Acquiring => held[p] = {k \in Wanted(p) : k < at[p]}
    /\ pc[p] = "run" => held[p] = Wanted(p)
    /\ pc[p] \in {"close", "closeErr", "remove"} => \A k \in held[p] : k < at[p]
    /\ pc[p] = "off" => at[p] = 0 /\ held[p] = {} /\ \A k \in Position : fd[p][k] = None
    /\ pc[p] \in {"flock", "meta"} => fd[p][at[p]] # None
    /\ pc[p] = "meta" => flock[fd[p][at[p]]] = p
    /\ pc[p] = "flock" => flock[fd[p][at[p]]] # p

\* An inode in use stands for one name, although inodes are reused.
OneNamePerInode ==
    /\ \A p, q \in Proc, i, j \in Position :
         fd[p][i] # None /\ fd[p][i] = fd[q][j] => NameAt(p, i) = NameAt(q, j)
    /\ \A n \in Name, p \in Proc, i \in Position :
         dir[n] # None /\ dir[n] = fd[p][i] => n = NameAt(p, i)
    /\ \A m, n \in Name : dir[m] # None /\ dir[m] = dir[n] => m = n

ProcessInv(p) == FlockOwned(p) /\ HeldLocked(p) /\ Progress(p)

LockIInv == LockTypeOK /\ OneNamePerInode /\ \A p \in Proc : ProcessInv(p)

-----------------------------------------------------------------------------
LEMMA PositionFacts ==
    /\ 0 \in Position
    /\ Position \subseteq Int
    /\ \A i \in Position : 0 <= i
    /\ \A i \in Position \ {0} : i \in DOMAIN BatchBinaries
    /\ \A i \in DOMAIN BatchBinaries : i \in Position \ {0}
    /\ \A p \in Proc, i \in Position : NameAt(p, i) \in Name
BY LockFileAssumption DEF LockFileAssumption, Position, NameAt

\* ModeGlobal asks for no name twice.
LEMMA WantedNamesDiffer ==
    ASSUME NEW p \in Proc, NEW i \in Wanted(p), NEW j \in Wanted(p),
           NameAt(p, i) = NameAt(p, j)
    PROVE  i = j
BY LockFileAssumption, PositionFacts DEF LockFileAssumption, NameAt, Wanted

LEMMA WantedPositions ==
    \A p \in Proc : 0 \in Wanted(p) /\ Wanted(p) \subseteq Position
BY PositionFacts DEF Wanted

\* Two descriptors of one process never share an inode.
LEMMA OwnInodesDiffer ==
    ASSUME NEW p \in Proc, NEW i \in Position, NEW j \in Position,
           OneNamePerInode, Progress(p), fd[p][i] # None, fd[p][i] = fd[p][j]
    PROVE  i = j
BY WantedNamesDiffer DEF OneNamePerInode, Progress

LEMMA InitIInv == LockInit => LockIInv
<1> SUFFICES ASSUME LockInit PROVE LockIInv
  OBVIOUS
<1>1. LockTypeOK
  BY PositionFacts DEF LockInit, LockTypeOK
<1>2. OneNamePerInode
  BY DEF LockInit, OneNamePerInode
<1>3. ASSUME NEW p \in Proc PROVE ProcessInv(p)
  BY LockFileAssumption, WantedPositions
  DEF LockInit, ProcessInv, FlockOwned, HeldLocked, Progress, Acquiring, LockFileAssumption
<1> QED
  BY <1>1, <1>2, <1>3 DEF LockIInv

-----------------------------------------------------------------------------
(* What a step of p leaves alone: the other processes' own state, and the  *)
(* flocks that are neither free nor p's.                                   *)

Frame(p) ==
    /\ \A q \in Proc \ {p} : /\ at'[q] = at[q]
                             /\ held'[q] = held[q]
                             /\ fd'[q] = fd[q]
                             /\ pc'[q] = pc[q]
    /\ \A i \in Inode : \/ flock'[i] = flock[i]
                        \/ flock[i] \in {None, p} /\ flock'[i] \in {None, p}

LEMMA OtherProcesses ==
    ASSUME LockIInv, NEW p \in Proc, Frame(p), NEW q \in Proc \ {p}
    PROVE  ProcessInv(q)'
<1>1. Progress(q) /\ FlockOwned(q) /\ HeldLocked(q) /\ LockTypeOK
  BY DEF LockIInv, ProcessInv
<1>2. at[q] \in Position /\ held[q] \subseteq Position
  BY <1>1 DEF LockTypeOK
<1>3. \A i \in Inode : flock'[i] = q <=> flock[i] = q
  BY LockFileAssumption DEF Frame, LockFileAssumption
<1>4. \A i \in Position : fd[q][i] # None => fd[q][i] \in Inode
  BY <1>1 DEF LockTypeOK
<1>5. Progress(q)'
  BY <1>1, <1>2, <1>3, <1>4 DEF Frame, Progress, Wanted, NameAt, Acquiring
<1>6. FlockOwned(q)'
  BY <1>1, <1>3 DEF Frame, FlockOwned
<1>7. HeldLocked(q)'
  BY <1>1, <1>2, <1>3, <1>4 DEF Frame, HeldLocked
<1> QED
  BY <1>5, <1>6, <1>7 DEF ProcessInv

-----------------------------------------------------------------------------
(* One lemma per action.                                                   *)

LEMMA StartIInv == ASSUME LockIInv, NEW p \in Proc, Start(p) PROVE LockIInv'
<1>0. Start(p) /\ LockIInv /\ LockTypeOK /\ Progress(p) /\ FlockOwned(p) /\ HeldLocked(p)
  BY DEF LockIInv, ProcessInv
<1>1. at[p] \in Position /\ fd[p][at[p]] \in Inode \cup {None} /\ held[p] \subseteq Position
  BY <1>0 DEF LockTypeOK
<1>2. LockTypeOK'
  BY <1>0, <1>1, PositionFacts, WantedPositions DEF LockTypeOK, Start
<1>3. Frame(p)
  BY <1>0, <1>1 DEF Frame, LockTypeOK, Start
<1>4. OneNamePerInode'
  BY <1>0, <1>1, PositionFacts DEF OneNamePerInode, LockIInv, LockTypeOK, Start
<1>5. FlockOwned(p)'
  <2>1. \A i \in Inode : flock[i] # p
    BY <1>0, LockFileAssumption DEF FlockOwned, Progress, Start, LockFileAssumption
  <2> QED
    BY <2>1 DEF FlockOwned, Start
<1>6. HeldLocked(p)'
  BY <1>0, <1>1, LockFileAssumption, OwnInodesDiffer, PositionFacts
  DEF LockIInv, HeldLocked, LockTypeOK, Progress, Acquiring, LockFileAssumption, Start
<1>7. Progress(p)'
  <2>1. pc'[p] = "open" /\ UNCHANGED <<dir, flock, fd, held, at>>
    BY <1>0 DEF Start, LockTypeOK
  <2>a. at[p] = 0 /\ held[p] = {}
    BY <1>0 DEF Progress, Start
  <2>b. \A k \in Wanted(p) : k \in Int /\ 0 <= k
    BY PositionFacts, WantedPositions
  <2>2. held[p] = {k \in Wanted(p) : k < 0}
    BY <2>a, <2>b
  <2> QED
    BY <1>0, <2>1, <2>a, <2>2 DEF Progress, Wanted, NameAt, Acquiring, Start
<1> QED
  BY <1>2, <1>3, <1>4, <1>5, <1>6, <1>7, OtherProcesses DEF LockIInv, ProcessInv

LEMMA OpenFileIInv == ASSUME LockIInv, NEW p \in Proc, OpenFile(p) PROVE LockIInv'
<1>0. OpenFile(p) /\ LockIInv /\ LockTypeOK /\ Progress(p) /\ FlockOwned(p) /\ HeldLocked(p)
  BY DEF LockIInv, ProcessInv
<1>1. at[p] \in Position /\ fd[p][at[p]] \in Inode \cup {None} /\ held[p] \subseteq Position
  BY <1>0 DEF LockTypeOK
<1>2. LockTypeOK'
  BY <1>0, <1>1, PositionFacts, WantedPositions DEF LockTypeOK, OpenFile, FreeInode, Linked, OpenBy
<1>3. Frame(p)
  BY <1>0, <1>1 DEF Frame, LockTypeOK, OpenFile, FreeInode, Linked, OpenBy
<1>4. OneNamePerInode'
  BY <1>0, <1>1, PositionFacts DEF OneNamePerInode, LockIInv, LockTypeOK, OpenFile, FreeInode, Linked, OpenBy
<1>5. FlockOwned(p)'
  <2>1. pc'[p] = "flock" /\ UNCHANGED <<flock, held>>
    BY <1>0 DEF OpenFile, LockTypeOK
  <2>2. \A k \in held[p] : k # at[p] /\ fd'[p][k] = fd[p][k]
    BY <1>0, <1>1, PositionFacts DEF OpenFile, Progress, Acquiring, LockTypeOK
  <2>3. \A i \in Inode : flock[i] = p => \E k \in held[p] : fd[p][k] = i
    BY <1>0 DEF OpenFile, FlockOwned, Releasing
  <2> QED
    BY <1>1, <2>1, <2>2, <2>3 DEF FlockOwned
<1>6. HeldLocked(p)'
  <2>1. \A k \in held[p] : k # at[p] /\ fd'[p][k] = fd[p][k]
    BY <1>0, <1>1, PositionFacts DEF OpenFile, Progress, Acquiring, LockTypeOK
  <2> QED
    BY <1>0, <2>1 DEF HeldLocked, OpenFile
<1>7. Progress(p)'
  <2>1. /\ pc'[p] = "flock"
        /\ UNCHANGED <<flock, held, at>>
        /\ fd'[p][at[p]] \in Inode
        /\ \A k \in Position \ {at[p]} : fd'[p][k] = fd[p][k]
    BY <1>0, <1>1 DEF OpenFile, LockTypeOK
  <2>2. flock[fd'[p][at[p]]] # p
    <3> DEFINE i == fd'[p][at[p]]
    <3>1. SUFFICES ASSUME flock[i] = p PROVE FALSE
      OBVIOUS
    <3>2. PICK k \in held[p] : fd[p][k] = i
      BY <1>0, <2>1, <3>1 DEF OpenFile, FlockOwned, Releasing
    <3>3. k \in Wanted(p) /\ k \in Position /\ k # at[p]
      BY <1>0, <1>1, <3>2, PositionFacts DEF OpenFile, Progress, Acquiring
    <3>4. NameAt(p, k) = NameAt(p, at[p])
      BY <1>0, <1>1, <2>1, <3>2, <3>3, PositionFacts, LockFileAssumption
      DEF OpenFile, LockIInv, OneNamePerInode, FreeInode, Linked, OpenBy, LockTypeOK, LockFileAssumption
    <3> QED
      BY <1>0, <3>3, <3>4, WantedNamesDiffer DEF Progress
  <2> QED
    BY <1>0, <1>1, <2>1, <2>2, LockFileAssumption
    DEF Progress, Wanted, NameAt, Acquiring, OpenFile, LockFileAssumption
<1> QED
  BY <1>2, <1>3, <1>4, <1>5, <1>6, <1>7, OtherProcesses DEF LockIInv, ProcessInv

LEMMA OpenFailsIInv == ASSUME LockIInv, NEW p \in Proc, OpenFails(p) PROVE LockIInv'
<1>0. OpenFails(p) /\ LockIInv /\ LockTypeOK /\ Progress(p) /\ FlockOwned(p) /\ HeldLocked(p)
  BY DEF LockIInv, ProcessInv
<1>1. at[p] \in Position /\ fd[p][at[p]] \in Inode \cup {None} /\ held[p] \subseteq Position
  BY <1>0 DEF LockTypeOK
<1>2. LockTypeOK'
  BY <1>0, <1>1, PositionFacts, WantedPositions DEF LockTypeOK, OpenFails, Abort
<1>3. Frame(p)
  BY <1>0, <1>1 DEF Frame, LockTypeOK, OpenFails, Abort
<1>4. OneNamePerInode'
  BY <1>0, <1>1, PositionFacts DEF OneNamePerInode, LockIInv, LockTypeOK, OpenFails, Abort
<1>5. FlockOwned(p)'
  BY <1>0, <1>1, LockFileAssumption, OwnInodesDiffer, WantedPositions
  DEF LockIInv, FlockOwned, LockTypeOK, Progress, Releasing, Acquiring, LockFileAssumption, OpenFails, Abort
<1>6. HeldLocked(p)'
  BY <1>0, <1>1, LockFileAssumption, OwnInodesDiffer, PositionFacts
  DEF LockIInv, HeldLocked, LockTypeOK, Progress, Acquiring, LockFileAssumption, OpenFails, Abort
<1>7. Progress(p)'
  BY <1>0, <1>1, LockFileAssumption, PositionFacts, WantedPositions, OwnInodesDiffer
  DEF LockIInv, FlockOwned, Progress, LockTypeOK, HeldLocked, Acquiring, Wanted, NameAt, LockFileAssumption, OpenFails, Abort
<1> QED
  BY <1>2, <1>3, <1>4, <1>5, <1>6, <1>7, OtherProcesses DEF LockIInv, ProcessInv

LEMMA FlockIInv == ASSUME LockIInv, NEW p \in Proc, Flock(p) PROVE LockIInv'
<1>0. Flock(p) /\ LockIInv /\ LockTypeOK /\ Progress(p) /\ FlockOwned(p) /\ HeldLocked(p)
  BY DEF LockIInv, ProcessInv
<1>1. at[p] \in Position /\ fd[p][at[p]] \in Inode \cup {None} /\ held[p] \subseteq Position
  BY <1>0 DEF LockTypeOK
<1>2. LockTypeOK'
  BY <1>0, <1>1, PositionFacts, WantedPositions DEF LockTypeOK, Flock
<1>3. Frame(p)
  BY <1>0, <1>1 DEF Frame, LockTypeOK, Flock
<1>4. OneNamePerInode'
  BY <1>0, <1>1, PositionFacts DEF OneNamePerInode, LockIInv, LockTypeOK, Flock
<1>5. FlockOwned(p)'
  BY <1>0, <1>1, LockFileAssumption, OwnInodesDiffer, WantedPositions
  DEF LockIInv, FlockOwned, LockTypeOK, Progress, Releasing, Acquiring, LockFileAssumption, Flock
<1>6. HeldLocked(p)'
  BY <1>0, <1>1, LockFileAssumption, OwnInodesDiffer, PositionFacts
  DEF LockIInv, HeldLocked, LockTypeOK, Progress, Acquiring, LockFileAssumption, Flock
<1>7. Progress(p)'
  BY <1>0, <1>1, LockFileAssumption, PositionFacts, WantedPositions, OwnInodesDiffer
  DEF LockIInv, FlockOwned, Progress, LockTypeOK, HeldLocked, Acquiring, Wanted, NameAt, LockFileAssumption, Flock
<1> QED
  BY <1>2, <1>3, <1>4, <1>5, <1>6, <1>7, OtherProcesses DEF LockIInv, ProcessInv

LEMMA FlockHeldIInv == ASSUME LockIInv, NEW p \in Proc, FlockHeld(p) PROVE LockIInv'
<1>0. FlockHeld(p) /\ LockIInv /\ LockTypeOK /\ Progress(p) /\ FlockOwned(p) /\ HeldLocked(p)
  BY DEF LockIInv, ProcessInv
<1>1. at[p] \in Position /\ fd[p][at[p]] \in Inode \cup {None} /\ held[p] \subseteq Position
  BY <1>0 DEF LockTypeOK
<1>2. LockTypeOK'
  BY <1>0, <1>1, PositionFacts, WantedPositions DEF LockTypeOK, FlockHeld, Abort
<1>3. Frame(p)
  BY <1>0, <1>1 DEF Frame, LockTypeOK, FlockHeld, Abort
<1>4. OneNamePerInode'
  BY <1>0, <1>1, PositionFacts DEF OneNamePerInode, LockIInv, LockTypeOK, FlockHeld, Abort
<1>5. FlockOwned(p)'
  BY <1>0, <1>1, LockFileAssumption, OwnInodesDiffer, WantedPositions
  DEF LockIInv, FlockOwned, LockTypeOK, Progress, Releasing, Acquiring, LockFileAssumption, FlockHeld, Abort
<1>6. HeldLocked(p)'
  BY <1>0, <1>1, LockFileAssumption, OwnInodesDiffer, PositionFacts
  DEF LockIInv, HeldLocked, LockTypeOK, Progress, Acquiring, LockFileAssumption, FlockHeld, Abort
<1>7. Progress(p)'
  BY <1>0, <1>1, LockFileAssumption, PositionFacts, WantedPositions, OwnInodesDiffer
  DEF LockIInv, FlockOwned, Progress, LockTypeOK, HeldLocked, Acquiring, Wanted, NameAt, LockFileAssumption, FlockHeld, Abort
<1> QED
  BY <1>2, <1>3, <1>4, <1>5, <1>6, <1>7, OtherProcesses DEF LockIInv, ProcessInv

LEMMA WriteMetadataIInv == ASSUME LockIInv, NEW p \in Proc, WriteMetadata(p) PROVE LockIInv'
<1>0. WriteMetadata(p) /\ LockIInv /\ LockTypeOK /\ Progress(p) /\ FlockOwned(p) /\ HeldLocked(p)
  BY DEF LockIInv, ProcessInv
<1>1. at[p] \in Position /\ fd[p][at[p]] \in Inode \cup {None} /\ held[p] \subseteq Position
  BY <1>0 DEF LockTypeOK
<1>2. LockTypeOK'
  <2>1. held' \in [Proc -> SUBSET Position]
    BY <1>0, <1>1 DEF LockTypeOK, WriteMetadata
  <2>2. at' \in [Proc -> Position]
    BY <1>0, <1>1, WantedPositions DEF LockTypeOK, WriteMetadata
  <2>3. pc' \in [Proc -> {"off", "open", "flock", "meta", "run", "release",
                         "close", "closeErr", "remove"}]
    BY <1>0 DEF LockTypeOK, WriteMetadata
  <2> QED
    BY <1>0, <2>1, <2>2, <2>3 DEF LockTypeOK, WriteMetadata
<1>3. Frame(p)
  BY <1>0, <1>1 DEF Frame, LockTypeOK, WriteMetadata, IsNext
<1>4. OneNamePerInode'
  BY <1>0, <1>1, PositionFacts DEF OneNamePerInode, LockIInv, LockTypeOK, WriteMetadata, IsNext
<1>5. FlockOwned(p)'
  <2>1. /\ held'[p] = held[p] \cup {at[p]}
        /\ UNCHANGED <<flock, fd>>
    BY <1>0 DEF WriteMetadata, LockTypeOK
  <2>2. \A i \in Inode : flock[i] = p => \E k \in Position : fd[p][k] = i /\ k \in held'[p]
    BY <1>0, <2>1 DEF WriteMetadata, FlockOwned, Releasing
  <2> QED
    BY <2>1, <2>2 DEF FlockOwned
<1>6. HeldLocked(p)'
  BY <1>0, <1>1, LockFileAssumption, OwnInodesDiffer, PositionFacts
  DEF LockIInv, HeldLocked, LockTypeOK, Progress, Acquiring, LockFileAssumption, WriteMetadata, IsNext
<1>7. Progress(p)'
  <2>1. /\ held'[p] = held[p] \cup {at[p]}
        /\ UNCHANGED <<flock, fd>>
        /\ pc[p] = "meta"
    BY <1>0 DEF WriteMetadata, LockTypeOK
  <2>2. held[p] = {k \in Wanted(p) : k < at[p]}
    BY <1>0, <2>1 DEF Progress, Acquiring
  <2>3. at[p] \in Wanted(p) /\ Wanted(p) \subseteq Int /\ Wanted(p)' = Wanted(p)
    BY <1>0, PositionFacts, WantedPositions DEF Progress, Wanted
  <2>4. CASE \E j \in Wanted(p) : IsNext(p, at[p], j) /\ at' = [at EXCEPT ![p] = j]
                                /\ pc' = [pc EXCEPT ![p] = "open"]
    <3>1. PICK j \in Wanted(p) : IsNext(p, at[p], j) /\ at' = [at EXCEPT ![p] = j]
                               /\ pc' = [pc EXCEPT ![p] = "open"]
      BY <2>4
    <3>2. at'[p] = j /\ pc'[p] = "open"
      BY <1>0, <3>1 DEF LockTypeOK, IsNext
    <3>3. held'[p] = {k \in Wanted(p) : k < j}
      BY <2>1, <2>2, <2>3, <3>1 DEF IsNext
    <3> QED
      BY <1>0, <2>1, <2>3, <3>2, <3>3 DEF Progress, Acquiring
  <2>5. CASE /\ \A j \in Wanted(p) : j <= at[p]
             /\ pc' = [pc EXCEPT ![p] = "run"]
             /\ UNCHANGED at
    <3>1. at'[p] = at[p] /\ pc'[p] = "run"
      BY <1>0, <2>5 DEF LockTypeOK
    <3>2. held'[p] = Wanted(p)
      BY <2>1, <2>2, <2>3, <2>5
    <3> QED
      BY <1>0, <2>1, <2>3, <3>1, <3>2 DEF Progress, Acquiring
  <2> QED
    BY <1>0, <2>4, <2>5 DEF WriteMetadata
<1> QED
  BY <1>2, <1>3, <1>4, <1>5, <1>6, <1>7, OtherProcesses DEF LockIInv, ProcessInv

LEMMA MetadataFailsIInv == ASSUME LockIInv, NEW p \in Proc, MetadataFails(p) PROVE LockIInv'
<1>0. MetadataFails(p) /\ LockIInv /\ LockTypeOK /\ Progress(p) /\ FlockOwned(p) /\ HeldLocked(p)
  BY DEF LockIInv, ProcessInv
<1>1. at[p] \in Position /\ fd[p][at[p]] \in Inode \cup {None} /\ held[p] \subseteq Position
  BY <1>0 DEF LockTypeOK
<1>2. LockTypeOK'
  BY <1>0, <1>1, PositionFacts, WantedPositions DEF LockTypeOK, MetadataFails, Abort, Dropped
<1>3. Frame(p)
  BY <1>0, <1>1 DEF Frame, LockTypeOK, MetadataFails, Abort, Dropped
<1>4. OneNamePerInode'
  BY <1>0, <1>1, PositionFacts DEF OneNamePerInode, LockIInv, LockTypeOK, MetadataFails, Abort, Dropped
<1>5. FlockOwned(p)'
  BY <1>0, <1>1, LockFileAssumption, OwnInodesDiffer, WantedPositions
  DEF LockIInv, FlockOwned, LockTypeOK, Progress, Releasing, Acquiring, LockFileAssumption, MetadataFails, Abort, Dropped
<1>6. HeldLocked(p)'
  <2>1. pc[p] = "meta" /\ UNCHANGED held
    BY <1>0 DEF MetadataFails, Abort
  <2>2. \A k \in held[p] : k \in Position /\ k # at[p] /\ fd[p][k] \in Inode
    BY <1>0, <1>1, <2>1, PositionFacts DEF Progress, Acquiring, HeldLocked, LockTypeOK
  <2>3. \A k \in held[p] : fd[p][k] # fd[p][at[p]]
    BY <1>0, <1>1, <2>2, OwnInodesDiffer, LockFileAssumption DEF LockIInv, LockFileAssumption
  <2> QED
    BY <1>0, <1>1, <2>1, <2>2, <2>3, LockFileAssumption
    DEF HeldLocked, MetadataFails, Dropped, LockTypeOK, LockFileAssumption
<1>7. Progress(p)'
  BY <1>0, <1>1, LockFileAssumption, PositionFacts, WantedPositions, OwnInodesDiffer
  DEF LockIInv, FlockOwned, Progress, LockTypeOK, HeldLocked, Acquiring, Wanted, NameAt, LockFileAssumption, MetadataFails, Abort, Dropped
<1> QED
  BY <1>2, <1>3, <1>4, <1>5, <1>6, <1>7, OtherProcesses DEF LockIInv, ProcessInv

LEMMA HandlerReturnsIInv == ASSUME LockIInv, NEW p \in Proc, HandlerReturns(p) PROVE LockIInv'
<1>0. HandlerReturns(p) /\ LockIInv /\ LockTypeOK /\ Progress(p) /\ FlockOwned(p) /\ HeldLocked(p)
  BY DEF LockIInv, ProcessInv
<1>1. at[p] \in Position /\ fd[p][at[p]] \in Inode \cup {None} /\ held[p] \subseteq Position
  BY <1>0 DEF LockTypeOK
<1>2. LockTypeOK'
  BY <1>0, <1>1, PositionFacts, WantedPositions DEF LockTypeOK, HandlerReturns
<1>3. Frame(p)
  BY <1>0, <1>1 DEF Frame, LockTypeOK, HandlerReturns
<1>4. OneNamePerInode'
  BY <1>0, <1>1, PositionFacts DEF OneNamePerInode, LockIInv, LockTypeOK, HandlerReturns
<1>5. FlockOwned(p)'
  BY <1>0, <1>1, LockFileAssumption, OwnInodesDiffer, WantedPositions
  DEF LockIInv, FlockOwned, LockTypeOK, Progress, Releasing, Acquiring, LockFileAssumption, HandlerReturns
<1>6. HeldLocked(p)'
  BY <1>0, <1>1, LockFileAssumption, OwnInodesDiffer, PositionFacts
  DEF LockIInv, HeldLocked, LockTypeOK, Progress, Acquiring, LockFileAssumption, HandlerReturns
<1>7. Progress(p)'
  BY <1>0, <1>1, LockFileAssumption, PositionFacts, WantedPositions, OwnInodesDiffer
  DEF LockIInv, FlockOwned, Progress, LockTypeOK, HeldLocked, Acquiring, Wanted, NameAt, LockFileAssumption, HandlerReturns
<1> QED
  BY <1>2, <1>3, <1>4, <1>5, <1>6, <1>7, OtherProcesses DEF LockIInv, ProcessInv

LEMMA UnlockIInv == ASSUME LockIInv, NEW p \in Proc, Unlock(p) PROVE LockIInv'
<1>0. Unlock(p) /\ LockIInv /\ LockTypeOK /\ Progress(p) /\ FlockOwned(p) /\ HeldLocked(p)
  BY DEF LockIInv, ProcessInv
<1>1. PICK i \in Position :
        /\ IsLastHeld(p, i)
        /\ at' = [at EXCEPT ![p] = i]
        /\ held' = [held EXCEPT ![p] = @ \ {i}]
        /\ \/ flock' = Dropped(p, {fd[p][i]}) /\ pc' = [pc EXCEPT ![p] = "close"]
           \/ pc' = [pc EXCEPT ![p] = "closeErr"] /\ UNCHANGED flock
  BY <1>0 DEF Unlock
<1>a. /\ UNCHANGED <<dir, fd>>
      /\ pc[p] = "release"
      /\ pc'[p] \in {"close", "closeErr"}
      /\ at'[p] = i
      /\ held'[p] = held[p] \ {i}
      /\ held[p] \subseteq Position
      /\ i \in held[p]
      /\ \A k \in held'[p] : k < i
  BY <1>0, <1>1, PositionFacts DEF Unlock, LockTypeOK, IsLastHeld
<1>b. \A j \in Inode : flock'[j] = IF j = fd[p][i] /\ flock'[j] # flock[j] THEN None ELSE flock[j]
  BY <1>0, <1>1 DEF LockTypeOK, Dropped
<1>2. LockTypeOK'
  BY <1>0, <1>1, <1>a DEF LockTypeOK, Dropped
<1>3. Frame(p)
  BY <1>0, <1>1, <1>a DEF Frame, LockTypeOK, Dropped
<1>4. OneNamePerInode'
  BY <1>0, <1>a DEF OneNamePerInode, LockIInv, NameAt
<1>5. FlockOwned(p)'
  BY <1>0, <1>a, <1>b, LockFileAssumption DEF FlockOwned, Releasing, LockFileAssumption
<1>6. HeldLocked(p)'
  <2>1. \A k \in held'[p] : k \in Position /\ fd[p][k] \in Inode /\ fd[p][k] # fd[p][i]
    BY <1>0, <1>a, OwnInodesDiffer DEF HeldLocked, LockIInv, LockTypeOK
  <2> QED
    BY <1>0, <1>a, <1>b, <2>1 DEF HeldLocked
<1>7. Progress(p)'
  BY <1>0, <1>a DEF Progress, Wanted, Acquiring
<1> QED
  BY <1>2, <1>3, <1>4, <1>5, <1>6, <1>7, OtherProcesses DEF LockIInv, ProcessInv

LEMMA CloseIInv == ASSUME LockIInv, NEW p \in Proc, Close(p) PROVE LockIInv'
<1>0. Close(p) /\ LockIInv /\ LockTypeOK /\ Progress(p) /\ FlockOwned(p) /\ HeldLocked(p)
  BY DEF LockIInv, ProcessInv
<1>1. at[p] \in Position /\ fd[p][at[p]] \in Inode \cup {None} /\ held[p] \subseteq Position
  BY <1>0 DEF LockTypeOK
<1>2. LockTypeOK'
  BY <1>0, <1>1, PositionFacts, WantedPositions DEF LockTypeOK, Close, Dropped
<1>3. Frame(p)
  BY <1>0, <1>1 DEF Frame, LockTypeOK, Close, Dropped
<1>4. OneNamePerInode'
  BY <1>0, <1>1, PositionFacts DEF OneNamePerInode, LockIInv, LockTypeOK, Close, Dropped
<1>5. FlockOwned(p)'
  BY <1>0, <1>1, LockFileAssumption, OwnInodesDiffer, WantedPositions
  DEF LockIInv, FlockOwned, LockTypeOK, Progress, Releasing, Acquiring, LockFileAssumption, Close, Dropped
<1>6. HeldLocked(p)'
  <2>1. pc[p] \in {"close", "closeErr"} /\ UNCHANGED held
    BY <1>0 DEF Close
  <2>2. \A k \in held[p] : k \in Position /\ k # at[p] /\ fd[p][k] \in Inode
    BY <1>0, <1>1, <2>1, PositionFacts DEF Progress, HeldLocked, LockTypeOK
  <2>3. \A k \in held[p] : fd[p][k] # fd[p][at[p]]
    BY <1>0, <1>1, <2>2, OwnInodesDiffer, LockFileAssumption DEF LockIInv, LockFileAssumption
  <2> QED
    BY <1>0, <1>1, <2>1, <2>2, <2>3, LockFileAssumption
    DEF HeldLocked, Close, Dropped, LockTypeOK, LockFileAssumption
<1>7. Progress(p)'
  BY <1>0, <1>1, LockFileAssumption, PositionFacts, WantedPositions, OwnInodesDiffer
  DEF LockIInv, FlockOwned, Progress, LockTypeOK, HeldLocked, Acquiring, Wanted, NameAt, LockFileAssumption, Close, Dropped
<1> QED
  BY <1>2, <1>3, <1>4, <1>5, <1>6, <1>7, OtherProcesses DEF LockIInv, ProcessInv

LEMMA CloseFailsIInv == ASSUME LockIInv, NEW p \in Proc, CloseFails(p) PROVE LockIInv'
<1>0. CloseFails(p) /\ LockIInv /\ LockTypeOK /\ Progress(p) /\ FlockOwned(p) /\ HeldLocked(p)
  BY DEF LockIInv, ProcessInv
<1>1. at[p] \in Position /\ fd[p][at[p]] \in Inode \cup {None} /\ held[p] \subseteq Position
  BY <1>0 DEF LockTypeOK
<1>2. LockTypeOK'
  BY <1>0, <1>1, PositionFacts, WantedPositions DEF LockTypeOK, CloseFails
<1>3. Frame(p)
  BY <1>0, <1>1 DEF Frame, LockTypeOK, CloseFails
<1>4. OneNamePerInode'
  BY <1>0, <1>1, PositionFacts DEF OneNamePerInode, LockIInv, LockTypeOK, CloseFails
<1>5. FlockOwned(p)'
  BY <1>0, <1>1, LockFileAssumption, OwnInodesDiffer, WantedPositions
  DEF LockIInv, FlockOwned, LockTypeOK, Progress, Releasing, Acquiring, LockFileAssumption, CloseFails
<1>6. HeldLocked(p)'
  BY <1>0, <1>1, LockFileAssumption, OwnInodesDiffer, PositionFacts
  DEF LockIInv, HeldLocked, LockTypeOK, Progress, Acquiring, LockFileAssumption, CloseFails
<1>7. Progress(p)'
  BY <1>0, <1>1, LockFileAssumption, PositionFacts, WantedPositions, OwnInodesDiffer
  DEF LockIInv, FlockOwned, Progress, LockTypeOK, HeldLocked, Acquiring, Wanted, NameAt, LockFileAssumption, CloseFails
<1> QED
  BY <1>2, <1>3, <1>4, <1>5, <1>6, <1>7, OtherProcesses DEF LockIInv, ProcessInv

LEMMA RemoveIInv == ASSUME LockIInv, NEW p \in Proc, Remove(p) PROVE LockIInv'
<1>0. Remove(p) /\ LockIInv /\ LockTypeOK /\ Progress(p) /\ FlockOwned(p) /\ HeldLocked(p)
  BY DEF LockIInv, ProcessInv
<1>1. at[p] \in Position /\ fd[p][at[p]] \in Inode \cup {None} /\ held[p] \subseteq Position
  BY <1>0 DEF LockTypeOK
<1>2. LockTypeOK'
  BY <1>0, <1>1, PositionFacts, WantedPositions DEF LockTypeOK, Remove
<1>3. Frame(p)
  BY <1>0, <1>1 DEF Frame, LockTypeOK, Remove
<1>4. OneNamePerInode'
  BY <1>0, <1>1, PositionFacts DEF OneNamePerInode, LockIInv, LockTypeOK, Remove
<1>5. FlockOwned(p)'
  BY <1>0, <1>1, LockFileAssumption, OwnInodesDiffer, WantedPositions
  DEF LockIInv, FlockOwned, LockTypeOK, Progress, Releasing, Acquiring, LockFileAssumption, Remove
<1>6. HeldLocked(p)'
  BY <1>0, <1>1, LockFileAssumption, OwnInodesDiffer, PositionFacts
  DEF LockIInv, HeldLocked, LockTypeOK, Progress, Acquiring, LockFileAssumption, Remove
<1>7. Progress(p)'
  BY <1>0, <1>1, LockFileAssumption, PositionFacts, WantedPositions, OwnInodesDiffer
  DEF LockIInv, FlockOwned, Progress, LockTypeOK, HeldLocked, Acquiring, Wanted, NameAt, LockFileAssumption, Remove
<1> QED
  BY <1>2, <1>3, <1>4, <1>5, <1>6, <1>7, OtherProcesses DEF LockIInv, ProcessInv

LEMMA RemoveFailsIInv == ASSUME LockIInv, NEW p \in Proc, RemoveFails(p) PROVE LockIInv'
<1>0. RemoveFails(p) /\ LockIInv /\ LockTypeOK /\ Progress(p) /\ FlockOwned(p) /\ HeldLocked(p)
  BY DEF LockIInv, ProcessInv
<1>1. at[p] \in Position /\ fd[p][at[p]] \in Inode \cup {None} /\ held[p] \subseteq Position
  BY <1>0 DEF LockTypeOK
<1>2. LockTypeOK'
  BY <1>0, <1>1, PositionFacts, WantedPositions DEF LockTypeOK, RemoveFails
<1>3. Frame(p)
  BY <1>0, <1>1 DEF Frame, LockTypeOK, RemoveFails
<1>4. OneNamePerInode'
  BY <1>0, <1>1, PositionFacts DEF OneNamePerInode, LockIInv, LockTypeOK, RemoveFails
<1>5. FlockOwned(p)'
  BY <1>0, <1>1, LockFileAssumption, OwnInodesDiffer, WantedPositions
  DEF LockIInv, FlockOwned, LockTypeOK, Progress, Releasing, Acquiring, LockFileAssumption, RemoveFails
<1>6. HeldLocked(p)'
  BY <1>0, <1>1, LockFileAssumption, OwnInodesDiffer, PositionFacts
  DEF LockIInv, HeldLocked, LockTypeOK, Progress, Acquiring, LockFileAssumption, RemoveFails
<1>7. Progress(p)'
  BY <1>0, <1>1, LockFileAssumption, PositionFacts, WantedPositions, OwnInodesDiffer
  DEF LockIInv, FlockOwned, Progress, LockTypeOK, HeldLocked, Acquiring, Wanted, NameAt, LockFileAssumption, RemoveFails
<1> QED
  BY <1>2, <1>3, <1>4, <1>5, <1>6, <1>7, OtherProcesses DEF LockIInv, ProcessInv

LEMMA TerminateIInv == ASSUME LockIInv, NEW p \in Proc, Terminate(p) PROVE LockIInv'
<1>0. Terminate(p) /\ LockIInv /\ LockTypeOK /\ Progress(p) /\ FlockOwned(p) /\ HeldLocked(p)
  BY DEF LockIInv, ProcessInv
<1>1. at[p] \in Position /\ fd[p][at[p]] \in Inode \cup {None} /\ held[p] \subseteq Position
  BY <1>0 DEF LockTypeOK
<1>2. LockTypeOK'
  BY <1>0, <1>1, PositionFacts, WantedPositions DEF LockTypeOK, Terminate, Dropped
<1>3. Frame(p)
  BY <1>0, <1>1 DEF Frame, LockTypeOK, Terminate, Dropped
<1>4. OneNamePerInode'
  BY <1>0, <1>1, PositionFacts DEF OneNamePerInode, LockIInv, LockTypeOK, Terminate, Dropped
<1>5. FlockOwned(p)'
  BY <1>0, <1>1, LockFileAssumption, OwnInodesDiffer, WantedPositions
  DEF LockIInv, FlockOwned, LockTypeOK, Progress, Releasing, Acquiring, LockFileAssumption, Terminate, Dropped
<1>6. HeldLocked(p)'
  BY <1>0, <1>1, LockFileAssumption, OwnInodesDiffer, PositionFacts
  DEF LockIInv, HeldLocked, LockTypeOK, Progress, Acquiring, LockFileAssumption, Terminate, Dropped
<1>7. Progress(p)'
  BY <1>0, <1>1, LockFileAssumption, PositionFacts, WantedPositions, OwnInodesDiffer
  DEF LockIInv, FlockOwned, Progress, LockTypeOK, HeldLocked, Acquiring, Wanted, NameAt, LockFileAssumption, Terminate, Dropped
<1> QED
  BY <1>2, <1>3, <1>4, <1>5, <1>6, <1>7, OtherProcesses DEF LockIInv, ProcessInv

LEMMA NextIInv == LockIInv /\ [LockNext]_lockVars => LockIInv'
<1> SUFFICES ASSUME LockIInv, [LockNext]_lockVars PROVE LockIInv'
  OBVIOUS
<1>1. CASE UNCHANGED lockVars
  BY <1>1 DEF lockVars, LockIInv, LockTypeOK, OneNamePerInode, ProcessInv, FlockOwned, HeldLocked,
              Progress, Wanted, NameAt
<1>2. ASSUME NEW p \in Proc, Start(p) \/ Step(p) \/ HandlerReturns(p) \/ Crash(p)
      PROVE  LockIInv'
  BY <1>2, StartIInv, OpenFileIInv, OpenFailsIInv, FlockIInv, FlockHeldIInv,
     WriteMetadataIInv, MetadataFailsIInv, HandlerReturnsIInv, UnlockIInv, CloseIInv,
     CloseFailsIInv, RemoveIInv, RemoveFailsIInv, TerminateIInv
  DEF Step, Exit, Crash
<1> QED
  BY <1>1, <1>2 DEF LockNext

THEOREM LockInvariance == LockSpec => []LockIInv
BY InitIInv, NextIInv, PTL DEF LockSpec

-----------------------------------------------------------------------------
\* Type correctness of the lock files, descriptors and flocks.
THEOREM LockTypeCorrect == LockSpec => []LockTypeOK
<1>1. LockIInv => LockTypeOK
  BY DEF LockIInv
<1> QED
  BY <1>1, LockInvariance, PTL

\* A recorded lock is a lock the kernel holds (acquireOne, releaseOne).
THEOREM HoldersLocked == LockSpec => []HoldersHaveFlock
<1>1. LockIInv => HoldersHaveFlock
  BY DEF LockIInv, ProcessInv, HeldLocked, HoldersHaveFlock
<1> QED
  BY <1>1, LockInvariance, PTL

\* Two processes hold a name at once only over an unlinked lock file.
THEOREM ExclusionUnlessOrphaned == LockSpec => []MutexUnlessOrphaned
<1>1. ASSUME LockIInv PROVE MutexUnlessOrphaned
  <2>1. SUFFICES ASSUME NEW n \in Name, ~Orphaned(n), NEW p \in Proc, NEW q \in Proc,
                        Holds(p, n), Holds(q, n)
                 PROVE  p = q
    BY DEF MutexUnlessOrphaned
  <2>2. PICK i \in held[p] : NameAt(p, i) = n
    BY <2>1 DEF Holds
  <2>3. PICK j \in held[q] : NameAt(q, j) = n
    BY <2>1 DEF Holds
  <2>4. i \in Position /\ j \in Position
    BY <1>1 DEF LockIInv, LockTypeOK
  <2>5. flock[fd[p][i]] = p /\ flock[fd[q][j]] = q /\ fd[p][i] # None /\ fd[q][j] # None
    BY <1>1 DEF LockIInv, ProcessInv, HeldLocked
  <2>6. fd[p][i] = dir[n] /\ fd[q][j] = dir[n]
    BY <2>1, <2>2, <2>3, <2>4, <2>5 DEF Orphaned
  <2> QED
    BY <2>5, <2>6
<1> QED
  BY <1>1, LockInvariance, PTL

\* A running backup excludes every running batch, unless over an unlinked
\* lock file (ModeGlobal holds every batch binary's name).
THEOREM BackupExcludesBatches == LockSpec => []BackupAlone
<1>1. ASSUME LockIInv, MutexUnlessOrphaned PROVE BackupAlone
  <2>1. SUFFICES ASSUME NEW p \in GlobalProc, NEW q \in Proc, p # q,
                        pc[p] = "run", pc[q] = "run",
                        NEW b \in DOMAIN BatchBinaries, BatchBinaries[b] = BinaryOf[q]
                 PROVE  Orphaned(BinaryOf[q])
    BY DEF BackupAlone
  <2>2. p \in Proc /\ BinaryOf[q] \in Name
    BY LockFileAssumption DEF LockFileAssumption
  <2>3. held[p] = Wanted(p) /\ held[q] = Wanted(q)
    BY <1>1, <2>1, <2>2 DEF LockIInv, ProcessInv, Progress
  <2>4. Holds(q, BinaryOf[q])
    BY <2>3, WantedPositions DEF Holds, NameAt
  <2>5. Holds(p, BinaryOf[q])
    BY <2>1, <2>2, <2>3, PositionFacts DEF Holds, NameAt, Wanted
  <2> QED
    BY <1>1, <2>1, <2>2, <2>4, <2>5 DEF MutexUnlessOrphaned
<1> QED
  BY <1>1, LockInvariance, ExclusionUnlessOrphaned, PTL

\* Whoever is refused lost to another live process that asked for the name.
THEOREM RefusalsAreReal == LockSpec => []RefusedByLiveOther
<1>1. ASSUME LockIInv PROVE RefusedByLiveOther
  <2>1. SUFFICES ASSUME NEW p \in Proc, NEW q \in Proc, pc[p] = "flock",
                        flock[fd[p][at[p]]] = q
                 PROVE  /\ q # p
                        /\ pc[q] # "off"
                        /\ \E i \in Wanted(q) : NameAt(q, i) = NameAt(p, at[p])
    BY DEF RefusedByLiveOther
  <2>2. at[p] \in Position /\ fd[p][at[p]] \in Inode /\ q # p
    BY <1>1, <2>1 DEF LockIInv, ProcessInv, Progress, LockTypeOK
  <2>3. PICK k \in Position : fd[q][k] = fd[p][at[p]]
    BY <1>1, <2>1, <2>2 DEF LockIInv, ProcessInv, FlockOwned
  <2>4. fd[q][k] # None
    BY <2>2, <2>3, LockFileAssumption DEF LockFileAssumption
  <2>5. k \in Wanted(q) /\ pc[q] # "off"
    BY <1>1, <2>3, <2>4 DEF LockIInv, ProcessInv, Progress
  <2>6. NameAt(q, k) = NameAt(p, at[p])
    BY <1>1, <2>2, <2>3, <2>4 DEF LockIInv, OneNamePerInode
  <2> QED
    BY <2>2, <2>5, <2>6
<1> QED
  BY <1>1, LockInvariance, PTL

\* Only the os.Remove of a clean release orphans a lock file.
THEOREM OrphansComeFromRemove == LockSpec => OrphanedOnlyByRemove
<1> DEFINE Caused(n) == \E p \in Proc : /\ pc[p] = "remove"
                                        /\ pc'[p] = "release"
                                        /\ NameAt(p, at[p]) = n
<1>1. ASSUME LockTypeOK, LockNext, NEW n \in Name, ~Orphaned(n), Orphaned(n)'
      PROVE  Caused(n)
  <2>1. PICK p \in Proc : Start(p) \/ Step(p) \/ HandlerReturns(p) \/ Crash(p)
    BY <1>1 DEF LockNext
  <2>2. PICK q \in Proc, i \in Position :
           NameAt(q, i) = n /\ fd'[q][i] # None /\ fd'[q][i] # dir'[n]
    BY <1>1 DEF Orphaned, NameAt
  <2>3. fd[q][i] = None \/ fd[q][i] = dir[n]
    BY <1>1, <2>2 DEF Orphaned
  <2>4. CASE OpenFile(p)
    BY <1>1, <2>2, <2>3, <2>4, LockFileAssumption
    DEF OpenFile, Orphaned, LockTypeOK, LockFileAssumption
  <2>5. CASE Remove(p)
    <3>1. pc[p] = "remove" /\ pc'[p] = "release" /\ UNCHANGED fd
      BY <1>1, <2>5 DEF Remove, LockTypeOK
    <3>2. dir'[n] # dir[n]
      BY <2>2, <2>3, <3>1
    <3> QED
      BY <1>1, <2>5, <3>1, <3>2 DEF Remove, LockTypeOK
  <2>6. CASE UNCHANGED <<dir, fd>>
    BY <2>2, <2>3, <2>6
  <2>7. CASE /\ UNCHANGED dir
             /\ \/ \E j \in Position : fd' = [fd EXCEPT ![p][j] = None]
                \/ fd' = [fd EXCEPT ![p] = [j \in Position |-> None]]
    <3>1. CASE fd' = [fd EXCEPT ![p] = [j \in Position |-> None]]
      <4>1. fd'[q][i] \in {fd[q][i], None}
        BY <1>1, <3>1 DEF LockTypeOK
      <4> QED
        BY <2>2, <2>3, <2>7, <4>1
    <3>2. ASSUME NEW j \in Position, fd' = [fd EXCEPT ![p][j] = None] PROVE FALSE
      <4>1. fd[q] \in [Position -> Inode \cup {None}] /\ fd'[q][i] \in {fd[q][i], None}
        BY <1>1, <3>2 DEF LockTypeOK
      <4> QED
        BY <2>2, <2>3, <2>7, <4>1
    <3> QED
      BY <2>7, <3>1, <3>2
  <2> QED
    BY <1>1, <2>1, <2>4, <2>5, <2>6, <2>7
    DEF Step, Start, OpenFails, Flock, FlockHeld, WriteMetadata, MetadataFails,
        HandlerReturns, Unlock, Close, CloseFails, RemoveFails, Exit, Crash, Terminate,
        Abort, LockTypeOK
<1>2. LockTypeOK /\ [LockNext]_lockVars =>
        [\A n \in Name : ~Orphaned(n) /\ Orphaned(n)' => Caused(n)]_lockVars
  BY <1>1
<1> QED
  BY <1>2, LockTypeCorrect, PTL DEF LockSpec, OrphanedOnlyByRemove

-----------------------------------------------------------------------------
(* The calls end: what CallsReturn rests on, without fairness.             *)

\* A nonempty set of numbers has a least one.
LEMMA LeastNumber ==
  ASSUME NEW T \in (SUBSET Nat) \ {{}}
  PROVE  \E x \in T : \A y \in T : x <= y
<1> DEFINE R == OpToRel(<, Nat)
<1>1. IsWellFoundedOn(R, Nat)
  BY NatLessThanWellFounded
<1>2. \A x, y \in Nat : <<y, x>> \in R <=> y < x
  BY DEF OpToRel
<1> HIDE DEF R
<1>3. PICK x \in T : \A y \in T : <<y, x>> \notin R
  BY <1>1, WFMin
<1>4. \A y \in T : y \in Nat /\ x \in Nat /\ ~(y < x)
  BY <1>2, <1>3, Zenon
<1> QED
  BY <1>3, <1>4

\* A bounded one also has a greatest.
LEMMA GreatestNumber ==
  ASSUME NEW n \in Nat, NEW T \in (SUBSET (0 .. n)) \ {{}}
  PROVE  \E x \in T : \A y \in T : y <= x
<1> DEFINE S == {n - y : y \in T}
<1>1. S \in (SUBSET Nat) \ {{}}
  OBVIOUS
<1>2. PICK m \in S : \A k \in S : m <= k
  <2> HIDE DEF S
  <2> QED
    BY <1>1, LeastNumber
<1>3. PICK x \in T : m = n - x
  OBVIOUS
<1>4. \A y \in T : n - x <= n - y
  BY <1>2, <1>3
<1> QED
  BY <1>4

\* The two choices that a call makes: the lock after this one, and the one to
\* be released next.
HasNext(p) ==
    /\ pc[p] = "meta" => \/ \E j \in Wanted(p) : IsNext(p, at[p], j)
                         \/ \A j \in Wanted(p) : j <= at[p]
    /\ pc[p] = "release" => held[p] = {} \/ \E i \in Position : IsLastHeld(p, i)

\* Neither loop is ever left without a next round or an end: between the locks
\* of batchBinaries none is skipped for ever, and Release finds the last one
\* held, whatever Acquire came to (Acquire, Release).
THEOREM NoCallIsStuck == LockSpec => [](\A p \in Proc : HasNext(p))
<1>1. ASSUME LockTypeOK, NEW p \in Proc PROVE HasNext(p)
  <2>1. at[p] \in Nat /\ Wanted(p) \subseteq Nat
    BY <1>1, LockFileAssumption DEF LockTypeOK, Position, Wanted, LockFileAssumption
  <2>2. \/ \E j \in Wanted(p) : IsNext(p, at[p], j)
        \/ \A j \in Wanted(p) : j <= at[p]
    <3> DEFINE later == {j \in Wanted(p) : at[p] < j}
    <3>1. CASE later = {}
      BY <2>1, <3>1
    <3>2. CASE later # {}
      <4>1. PICK j \in later : \A k \in later : j <= k
        <5>1. later \in (SUBSET Nat) \ {{}}
          BY <2>1, <3>2
        <5> HIDE DEF later
        <5> QED
          BY <5>1, LeastNumber
      <4> QED
        BY <4>1 DEF IsNext
    <3> QED
      BY <3>1, <3>2
  <2>3. held[p] = {} \/ \E i \in Position : IsLastHeld(p, i)
    <3> SUFFICES ASSUME held[p] # {} PROVE \E i \in Position : IsLastHeld(p, i)
      OBVIOUS
    <3>1. held[p] \in (SUBSET (0 .. Len(BatchBinaries))) \ {{}}
      BY <1>1 DEF LockTypeOK, Position
    <3>2. Len(BatchBinaries) \in Nat
      BY LockFileAssumption DEF LockFileAssumption
    <3>3. PICK i \in held[p] : \A k \in held[p] : k <= i
      BY <3>1, <3>2, GreatestNumber
    <3> QED
      BY <3>1, <3>3 DEF IsLastHeld, Position
  <2> QED
    BY <2>2, <2>3 DEF HasNext
<1>2. LockTypeOK => \A p \in Proc : HasNext(p)
  BY <1>1
<1> QED
  BY <1>2, LockTypeCorrect, PTL

\* No step of Acquire or Release ever leads back: every system call, whether
\* it succeeds or fails, brings its process nearer to the handler or to its
\* end, for any number of locks (Acquire, acquireOne, Release, releaseOne).
THEOREM CallsComeToAnEnd == LockSpec => EachStepNearer
<1>1. ASSUME LockTypeOK, NEW p \in Proc, Step(p) PROVE Nearer(p)
  <2> USE DEF Acquiring, Releasing, Stage, Left
  <2>1. pc \in [Proc -> {"off", "open", "flock", "meta", "run", "release",
                         "close", "closeErr", "remove"}]
        /\ at \in [Proc -> Position] /\ held \in [Proc -> SUBSET Position]
    BY <1>1 DEF LockTypeOK
  <2>2. CASE OpenFile(p)
    BY <2>1, <2>2 DEF OpenFile, Nearer
  <2>3. CASE OpenFails(p) \/ FlockHeld(p) \/ MetadataFails(p)
    BY <2>1, <2>3 DEF OpenFails, FlockHeld, MetadataFails, Abort, Nearer
  <2>4. CASE Flock(p)
    BY <2>1, <2>4 DEF Flock, Nearer
  <2>5. CASE WriteMetadata(p)
    <3>1. CASE \E j \in Wanted(p) : IsNext(p, at[p], j) /\ at' = [at EXCEPT ![p] = j]
                                    /\ pc' = [pc EXCEPT ![p] = "open"]
      BY <2>1, <2>5, <3>1 DEF WriteMetadata, IsNext, Nearer
    <3>2. CASE pc' = [pc EXCEPT ![p] = "run"]
      BY <2>1, <2>5, <3>2 DEF WriteMetadata, Nearer
    <3> QED
      BY <2>5, <3>1, <3>2 DEF WriteMetadata
  <2>6. CASE Unlock(p)
    <3>1. PICK i \in Position : IsLastHeld(p, i) /\ held' = [held EXCEPT ![p] = @ \ {i}]
                                /\ pc'[p] \in {"close", "closeErr"}
      BY <2>1, <2>6 DEF Unlock
    <3>2. held'[p] = held[p] \ {i} /\ i \in held[p] /\ pc[p] = "release"
      BY <2>1, <2>6, <3>1 DEF IsLastHeld, Unlock
    <3> QED
      BY <3>1, <3>2 DEF Nearer
  <2>7. CASE Close(p) \/ CloseFails(p) \/ Remove(p) \/ RemoveFails(p)
    BY <2>1, <2>7 DEF Close, CloseFails, Remove, RemoveFails, Nearer
  <2>8. CASE Exit(p)
    BY <2>1, <2>8 DEF Exit, Terminate, Nearer
  <2> QED
    BY <1>1, <2>2, <2>3, <2>4, <2>5, <2>6, <2>7, <2>8 DEF Step
<1>2. LockTypeOK /\ [LockNext]_lockVars => [\A p \in Proc : Step(p) => Nearer(p)]_lockVars
  BY <1>1
<1> QED
  BY <1>2, LockTypeCorrect, PTL DEF LockSpec, EachStepNearer
=============================================================================
