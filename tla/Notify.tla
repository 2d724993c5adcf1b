------------------------------- MODULE Notify -------------------------------
(***************************************************************************)
(* The notifications table and the batch that works on it, appmgr-notify   *)
(* (src/cmd/notify, src/db/queries/notifications.sql), with the jobs and   *)
(* web handlers that change what it reads: prune-logs, the renewal of a    *)
(* licence, role changes, and the retry limit setting.                     *)
(*                                                                         *)
(* One run is in progress at a time (the lock of LockFile).  Every SQL     *)
(* statement and every Send is a step; between any two of them the run may *)
(* be interrupted: it crashes, a statement fails, or SIGTERM cancels the   *)
(* context of the statement.                                               *)
(***************************************************************************)
EXTENDS Integers, FiniteSets

CONSTANTS
    Event,          \* (licence, N) pairs; kind license_expiry_N, related licence
    Summary,        \* the kind gave_up_summary, related to nothing
    Channel,        \* names of notification channels
    Person,         \* app_users that hold a role
    EmailOf,        \* [Person -> address], NoEmail when both columns are empty
    NoEmail,
    Limits,         \* values of the setting notification_max_retry
    Configs,        \* sets of channels that the configuration may name
    DueDays,        \* the days a notice may fall due on
    SecondsPerDay,  \* the resolution of CURRENT_TIMESTAMP within a day
    Retention,      \* retention_days_notifications_sent
    RunsApart,      \* no run starts in the second in which the last one ended
    MaxTime,        \* bound on the clock
    MaxRow,         \* bound on notifications.id
    MaxInterrupts   \* bound on interrupted runs

ASSUME NotifyAssumption ==
    /\ Summary \notin Event
    /\ Limits \subseteq Nat \ {0} /\ Limits # {}
    /\ SecondsPerDay \in Nat \ {0} /\ Retention \in Nat \ {0}
    /\ MaxTime \in Nat /\ MaxRow \in Nat /\ MaxInterrupts \in Nat
    /\ DueDays \subseteq Nat /\ DueDays # {}
    /\ RunsApart \in BOOLEAN
    /\ Configs \subseteq SUBSET Channel /\ Configs # {}

Id == 1 .. MaxRow
Null == -1
Time == 0 .. MaxTime
Day(t) == t \div SecondsPerDay
Kind == Event \cup {Summary}
Address == {EmailOf[p] : p \in Person} \ {NoEmail}
Status == {"pending", "sent", "failed", "gave_up"}

\* A row of notifications; body is the set of rows that a summary lists.
Row == [ev : Kind, ch : Channel, to : Address, status : Status, retries : Nat,
        attempted : Time \cup {Null}, created : Time, sentAt : Time \cup {Null},
        body : SUBSET Id]

VARIABLES
    clock,      \* the time CURRENT_TIMESTAMP and time.Now return
    due,        \* [Event -> the day the notice falls due], from expires_at
    maxRetry,   \* the setting
    channels,   \* the channels of the notifier configuration
    rows,       \* [ids in use -> Row]
    nextId,     \* AUTOINCREMENT
    run         \* the run in progress

\* What the properties need to remember of the past.
VARIABLES
    delivered,   \* [Id -> how often the message went out, counted to 2]
    lapsed,      \* ids whose delivery was not recorded as such
    reported,    \* ids listed in a summary that went out
    interrupts,  \* number of interrupted runs
    ended        \* when the last run ended

env == <<due, maxRetry, channels>>
table == <<rows, nextId>>
history == <<delivered, lapsed, reported, interrupts, ended>>
vars == <<clock, env, table, run, history>>

RunState ==
    [step : {"idle", "events", "deliver", "send", "mark", "retry"},
     now : Time \cup {Null}, chans : SUBSET Channel, limit : Limits \cup {0},
     todo : SUBSET Event, ev : Kind, body : SUBSET Id,
     work : SUBSET (Channel \X Person), queue : SUBSET Id,
     owed : SUBSET (Event \X Channel \X Person), cur : Nat, ok : BOOLEAN]

\* The local state of a run.  step says where it is, work is what is left of
\* the innermost loop of a daily run, the <<channel, person>> pairs to tell, and
\* owed all it set out to tell; queue is what a retry run has left.
Idle == [step |-> "idle", now |-> Null, chans |-> {}, limit |-> 0, todo |-> {},
         ev |-> Summary, body |-> {}, work |-> {}, queue |-> {}, owed |-> {},
         cur |-> 0, ok |-> FALSE]

Ids == DOMAIN rows
SameKey(i, j) ==
    rows[i].ev = rows[j].ev /\ rows[i].ch = rows[j].ch /\ rows[i].to = rows[j].to

-----------------------------------------------------------------------------
(* Queries                                                                 *)

\* CountSentNotificationForEvent
SentForEvent(e, c) ==
    {i \in Ids : rows[i].ev = e /\ rows[i].ch = c /\ rows[i].status = "sent"}

\* A sent record with the key of i exists (the NOT EXISTS of the retry query).
Superseded(i) == \E j \in Ids : rows[j].status = "sent" /\ SameKey(i, j)

\* A variant with a bug: the query does not look at the status.
RetryableAnyStatus(limit) ==
    {i \in Ids : rows[i].status # "gave_up" /\ rows[i].retries < limit}

\* ListFailedNotificationsForRetry
Retryable(limit) ==
    {i \in Ids : rows[i].status = "failed" /\ rows[i].retries < limit /\ ~Superseded(i)}

\* A variant with a bug: any summary moves the checkpoint, delivered or not.
UnsummarizedSinceAny ==
    {i \in Ids : /\ rows[i].status = "gave_up"
                 /\ rows[i].ev # Summary
                 /\ \A s \in Ids : rows[s].ev = Summary
                                   => rows[i].attempted > rows[s].created}

\* ListUnsummarizedGaveUp: attempted after every sent summary was created.
UnsummarizedGaveUp ==
    {i \in Ids : /\ rows[i].status = "gave_up"
                 /\ rows[i].ev # Summary
                 /\ \A s \in Ids : rows[s].ev = Summary /\ rows[s].status = "sent"
                                   => rows[i].attempted > rows[s].created}

\* A variant with a bug: only delivered summaries count for the day.
SentSummariesOn(day) ==
    {i \in Ids : rows[i].ev = Summary /\ rows[i].status = "sent"
                 /\ Day(rows[i].created) = day}

\* CountNotificationsByKindOnDay, whatever became of the summary.
SummariesOn(day) == {i \in Ids : rows[i].ev = Summary /\ Day(rows[i].created) = day}

\* pickEmail: a person without an address is skipped.
WithEmail(people) == {p \in people : EmailOf[p] # NoEmail}

\* resolveDeptRecipients: the managers, or the admins when there are none; a
\* manager without an address still keeps the admins from being asked.
DeptRecipients(managers, admins) == WithEmail(IF managers # {} THEN managers ELSE admins)

-----------------------------------------------------------------------------
Init ==
    /\ clock = 0
    /\ due \in [Event -> DueDays]
    /\ maxRetry \in Limits
    /\ channels \in Configs
    /\ rows = [i \in {} |-> 0]
    /\ nextId = 1
    /\ run = Idle
    /\ delivered = [i \in Id |-> 0]
    /\ lapsed = {}
    /\ reported = {}
    /\ interrupts = 0
    /\ ended = Null

(* The environment                                                         *)

Tick ==
    /\ clock < MaxTime
    /\ clock' = clock + 1
    /\ UNCHANGED <<env, table, run, history>>

\* The web handlers give a licence another expires_at and set the retry limit;
\* an operator edits the channels.  Roles change too: who holds one is a free
\* choice wherever the run reads it.
Renew(e) ==
    /\ \E d \in DueDays : due' = [due EXCEPT ![e] = d]
    /\ UNCHANGED <<clock, maxRetry, channels, table, run, history>>

SetMaxRetry ==
    /\ maxRetry' \in Limits
    /\ UNCHANGED <<clock, due, channels, table, run, history>>

Reconfigure ==
    /\ channels' \in Configs
    /\ UNCHANGED <<clock, due, maxRetry, table, run, history>>

\* PruneSentNotifications
Prunable == {i \in Ids : rows[i].sentAt # Null
                         /\ rows[i].sentAt < clock - Retention * SecondsPerDay}

Prune ==
    /\ Prunable # {}
    /\ rows' = [i \in Ids \ Prunable |-> rows[i]]
    /\ UNCHANGED <<clock, env, nextId, run, history>>

-----------------------------------------------------------------------------
(* The daily run, notifyAll                                                *)

MayStart == run = Idle /\ channels # {} /\ (RunsApart => clock > ended)

DueNow == {e \in Event : due[e] = Day(clock)}

\* The ids that a daily run may need at most fit under the bound.
RoomForDaily ==
    LET reachable == {p \in Person : EmailOf[p] # NoEmail}
        rounds == Cardinality(DueNow) + 1
    IN nextId + Cardinality(channels) * Cardinality(reachable) * rounds <= MaxRow + 1

\* now is read once; ListLicensesExpiringOn finds what is due on that day.
StartDaily ==
    /\ MayStart
    /\ RoomForDaily
    /\ run' = [Idle EXCEPT !.step = "events", !.now = clock, !.chans = channels,
                           !.todo = DueNow]
    /\ UNCHANGED <<clock, env, table, history>>

\* One licence: the channels with no sent record yet, times the recipients.
PlanEvent(e, managers, admins) ==
    LET pending == {c \in run.chans : SentForEvent(e, c) = {}}
        pairs == pending \X DeptRecipients(managers, admins)
    IN
    /\ run.step = "events"
    /\ e \in run.todo
    /\ run' = [run EXCEPT !.step = "deliver", !.todo = @ \ {e}, !.ev = e, !.work = pairs,
                          !.owed = @ \cup {<<e, w[1], w[2]>> : w \in pairs}]
    /\ UNCHANGED <<clock, env, table, history>>

Finish ==
    /\ run' = Idle
    /\ ended' = clock

\* sendGaveUpSummary: at most one summary a day, to every admin and channel.
PlanSummary(admins) ==
    LET pairs == run.chans \X WithEmail(admins)
        none == \/ UnsummarizedGaveUp = {}
                \/ SummariesOn(Day(run.now)) # {}
                \/ pairs = {}
    IN
    /\ run.step = "events"
    /\ run.todo = {}
    /\ \/ /\ none
          /\ Finish
       \/ /\ ~none
          /\ run' = [run EXCEPT !.step = "deliver", !.ev = Summary, !.work = pairs,
                                !.body = UnsummarizedGaveUp]
          /\ UNCHANGED ended
    /\ UNCHANGED <<clock, env, table, delivered, lapsed, reported, interrupts>>

\* deliver: the record comes before the Send.
Create(w) ==
    /\ run.step = "deliver"
    /\ w \in run.work
    /\ nextId <= MaxRow          \* never met, by RoomForDaily
    /\ rows' = [i \in Ids \cup {nextId} |->
                  IF i = nextId
                  THEN [ev |-> run.ev, ch |-> w[1], to |-> EmailOf[w[2]],
                        status |-> "pending", retries |-> 0, attempted |-> Null,
                        created |-> clock, sentAt |-> Null, body |-> run.body]
                  ELSE rows[i]]
    /\ nextId' = nextId + 1
    /\ run' = [run EXCEPT !.step = "send", !.work = @ \ {w}, !.cur = nextId]
    /\ UNCHANGED <<clock, env, history>>

Delivered ==
    /\ run.step = "deliver"
    /\ run.work = {}
    /\ IF run.ev = Summary
       THEN Finish
       ELSE run' = [run EXCEPT !.step = "events"] /\ UNCHANGED ended
    /\ UNCHANGED <<clock, env, table, delivered, lapsed, reported, interrupts>>

-----------------------------------------------------------------------------
(* The retry run, retryAll                                                 *)

StartRetry ==
    /\ MayStart
    /\ run' = [Idle EXCEPT !.step = "retry", !.chans = channels, !.limit = maxRetry,
                           !.queue = Retryable(maxRetry)]
    /\ UNCHANGED <<clock, env, table, history>>

\* In the order of the ids; a row of a channel not configured is passed over.
Retry(i) ==
    /\ run.step = "retry"
    /\ i \in run.queue
    /\ \A j \in run.queue : i <= j
    /\ run' = [run EXCEPT !.queue = @ \ {i}, !.cur = i,
                          !.step = IF rows[i].ch \in run.chans THEN "send" ELSE "retry"]
    /\ UNCHANGED <<clock, env, table, history>>

Retried ==
    /\ run.step = "retry"
    /\ run.queue = {}
    /\ Finish
    /\ UNCHANGED <<clock, env, table, delivered, lapsed, reported, interrupts>>

-----------------------------------------------------------------------------
(* Send and what is recorded of it                                         *)

\* The message goes out or not; an error may be reported although it did.
Send ==
    /\ run.step = "send"
    /\ \E out, ok \in BOOLEAN :
         /\ ok => out
         /\ run' = [run EXCEPT !.step = "mark", !.ok = ok]
         /\ delivered' = [delivered EXCEPT ![run.cur] = IF out /\ @ < 2 THEN @ + 1 ELSE @]
         /\ lapsed' = IF out /\ ~ok THEN lapsed \cup {run.cur} ELSE lapsed
         /\ reported' = IF out THEN reported \cup rows[run.cur].body ELSE reported
    /\ UNCHANGED <<clock, env, table, interrupts, ended>>

Resume == IF run.limit = 0 THEN "deliver" ELSE "retry"

\* A variant with a bug: the error of Send is not looked at.
MarkSentUnchecked ==
    /\ run.step = "mark"
    /\ rows' = [rows EXCEPT ![run.cur].status = "sent", ![run.cur].sentAt = clock,
                            ![run.cur].attempted = clock]
    /\ run' = [run EXCEPT !.step = Resume]
    /\ UNCHANGED <<clock, env, nextId, history>>

\* MarkNotificationSent
MarkSent ==
    /\ run.step = "mark"
    /\ run.ok
    /\ rows' = [rows EXCEPT ![run.cur].status = "sent", ![run.cur].sentAt = clock,
                            ![run.cur].attempted = clock]
    /\ run' = [run EXCEPT !.step = Resume]
    /\ UNCHANGED <<clock, env, nextId, history>>

\* A variant with a bug: a failed send ends the loop over the recipients.
MarkFailedStops ==
    /\ run.step = "mark"
    /\ ~run.ok
    /\ run.limit = 0
    /\ rows' = [rows EXCEPT ![run.cur].status = "failed", ![run.cur].attempted = clock]
    /\ run' = [run EXCEPT !.step = Resume, !.work = {}]
    /\ UNCHANGED <<clock, env, nextId, history>>

\* MarkNotificationFailed, after the first attempt
MarkFailed ==
    /\ run.step = "mark"
    /\ ~run.ok
    /\ run.limit = 0
    /\ rows' = [rows EXCEPT ![run.cur].status = "failed", ![run.cur].attempted = clock]
    /\ run' = [run EXCEPT !.step = Resume]
    /\ UNCHANGED <<clock, env, nextId, history>>

\* A variant with a bug: the attempt is not counted.
RetryUncounted ==
    /\ run.step = "mark"
    /\ ~run.ok
    /\ run.limit # 0
    /\ rows' = [rows EXCEPT ![run.cur].attempted = clock]
    /\ run' = [run EXCEPT !.step = Resume]
    /\ UNCHANGED <<clock, env, nextId, history>>

\* IncrementNotificationRetry, after a retry
IncrementRetry ==
    LET n == rows[run.cur].retries + 1 IN
    /\ run.step = "mark"
    /\ ~run.ok
    /\ run.limit # 0
    /\ rows' = [rows EXCEPT ![run.cur].retries = n, ![run.cur].attempted = clock,
                            ![run.cur].status = IF n >= run.limit THEN "gave_up" ELSE "failed"]
    /\ run' = [run EXCEPT !.step = Resume]
    /\ UNCHANGED <<clock, env, nextId, history>>

\* The run ends before its next statement.
Interrupt ==
    /\ run # Idle
    /\ interrupts < MaxInterrupts
    /\ interrupts' = interrupts + 1
    /\ lapsed' = IF run.step = "mark" /\ run.ok THEN lapsed \cup {run.cur} ELSE lapsed
    /\ Finish
    /\ UNCHANGED <<clock, env, table, delivered, reported>>

-----------------------------------------------------------------------------
RunStep ==
    \/ \E e \in Event, managers, admins \in SUBSET Person : PlanEvent(e, managers, admins)
    \/ \E admins \in SUBSET Person : PlanSummary(admins)
    \/ Delivered
    \/ \E w \in Channel \X Person : Create(w)
    \/ \E i \in Id : Retry(i)
    \/ Retried \/ Send \/ MarkSent \/ MarkFailed \/ IncrementRetry

Environment ==
    Tick \/ (\E e \in Event : Renew(e)) \/ SetMaxRetry \/ Reconfigure \/ Prune

Next == StartDaily \/ StartRetry \/ RunStep \/ Interrupt \/ Environment

Spec == Init /\ [][Next]_vars

\* The scheduler gets --retry-failed started again and again, although daily
\* runs hold the lock in between, and a run that is not interrupted goes on.
FairSpec == Spec /\ SF_vars(StartRetry) /\ WF_vars(RunStep)

-----------------------------------------------------------------------------
(* Properties                                                              *)

TypeOK ==
    /\ clock \in Time
    /\ due \in [Event -> DueDays]
    /\ maxRetry \in Limits /\ channels \in Configs
    /\ nextId \in 1 .. MaxRow + 1
    /\ Ids \subseteq 1 .. nextId - 1
    /\ \A i \in Ids : rows[i] \in Row
    /\ run \in RunState
    /\ run.step \in {"send", "mark"} => run.cur \in Ids
    /\ delivered \in [Id -> 0 .. 2]
    /\ lapsed \subseteq Id /\ reported \subseteq Id
    /\ interrupts \in 0 .. MaxInterrupts
    /\ ended \in Time \cup {Null}

\* The table tells the truth about what went out: a sent row was delivered, a
\* failed or given up one was not unless its channel reported an error for a
\* message it accepted or a run was cut off before the record, and no row
\* stays pending but through an interruption (deliver, retryAll).
RecordsAreTrue ==
    \A i \in Ids :
        /\ rows[i].status = "sent" => delivered[i] > 0
        /\ rows[i].status \in {"failed", "gave_up"} /\ delivered[i] > 0 /\ run = Idle
             => i \in lapsed
        /\ rows[i].status = "pending" /\ run = Idle => interrupts > 0

\* One record is delivered twice only over a lapse: a send that succeeded but
\* was reported as failed, or was not recorded before the run was cut off.
DuplicateNeedsLapse == \A i \in Id : delivered[i] > 1 => i \in lapsed

\* retry_count never passes the limit, and a failed row is one that a retry
\* under some setting of the limit still takes up (retryAll's gave_up test).
RetriesBounded ==
    \A i \in Ids :
        /\ \E l \in Limits : rows[i].retries <= l
        /\ rows[i].status = "failed" => \E l \in Limits : rows[i].retries < l

\* A row that was given up is either in a summary that went out, or will be
\* listed by the next one (ListUnsummarizedGaveUp: no permanent omission).
GaveUpNotForgotten ==
    \A i \in Ids : rows[i].status = "gave_up" /\ rows[i].ev # Summary =>
        i \in reported \/ i \in UnsummarizedGaveUp

\* No admin is sent two summaries of one day over one channel, although runs
\* cross midnight and are cut off (CountNotificationsByKindOnDay).
OneSummaryADay ==
    \A i, j \in Ids :
        i # j /\ rows[i].ev = Summary /\ SameKey(i, j)
        => Day(rows[i].created) # Day(rows[j].created)

\* A daily run that comes to its end has tried every recipient it resolved for
\* every due licence on every channel still open: a failed send costs nobody
\* else their notice (notifyAll goes on after a failure).  A run longer than
\* the retention is left out: its rows may be pruned under it.
EveryRecipientTried ==
    [][(run # Idle /\ run' = Idle /\ interrupts' = interrupts
          /\ clock <= run.now + Retention * SecondsPerDay) =>
          \A w \in run.owed : \E i \in Ids :
              /\ rows[i].ev = w[1] /\ rows[i].ch = w[2] /\ rows[i].to = EmailOf[w[3]]
              /\ rows[i].status # "pending"]_vars

\* A retry never sends a row whose key has a sent record (notifications.sql
\* 55-61: superseded rows are excluded, retrying them would double-send).
NeverResendsSuperseded ==
    run.step = "send" /\ run.limit # 0 => ~Superseded(run.cur)

\* With retries scheduled, every failed row leaves that state for good or is
\* superseded, unless its channel is no longer configured, or the limit was
\* lowered to the number of its attempts or less: then nothing retries it and
\* nothing gives it up (ListFailedNotificationsForRetry).
FailedIsSettled ==
    \A i \in Id :
        i \in Ids /\ rows[i].status = "failed" ~>
            \/ i \notin Ids \/ rows[i].status # "failed" \/ Superseded(i)
            \/ rows[i].ch \notin channels
            \/ rows[i].retries >= maxRetry
=============================================================================
