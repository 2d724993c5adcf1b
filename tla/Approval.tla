------------------------------ MODULE Approval ------------------------------
(***************************************************************************)
(* internal/approval: what a product is to a department, from the status   *)
(* that the company has set for it and the department's active approval.   *)
(***************************************************************************)
EXTENDS Integers

CONSTANTS
    Hours,    \* length of a day (UTC) in the unit of the instants
    NoRecord  \* the department has no active approval

ASSUME ApprovalAssumption == Hours \in Nat \ {0}

DefaultStatus ==
    {"globally_approved", "globally_prohibited", "unknown", "department_discretion"}

Status == {"approved", "conditional", "prohibited"}

Scope == {"department_wide", "specific_users", "specific_devices"}

\* An active approval; expires is an instant, or -1 for an unlimited one.
Record(instants) ==
    [status : Status, scope : Scope, expires : instants \cup {-1}, inScope : BOOLEAN]

Day(t) == t \div Hours

\* The start of the day after the day of t.
EndOfDay(t) == (Day(t) + 1) * Hours

\* A variant with a bug: the approval ends at the instant, not with its day.
ExpiredAtInstant(rec, now) == rec.expires # -1 /\ now >= rec.expires

Expired(rec, now) == rec.expires # -1 /\ now >= EndOfDay(rec.expires)

ByStatus(rec) ==
    CASE rec.status = "approved" ->
           IF rec.scope = "department_wide" \/ rec.inScope THEN "allowed" ELSE "unapproved"
      [] rec.status = "conditional" -> "conditional"
      [] rec.status = "prohibited"  -> "prohibited"
      [] OTHER                      -> "unapproved"

Evaluate(default, rec, now) ==
    CASE default = "globally_approved"     -> "allowed"
      [] default = "globally_prohibited"   -> "prohibited"
      [] default = "department_discretion" ->
           IF rec = NoRecord THEN "unapproved"
           ELSE IF Expired(rec, now) THEN "expired" ELSE ByStatus(rec)
      [] OTHER                             -> "unreviewed"
=============================================================================
