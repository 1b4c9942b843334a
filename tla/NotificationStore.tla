------------------------- MODULE NotificationStore -------------------------
(***************************************************************************)
(* The notifications table of PostgreSQL, as internal/repository reads and *)
(* writes it.  One SQL statement is one atomic step.  Rows are never       *)
(* deleted by the program.  A row keeps the columns the delivery pipeline  *)
(* decides on; recipient, content, subject, last_error and the timestamps  *)
(* are payload that no statement modelled here tests.                      *)
(***************************************************************************)
EXTENDS Notification

VARIABLE rows   \* the table: one record per id, "absent" before the INSERT

Row == [status              : Status \cup {"absent"},
        retry_count         : Nat,
        scheduled_at        : {"none", "future", "past"},
        provider_message_id : {"null", "set"}]

NewRow(status, at) ==
  [status |-> status, retry_count |-> 0, scheduled_at |-> at,
   provider_message_id |-> "null"]

StoreTypeOK == rows \in [Notifications -> Row]

StoreInit == rows = [n \in Notifications |-> NewRow("absent", "none")]

Exists(n) == rows[n].status # "absent"

-----------------------------------------------------------------------------
(***************************************************************************)
(* INSERT of one row (Create) or of all rows of a batch in one transaction *)
(* (CreateBatch); at[n] is the row's scheduled_at.                         *)
(***************************************************************************)
InsertRows(B, at) ==
  /\ \A n \in B : ~Exists(n)
  /\ rows' = [n \in Notifications |->
                IF n \in B THEN NewRow("pending", at[n]) ELSE rows[n]]

(***************************************************************************)
(* UPDATE ... SET status WHERE id: unconditional, whatever the status was. *)
(* The caller passes a provider message id only with status sent; COALESCE *)
(* keeps the one already there otherwise.                                  *)
(***************************************************************************)
WithStatus(row, s) ==
  [row EXCEPT !.status = s, !.provider_message_id = IF s = "sent" THEN "set" ELSE @]

UpdateStatus(n, s) == rows' = [rows EXCEPT ![n] = WithStatus(@, s)]

\* Mutant: counts down, as if the column held the retries that are left.
CountDownRetry(n) == rows' = [rows EXCEPT ![n].retry_count = @ - 1]

IncrementRetry(n) == rows' = [rows EXCEPT ![n].retry_count = @ + 1]

(***************************************************************************)
(* The guarded UPDATE of Cancel; no row matched is the 404 answer, which   *)
(* changes nothing.                                                        *)
(***************************************************************************)
CancelRow(n) ==
  /\ rows[n].status \in {"pending", "queued"}
  /\ rows' = [rows EXCEPT ![n].status = "cancelled"]

\* Mutants: a WHERE clause that misses a condition, or has one too many.
PendingDueOrNot == {n \in Notifications : rows[n].status = "pending"}

DueInAnyStatus ==
  {n \in Notifications : Exists(n) /\ rows[n].scheduled_at # "future"}

ScheduledDue ==
  {n \in Notifications : rows[n].status = "pending" /\ rows[n].scheduled_at = "past"}

(***************************************************************************)
(* The rows GetPending selects from: status pending and scheduled_at NULL  *)
(* or past.  The LIMIT is applied by the caller's choice of a subset; the  *)
(* ORDER BY created_at only decides which rows wait for the next poll.     *)
(***************************************************************************)
PendingDue ==
  {n \in Notifications : rows[n].status = "pending" /\ rows[n].scheduled_at # "future"}

\* Not code: the clock passes the scheduled_at of n.
ClockPasses(n) ==
  /\ Exists(n)
  /\ rows[n].scheduled_at = "future"
  /\ rows' = [rows EXCEPT ![n].scheduled_at = "past"]

=============================================================================
