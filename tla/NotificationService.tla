------------------------ MODULE NotificationService ------------------------
(***************************************************************************)
(* The API process (internal/service/notification.go): Create and          *)
(* CreateBatch insert rows, then publish each one that is due and mark it  *)
(* queued; Cancel is one guarded UPDATE.  A request is a goroutine of its  *)
(* own.  Validation, templates and idempotent hits end a call before it    *)
(* touches what is modelled here.  All requests publish on one channel;    *)
(* an error of Publish means that it is closed, and it stays closed.       *)
(***************************************************************************)
EXTENDS NotificationStore, Broker, Faults

CONSTANT Requests   \* Create and CreateBatch calls that can be in progress

VARIABLES todo,       \* inserted by the request, not yet published or skipped
          published,  \* published by the request, not yet marked queued
          withdrawn,  \* notifications whose cancellation a client was told of
          apiChannel  \* the one channel all requests publish on

serviceVars == <<todo, published, withdrawn, apiChannel>>

ServiceTypeOK ==
  /\ todo \in [Requests -> SUBSET Notifications]
  /\ published \in [Requests -> Notifications \cup {NoNotification}]
  /\ withdrawn \subseteq Notifications
  /\ apiChannel \in {"open", "closed"}

ServiceInit ==
  /\ todo = [r \in Requests |-> {}]
  /\ published = [r \in Requests |-> NoNotification]
  /\ withdrawn = {}
  /\ apiChannel = "open"

-----------------------------------------------------------------------------
(***************************************************************************)
(* An INSERT, of one row or of a batch in one transaction.  An INSERT that *)
(* fails changes nothing; one that commits and whose answer is lost is the *)
(* INSERT followed by ApiCrash.  The order in which a batch lists its      *)
(* items is the client's, so the loop may take them in any order.          *)
(***************************************************************************)
CreateBatch(r, B, at) ==
  /\ todo[r] = {} /\ published[r] = NoNotification
  /\ InsertRows(B, at)
  /\ todo' = [todo EXCEPT ![r] = B]
  /\ UNCHANGED <<published, withdrawn, apiChannel, brokerVars, disruptions>>

Create(r, n, at) == CreateBatch(r, {n}, at)

\* ScheduledAt is set and not before time.Now(): left to the scheduler.
SkipScheduled(r, n) ==
  /\ n \in todo[r] /\ published[r] = NoNotification
  /\ rows[n].scheduled_at = "future"
  /\ todo' = [todo EXCEPT ![r] = @ \ {n}]
  /\ UNCHANGED <<rows, published, withdrawn, apiChannel, brokerVars, disruptions>>

\* n is next and due.
NextDue(r, n) ==
  /\ n \in todo[r] /\ published[r] = NoNotification
  /\ rows[n].scheduled_at # "future"

\* The message is the struct the request built, whose retry_count is 0.
PublishDue(r, n, m) ==
  /\ NextDue(r, n)
  /\ apiChannel = "open"
  /\ Publish(m, [id |-> n, retry_count |-> 0])
  /\ todo' = [todo EXCEPT ![r] = @ \ {n}]
  /\ published' = [published EXCEPT ![r] = n]
  /\ UNCHANGED <<rows, withdrawn, apiChannel, disruptions>>

\* Mutant: the error of Publish is not looked at.
PublishDueFailsUnnoticed(r, n) ==
  /\ NextDue(r, n)
  /\ apiChannel = "closed"
  /\ todo' = [todo EXCEPT ![r] = @ \ {n}]
  /\ published' = [published EXCEPT ![r] = n]
  /\ UNCHANGED <<rows, withdrawn, apiChannel, brokerVars, disruptions>>

\* Logged, and the row left to the scheduler, this time and ever after.
PublishDueFails(r, n) ==
  /\ NextDue(r, n)
  /\ apiChannel = "closed"
  /\ todo' = [todo EXCEPT ![r] = @ \ {n}]
  /\ UNCHANGED <<rows, published, withdrawn, apiChannel, brokerVars, disruptions>>

\* The program cannot tell this from PublishDue.
PublishDueIsLost(r, n) ==
  /\ NextDue(r, n)
  /\ apiChannel = "open"
  /\ Disrupt("lost")
  /\ todo' = [todo EXCEPT ![r] = @ \ {n}]
  /\ published' = [published EXCEPT ![r] = n]
  /\ UNCHANGED <<rows, withdrawn, apiChannel, brokerVars>>

\* The error is dropped; a client that disconnects makes the statement fail too.
MarkQueued(r) ==
  /\ published[r] # NoNotification
  /\ \/ UpdateStatus(published[r], "queued") /\ UNCHANGED disruptions
     \/ Disrupt("db") /\ UNCHANGED rows
  /\ published' = [published EXCEPT ![r] = NoNotification]
  /\ UNCHANGED <<todo, withdrawn, apiChannel, brokerVars>>

\* DELETE answered with 200; the 404 answer changes nothing.
Cancel(n) ==
  /\ CancelRow(n)
  /\ withdrawn' = withdrawn \cup {n}
  /\ UNCHANGED <<todo, published, apiChannel, brokerVars, disruptions>>

(***************************************************************************)
(* The API process dies, and with it every request in progress: killed, or *)
(* by a shutdown whose ten seconds were over.  A shutdown in time lets the *)
(* requests finish.  The process that follows opens a channel of its own.  *)
(***************************************************************************)
ApiCrash ==
  /\ \/ \E r \in Requests : todo[r] # {} \/ published[r] # NoNotification
     \/ apiChannel = "closed"
  /\ Disrupt("crash")
  /\ todo' = [r \in Requests |-> {}]
  /\ published' = [r \in Requests |-> NoNotification]
  /\ apiChannel' = "open"
  /\ UNCHANGED <<rows, withdrawn, brokerVars>>

\* Nothing in the program ever reopens the channel.
ApiLosesChannel ==
  /\ apiChannel = "open"
  /\ Disrupt("api-channel")
  /\ apiChannel' = "closed"
  /\ UNCHANGED <<rows, todo, published, withdrawn, brokerVars>>

=============================================================================
