----------------------------- MODULE Scheduler -----------------------------
(***************************************************************************)
(* The scheduler goroutine of a worker process (internal/queue/scheduler.  *)
(* go): every tick it reads the pending rows that are due, then publishes  *)
(* them one by one from that snapshot and marks each one queued.  Every    *)
(* worker process runs one; nothing coordinates them.                      *)
(***************************************************************************)
EXTENDS WorkerProcess, Broker

CONSTANT BatchSize   \* the LIMIT of GetPending

ASSUME BatchSizeAssumption == BatchSize \in Nat \ {0}

VARIABLES batch,   \* what is left of the last poll, as it was read
          queued   \* published by the scheduler, not yet marked queued

schedulerVars == <<batch, queued>>

SchedulerTypeOK ==
  /\ batch \in [Instances -> SUBSET Body]
  /\ queued \in [Instances -> Notifications \cup {NoNotification}]

SchedulerInit ==
  /\ batch = [i \in Instances |-> {}]
  /\ queued = [i \in Instances |-> NoNotification]

Snapshot(S) == {[id |-> n, retry_count |-> rows[n].retry_count] : n \in S}

-----------------------------------------------------------------------------
\* A poll that finds nothing, or fails, leaves everything as it is.
Poll(i) ==
  /\ life[i] = "running"
  /\ batch[i] = {} /\ queued[i] = NoNotification
  /\ \E S \in SUBSET PendingDue :
       /\ S # {}
       /\ S = PendingDue \/ Cardinality(S) = BatchSize
       /\ Cardinality(S) <= BatchSize
       /\ batch' = [batch EXCEPT ![i] = Snapshot(S)]
  /\ UNCHANGED <<rows, queued, brokerVars, disruptions>>

(***************************************************************************)
(* The loop does not look at the context, and PublishWithContext ignores   *)
(* its argument: it goes on while the process is stopping.                 *)
(***************************************************************************)
NextInBatch(i, b) ==
  /\ life[i] # "down"
  /\ b \in batch[i] /\ queued[i] = NoNotification

SchedulerPublish(i, b, m) ==
  /\ NextInBatch(i, b)
  /\ channel[i] = "open"
  /\ Publish(m, b)
  /\ batch' = [batch EXCEPT ![i] = @ \ {b}]
  /\ queued' = [queued EXCEPT ![i] = b.id]
  /\ UNCHANGED <<rows, disruptions>>

\* Logged; the row stays pending for the next poll, which will fail too.
SchedulerPublishFails(i, b) ==
  /\ NextInBatch(i, b)
  /\ channel[i] = "closed"
  /\ batch' = [batch EXCEPT ![i] = @ \ {b}]
  /\ UNCHANGED <<rows, queued, brokerVars, disruptions>>

\* The program cannot tell this from SchedulerPublish.
SchedulerPublishIsLost(i, b) ==
  /\ NextInBatch(i, b)
  /\ channel[i] = "open"
  /\ Disrupt("lost")
  /\ batch' = [batch EXCEPT ![i] = @ \ {b}]
  /\ queued' = [queued EXCEPT ![i] = b.id]
  /\ UNCHANGED <<rows, brokerVars>>

\* Mutant: the row is not marked.
SchedulerLeavesPending(i) ==
  /\ queued[i] # NoNotification
  /\ queued' = [queued EXCEPT ![i] = NoNotification]
  /\ UNCHANGED <<rows, batch, brokerVars, disruptions>>

SchedulerMarkQueued(i) ==
  /\ queued[i] # NoNotification
  /\ Write(i, UpdateStatus(queued[i], "queued"))
  /\ queued' = [queued EXCEPT ![i] = NoNotification]
  /\ UNCHANGED <<batch, brokerVars>>

\* The process of i ends.
SchedulerDies(i) ==
  /\ batch' = [batch EXCEPT ![i] = {}]
  /\ queued' = [queued EXCEPT ![i] = NoNotification]

=============================================================================
