------------------------- MODULE DeliveryRowsProofs -------------------------
(***************************************************************************)
(* What a row says and why: theorems about DeliveryPipeline that relate    *)
(* the table to the copies, the publishers and the provider.               *)
(***************************************************************************)
EXTENDS DeliveryHoldersProofs

-----------------------------------------------------------------------------
(***************************************************************************)
(* What a step can do to a row.                                            *)
(***************************************************************************)
\* A request or a scheduler has published n and is about to mark it queued.
Marked(n) ==
  \/ \E r \in Requests : published[r] = n
  \/ \E i \in Instances : queued[i] = n

SameStatus(n) ==
  /\ rows'[n].status = rows[n].status
  /\ rows'[n].provider_message_id = rows[n].provider_message_id

Inserted(n) ==
  /\ ~Exists(n)
  /\ rows'[n].status = "pending" /\ rows'[n].provider_message_id = "null"

Becomes(n, s) ==
  /\ rows'[n].status = s
  /\ rows'[n].provider_message_id =
       IF s = "sent" THEN "set" ELSE rows[n].provider_message_id

\* Worker w says what it does, or what came of it.
WorkerSays(w, n) ==
  /\ pc[w] \notin {"idle", "exited"} /\ body[held[w]].id = n
  /\ \/ pc[w] = "loaded" /\ pc'[w] = "limiting" /\ held' = held /\ Becomes(n, "sending")
     \/ pc[w] = "delivered" /\ Becomes(n, "sent")
     \/ pc[w] = "exhausted" /\ Becomes(n, "failed")
     \/ pc[w] = "retrying" /\ Becomes(n, "queued")

RowStep(n) ==
  /\ Exists(n) => rows'[n].scheduled_at \in {rows[n].scheduled_at, "past"}
  /\ \/ SameStatus(n)
     \/ Inserted(n)
     \/ Marked(n) /\ Becomes(n, "queued")
     \/ rows[n].status \in {"pending", "queued"} /\ Becomes(n, "cancelled")
     \/ \E w \in Workers : WorkerSays(w, n)

LEMMA ServiceStepRow ==
  ASSUME TypeOK, ServiceStep, NEW n \in Notifications
  PROVE  RowStep(n)
<1> USE DEF RowStep, SameStatus
<1>1. ASSUME NEW r \in Requests, Accept(r)  PROVE RowStep(n)
  <2>1. PICK B \in SUBSET Notifications :
          \E at \in [B -> {"none", "future"}] : CreateBatch(r, B, at)
    BY <1>1, AcceptLemma
  <2>2. PICK at \in [B -> {"none", "future"}] : CreateBatch(r, B, at)
    BY <2>1
  <2> QED  BY <2>2, InsertRowsLemma DEF CreateBatch, Inserted, TypeOK
<1>2. ASSUME NEW r \in Requests, MarkQueued(r)  PROVE RowStep(n)
  <2>1. published[r] \in Notifications /\ "queued" \in Status
    BY <1>2 DEF MarkQueued, TypeOK, ServiceTypeOK, Status
  <2> QED
    BY <1>2, <2>1, UpdateStatusLemma DEF MarkQueued, Marked, Becomes, TypeOK
<1>3. ASSUME NEW k \in Notifications, Cancel(k)  PROVE RowStep(n)
  BY <1>3, CancelRowLemma DEF Cancel, Becomes, TypeOK
<1> QED
  BY <1>1, <1>2, <1>3
  DEF ServiceStep, Handle, SkipScheduled, PublishDue, PublishDueFails, PublishDueIsLost,
      ApiCrash, ApiLosesChannel

LEMMA SchedulerStepRow ==
  ASSUME TypeOK, NEW i \in Instances, SchedulerStep(i), NEW n \in Notifications
  PROVE  RowStep(n)
<1> USE DEF RowStep, SameStatus
<1>1. ASSUME SchedulerMarkQueued(i)  PROVE RowStep(n)
  <2>1. queued[i] \in Notifications /\ "queued" \in Status
    BY <1>1 DEF SchedulerMarkQueued, TypeOK, SchedulerTypeOK, Status
  <2>2. rows' = rows \/ UpdateStatus(queued[i], "queued")
    BY <1>1, WriteLemma DEF SchedulerMarkQueued
  <2> QED  BY <2>1, <2>2, UpdateStatusLemma DEF Marked, Becomes, TypeOK
<1> QED
  BY <1>1 DEF SchedulerStep, Poll, SchedulerPublish, SchedulerPublishFails,
     SchedulerPublishIsLost

LEMMA WorkerStepRow ==
  ASSUME TypeOK, BodiesKnown, WorkersHoldCopies, NEW w \in Workers, WorkerStep(w),
         NEW n \in Notifications
  PROVE  RowStep(n)
<1> USE DEF RowStep, SameStatus
<1> DEFINE k == body[held[w]].id
<1>1. ASSUME NEW s \in Status, WorkerWrites(w, UpdateStatus(k, s)),
             pc[w] \notin {"idle", "exited"},
             n = k /\ Becomes(n, s) => WorkerSays(w, n)
      PROVE  RowStep(n)
  <2>1. k \in Notifications
    BY <1>1, Holding
  <2>2. rows' = rows \/ UpdateStatus(k, s)
    BY <1>1 DEF WorkerWrites, Write
  <2> QED  BY <1>1, <2>1, <2>2, UpdateStatusLemma DEF TypeOK, Becomes
<1>2. ASSUME MarkSending(w)  PROVE RowStep(n)
  BY <1>1, <1>2 DEF MarkSending, WorkerWrites, WorkerSays, Goto, Status, TypeOK, ConsumerTypeOK
<1>3. ASSUME MarkSent(w)  PROVE RowStep(n)
  BY <1>1, <1>3 DEF MarkSent, WorkerSays, Goto, Status
<1>4. ASSUME MarkFailed(w)  PROVE RowStep(n)
  BY <1>1, <1>4 DEF MarkFailed, WorkerSays, Goto, Status
<1>5. ASSUME MarkRetrying(w)  PROVE RowStep(n)
  BY <1>1, <1>5 DEF MarkRetrying, WorkerSays, Goto, Status
<1>6. ASSUME CountFailure(w)  PROVE RowStep(n)
  <2>1. k \in Notifications
    BY <1>6, Holding DEF CountFailure, Goto
  <2>2. rows' = rows \/ IncrementRetry(k)
    BY <1>6 DEF CountFailure, WorkerWrites, Write
  <2> QED  BY <2>1, <2>2, IncrementRetryLemma DEF TypeOK
<1>7. CASE UNCHANGED rows
  BY <1>7
<1> QED
  BY <1>2, <1>3, <1>4, <1>5, <1>6, <1>7
  DEF WorkerStep, Process, Take, ExitWorker, ReadFresh, RateLimitPass, RateLimitDenied,
      WindowOpens, LimitedInterrupted, StartSend, SendSucceeds, SendFails, SendLosesReply,
      SendIsCut, SendErrs, AckDelivered, RejectToDLQ, Requeue, Finish

LEMMA NextRow ==
  ASSUME TypeOK, BodiesKnown, WorkersHoldCopies, [Next]_vars, NEW n \in Notifications
  PROVE  RowStep(n)
<1>1. CASE UNCHANGED rows
  BY <1>1 DEF RowStep, SameStatus
<1>2. CASE ClockStep
  BY <1>2, ClockPassesLemma DEF ClockStep, RowStep, SameStatus, TypeOK
<1>3. ASSUME NEW i \in Instances, LifecycleStep(i)  PROVE RowStep(n)
  BY <1>1, <1>3 DEF LifecycleStep, Stop, Exit, Crash, Restart, LoseLink, LoseChannel,
     ProcessEnds
<1> QED
  BY <1>1, <1>2, <1>3, ServiceStepRow, SchedulerStepRow, WorkerStepRow
  DEF Next, BrokerRestarts, vars

\* A row that exists goes on to exist, and time does not run backwards.
LEMMA NextExists ==
  ASSUME TypeOK, BodiesKnown, WorkersHoldCopies, [Next]_vars, NEW n \in Notifications,
         Exists(n)
  PROVE  /\ Exists(n)'
         /\ rows[n].scheduled_at # "future" => rows'[n].scheduled_at # "future"
<1>1. RowStep(n)
  BY NextRow
<1> QED
  BY <1>1 DEF RowStep, SameStatus, Inserted, Becomes, WorkerSays, Exists

-----------------------------------------------------------------------------
(***************************************************************************)
(* Where copies, batches and marks come from.                              *)
(***************************************************************************)
\* Nobody but the two publishers publishes.
LEMMA NewlyPublished ==
  ASSUME TypeOK, BodiesKnown, WorkersHoldCopies, [Next]_vars,
         NEW m \in Messages, Published(m)', ~Published(m)
  PROVE  \/ \E r \in Requests : \E n \in todo[r] : ServiceStep /\ PublishDue(r, n, m)
         \/ \E i \in Instances : \E b \in batch[i] :
              SchedulerStep(i) /\ SchedulerPublish(i, b, m)
<1>1. ASSUME NEW r \in Requests, NEW n \in todo[r], NEW k \in Messages, PublishDue(r, n, k)
      PROVE  k = m
  BY <1>1 DEF PublishDue, Publish, Published, TypeOK, BrokerTypeOK
<1>2. ASSUME NEW i \in Instances, NEW b \in batch[i], NEW k \in Messages,
             SchedulerPublish(i, b, k)
      PROVE  k = m
  BY <1>2 DEF SchedulerPublish, Publish, Published, TypeOK, BrokerTypeOK
<1>3. CASE UNCHANGED place
  BY <1>3 DEF Published
<1>4. ASSUME NEW w \in Workers, WorkerStep(w)  PROVE FALSE
  <2>1. CASE \E k \in Messages : Take(w, k)
    BY <2>1 DEF Take, Deliver, Published, TypeOK, BrokerTypeOK
  <2>2. CASE Settles(w)
    BY <2>2, SettlesLemma DEF Published, TypeOK, BrokerTypeOK
  <2> QED  BY <1>3, <1>4, <2>1, <2>2, WorkerStepKinds DEF Published
<1>5. ASSUME (\E i \in Instances : LifecycleStep(i)) \/ BrokerRestarts  PROVE FALSE
  <2>1. PICK S \in SUBSET Messages : Redeliver(S) /\ \A k \in S : Published(k)
    <3>1. CASE UNCHANGED brokerVars
      BY <3>1 DEF Published, brokerVars
    <3>2. ASSUME NEW i \in Instances
          PROVE  HeldBy(i) \subseteq Messages /\ \A k \in HeldBy(i) : Published(k)
      BY DEF HeldBy, TypeOK, ConsumerTypeOK, WorkersHoldCopies
    <3> QED
      BY <1>5, <3>1, <3>2 DEF LifecycleStep, Stop, Exit, Crash, Restart, LoseLink,
         LoseChannel, ProcessEnds, BrokerRestarts
  <2> QED  BY <2>1 DEF Redeliver, Published
<1> QED
  BY <1>1, <1>2, <1>3, <1>4, <1>5
  DEF Next, vars, ClockStep, ServiceStep, Accept, Handle, Create, CreateBatch, SkipScheduled,
      PublishDueFails, PublishDueIsLost, MarkQueued, Cancel, ApiCrash, ApiLosesChannel,
      SchedulerStep, Poll, SchedulerPublishFails, SchedulerPublishIsLost, SchedulerMarkQueued,
      brokerVars

\* A new copy is one a request or a scheduler had in hand.
LEMMA NewCopies ==
  ASSUME TypeOK, BodiesKnown, WorkersHoldCopies, [Next]_vars,
         NEW m \in Messages, Published(m)', ~Published(m)
  PROVE  \/ \E r \in Requests : \E n \in todo[r] :
              rows[n].scheduled_at # "future" /\ body'[m] = [id |-> n, retry_count |-> 0]
         \/ \E i \in Instances : body'[m] \in batch[i]
  BY NewlyPublished DEF PublishDue, SchedulerPublish, NextDue, Publish, TypeOK, BrokerTypeOK

\* What a scheduler has in hand it had before, or has just read.
LEMMA NewBatches ==
  ASSUME TypeOK, [Next]_vars, NEW i \in Instances, NEW b \in batch'[i]
  PROVE  \/ b \in batch[i]
         \/ /\ rows' = rows
            /\ b.id \in PendingDue /\ b.retry_count = rows[b.id].retry_count
<1>1. ASSUME NEW j \in Instances, Poll(j), b \notin batch[i]
      PROVE  /\ rows' = rows
             /\ b.id \in PendingDue /\ b.retry_count = rows[b.id].retry_count
  BY <1>1 DEF Poll, Snapshot, TypeOK, SchedulerTypeOK
<1>2. CASE UNCHANGED schedulerVars
  BY <1>2 DEF schedulerVars
<1> QED
  BY <1>1, <1>2
  DEF Next, vars, ServiceStep, ClockStep, BrokerRestarts, SchedulerStep, SchedulerPublish,
      SchedulerPublishFails, SchedulerPublishIsLost, SchedulerMarkQueued, LifecycleStep, Stop,
      Exit, Crash, Restart, LoseLink, LoseChannel, ProcessEnds, SchedulerDies, WorkerStep,
      schedulerVars, TypeOK, SchedulerTypeOK

\* A request has in hand what it has just inserted.
LEMMA NewTodo ==
  ASSUME TypeOK, [Next]_vars, NEW r \in Requests, NEW n \in todo'[r]
  PROVE  n \in todo[r] \/ (n \in Notifications /\ ~Exists(n) /\ Exists(n)')
<1>1. ASSUME NEW q \in Requests, Accept(q), n \notin todo[r]
      PROVE  n \in Notifications /\ ~Exists(n) /\ Exists(n)'
  <2>1. PICK B \in SUBSET Notifications :
          \E at \in [B -> {"none", "future"}] : CreateBatch(q, B, at)
    BY <1>1, AcceptLemma
  <2>2. PICK at \in [B -> {"none", "future"}] : CreateBatch(q, B, at)
    BY <2>1
  <2>3. n \in B
    BY <1>1, <2>2 DEF CreateBatch, TypeOK, ServiceTypeOK
  <2> QED  BY <2>2, <2>3, InsertRowsLemma DEF CreateBatch, InsertRows, TypeOK
<1>2. CASE UNCHANGED serviceVars
  BY <1>2 DEF serviceVars
<1> QED
  BY <1>1, <1>2
  DEF Next, vars, ServiceStep, Handle, SkipScheduled, PublishDue, PublishDueFails,
      PublishDueIsLost, MarkQueued, Cancel, ApiCrash, ApiLosesChannel, ClockStep,
      BrokerRestarts, SchedulerStep, LifecycleStep, WorkerStep, serviceVars, TypeOK,
      ServiceTypeOK

\* Whoever marks a row has had it in hand.
LEMMA NewMarks ==
  ASSUME TypeOK, [Next]_vars, NEW n \in Notifications, Marked(n)', ~Marked(n)
  PROVE  \/ \E r \in Requests : n \in todo[r] /\ rows[n].scheduled_at # "future"
         \/ \E i \in Instances : \E b \in batch[i] : b.id = n
<1> USE NoNotificationAssumption DEF Marked
<1>1. ASSUME ServiceStep
      PROVE  \E r \in Requests : n \in todo[r] /\ rows[n].scheduled_at # "future"
  <2>1. queued' = queued
    BY <1>1 DEF ServiceStep, schedulerVars
  <2>2. PICK r \in Requests : published'[r] = n /\ published[r] # n
    BY <2>1
  <2>3. ASSUME NEW q \in Requests, Accept(q)  PROVE FALSE
    BY <2>2, <2>3 DEF Accept, Create, CreateBatch
  <2>4. ASSUME (\E k \in Notifications : Cancel(k)) \/ ApiCrash \/ ApiLosesChannel
        PROVE  FALSE
    BY <2>2, <2>4 DEF Cancel, ApiCrash, ApiLosesChannel
  <2>5. PICK q \in Requests : Handle(q)
    BY <1>1, <2>3, <2>4 DEF ServiceStep
  <2>6. ASSUME NEW k \in todo[q],
               (\E m \in Messages : PublishDue(q, k, m)) \/ PublishDueIsLost(q, k)
        PROVE  k = n /\ NextDue(q, k)
    BY <2>2, <2>6 DEF PublishDue, PublishDueIsLost, TypeOK, ServiceTypeOK
  <2>7. ASSUME NEW k \in todo[q], SkipScheduled(q, k) \/ PublishDueFails(q, k)
        PROVE  FALSE
    BY <2>2, <2>7 DEF SkipScheduled, PublishDueFails
  <2>8. ASSUME MarkQueued(q)  PROVE FALSE
    BY <2>2, <2>8 DEF MarkQueued, TypeOK, ServiceTypeOK
  <2>9. n \in todo[q] /\ NextDue(q, n)
    BY <2>5, <2>6, <2>7, <2>8 DEF Handle
  <2> QED  BY <2>9 DEF NextDue
<1>2. ASSUME NEW j \in Instances, SchedulerStep(j)
      PROVE  \E i \in Instances : \E b \in batch[i] : b.id = n
  BY <1>2 DEF SchedulerStep, Poll, SchedulerPublish, SchedulerPublishFails,
     SchedulerPublishIsLost, SchedulerMarkQueued, serviceVars, TypeOK, SchedulerTypeOK
<1>3. ASSUME NEW j \in Instances, LifecycleStep(j)  PROVE FALSE
  BY <1>3 DEF LifecycleStep, Stop, Exit, Crash, Restart, LoseLink, LoseChannel, ProcessEnds,
     SchedulerDies, serviceVars, schedulerVars, TypeOK, SchedulerTypeOK
<1> QED
  BY <1>1, <1>2, <1>3
  DEF Next, vars, ClockStep, BrokerRestarts, WorkerStep, serviceVars, schedulerVars

-----------------------------------------------------------------------------
(***************************************************************************)
(* Nothing is published early.                                             *)
(***************************************************************************)
Due(n) == Exists(n) /\ rows[n].scheduled_at # "future"

\* Whatever is on its way to the queue is due, and a row was stored before it is handled.
DueInv ==
  /\ \A m \in Messages : Published(m) => Due(body[m].id)
  /\ \A i \in Instances : \A b \in batch[i] : Due(b.id)
  /\ \A r \in Requests : \A n \in todo[r] : Exists(n)
  /\ \A n \in Notifications : Marked(n) => Due(n)

LEMMA NextDueInv ==
  ASSUME TypeOK, BodiesKnown, WorkersHoldCopies, DueInv, [Next]_vars
  PROVE  DueInv'
<1> USE DEF DueInv
<1>1. /\ \A n \in Notifications : Exists(n) => Exists(n)'
      /\ \A n \in Notifications : Due(n) => Due(n)'
  BY NextExists DEF Due, Exists
<1>2. TypeOK' /\ BodiesKnown'
  BY NextType, NextCopies
<1>3. \A r \in Requests : \A n \in todo[r] : n \in Notifications
  BY DEF TypeOK, ServiceTypeOK
<1>4. \A i \in Instances : \A b \in batch[i] : b.id \in Notifications
  BY DEF TypeOK, SchedulerTypeOK, Body
<1>5. ASSUME NEW m \in Messages, Published(m)'  PROVE Due(body[m].id)'
  <2>1. CASE Published(m)
    <3>1. body'[m] = body[m] /\ body[m].id \in Notifications /\ Due(body[m].id)
      BY <2>1, NextCopies DEF BodiesKnown, Body
    <3> QED  BY <1>1, <3>1 DEF Due, Exists
  <2>2. ASSUME ~Published(m), NEW r \in Requests, NEW n \in todo[r],
               rows[n].scheduled_at # "future", body'[m] = [id |-> n, retry_count |-> 0]
        PROVE  Due(body[m].id)'
    <3>1. Due(n)'
      BY <1>1, <1>3, <2>2 DEF Due
    <3> QED  BY <2>2, <3>1 DEF Due, Exists
  <2>3. ASSUME ~Published(m), NEW i \in Instances, body'[m] \in batch[i]
        PROVE  Due(body[m].id)'
    <3>1. body'[m].id \in Notifications /\ Due(body'[m].id)
      BY <1>4, <2>3
    <3> QED  BY <1>1, <3>1 DEF Due, Exists
  <2> QED  BY <1>5, <2>1, <2>2, <2>3, NewCopies
<1>6. ASSUME NEW i \in Instances, NEW b \in batch'[i]  PROVE Due(b.id)'
  <2>1. CASE b \in batch[i]
    BY <1>1, <1>4, <2>1
  <2>2. CASE b.id \in PendingDue /\ rows' = rows
    BY <2>2 DEF PendingDue, Due, Exists
  <2> QED  BY <1>6, <2>1, <2>2, NewBatches
<1>7. ASSUME NEW r \in Requests, NEW n \in todo'[r]  PROVE Exists(n)'
  BY <1>1, <1>3, <1>7, NewTodo
<1>8. ASSUME NEW n \in Notifications, Marked(n)'  PROVE Due(n)'
  <2>1. Marked(n) \/ Due(n)
    BY <1>8, NewMarks DEF Due
  <2> QED  BY <1>1, <2>1
<1> QED  BY <1>5, <1>6, <1>7, <1>8

LEMMA InitDue ==
  ASSUME Init
  PROVE  DueInv
  BY NoNotificationAssumption
  DEF Init, BrokerInit, ServiceInit, SchedulerInit, DueInv, Published, Marked

(***************************************************************************)
(* A notification with a scheduled_at is published by neither publisher    *)
(* before that time: the request looks at the clock once and leaves the    *)
(* row alone for good, and the scheduler reads only rows that are due.     *)
(***************************************************************************)
THEOREM NothingEarly == Spec => []NotBeforeDue
<1> DEFINE Inv == TypeOK /\ BodiesKnown /\ WorkersHoldCopies /\ DueInv
<1>1. Init => Inv
  BY InitTyped, InitDue
<1>2. Inv /\ [Next]_vars => Inv'
  BY NextType, NextCopies, NextHolds, NextDueInv
<1>3. Inv => NotBeforeDue
  BY DEF DueInv, Due, NotBeforeDue, CopiesOf
<1> QED  BY <1>1, <1>2, <1>3, PTL DEF Spec

-----------------------------------------------------------------------------
(***************************************************************************)
(* A row that says sending, while nothing is disturbed.                    *)
(***************************************************************************)
\* w has said that it sends n, and has not said what came of it.
Sending(w, n) ==
  /\ held[w] \in CopiesOf(n)
  /\ pc[w] \in {"limiting", "limited", "sending", "inflight", "delivered",
                "failing", "exhausted", "retrying"}

\* The first disturbance is what stops a process, or keeps a row from being written.
UndisturbedRun ==
  disruptions = 0 => \A i \in Instances : life[i] = "running"

WorkInv == UndisturbedRun /\ SendingMeansWorking

\* Other workers go on with what they are doing.
LEMMA WorkerStepAlone ==
  ASSUME TypeOK, NEW w \in Workers, WorkerStep(w), NEW v \in Workers, v # w
  PROVE  /\ pc'[v] = pc[v] /\ held'[v] = held[v]
         /\ seen'[v] = seen[v] /\ verdict'[v] = verdict[v]
  BY DEF WorkerStep, Process, Take, ExitWorker, ReadFresh, MarkSending, RateLimitPass,
     RateLimitDenied, WindowOpens, LimitedInterrupted, StartSend, SendSucceeds, SendFails,
     SendLosesReply, SendIsCut, SendErrs, MarkSent, AckDelivered, CountFailure, MarkFailed,
     RejectToDLQ, MarkRetrying, Requeue, Finish, Goto, WorkerWrites, TypeOK, ConsumerTypeOK

\* An undisturbed worker stops sending n by writing something else into its row.
LEMMA StopsSending ==
  ASSUME TypeOK, BodiesKnown, WorkersHoldCopies, UndisturbedRun,
         disruptions = 0, disruptions' = 0,
         NEW w \in Workers, WorkerStep(w), NEW n \in Notifications, Sending(w, n)
  PROVE  Sending(w, n)' \/ rows'[n].status # "sending"
<1>0. /\ held[w] \in Messages /\ body[held[w]].id = n
      /\ Context(w) = "running" /\ InstanceOf[w] \in Instances
      /\ CopiesOf(n) \subseteq CopiesOf(n)'
  BY NextCopies, InstanceOfAssumption DEF Sending, CopiesOf, UndisturbedRun, Context, Next
<1>1. ASSUME NEW s \in Status \ {"sending"}, WorkerWrites(w, UpdateStatus(body[held[w]].id, s))
      PROVE  rows'[n].status # "sending"
  <2>1. UpdateStatus(n, s)
    BY <1>0, <1>1 DEF WorkerWrites, Write, Context, Disrupt
  <2> QED  BY <2>1, UpdateStatusLemma DEF TypeOK
<1>2. CASE MarkSent(w)
  BY <1>1, <1>2 DEF MarkSent, Status
<1>3. CASE MarkFailed(w)
  BY <1>1, <1>3 DEF MarkFailed, Status
<1>4. CASE MarkRetrying(w)
  BY <1>1, <1>4 DEF MarkRetrying, Status
<1>5. CASE held' = held /\ pc'[w] \in {"limiting", "limited", "sending", "inflight",
                                       "delivered", "failing", "exhausted", "retrying"}
  BY <1>0, <1>5 DEF Sending
<1>6. CASE \/ RateLimitPass(w) \/ RateLimitDenied(w) \/ WindowOpens(w) \/ StartSend(w)
           \/ SendSucceeds(w) \/ (\E v \in Verdict : SendFails(w, v))
           \/ SendLosesReply(w) \/ SendIsCut(w) \/ CountFailure(w)
  BY <1>5, <1>6 DEF RateLimitPass, RateLimitDenied, WindowOpens, StartSend, SendSucceeds,
     SendFails, SendLosesReply, SendIsCut, SendErrs, CountFailure, Goto, WorkerWrites,
     TypeOK, ConsumerTypeOK
<1> QED
  BY <1>0, <1>2, <1>3, <1>4, <1>6
  DEF WorkerStep, Process, Take, ExitWorker, ReadFresh, MarkSending, LimitedInterrupted,
      AckDelivered, RejectToDLQ, Requeue, Finish, Goto, Sending

LEMMA NextWorkInv ==
  ASSUME TypeOK, BodiesKnown, WorkersHoldCopies, WorkInv, [Next]_vars
  PROVE  WorkInv'
<1> SUFFICES ASSUME disruptions' = 0  PROVE WorkInv'
  BY DEF WorkInv, UndisturbedRun, SendingMeansWorking
<1>1. disruptions = 0 /\ \A i \in Instances : life[i] = "running"
  <2>1. disruptions \in Nat /\ disruptions <= disruptions'
    BY NextDisruptions DEF TypeOK, FaultsTypeOK
  <2> QED  BY <2>1 DEF WorkInv, UndisturbedRun
<1>2. ASSUME NEW i \in Instances  PROVE ~LifecycleStep(i)
  BY <1>1 DEF LifecycleStep, Stop, Exit, Crash, Restart, LoseLink, LoseChannel, Disrupt
<1>3. ~BrokerRestarts
  BY <1>1 DEF BrokerRestarts, Disrupt
<1>4. UndisturbedRun'
  BY <1>1, <1>2, <1>3 DEF Next, vars, ServiceStep, ClockStep, SchedulerStep, WorkerStep,
     processVars, UndisturbedRun
<1>5. ASSUME NEW n \in Notifications, rows'[n].status = "sending"
      PROVE  \E w \in Workers : Sending(w, n)'
  <2>1. CASE rows[n].status = "sending"
    <3>1. PICK w \in Workers : Sending(w, n)
      BY <1>1, <2>1 DEF WorkInv, SendingMeansWorking, Sending
    <3>2. CASE WorkerStep(w)
      BY <1>1, <1>5, <3>1, <3>2, StopsSending DEF WorkInv
    <3>3. ASSUME pc'[w] = pc[w], held'[w] = held[w]  PROVE Sending(w, n)'
      BY <3>1, <3>3, NextCopies DEF Sending
    <3>4. CASE \E v \in Workers : v # w /\ WorkerStep(v)
      BY <3>3, <3>4, WorkerStepAlone
    <3> QED
      BY <1>2, <1>3, <3>2, <3>3, <3>4
      DEF Next, vars, ServiceStep, ClockStep, SchedulerStep, workerVars
  <2>2. CASE rows[n].status # "sending"
    <3>1. PICK w \in Workers : WorkerSays(w, n) /\ pc'[w] = "limiting" /\ held' = held
      BY <1>5, <2>2, NextRow DEF RowStep, SameStatus, Inserted, Becomes, WorkerSays
    <3>2. held[w] \in CopiesOf(n)
      BY <3>1, Holding DEF WorkerSays, CopiesOf
    <3> QED  BY <3>1, <3>2, NextCopies DEF Sending
  <2> QED  BY <2>1, <2>2
<1>6. SendingMeansWorking'
  BY <1>5 DEF SendingMeansWorking, Sending
<1> QED  BY <1>4, <1>6 DEF WorkInv

LEMMA InitWork ==
  ASSUME Init
  PROVE  WorkInv
  BY DEF Init, StoreInit, NewRow, ProcessInit, WorkInv, UndisturbedRun, SendingMeansWorking

(***************************************************************************)
(* While nothing is disturbed, a row that says sending is not a leftover:  *)
(* a worker is at it, although several workers may hold copies of the      *)
(* notification and write its row in any order.                            *)
(***************************************************************************)
THEOREM SendingIsWork == Spec => []SendingMeansWorking
<1> DEFINE Inv == TypeOK /\ BodiesKnown /\ WorkersHoldCopies /\ WorkInv
<1>1. Init => Inv
  BY InitTyped, InitWork
<1>2. Inv /\ [Next]_vars => Inv'
  BY NextType, NextCopies, NextHolds, NextWorkInv
<1>3. Inv => SendingMeansWorking
  BY DEF WorkInv
<1> QED  BY <1>1, <1>2, <1>3, PTL DEF Spec

-----------------------------------------------------------------------------
(***************************************************************************)
(* What is given up is given up for a cause.                               *)
(***************************************************************************)
Cause(n) ==
  \/ n \in refused
  \/ attempts[n] >= MaxRetries
  \/ n \in cut /\ attempts[n] + 1 >= MaxRetries

\* Every retry_count on its way to a worker counts failures that happened.
CountsTravel ==
  /\ \A m \in Messages : Published(m) => body[m].retry_count <= attempts[body[m].id]
  /\ \A i \in Instances : \A b \in batch[i] : b.retry_count <= attempts[b.id]

\* And so does the one a worker decides with.
SeenHappened ==
  \A w \in Workers :
    pc[w] \notin {"idle", "exited"} => seen[w] <= attempts[body[held[w]].id]

\* The failure a worker is about to count happened as well, or a shutdown cut the Send.
FailureHappened ==
  \A w \in Workers :
    pc[w] = "failing" =>
      LET n == body[held[w]].id IN
      /\ verdict[w] = "permanent" => n \in refused
      /\ seen[w] + 1 <= attempts[n] \/ n \in cut

\* Hence a worker gives up for a cause, and so had whoever did.
GivenUpForCause ==
  /\ \A w \in Workers : pc[w] \in {"exhausted", "rejecting"} => Cause(body[held[w]].id)
  /\ \A m \in Messages : place[m] = "dead" => Cause(body[m].id)
  /\ \A n \in Notifications : rows[n].status = "failed" => Cause(n)

CauseInv == CountsTravel /\ SeenHappened /\ FailureHappened /\ GivenUpForCause

\* What happened stays so.
LEMMA NextHistory ==
  ASSUME TypeOK, BodiesKnown, WorkersHoldCopies, [Next]_vars
  PROVE  /\ \A n \in Notifications : /\ attempts[n] \in Nat /\ attempts'[n] \in Nat
                                    /\ attempts[n] <= attempts'[n]
         /\ refused \subseteq refused' /\ cut \subseteq cut'
         /\ \A m \in Messages : receipts[m] > 0 => receipts'[m] > 0
         /\ \A n \in Notifications : Cause(n) => Cause(n)'
<1>1. TypeOK'
  BY NextType
<1>2. CASE UNCHANGED providerVars
  BY <1>1, <1>2 DEF providerVars, TypeOK, ProviderTypeOK, Cause
<1>3. ASSUME NEW w \in Workers, WorkerStep(w)
      PROVE  /\ \A n \in Notifications : attempts[n] <= attempts'[n]
             /\ refused \subseteq refused' /\ cut \subseteq cut'
             /\ \A m \in Messages : receipts[m] > 0 => receipts'[m] > 0
  <2>1. CASE UNCHANGED providerVars
    BY <2>1 DEF providerVars, TypeOK, ProviderTypeOK
  <2>2. CASE SendSucceeds(w)
    BY <2>2 DEF SendSucceeds, Accepts, TypeOK, ProviderTypeOK
  <2>3. CASE \E v \in Verdict : SendFails(w, v)
    BY <2>3 DEF SendFails, Errs, Fails, TypeOK, ProviderTypeOK
  <2>4. CASE SendLosesReply(w)
    BY <2>4 DEF SendLosesReply, LosesReply, Errs, TypeOK, ProviderTypeOK
  <2>5. CASE SendIsCut(w)
    BY <2>5 DEF SendIsCut, IsCut, TypeOK, ProviderTypeOK
  <2> QED
    BY <1>3, <2>1, <2>2, <2>3, <2>4, <2>5
    DEF WorkerStep, Process, Take, ExitWorker, ReadFresh, MarkSending, RateLimitPass,
        RateLimitDenied, WindowOpens, LimitedInterrupted, StartSend, MarkSent, AckDelivered,
        CountFailure, MarkFailed, RejectToDLQ, MarkRetrying, Requeue, Finish, WorkerWrites
<1>4. ASSUME NEW w \in Workers, WorkerStep(w), NEW n \in Notifications, Cause(n)
      PROVE  Cause(n)'
  <2>1. /\ attempts[n] <= attempts'[n] /\ attempts[n] \in Nat /\ attempts'[n] \in Nat
        /\ MaxRetries \in Nat
    BY <1>1, <1>3, <1>4, MaxRetriesAssumption DEF TypeOK, ProviderTypeOK
  <2> QED  BY <1>3, <1>4, <2>1 DEF Cause
<1> QED
  BY <1>1, <1>2, <1>3, <1>4
  DEF Next, vars, ServiceStep, ClockStep, BrokerRestarts, SchedulerStep, LifecycleStep,
      providerVars, TypeOK, ProviderTypeOK

\* A count a worker reads from the table.
LEMMA CountRead ==
  ASSUME TypeOK, CountInv, NEW n \in Notifications
  PROVE  rows[n].retry_count <= attempts[n] /\ rows[n].retry_count \in Nat
<1>1. rows[n].retry_count + Cardinality(Failing(n)) <= attempts[n]
  BY DEF CountInv
<1>2. rows[n].retry_count \in Nat /\ attempts[n] \in Nat
  BY DEF TypeOK, StoreTypeOK, Row, ProviderTypeOK
<1> QED  BY <1>1, <1>2, FailingFinite

LEMMA NextCountsTravel ==
  ASSUME TypeOK, BodiesKnown, WorkersHoldCopies, CountInv, CountsTravel, [Next]_vars
  PROVE  CountsTravel'
<1>1. TypeOK'
  BY NextType
<1>2. ASSUME NEW i \in Instances, NEW b \in batch[i]
      PROVE  b.retry_count <= attempts'[b.id]
  <2>1. b.id \in Notifications /\ b.retry_count \in Nat /\ b.retry_count <= attempts[b.id]
    BY DEF CountsTravel, TypeOK, SchedulerTypeOK, Body
  <2> QED  BY <2>1, NextHistory
<1>3. ASSUME NEW m \in Messages, Published(m)'
      PROVE  body'[m].retry_count <= attempts'[body'[m].id]
  <2>1. CASE Published(m)
    <3>1. /\ body'[m] = body[m] /\ body[m].id \in Notifications
          /\ body[m].retry_count \in Nat /\ body[m].retry_count <= attempts[body[m].id]
      BY <2>1, NextCopies DEF BodiesKnown, Body, CountsTravel
    <3> QED  BY <3>1, NextHistory
  <2>2. ASSUME NEW r \in Requests, NEW n \in todo[r], body'[m] = [id |-> n, retry_count |-> 0]
        PROVE  body'[m].retry_count <= attempts'[body'[m].id]
    BY <2>2, NextHistory DEF TypeOK, ServiceTypeOK
  <2> QED  BY <1>2, <1>3, <2>1, <2>2, NewCopies
<1>4. ASSUME NEW i \in Instances, NEW b \in batch'[i]
      PROVE  b.retry_count <= attempts'[b.id]
  <2>1. ASSUME b.id \in Notifications, b.retry_count = rows[b.id].retry_count
        PROVE  b.retry_count <= attempts'[b.id]
    BY <2>1, CountRead, NextHistory
  <2> QED  BY <1>2, <1>4, <2>1, NewBatches DEF PendingDue
<1> QED  BY <1>3, <1>4 DEF CountsTravel

\* A worker that makes no step loses its place only with its process.
LEMMA WorkerKept ==
  ASSUME TypeOK, [Next]_vars, NEW w \in Workers, ~WorkerStep(w)
  PROVE  \/ pc'[w] = "idle"
         \/ /\ pc'[w] = pc[w] /\ held'[w] = held[w]
            /\ seen'[w] = seen[w] /\ verdict'[w] = verdict[w]
<1>1. CASE UNCHANGED workerVars
  BY <1>1 DEF workerVars
<1>2. ASSUME NEW i \in Instances, WorkersReset(i)
      PROVE  \/ pc'[w] = "idle"
             \/ /\ pc'[w] = pc[w] /\ held'[w] = held[w]
                /\ seen'[w] = seen[w] /\ verdict'[w] = verdict[w]
  BY <1>2 DEF WorkersReset
<1> QED
  BY <1>1, <1>2, WorkerStepAlone
  DEF Next, vars, ServiceStep, ClockStep, BrokerRestarts, SchedulerStep, LifecycleStep, Stop,
      Exit, Crash, Restart, LoseLink, LoseChannel, ProcessEnds, workerVars

LEMMA NextSeen ==
  ASSUME TypeOK, BodiesKnown, WorkersHoldCopies, CountInv, CountsTravel, SeenHappened,
         [Next]_vars
  PROVE  SeenHappened'
<1> SUFFICES ASSUME NEW w \in Workers, pc'[w] \notin {"idle", "exited"}
             PROVE  seen'[w] <= attempts'[body'[held'[w]].id]
  BY DEF SeenHappened
<1>1. ASSUME pc[w] \notin {"idle", "exited"}
      PROVE  /\ body[held[w]].id \in Notifications /\ body'[held[w]] = body[held[w]]
             /\ seen[w] \in Nat /\ seen[w] <= attempts[body[held[w]].id]
             /\ seen[w] <= attempts'[body[held[w]].id]
  <2>1. /\ held[w] \in Messages /\ body[held[w]].id \in Notifications
        /\ body'[held[w]] = body[held[w]]
        /\ seen[w] \in Nat /\ seen[w] <= attempts[body[held[w]].id]
    BY <1>1, Holding, NextCopies DEF SeenHappened, TypeOK, ConsumerTypeOK
  <2> QED  BY <2>1, NextHistory
<1>2. CASE pc[w] \notin {"idle", "exited"} /\ held'[w] = held[w] /\ seen'[w] = seen[w]
  BY <1>1, <1>2
<1>3. CASE ~WorkerStep(w)
  BY <1>2, <1>3, WorkerKept
<1>4. ASSUME NEW m \in Messages, Take(w, m)
      PROVE  seen'[w] <= attempts'[body'[held'[w]].id]
  <2>1. /\ held'[w] = m /\ seen'[w] = body[m].retry_count /\ body' = body
        /\ attempts' = attempts /\ Published(m)
    BY <1>4 DEF Take, Deliver, Published, providerVars, TypeOK, ConsumerTypeOK
  <2> QED  BY <2>1 DEF CountsTravel
<1>5. ASSUME ReadFresh(w)  PROVE seen'[w] <= attempts'[body'[held'[w]].id]
  <2>1. /\ pc[w] \notin {"idle", "exited"} /\ held' = held /\ attempts' = attempts
        /\ seen'[w] \in {seen[w], rows[body[held[w]].id].retry_count}
    BY <1>5 DEF ReadFresh, Goto, providerVars, TypeOK, ConsumerTypeOK
  <2> QED  BY <1>1, <2>1, CountRead
<1>6. CASE Finish(w, "limited", "ready") \/ AckDelivered(w) \/ RejectToDLQ(w) \/ Requeue(w)
  BY <1>6 DEF AckDelivered, RejectToDLQ, Requeue, Finish, Goto, TypeOK, ConsumerTypeOK
<1>7. CASE ExitWorker(w)
  BY <1>7 DEF ExitWorker, Goto, TypeOK, ConsumerTypeOK
<1>8. CASE \/ MarkSending(w) \/ MarkSent(w) \/ CountFailure(w) \/ MarkFailed(w)
           \/ MarkRetrying(w) \/ RateLimitPass(w) \/ RateLimitDenied(w) \/ WindowOpens(w)
           \/ StartSend(w) \/ SendSucceeds(w) \/ (\E v \in Verdict : SendFails(w, v))
           \/ SendLosesReply(w) \/ SendIsCut(w)
  BY <1>2, <1>8 DEF MarkSending, MarkSent, CountFailure, MarkFailed, MarkRetrying,
     RateLimitPass, RateLimitDenied, WindowOpens, StartSend, SendSucceeds, SendFails,
     SendLosesReply, SendIsCut, SendErrs, Goto, WorkerWrites
<1> QED
  BY <1>3, <1>4, <1>5, <1>6, <1>7, <1>8 DEF WorkerStep, Process, LimitedInterrupted

LEMMA NextFailure ==
  ASSUME TypeOK, BodiesKnown, WorkersHoldCopies, SeenHappened, FailureHappened, [Next]_vars
  PROVE  FailureHappened'
<1> SUFFICES ASSUME NEW w \in Workers, pc'[w] = "failing"
             PROVE  LET n == body'[held'[w]].id IN
                    /\ verdict'[w] = "permanent" => n \in refused'
                    /\ seen'[w] + 1 <= attempts'[n] \/ n \in cut'
  BY DEF FailureHappened
<1> DEFINE n == body[held[w]].id
<1>1. ASSUME pc[w] \notin {"idle", "exited"}
      PROVE  /\ n \in Notifications /\ body'[held[w]] = body[held[w]]
             /\ seen[w] \in Nat /\ seen[w] <= attempts[n]
             /\ attempts[n] \in Nat /\ attempts'[n] \in Nat /\ attempts[n] <= attempts'[n]
  <2>1. /\ held[w] \in Messages /\ n \in Notifications /\ body'[held[w]] = body[held[w]]
        /\ seen[w] \in Nat /\ seen[w] <= attempts[n]
    BY <1>1, Holding, NextCopies DEF SeenHappened, TypeOK, ConsumerTypeOK
  <2> HIDE DEF n
  <2> QED  BY <2>1, NextHistory
<1>2. CASE ~WorkerStep(w)
  <2>1. /\ pc[w] = "failing" /\ held'[w] = held[w]
        /\ seen'[w] = seen[w] /\ verdict'[w] = verdict[w]
    BY <1>2, WorkerKept
  <2>2. /\ verdict[w] = "permanent" => n \in refused
        /\ seen[w] + 1 <= attempts[n] \/ n \in cut
    BY <2>1 DEF FailureHappened
  <2> QED  BY <1>1, <2>1, <2>2, NextHistory
<1>3. ASSUME NEW v \in Verdict, SendFails(w, v)
      PROVE  /\ verdict'[w] = "permanent" => n \in refused'
             /\ seen[w] + 1 <= attempts'[n]
  <2>1. /\ pc[w] = "inflight" /\ verdict'[w] = v
        /\ attempts' = [attempts EXCEPT ![n] = @ + 1]
        /\ v = "permanent" => n \in refused'
    BY <1>3 DEF SendFails, SendErrs, Fails, Errs, Goto, TypeOK, ConsumerTypeOK
  <2>2. attempts'[n] = attempts[n] + 1
    BY <1>1, <2>1 DEF TypeOK, ProviderTypeOK
  <2> HIDE DEF n
  <2> QED  BY <1>1, <2>1, <2>2
<1>4. ASSUME SendLosesReply(w)
      PROVE  verdict'[w] # "permanent" /\ seen[w] + 1 <= attempts'[n]
  <2>1. /\ pc[w] = "inflight" /\ verdict'[w] = "transient"
        /\ attempts' = [attempts EXCEPT ![n] = @ + 1]
    BY <1>4 DEF SendLosesReply, SendErrs, LosesReply, Errs, Goto, TypeOK, ConsumerTypeOK
  <2>2. attempts'[n] = attempts[n] + 1
    BY <1>1, <2>1 DEF TypeOK, ProviderTypeOK
  <2> HIDE DEF n
  <2> QED  BY <1>1, <2>1, <2>2
<1>5. ASSUME SendIsCut(w)  PROVE verdict'[w] # "permanent" /\ n \in cut'
  BY <1>5 DEF SendIsCut, SendErrs, IsCut, TypeOK, ConsumerTypeOK
<1>6. CASE (\E v \in Verdict : SendFails(w, v)) \/ SendLosesReply(w) \/ SendIsCut(w)
  <2>1. held' = held /\ seen' = seen /\ pc[w] \notin {"idle", "exited"}
    BY <1>6 DEF SendFails, SendLosesReply, SendIsCut, SendErrs, Goto
  <2> QED  BY <1>1, <1>3, <1>4, <1>5, <1>6, <2>1
<1>7. CASE WorkerStep(w) /\ ~((\E v \in Verdict : SendFails(w, v)) \/ SendLosesReply(w)
                              \/ SendIsCut(w))
  BY <1>7 DEF WorkerStep, Process, Take, ExitWorker, ReadFresh, MarkSending, RateLimitPass,
     RateLimitDenied, WindowOpens, LimitedInterrupted, StartSend, SendSucceeds, MarkSent,
     AckDelivered, CountFailure, MarkFailed, RejectToDLQ, MarkRetrying, Requeue, Finish, Goto,
     TypeOK, ConsumerTypeOK
<1> QED  BY <1>2, <1>6, <1>7

\* A copy is dead once a worker has rejected it.
LEMMA NewDead ==
  ASSUME TypeOK, BodiesKnown, WorkersHoldCopies, [Next]_vars,
         NEW m \in Messages, place'[m] = "dead", place[m] # "dead"
  PROVE  \E w \in Workers : WorkerStep(w) /\ RejectToDLQ(w) /\ held[w] = m
<1> USE DEF TypeOK, BrokerTypeOK
<1>1. ASSUME NEW w \in Workers, WorkerStep(w)  PROVE RejectToDLQ(w) /\ held[w] = m
  BY <1>1 DEF WorkerStep, Process, Take, Deliver, ExitWorker, ReadFresh, MarkSending,
     RateLimitPass, RateLimitDenied, WindowOpens, LimitedInterrupted, StartSend, SendSucceeds,
     SendFails, SendLosesReply, SendIsCut, SendErrs, MarkSent, AckDelivered, CountFailure,
     MarkFailed, RejectToDLQ, MarkRetrying, Requeue, Finish, Settle, WorkerWrites, brokerVars
<1>2. ASSUME (\E i \in Instances : LifecycleStep(i)) \/ BrokerRestarts  PROVE FALSE
  BY <1>2, LifecycleStepCopies, BrokerRestartsCopies
<1>3. ASSUME ServiceStep \/ ClockStep \/ \E i \in Instances : SchedulerStep(i)  PROVE FALSE
  BY <1>3, PublisherCopies
<1> QED  BY <1>1, <1>2, <1>3 DEF Next, vars

LEMMA NextGivenUp ==
  ASSUME TypeOK, BodiesKnown, WorkersHoldCopies, SeenHappened, FailureHappened,
         GivenUpForCause, [Next]_vars
  PROVE  GivenUpForCause'
<1>0. \A n \in Notifications : Cause(n) => Cause(n)'
  BY NextHistory
<1>1. ASSUME NEW w \in Workers, pc[w] \notin {"idle", "exited"}, Cause(body[held[w]].id),
             held'[w] = held[w]
      PROVE  Cause(body[held[w]].id)'
  <2>1. PICK n \in Notifications : n = body[held[w]].id /\ body'[held[w]] = body[held[w]]
    BY <1>1, Holding, NextCopies
  <2>2. Cause(n)
    BY <1>1, <2>1
  <2>3. Cause(n)'
    BY <1>0, <2>2
  <2> QED  BY <1>1, <2>1, <2>3 DEF Cause
<1>2. ASSUME NEW w \in Workers, CountFailure(w), pc'[w] = "exhausted"
      PROVE  Cause(body[held[w]].id)
  <2> DEFINE n == body[held[w]].id
  <2>1. /\ pc[w] = "failing" /\ GivesUp(w)
        /\ n \in Notifications /\ seen[w] \in Nat /\ MaxRetries \in Nat
    BY <1>2, Holding, MaxRetriesAssumption
    DEF CountFailure, Goto, TypeOK, ConsumerTypeOK
  <2>2. /\ attempts[n] \in Nat /\ seen[w] <= attempts[n]
        /\ verdict[w] = "permanent" => n \in refused
        /\ seen[w] + 1 <= attempts[n] \/ n \in cut
    BY <2>1 DEF SeenHappened, FailureHappened, TypeOK, ProviderTypeOK
  <2> HIDE DEF n
  <2>3. Cause(n)
    BY <2>1, <2>2 DEF GivesUp, CurrentRetry, Cause
  <2> QED  BY <2>3 DEF n
<1>3. ASSUME NEW w \in Workers, pc'[w] \in {"exhausted", "rejecting"}
      PROVE  Cause(body[held[w]].id)'
  <2>1. CASE pc[w] \in {"exhausted", "rejecting"} /\ held'[w] = held[w]
    BY <1>1, <2>1 DEF GivenUpForCause
  <2>2. CASE ~WorkerStep(w)
    BY <1>3, <2>1, <2>2, WorkerKept
  <2>3. CASE CountFailure(w) /\ pc'[w] = "exhausted"
    <3>1. pc[w] = "failing" /\ held' = held
      BY <2>3 DEF CountFailure, Goto, WorkerWrites
    <3> QED  BY <1>1, <1>2, <2>3, <3>1
  <2>4. CASE MarkFailed(w)
    BY <2>1, <2>4 DEF MarkFailed, Goto, WorkerWrites
  <2> QED
    BY <1>3, <2>2, <2>3, <2>4
    DEF WorkerStep, Process, Take, ExitWorker, ReadFresh, MarkSending, RateLimitPass,
        RateLimitDenied, WindowOpens, LimitedInterrupted, StartSend, SendSucceeds, SendFails,
        SendLosesReply, SendIsCut, SendErrs, MarkSent, AckDelivered, CountFailure,
        RejectToDLQ, MarkRetrying, Requeue, Finish, Goto, TypeOK, ConsumerTypeOK
<1>4. ASSUME NEW m \in Messages, place'[m] = "dead"  PROVE Cause(body[m].id)'
  <2>1. ASSUME Cause(body[m].id), Published(m)  PROVE Cause(body[m].id)'
    <3>1. PICK n \in Notifications : n = body[m].id /\ body'[m] = body[m]
      BY <2>1, NextCopies DEF BodiesKnown, Body
    <3>2. Cause(n)
      BY <2>1, <3>1
    <3>3. Cause(n)'
      BY <1>0, <3>2
    <3> QED  BY <3>1, <3>3 DEF Cause
  <2>2. CASE place[m] = "dead"
    BY <2>1, <2>2 DEF GivenUpForCause, Published
  <2>3. CASE place[m] # "dead"
    <3>1. PICK w \in Workers : RejectToDLQ(w) /\ held[w] = m
      BY <1>4, <2>3, NewDead
    <3>2. pc[w] = "rejecting" /\ Published(m)
      BY <3>1, Holding DEF RejectToDLQ, Finish, Goto
    <3> QED  BY <2>1, <3>1, <3>2 DEF GivenUpForCause
  <2> QED  BY <2>2, <2>3
<1>5. ASSUME NEW n \in Notifications, rows'[n].status = "failed"  PROVE Cause(n)'
  <2>1. Cause(n)
    <3>1. rows[n].status = "failed" \/ \E w \in Workers : WorkerSays(w, n) /\ pc[w] = "exhausted"
      BY <1>5, NextRow DEF RowStep, SameStatus, Inserted, Becomes, WorkerSays
    <3> QED  BY <3>1 DEF GivenUpForCause, WorkerSays
  <2> QED  BY <1>0, <2>1
<1> QED  BY <1>3, <1>4, <1>5 DEF GivenUpForCause

LEMMA NextCause ==
  ASSUME TypeOK, BodiesKnown, WorkersHoldCopies, CountInv, CauseInv, [Next]_vars
  PROVE  CauseInv'
  BY NextCountsTravel, NextSeen, NextFailure, NextGivenUp DEF CauseInv

LEMMA InitCause ==
  ASSUME Init
  PROVE  CauseInv
  BY DEF Init, StoreInit, NewRow, BrokerInit, SchedulerInit, ConsumerInit, CauseInv,
     CountsTravel, SeenHappened, FailureHappened, GivenUpForCause, Published

(***************************************************************************)
(* A copy reaches the dead-letter queue only for a cause, although several *)
(* copies share one retry counter, a worker decides with a count that may  *)
(* be stale, and a failure may go uncounted.                               *)
(***************************************************************************)
THEOREM AbandonedForCause == Spec => []DeadLetterJustified
<1> DEFINE Inv == /\ TypeOK /\ BodiesKnown /\ WorkersHoldCopies /\ HoldersInv
                  /\ CountInv /\ CauseInv
<1>1. Init => Inv
  BY InitTyped, InitHolders, InitCount, InitCause
<1>2. Inv /\ [Next]_vars => Inv'
  BY NextType, NextCopies, NextHolds, NextHolders, NextCount, NextCause
<1>3. Inv => DeadLetterJustified
  BY DEF CauseInv, GivenUpForCause, Cause, DeadLetterJustified, DeadLettered, CopiesOf
<1> QED  BY <1>1, <1>2, <1>3, PTL DEF Spec

-----------------------------------------------------------------------------
(***************************************************************************)
(* What a row says is true.                                                *)
(***************************************************************************)
\* Sent goes with a provider message id, and the id with a receipt.
SentTruly ==
  \A n \in Notifications :
    /\ rows[n].status = "sent" => rows[n].provider_message_id = "set"
    /\ rows[n].provider_message_id = "set" => Received(n)

LEMMA NextSent ==
  ASSUME TypeOK, BodiesKnown, WorkersHoldCopies, ReceivedFirst, SentTruly, [Next]_vars
  PROVE  SentTruly'
<1>1. ASSUME NEW n \in Notifications, Received(n)  PROVE Received(n)'
  <2>1. PICK m \in CopiesOf(n) : receipts[m] > 0
    BY <1>1 DEF Received
  <2>2. m \in CopiesOf(n)' /\ receipts'[m] > 0
    BY <2>1, NextCopies, NextHistory DEF CopiesOf
  <2> QED  BY <2>2 DEF Received
<1>2. ASSUME NEW n \in Notifications, NEW w \in Workers, WorkerSays(w, n), pc[w] = "delivered"
      PROVE  Received(n)'
  <2>1. held[w] \in CopiesOf(n) /\ receipts[held[w]] > 0
    BY <1>2, Holding DEF WorkerSays, CopiesOf, ReceivedFirst
  <2> QED  BY <1>1, <2>1 DEF Received
<1>3. ASSUME NEW n \in Notifications
      PROVE  /\ rows'[n].status = "sent" => rows'[n].provider_message_id = "set"
             /\ rows'[n].provider_message_id = "set" => Received(n)'
  <2>1. RowStep(n)
    BY NextRow
  <2>2. CASE \E w \in Workers : WorkerSays(w, n)
    BY <1>1, <1>2, <2>2 DEF WorkerSays, Becomes, SentTruly
  <2>3. CASE ~\E w \in Workers : WorkerSays(w, n)
    BY <1>1, <2>1, <2>3 DEF RowStep, SameStatus, Inserted, Becomes, SentTruly
  <2> QED  BY <2>2, <2>3
<1> QED  BY <1>3 DEF SentTruly

(***************************************************************************)
(* Whatever the order in which several workers write one row: sent means   *)
(* that the provider has it, and failed that it was given up for a cause.  *)
(***************************************************************************)
THEOREM RowsAreTruthful == Spec => []StatusTruthful
<1> DEFINE Inv == /\ TypeOK /\ BodiesKnown /\ WorkersHoldCopies /\ HoldersInv
                  /\ ReceivedFirst /\ CountInv /\ CauseInv /\ SentTruly
<1>1. Init => Inv
  <2>1. Init => ReceivedFirst /\ SentTruly
    BY DEF Init, StoreInit, NewRow, BrokerInit, ConsumerInit, ReceivedFirst,
       AckedWasReceived, SentTruly
  <2> QED  BY <2>1, InitTyped, InitHolders, InitCount, InitCause
<1>2. Inv /\ [Next]_vars => Inv'
  BY NextType, NextCopies, NextHolds, NextHolders, NextReceived, NextCount, NextCause,
     NextSent
<1>3. Inv => StatusTruthful
  BY DEF CauseInv, GivenUpForCause, Cause, SentTruly, StatusTruthful
<1> QED  BY <1>1, <1>2, <1>3, PTL DEF Spec

-----------------------------------------------------------------------------
(***************************************************************************)
(* A cancellation in time.                                                 *)
(***************************************************************************)
LEMMA CancelledStays ==
  ASSUME IInv, [Next]_vars, NEW n \in Notifications,
         rows[n].status = "cancelled", ~PickedUp(n)
  PROVE  ~PickedUp(n)' /\ rows'[n].status = "cancelled"
<1> USE DEF IInv
<1>1. CopiesOf(n)' = {}
  <2>1. ASSUME NEW m \in Messages, Published(m)', body'[m].id = n  PROVE FALSE
    <3>1. CASE Published(m)
      BY <2>1, <3>1, NextCopies DEF PickedUp, CopiesOf
    <3>2. ASSUME NEW r \in Requests, NEW k \in todo[r], body'[m] = [id |-> k, retry_count |-> 0]
          PROVE  FALSE
      BY <2>1, <3>2 DEF PickedUp
    <3>3. ASSUME NEW i \in Instances, body'[m] \in batch[i]  PROVE FALSE
      BY <2>1, <3>3 DEF PickedUp
    <3> QED  BY <2>1, <3>1, <3>2, <3>3, NewCopies
  <2> QED  BY <2>1 DEF CopiesOf
<1>2. \A r \in Requests : n \notin todo'[r]
  BY NewTodo DEF PickedUp, Exists
<1>3. \A i \in Instances : \A b \in batch'[i] : b.id # n
  BY NewBatches DEF PickedUp, PendingDue
<1>4. rows'[n].status = "cancelled"
  <2>1. ~Marked(n)
    BY NoNotificationAssumption DEF Marked, Backed, PickedUp
  <2>2. ASSUME NEW w \in Workers, WorkerSays(w, n)  PROVE FALSE
    BY <2>2, Holding DEF WorkerSays, PickedUp, CopiesOf
  <2> QED
    BY <2>1, <2>2, NextRow DEF RowStep, SameStatus, Inserted, Becomes, Exists
<1> QED  BY <1>1, <1>2, <1>3, <1>4 DEF PickedUp

(***************************************************************************)
(* A cancellation that precedes every publisher is final.  As long as the  *)
(* broker gets what is published: a publisher that has lost a message does *)
(* not know, and marks the row queued whatever it has become.              *)
(***************************************************************************)
THEOREM CancelledInTime ==
  ASSUME "lost" \notin Faults
  PROVE  Spec => CancelBeforePickupIsFinal
<1>1. Init => IInv
  BY InitTyped
  DEF Init, StoreInit, NewRow, BrokerInit, ServiceInit, SchedulerInit, ConsumerInit, IInv,
      Backed, ReceivedFirst, AckedWasReceived
<1>2. IInv /\ [Next]_vars => IInv'
  BY NextType, NextCopies, NextHolds, NextBacked, NextReceived DEF IInv
<1>3. IInv /\ [Next]_vars =>
        \A n \in Notifications :
          rows[n].status = "cancelled" /\ ~PickedUp(n) =>
            ~PickedUp(n)' /\ rows'[n].status = "cancelled"
  BY CancelledStays
<1> QED  BY <1>1, <1>2, <1>3, PTL DEF Spec, CancelBeforePickupIsFinal

-----------------------------------------------------------------------------
(***************************************************************************)
(* How often a notification is published.                                  *)
(***************************************************************************)
\* The processes whose scheduler has n in hand, or may still read it as pending.
Polled(n) == {i \in Instances : \E b \in batch[i] : b.id = n}

MayPoll(n) ==
  {i \in Instances : /\ rows[n].status \in {"absent", "pending"}
                     /\ life[i] = "running" => i \notin Polled(n) /\ queued[i] # n}

\* The publication the request owes n.
Owed(n) == IF ~Exists(n) \/ \E r \in Requests : n \in todo[r] THEN 1 ELSE 0

\* Publications of n, past and to come.
Publications(n) ==
  Cardinality(CopiesOf(n)) + Cardinality(Polled(n)) + Cardinality(MayPoll(n)) + Owed(n)

PublishedFewTimes ==
  \A n \in Notifications :
    /\ IsFiniteSet(CopiesOf(n))
    /\ Publications(n) <= 1 + Cardinality(Instances) + disruptions

\* No publisher has a notification in hand twice, and a process that is down has none.
InHandOnce ==
  /\ \A i \in Instances : \A a, b \in batch[i] : a.id = b.id => a = b
  /\ \A q, r \in Requests : q # r => todo[q] \cap todo[r] = {}
  /\ \A i \in Instances : life[i] = "down" => batch[i] = {} /\ queued[i] = NoNotification

DupInv == PublishedFewTimes /\ InHandOnce

LEMMA ServiceStepInHand ==
  ASSUME TypeOK, InHandOnce, DueInv, ServiceStep
  PROVE  InHandOnce'
<1>0. UNCHANGED <<batch, queued, life>>
  BY DEF ServiceStep, schedulerVars, processVars
<1>1. ASSUME NEW r \in Requests, Accept(r)
      PROVE  \A p, q \in Requests : p # q => todo'[p] \cap todo'[q] = {}
  <2>1. PICK B \in SUBSET Notifications :
          \E at \in [B -> {"none", "future"}] : CreateBatch(r, B, at)
    BY <1>1, AcceptLemma
  <2>2. todo' = [todo EXCEPT ![r] = B] /\ \A n \in B : ~Exists(n)
    BY <2>1 DEF CreateBatch, InsertRows
  <2>3. \A q \in Requests : q # r => todo[q] \cap B = {}
    BY <2>2 DEF DueInv
  <2> QED  BY <2>2, <2>3 DEF InHandOnce, TypeOK, ServiceTypeOK
<1>2. ASSUME \/ \E r \in Requests : Handle(r)
             \/ \E n \in Notifications : Cancel(n)
             \/ ApiCrash \/ ApiLosesChannel
      PROVE  \A r \in Requests : todo'[r] \subseteq todo[r]
  BY <1>2 DEF Handle, SkipScheduled, PublishDue, PublishDueFails, PublishDueIsLost,
     MarkQueued, Cancel, ApiCrash, ApiLosesChannel, TypeOK, ServiceTypeOK
<1>3. ASSUME \A r \in Requests : todo'[r] \subseteq todo[r]
      PROVE  \A p, q \in Requests : p # q => todo'[p] \cap todo'[q] = {}
  BY <1>3 DEF InHandOnce
<1>4. \A p, q \in Requests : p # q => todo'[p] \cap todo'[q] = {}
  <2>1. CASE \E r \in Requests : Accept(r)
    BY <1>1, <2>1
  <2>2. CASE ~\E r \in Requests : Accept(r)
    <3>1. \A r \in Requests : todo'[r] \subseteq todo[r]
      BY <1>2, <2>2 DEF ServiceStep
    <3> QED  BY <1>3, <3>1
  <2> QED  BY <2>1, <2>2
<1> QED  BY <1>0, <1>4 DEF InHandOnce

LEMMA SchedulerStepInHand ==
  ASSUME TypeOK, InHandOnce, NEW i \in Instances, SchedulerStep(i)
  PROVE  InHandOnce'
<1>0. UNCHANGED <<todo, life>>
  BY DEF SchedulerStep, serviceVars, processVars
<1>1. life[i] # "down"
  BY DEF SchedulerStep, Poll, SchedulerPublish, SchedulerPublishFails,
     SchedulerPublishIsLost, NextInBatch, SchedulerMarkQueued, Write
<1>2. \A j \in Instances : j # i => batch'[j] = batch[j] /\ queued'[j] = queued[j]
  BY DEF SchedulerStep, Poll, SchedulerPublish, SchedulerPublishFails,
     SchedulerPublishIsLost, SchedulerMarkQueued, TypeOK, SchedulerTypeOK
<1>3. \A a, b \in batch'[i] : a.id = b.id => a = b
  <2>1. ASSUME Poll(i)  PROVE \A a, b \in batch'[i] : a.id = b.id => a = b
    BY <2>1 DEF Poll, Snapshot, TypeOK, SchedulerTypeOK
  <2>2. ASSUME batch'[i] \subseteq batch[i]
        PROVE  \A a, b \in batch'[i] : a.id = b.id => a = b
    BY <2>2 DEF InHandOnce
  <2> QED
    BY <2>1, <2>2 DEF SchedulerStep, SchedulerPublish, SchedulerPublishFails,
       SchedulerPublishIsLost, SchedulerMarkQueued, TypeOK, SchedulerTypeOK
<1> QED  BY <1>0, <1>1, <1>2, <1>3 DEF InHandOnce

LEMMA NextInHand ==
  ASSUME TypeOK, InHandOnce, DueInv, [Next]_vars
  PROVE  InHandOnce'
<1>1. CASE UNCHANGED <<batch, queued, life, todo>>
  BY <1>1 DEF InHandOnce
<1>2. ASSUME NEW i \in Instances, LifecycleStep(i)  PROVE InHandOnce'
  <2>1. UNCHANGED todo
    BY <1>2 DEF LifecycleStep, serviceVars
  <2>2. CASE UNCHANGED <<batch, queued>> /\ \A j \in Instances : life'[j] = "down"
                                                               => life[j] = "down"
    BY <2>1, <2>2 DEF InHandOnce
  <2>3. CASE ProcessEnds(i)
    BY <2>1, <2>3 DEF ProcessEnds, SchedulerDies, InHandOnce, TypeOK, SchedulerTypeOK,
       ProcessTypeOK
  <2> QED
    BY <1>2, <2>2, <2>3 DEF LifecycleStep, Stop, Exit, Crash, Restart, LoseLink, LoseChannel,
       schedulerVars, TypeOK, ProcessTypeOK
<1> QED
  BY <1>1, <1>2, ServiceStepInHand, SchedulerStepInHand
  DEF Next, vars, ClockStep, BrokerRestarts, WorkerStep, serviceVars, schedulerVars,
      processVars

LEMMA PublicationsType ==
  ASSUME TypeOK, TypeOK', NEW n \in Notifications, IsFiniteSet(CopiesOf(n))
  PROVE  /\ Cardinality(CopiesOf(n)) \in Nat
         /\ IsFiniteSet(Polled(n)) /\ Cardinality(Polled(n)) \in Nat
         /\ IsFiniteSet(MayPoll(n)) /\ Cardinality(MayPoll(n)) \in Nat
         /\ IsFiniteSet(Polled(n)') /\ Cardinality(Polled(n)') \in Nat
         /\ IsFiniteSet(MayPoll(n)') /\ Cardinality(MayPoll(n)') \in Nat
         /\ Owed(n) \in {0, 1} /\ Owed(n)' \in {0, 1}
         /\ Cardinality(Instances) \in Nat
         /\ disruptions \in Nat /\ disruptions' \in Nat
<1>1. /\ Polled(n) \subseteq Instances /\ MayPoll(n) \subseteq Instances
      /\ Polled(n)' \subseteq Instances /\ MayPoll(n)' \subseteq Instances
  BY DEF Polled, MayPoll
<1> QED
  BY <1>1, InstancesAssumption, NoMoreThan, FS_CardinalityType, MaxDisruptionsAssumption
  DEF Owed, TypeOK, FaultsTypeOK

\* A step after which fewer publications of n are to come, or a fault brings back one.
LEMMA PublicationsQuiet ==
  ASSUME TypeOK, TypeOK', NEW n \in Notifications, IsFiniteSet(CopiesOf(n)),
         CopiesOf(n)' \subseteq CopiesOf(n), Polled(n)' \subseteq Polled(n),
         Owed(n)' <= Owed(n), disruptions <= disruptions',
         \/ MayPoll(n)' \subseteq MayPoll(n)
         \/ /\ \E i : MayPoll(n)' \subseteq MayPoll(n) \cup {i}
            /\ disruptions' = disruptions + 1,
         Publications(n) <= 1 + Cardinality(Instances) + disruptions
  PROVE  Publications(n)' <= 1 + Cardinality(Instances) + disruptions'
<1>1. /\ Cardinality(CopiesOf(n)') \in Nat
      /\ Cardinality(CopiesOf(n)') <= Cardinality(CopiesOf(n))
      /\ Cardinality(Polled(n)') <= Cardinality(Polled(n))
  BY PublicationsType, NoMoreThan
<1>2. CASE MayPoll(n)' \subseteq MayPoll(n)
  <2>1. Cardinality(MayPoll(n)') <= Cardinality(MayPoll(n))
    BY <1>2, PublicationsType, NoMoreThan
  <2> QED  BY <1>1, <2>1, PublicationsType DEF Publications
<1>3. CASE /\ \E i : MayPoll(n)' \subseteq MayPoll(n) \cup {i}
           /\ disruptions' = disruptions + 1
  <2>1. PICK i : MayPoll(n)' \subseteq MayPoll(n) \cup {i}
    BY <1>3
  <2>2. Cardinality(MayPoll(n)') <= Cardinality(MayPoll(n)) + 1
    BY <2>1, PublicationsType, AtMostOneMore
  <2> QED  BY <1>1, <1>3, <2>2, PublicationsType DEF Publications
<1> QED  BY <1>2, <1>3

\* A publication that was to come has come.
LEMMA PublicationsPublish ==
  ASSUME TypeOK, TypeOK', NEW n \in Notifications, IsFiniteSet(CopiesOf(n)),
         NEW m, CopiesOf(n)' \subseteq CopiesOf(n) \cup {m}, MayPoll(n)' \subseteq MayPoll(n),
         \/ Owed(n)' + 1 <= Owed(n) /\ Polled(n)' \subseteq Polled(n)
         \/ /\ Owed(n)' <= Owed(n)
            /\ \E i \in Polled(n) : Polled(n)' \subseteq Polled(n) \ {i},
         UNCHANGED disruptions,
         Publications(n) <= 1 + Cardinality(Instances) + disruptions
  PROVE  Publications(n)' <= 1 + Cardinality(Instances) + disruptions'
<1>1. /\ Cardinality(CopiesOf(n)') \in Nat
      /\ Cardinality(CopiesOf(n)') <= Cardinality(CopiesOf(n)) + 1
  BY AtMostOneMore
<1>2. Cardinality(MayPoll(n)') <= Cardinality(MayPoll(n))
  BY PublicationsType, NoMoreThan
<1>3. CASE Owed(n)' + 1 <= Owed(n) /\ Polled(n)' \subseteq Polled(n)
  <2>1. Cardinality(Polled(n)') <= Cardinality(Polled(n))
    BY <1>3, PublicationsType, NoMoreThan
  <2> QED  BY <1>1, <1>2, <1>3, <2>1, PublicationsType DEF Publications
<1>4. CASE /\ Owed(n)' <= Owed(n)
           /\ \E i \in Polled(n) : Polled(n)' \subseteq Polled(n) \ {i}
  <2>1. PICK i \in Polled(n) : Polled(n)' \subseteq Polled(n) \ {i}
    BY <1>4
  <2>2. Cardinality(Polled(n)') + 1 <= Cardinality(Polled(n))
    BY <2>1, PublicationsType, OneLess
  <2> QED  BY <1>1, <1>2, <1>4, <2>2, PublicationsType DEF Publications
<1> QED  BY <1>3, <1>4

\* A row that has left pending does not come back to it, and a request is done once.
LEMMA NextOwed ==
  ASSUME TypeOK, BodiesKnown, WorkersHoldCopies, [Next]_vars, NEW n \in Notifications
  PROVE  /\ Owed(n)' \in {0, 1} /\ Owed(n) \in {0, 1} /\ Owed(n)' <= Owed(n)
         /\ rows'[n].status \in {"absent", "pending"} =>
              rows[n].status \in {"absent", "pending"}
<1>1. Exists(n) => Exists(n)'
  BY NextExists
<1>2. ASSUME NEW r \in Requests, n \in todo'[r]  PROVE Owed(n) = 1
  BY <1>2, NewTodo DEF Owed
<1>3. Owed(n)' <= Owed(n)
  BY <1>1, <1>2 DEF Owed
<1>4. rows'[n].status \in {"absent", "pending"} => rows[n].status \in {"absent", "pending"}
  BY NextRow DEF RowStep, SameStatus, Inserted, Becomes, WorkerSays, Exists
<1> QED  BY <1>3, <1>4 DEF Owed

LEMMA PublishPublications ==
  ASSUME TypeOK, TypeOK', BodiesKnown, WorkersHoldCopies, DueInv, DupInv, [Next]_vars,
         NEW n \in Notifications, ~(CopiesOf(n)' \subseteq CopiesOf(n))
  PROVE  /\ IsFiniteSet(CopiesOf(n)')
         /\ Publications(n)' <= 1 + Cardinality(Instances) + disruptions'
<1>0. /\ IsFiniteSet(CopiesOf(n))
      /\ Publications(n) <= 1 + Cardinality(Instances) + disruptions
  BY DEF DupInv, PublishedFewTimes
<1>1. PICK m \in Messages : Published(m)' /\ body'[m].id = n /\ ~Published(m)
  BY NextCopies DEF CopiesOf
<1>2. ASSUME \A k \in Messages : k # m => place'[k] = place[k] /\ body'[k] = body[k]
      PROVE  CopiesOf(n)' \subseteq CopiesOf(n) \cup {m}
  BY <1>2 DEF CopiesOf, Published
<1>3. ASSUME NEW r \in Requests, NEW k \in todo[r], ServiceStep, PublishDue(r, k, m)
      PROVE  /\ CopiesOf(n)' \subseteq CopiesOf(n) \cup {m}
             /\ Publications(n)' <= 1 + Cardinality(Instances) + disruptions'
  <2>1. k = n
    BY <1>1, <1>3 DEF PublishDue, Publish, TypeOK, BrokerTypeOK
  <2>2. /\ UNCHANGED <<rows, disruptions, batch, queued, life>>
        /\ todo' = [todo EXCEPT ![r] = @ \ {n}]
        /\ \A j \in Messages : j # m => place'[j] = place[j] /\ body'[j] = body[j]
    BY <1>3, <2>1 DEF PublishDue, Publish, TypeOK, BrokerTypeOK, ServiceStep, schedulerVars,
       processVars
  <2>3. Owed(n) = 1 /\ Owed(n)' = 0
    BY <1>3, <2>1, <2>2
    DEF Owed, DupInv, InHandOnce, DueInv, Exists, TypeOK, ServiceTypeOK
  <2>4. Polled(n)' = Polled(n) /\ MayPoll(n)' = MayPoll(n)
    BY <2>2 DEF Polled, MayPoll
  <2>5. CopiesOf(n)' \subseteq CopiesOf(n) \cup {m}
    BY <1>2, <2>2
  <2> QED  BY <1>0, <2>2, <2>3, <2>4, <2>5, PublicationsPublish
<1>4. ASSUME NEW i \in Instances, NEW b \in batch[i], SchedulerStep(i),
             SchedulerPublish(i, b, m)
      PROVE  /\ CopiesOf(n)' \subseteq CopiesOf(n) \cup {m}
             /\ Publications(n)' <= 1 + Cardinality(Instances) + disruptions'
  <2>1. b.id = n
    BY <1>1, <1>4 DEF SchedulerPublish, Publish, TypeOK, BrokerTypeOK
  <2>2. /\ UNCHANGED <<rows, disruptions, life>>
        /\ batch' = [batch EXCEPT ![i] = @ \ {b}]
        /\ queued' = [queued EXCEPT ![i] = n]
        /\ \A j \in Messages : j # m => place'[j] = place[j] /\ body'[j] = body[j]
    BY <1>4, <2>1 DEF SchedulerPublish, Publish, TypeOK, BrokerTypeOK, SchedulerStep,
       processVars
  <2>3. i \in Polled(n) /\ Polled(n)' \subseteq Polled(n) \ {i}
    BY <1>4, <2>1, <2>2 DEF Polled, DupInv, InHandOnce, TypeOK, SchedulerTypeOK
  <2>4. MayPoll(n)' \subseteq MayPoll(n)
    BY <2>2 DEF Polled, MayPoll, TypeOK, SchedulerTypeOK
  <2>5. CopiesOf(n)' \subseteq CopiesOf(n) \cup {m}
    BY <1>2, <2>2
  <2> QED  BY <1>0, <2>2, <2>3, <2>4, <2>5, NextOwed, PublicationsPublish
<1>5. /\ CopiesOf(n)' \subseteq CopiesOf(n) \cup {m}
      /\ Publications(n)' <= 1 + Cardinality(Instances) + disruptions'
  BY <1>1, <1>3, <1>4, NewlyPublished
<1> QED  BY <1>0, <1>5, AtMostOneMore

\* What a scheduler does without publishing n.
LEMMA SchedulerStepPublications ==
  ASSUME TypeOK, TypeOK', BodiesKnown, WorkersHoldCopies, DupInv, [Next]_vars,
         NEW i \in Instances, SchedulerStep(i),
         NEW n \in Notifications, CopiesOf(n)' \subseteq CopiesOf(n)
  PROVE  Publications(n)' <= 1 + Cardinality(Instances) + disruptions'
<1>0. /\ IsFiniteSet(CopiesOf(n))
      /\ Publications(n) <= 1 + Cardinality(Instances) + disruptions
      /\ UNCHANGED life
      /\ disruptions \in Nat /\ disruptions <= disruptions'
      /\ Owed(n)' <= Owed(n)
  BY NextOwed, NextDisruptions DEF DupInv, PublishedFewTimes, SchedulerStep, processVars,
     TypeOK, FaultsTypeOK
<1> USE DEF TypeOK, SchedulerTypeOK
<1>1. CASE Polled(n)' \subseteq Polled(n) /\ MayPoll(n)' \subseteq MayPoll(n)
  BY <1>0, <1>1, PublicationsQuiet
<1>2. ASSUME Poll(i)
      PROVE  Publications(n)' <= 1 + Cardinality(Instances) + disruptions'
  <2>1. /\ life[i] = "running" /\ batch[i] = {} /\ queued[i] = NoNotification
        /\ UNCHANGED <<rows, queued, disruptions>>
        /\ \A j \in Instances : j # i => batch'[j] = batch[j]
        /\ \A b \in batch'[i] : b.id \in PendingDue
    BY <1>2 DEF Poll, Snapshot
  <2>2. CASE i \in Polled(n)'
    <3>1. /\ i \in MayPoll(n)
          /\ MayPoll(n)' \subseteq MayPoll(n) \ {i}
          /\ Polled(n)' \subseteq Polled(n) \cup {i}
      BY <1>0, <2>1, <2>2, NoNotificationAssumption DEF Polled, MayPoll, PendingDue
    <3>2. /\ Cardinality(MayPoll(n)') + 1 <= Cardinality(MayPoll(n))
          /\ Cardinality(Polled(n)') <= Cardinality(Polled(n)) + 1
      BY <1>0, <3>1, PublicationsType, OneLess, AtMostOneMore
    <3>3. Cardinality(CopiesOf(n)') \in Nat
          /\ Cardinality(CopiesOf(n)') <= Cardinality(CopiesOf(n))
      BY <1>0, NoMoreThan
    <3> QED  BY <1>0, <2>1, <3>2, <3>3, PublicationsType DEF Publications
  <2>3. CASE i \notin Polled(n)'
    BY <1>0, <1>1, <2>1, <2>3 DEF Polled, MayPoll
  <2> QED  BY <2>2, <2>3
<1>3. ASSUME NEW b \in batch[i], SchedulerPublishFails(i, b)
      PROVE  Publications(n)' <= 1 + Cardinality(Instances) + disruptions'
  <2>1. /\ batch' = [batch EXCEPT ![i] = @ \ {b}]
        /\ UNCHANGED <<rows, queued, disruptions>>
    BY <1>3 DEF SchedulerPublishFails
  <2>2. CASE b.id = n
    <3>1. /\ i \in Polled(n) /\ Polled(n)' \subseteq Polled(n) \ {i}
          /\ MayPoll(n)' \subseteq MayPoll(n) \cup {i}
      BY <1>0, <1>3, <2>1, <2>2 DEF Polled, MayPoll, DupInv, InHandOnce
    <3>2. /\ Cardinality(Polled(n)') + 1 <= Cardinality(Polled(n))
          /\ Cardinality(MayPoll(n)') <= Cardinality(MayPoll(n)) + 1
      BY <1>0, <3>1, PublicationsType, OneLess, AtMostOneMore
    <3>3. Cardinality(CopiesOf(n)') \in Nat
          /\ Cardinality(CopiesOf(n)') <= Cardinality(CopiesOf(n))
      BY <1>0, NoMoreThan
    <3> QED  BY <1>0, <2>1, <3>2, <3>3, PublicationsType DEF Publications
  <2>3. CASE b.id # n
    BY <1>0, <1>1, <2>1, <2>3 DEF Polled, MayPoll
  <2> QED  BY <2>2, <2>3
<1>4. ASSUME NEW b \in batch[i],
             \/ SchedulerPublishIsLost(i, b)
             \/ \E m \in Messages : SchedulerPublish(i, b, m)
      PROVE  Publications(n)' <= 1 + Cardinality(Instances) + disruptions'
  <2>1. /\ batch' = [batch EXCEPT ![i] = @ \ {b}]
        /\ queued[i] = NoNotification /\ queued' = [queued EXCEPT ![i] = b.id]
        /\ UNCHANGED rows
    BY <1>4 DEF SchedulerPublishIsLost, SchedulerPublish, NextInBatch
  <2>2. Polled(n)' \subseteq Polled(n) /\ MayPoll(n)' \subseteq MayPoll(n)
    BY <1>0, <2>1, NoNotificationAssumption DEF Polled, MayPoll
  <2> QED  BY <1>1, <2>2
<1>5. ASSUME SchedulerMarkQueued(i)
      PROVE  Publications(n)' <= 1 + Cardinality(Instances) + disruptions'
  <2>1. /\ queued[i] \in Notifications /\ queued' = [queued EXCEPT ![i] = NoNotification]
        /\ UNCHANGED batch /\ "queued" \in Status
        /\ \/ life[i] = "running" /\ UpdateStatus(queued[i], "queued")
           \/ rows' = rows /\ disruptions' = disruptions + 1
           \/ rows' = rows /\ life[i] = "stopping"
    BY <1>5 DEF SchedulerMarkQueued, Write, Disrupt, Status
  <2>2. Polled(n)' = Polled(n)
    BY <2>1 DEF Polled
  <2>3. rows'[n].status \in {"absent", "pending"} => rows[n].status \in {"absent", "pending"}
    BY NextOwed
  <2>4. MayPoll(n)' \subseteq MayPoll(n) \cup {i}
    BY <1>0, <2>1, <2>2, <2>3 DEF MayPoll
  <2>5. CASE UpdateStatus(queued[i], "queued")
    <3>1. queued[i] = n => rows'[n].status = "queued"
      BY <2>1, <2>5, UpdateStatusLemma
    <3>2. MayPoll(n)' \subseteq MayPoll(n)
      BY <1>0, <2>1, <2>2, <2>3, <3>1 DEF MayPoll
    <3> QED  BY <1>1, <2>2, <3>2
  <2>6. CASE rows' = rows /\ disruptions' = disruptions + 1
    BY <1>0, <2>2, <2>4, <2>6, PublicationsQuiet
  <2>7. CASE rows' = rows /\ life[i] = "stopping"
    <3>1. MayPoll(n)' \subseteq MayPoll(n)
      BY <1>0, <2>1, <2>2, <2>7 DEF MayPoll
    <3> QED  BY <1>1, <2>2, <3>1
  <2> QED  BY <2>1, <2>5, <2>6, <2>7
<1> QED  BY <1>2, <1>3, <1>4, <1>5 DEF SchedulerStep

\* What the life of a process makes its scheduler do again.
LEMMA LifecycleStepPublications ==
  ASSUME TypeOK, TypeOK', BodiesKnown, WorkersHoldCopies, DupInv, [Next]_vars,
         NEW i \in Instances, LifecycleStep(i),
         NEW n \in Notifications, CopiesOf(n)' \subseteq CopiesOf(n)
  PROVE  Publications(n)' <= 1 + Cardinality(Instances) + disruptions'
<1>0. /\ IsFiniteSet(CopiesOf(n))
      /\ Publications(n) <= 1 + Cardinality(Instances) + disruptions
      /\ disruptions \in Nat /\ disruptions <= disruptions'
      /\ Owed(n)' <= Owed(n)
  BY NextOwed, NextDisruptions DEF DupInv, PublishedFewTimes, TypeOK, FaultsTypeOK
<1> USE DEF TypeOK, SchedulerTypeOK, ProcessTypeOK
<1>1. ASSUME UNCHANGED <<rows, life, batch, queued>>
      PROVE  Publications(n)' <= 1 + Cardinality(Instances) + disruptions'
  <2>1. Polled(n)' = Polled(n) /\ MayPoll(n)' = MayPoll(n)
    BY <1>1 DEF Polled, MayPoll
  <2> QED  BY <1>0, <2>1, PublicationsQuiet
<1>2. ASSUME Stop(i) \/ Crash(i)
      PROVE  Publications(n)' <= 1 + Cardinality(Instances) + disruptions'
  <2>1. /\ rows' = rows /\ disruptions' = disruptions + 1
        /\ \A j \in Instances : j # i => /\ life'[j] = life[j] /\ batch'[j] = batch[j]
                                         /\ queued'[j] = queued[j]
        /\ batch'[i] \in {batch[i], {}}
    BY <1>2 DEF Stop, Crash, ProcessEnds, SchedulerDies, Disrupt, schedulerVars
  <2>2. Polled(n)' \subseteq Polled(n) /\ MayPoll(n)' \subseteq MayPoll(n) \cup {i}
    BY <2>1 DEF Polled, MayPoll
  <2> QED  BY <1>0, <2>1, <2>2, PublicationsQuiet
<1>3. ASSUME Exit(i) \/ Restart(i)
      PROVE  Publications(n)' <= 1 + Cardinality(Instances) + disruptions'
  <2>1. /\ rows' = rows /\ life[i] # "running"
        /\ \A j \in Instances : j # i => /\ life'[j] = life[j] /\ batch'[j] = batch[j]
                                         /\ queued'[j] = queued[j]
        /\ batch'[i] \in {batch[i], {}}
    BY <1>3 DEF Exit, Restart, ProcessEnds, SchedulerDies, schedulerVars
  <2>2. Polled(n)' \subseteq Polled(n) /\ MayPoll(n)' \subseteq MayPoll(n)
    BY <2>1 DEF Polled, MayPoll
  <2> QED  BY <1>0, <2>2, PublicationsQuiet
<1> QED
  BY <1>1, <1>2, <1>3
  DEF LifecycleStep, LoseLink, LoseChannel, schedulerVars

LEMMA NextDup ==
  ASSUME TypeOK, BodiesKnown, WorkersHoldCopies, DueInv, DupInv, [Next]_vars
  PROVE  DupInv'
<1>0. TypeOK'
  BY NextType
<1>1. ASSUME NEW n \in Notifications
      PROVE  /\ IsFiniteSet(CopiesOf(n)')
             /\ Publications(n)' <= 1 + Cardinality(Instances) + disruptions'
  <2>0. /\ IsFiniteSet(CopiesOf(n))
        /\ Publications(n) <= 1 + Cardinality(Instances) + disruptions
    BY DEF DupInv, PublishedFewTimes
  <2>1. CASE ~(CopiesOf(n)' \subseteq CopiesOf(n))
    BY <1>0, <2>1, PublishPublications
  <2>2. CASE CopiesOf(n)' \subseteq CopiesOf(n)
    <3>1. IsFiniteSet(CopiesOf(n)')
      BY <2>0, <2>2, NoMoreThan
    <3>2. ASSUME UNCHANGED <<batch, queued, life>>
          PROVE  Publications(n)' <= 1 + Cardinality(Instances) + disruptions'
      <4>1. Polled(n)' = Polled(n) /\ MayPoll(n)' \subseteq MayPoll(n)
        BY <3>2, NextOwed DEF Polled, MayPoll
      <4>2. disruptions \in Nat /\ disruptions <= disruptions'
        BY NextDisruptions DEF TypeOK, FaultsTypeOK
      <4> QED  BY <1>0, <2>0, <2>2, <4>1, <4>2, NextOwed, PublicationsQuiet
    <3>3. CASE \E i \in Instances : SchedulerStep(i) \/ LifecycleStep(i)
      BY <1>0, <2>2, <3>1, <3>3, SchedulerStepPublications, LifecycleStepPublications
    <3> QED
      BY <3>1, <3>2, <3>3 DEF Next, vars, ServiceStep, ClockStep, BrokerRestarts, WorkerStep,
         schedulerVars, processVars
  <2> QED  BY <2>1, <2>2
<1>2. PublishedFewTimes'
  BY <1>1 DEF PublishedFewTimes
<1> QED  BY <1>2, NextInHand DEF DupInv

LEMMA InitDup ==
  ASSUME Init
  PROVE  DupInv
<1>1. InHandOnce
  BY DEF Init, ServiceInit, SchedulerInit, ProcessInit, InHandOnce
<1>2. ASSUME NEW n \in Notifications
      PROVE  /\ IsFiniteSet(CopiesOf(n))
             /\ Publications(n) <= 1 + Cardinality(Instances) + disruptions
  <2>1. CopiesOf(n) = {} /\ Polled(n) = {} /\ MayPoll(n) \subseteq Instances
        /\ Owed(n) = 1 /\ disruptions = 0
    BY <1>2 DEF Init, StoreInit, NewRow, BrokerInit, SchedulerInit, CopiesOf, Published,
       Polled, MayPoll, Owed, Exists
  <2>2. /\ Cardinality(MayPoll(n)) <= Cardinality(Instances)
        /\ Cardinality(MayPoll(n)) \in Nat /\ Cardinality(Instances) \in Nat
    BY <2>1, InstancesAssumption, NoMoreThan
  <2> QED  BY <2>1, <2>2, FS_EmptySet DEF Publications
<1> QED  BY <1>1, <1>2 DEF DupInv, PublishedFewTimes

(***************************************************************************)
(* One notification is published once by its request, once by each         *)
(* scheduler that read it while it was pending, and once more for each     *)
(* fault: nothing coordinates the publishers, and this bounds the harm.    *)
(***************************************************************************)
THEOREM FewCopies == Spec => []DuplicationBounded
<1> DEFINE Inv == TypeOK /\ BodiesKnown /\ WorkersHoldCopies /\ DueInv /\ DupInv
<1>1. Init => Inv
  BY InitTyped, InitDue, InitDup
<1>2. Inv /\ [Next]_vars => Inv'
  BY NextType, NextCopies, NextHolds, NextDueInv, NextDup
<1>3. Inv => DuplicationBounded
  <2> SUFFICES ASSUME Inv, NEW n \in Notifications
               PROVE  Cardinality(CopiesOf(n)) <= 1 + Cardinality(Instances) + disruptions
    BY DEF DuplicationBounded
  <2>1. /\ IsFiniteSet(CopiesOf(n))
        /\ Publications(n) <= 1 + Cardinality(Instances) + disruptions
    BY DEF DupInv, PublishedFewTimes
  <2>2. /\ Cardinality(Polled(n)) \in Nat /\ Cardinality(MayPoll(n)) \in Nat
        /\ Cardinality(CopiesOf(n)) \in Nat /\ Cardinality(Instances) \in Nat
        /\ Owed(n) \in {0, 1} /\ disruptions \in Nat
    <3>1. Polled(n) \subseteq Instances /\ MayPoll(n) \subseteq Instances
      BY DEF Polled, MayPoll
    <3> QED
      BY <2>1, <3>1, InstancesAssumption, NoMoreThan, FS_CardinalityType
      DEF Owed, TypeOK, FaultsTypeOK
  <2> QED  BY <2>1, <2>2 DEF Publications
<1> QED  BY <1>1, <1>2, <1>3, PTL DEF Spec

-----------------------------------------------------------------------------
(***************************************************************************)
(* How often a copy may still fail.                                        *)
(***************************************************************************)
\* Where a Send may still end in an error.
CouldErr == {"received", "loaded", "limiting", "limited", "sending", "inflight"}

ToErr(m) == {w \in Workers : held[w] = m /\ pc[w] \in CouldErr}

\* The errors of a copy, with those its present holders may add.
Toll(m) == tries[m] + Cardinality(ToErr(m))

Counted(m) == rows[body[m].id].retry_count

\* The verdict is another try, or what a shutdown makes of it ...
GoesBack(w) ==
  \/ pc[w] \in {"retrying", "backoff"}
  \/ pc[w] = "failing" /\ Context(w) = "stopping"

\* ... or whatever else comes after the count, and where no count was needed.
HasCounted(w) ==
  GoesBack(w) \/ pc[w] \in {"delivered", "acking", "exhausted", "rejecting"}

\* The worker decides by the count it has read.
Informed(w) ==
  pc[w] \in (CouldErr \cup {"failing"}) \ {"received"} /\ Context(w) = "running"

\* What the connected holder of a copy knows about its failures, but for faults.
HolderOK(w, m) ==
  /\ Toll(m) <= Counted(m) + disruptions + 1
  /\ HasCounted(w) => Toll(m) <= Counted(m) + disruptions
  /\ GoesBack(w) => Toll(m) < MaxRetries + disruptions
  /\ Informed(w) => \/ Toll(m) <= seen[w] + disruptions + 1
                    \/ Toll(m) < MaxRetries + disruptions

(***************************************************************************)
(* A copy that may be tried again has failed less than MaxRetries times,   *)
(* and the row has counted it, but for what faults hid.  The worker that   *)
(* can still put it back knows of all but one of these failures, or a      *)
(* fault accounts for its not knowing.                                     *)
(***************************************************************************)
RetryOK(m) ==
  /\ Toll(m) <= MaxRetries + disruptions
  /\ ~Published(m) => tries[m] = 0
  /\ place[m] = "ready" => /\ Toll(m) <= Counted(m) + disruptions
                           /\ Toll(m) < MaxRetries + disruptions
  /\ \A w \in Workers : held[w] = m /\ LinkOpen(w) => HolderOK(w, m)

RetryInv == \A m \in Messages : RetryOK(m)

LEMMA TollType ==
  ASSUME TypeOK, TypeOK', NEW m \in Messages
  PROVE  /\ tries[m] \in Nat /\ disruptions \in Nat /\ MaxRetries \in Nat
         /\ IsFiniteSet(ToErr(m)) /\ Cardinality(ToErr(m)) \in Nat
         /\ tries'[m] \in Nat /\ disruptions' \in Nat
         /\ IsFiniteSet(ToErr(m)') /\ Cardinality(ToErr(m)') \in Nat
         /\ Toll(m) \in Nat /\ Toll(m)' \in Nat
         /\ Toll(m)' = tries'[m] + Cardinality(ToErr(m)')
<1>1. ToErr(m) \subseteq Workers /\ ToErr(m)' \subseteq Workers
  BY DEF ToErr
<1>2. /\ IsFiniteSet(ToErr(m)) /\ Cardinality(ToErr(m)) \in Nat
      /\ IsFiniteSet(ToErr(m)') /\ Cardinality(ToErr(m)') \in Nat
  BY <1>1, WorkersAssumption, NoMoreThan
<1>3. /\ tries[m] \in Nat /\ disruptions \in Nat /\ MaxRetries \in Nat
      /\ tries'[m] \in Nat /\ disruptions' \in Nat
  BY MaxDisruptionsAssumption, MaxRetriesAssumption DEF TypeOK, ProviderTypeOK, FaultsTypeOK
<1> QED  BY <1>2, <1>3 DEF Toll

\* The counter of a row that exists is never set back.
LEMMA NextRetryCount ==
  ASSUME TypeOK, BodiesKnown, WorkersHoldCopies, [Next]_vars, NEW n \in Notifications,
         Exists(n)
  PROVE  /\ rows[n].retry_count \in Nat
         /\ rows'[n].retry_count \in {rows[n].retry_count, rows[n].retry_count + 1}
<1>0. rows[n].retry_count \in Nat
  BY DEF TypeOK, StoreTypeOK, Row
<1> DEFINE Kept == rows'[n].retry_count \in {rows[n].retry_count, rows[n].retry_count + 1}
<1>1. ASSUME NEW r \in Requests, Accept(r)  PROVE Kept
  <2>1. PICK B \in SUBSET Notifications :
          \E at \in [B -> {"none", "future"}] : CreateBatch(r, B, at)
    BY <1>1, AcceptLemma
  <2>2. PICK at \in [B -> {"none", "future"}] : CreateBatch(r, B, at)
    BY <2>1
  <2> QED  BY <2>2 DEF CreateBatch, InsertRows
<1>2. ASSUME NEW k \in Notifications, NEW s \in Status, UpdateStatus(k, s)  PROVE Kept
  BY <1>2, UpdateStatusLemma DEF TypeOK
<1>3. ASSUME NEW r \in Requests, MarkQueued(r)  PROVE Kept
  <2>1. published[r] \in Notifications /\ "queued" \in Status
    BY <1>3 DEF MarkQueued, TypeOK, ServiceTypeOK, Status
  <2> QED  BY <1>2, <1>3, <2>1 DEF MarkQueued
<1>4. ASSUME NEW k \in Notifications, Cancel(k)  PROVE Kept
  BY <1>4, CancelRowLemma DEF Cancel, TypeOK
<1>5. ASSUME NEW i \in Instances, SchedulerMarkQueued(i)  PROVE Kept
  <2>1. queued[i] \in Notifications /\ "queued" \in Status
    BY <1>5 DEF SchedulerMarkQueued, TypeOK, SchedulerTypeOK, Status
  <2> QED  BY <1>2, <1>5, <2>1, WriteLemma DEF SchedulerMarkQueued
<1>6. ASSUME NEW w \in Workers, WorkerStep(w)  PROVE Kept
  <2> DEFINE k == body[held[w]].id
  <2>1. ASSUME MarkSending(w) \/ MarkSent(w) \/ MarkFailed(w) \/ MarkRetrying(w)  PROVE Kept
    <3>1. k \in Notifications
      BY <2>1, Holding DEF MarkSending, MarkSent, MarkFailed, MarkRetrying, Goto
    <3>2. \E s \in Status : WorkerWrites(w, UpdateStatus(k, s))
      BY <2>1 DEF MarkSending, MarkSent, MarkFailed, MarkRetrying, Status
    <3> QED  BY <1>2, <3>1, <3>2 DEF WorkerWrites, Write
  <2>2. ASSUME CountFailure(w)  PROVE Kept
    <3>1. k \in Notifications
      BY <2>2, Holding DEF CountFailure, Goto
    <3> QED
      BY <2>2, <3>1, IncrementRetryLemma DEF CountFailure, WorkerWrites, Write, TypeOK
  <2> QED
    BY <1>6, <2>1, <2>2
    DEF WorkerStep, Process, Take, ExitWorker, ReadFresh, RateLimitPass, RateLimitDenied,
        WindowOpens, LimitedInterrupted, StartSend, SendSucceeds, SendFails, SendLosesReply,
        SendIsCut, SendErrs, AckDelivered, RejectToDLQ, Requeue, Finish
<1>7. ASSUME ClockStep  PROVE Kept
  BY <1>7, ClockPassesLemma DEF ClockStep, TypeOK
<1> QED
  BY <1>0, <1>1, <1>3, <1>4, <1>5, <1>6, <1>7
  DEF Next, vars, ServiceStep, Handle, SkipScheduled, PublishDue, PublishDueFails,
      PublishDueIsLost, ApiCrash, ApiLosesChannel, SchedulerStep, Poll, SchedulerPublish,
      SchedulerPublishFails, SchedulerPublishIsLost, LifecycleStep, Stop, Exit, Crash, Restart,
      LoseLink, LoseChannel, ProcessEnds, BrokerRestarts

\* Nor is what a row has counted for a copy that was published.
LEMMA NextCounted ==
  ASSUME TypeOK, BodiesKnown, WorkersHoldCopies, DueInv, [Next]_vars,
         NEW m \in Messages, Published(m)
  PROVE  /\ Counted(m) \in Nat /\ Counted(m)' \in Nat
         /\ Counted(m) <= Counted(m)'
<1>1. /\ body[m].id \in Notifications /\ Exists(body[m].id)
      /\ body'[m] = body[m]
  BY NextCopies DEF BodiesKnown, Body, DueInv, Due
<1> QED  BY <1>1, NextRetryCount DEF Counted

\* What every step of the following lemmas starts from.
RetryContext ==
  /\ TypeOK /\ TypeOK' /\ BodiesKnown /\ WorkersHoldCopies /\ HoldersInv /\ DueInv
  /\ [Next]_vars

(***************************************************************************)
(* A step that adds no failure to a copy and leaves its connected holder   *)
(* as it is, but for a shutdown; only a fault puts the copy back.          *)
(***************************************************************************)
LEMMA RetryPassive ==
  ASSUME RetryContext, NEW m \in Messages, RetryOK(m),
         disruptions <= disruptions', tries'[m] = tries[m] \/ Published(m),
         Toll(m)' <= Toll(m),
         Published(m) => Published(m)',
         place'[m] = "ready" =>
           \/ place[m] = "ready"
           \/ /\ disruptions' = disruptions + 1
              /\ \E w \in Workers : held[w] = m /\ LinkOpen(w),
         \A w \in Workers : held'[w] = m /\ LinkOpen(w)' =>
            /\ held[w] = m /\ LinkOpen(w) /\ pc'[w] = pc[w] /\ seen'[w] = seen[w]
            /\ \/ Context(w)' = Context(w)
               \/ Context(w)' = "stopping" /\ disruptions' = disruptions + 1
  PROVE  RetryOK(m)'
<1>1. Published(m) => /\ Counted(m) \in Nat /\ Counted(m)' \in Nat
                      /\ Counted(m) <= Counted(m)'
  BY NextCounted DEF RetryContext
<1>2. /\ Toll(m) \in Nat /\ Toll(m)' \in Nat /\ MaxRetries \in Nat
      /\ disruptions \in Nat /\ disruptions' \in Nat
  BY TollType DEF RetryContext
<1>3. Toll(m)' <= MaxRetries + disruptions'
  BY <1>2 DEF RetryOK
<1>4. ~Published(m)' => tries'[m] = 0
  BY DEF RetryOK
<1>5. place'[m] = "ready" => /\ Toll(m)' <= Counted(m)' + disruptions'
                             /\ Toll(m)' < MaxRetries + disruptions'
  <2>1. CASE place[m] = "ready"
    BY <1>1, <1>2, <2>1 DEF RetryOK, Published
  <2>2. ASSUME disruptions' = disruptions + 1,
               NEW w \in Workers, held[w] = m, LinkOpen(w)
        PROVE  /\ Toll(m)' <= Counted(m)' + disruptions'
               /\ Toll(m)' < MaxRetries + disruptions'
    <3>1. /\ Toll(m) <= Counted(m) + disruptions + 1
          /\ Toll(m) <= MaxRetries + disruptions
          /\ Published(m)
      BY <2>2 DEF RetryOK, HolderOK, RetryContext, WorkersHoldCopies
    <3> QED  BY <1>1, <1>2, <2>2, <3>1
  <2> QED  BY <2>1, <2>2
<1>6. ASSUME NEW w \in Workers, held'[w] = m, LinkOpen(w)'
      PROVE  HolderOK(w, m)'
  <2>1. /\ held[w] = m /\ LinkOpen(w) /\ pc'[w] = pc[w] /\ seen'[w] = seen[w]
        /\ \/ Context(w)' = Context(w)
           \/ Context(w)' = "stopping" /\ disruptions' = disruptions + 1
    BY <1>6
  <2>2. seen[w] \in Nat /\ Published(m)
    BY <2>1 DEF RetryContext, TypeOK, ConsumerTypeOK, WorkersHoldCopies
  <2>3. /\ Toll(m) <= Counted(m) + disruptions + 1
        /\ HasCounted(w) => Toll(m) <= Counted(m) + disruptions
        /\ GoesBack(w) => Toll(m) < MaxRetries + disruptions
        /\ Informed(w) => \/ Toll(m) <= seen[w] + disruptions + 1
                          \/ Toll(m) < MaxRetries + disruptions
        /\ Toll(m) <= MaxRetries + disruptions
    BY <2>1 DEF RetryOK, HolderOK
  <2>4. CASE Context(w)' = Context(w)
    BY <1>1, <1>2, <2>1, <2>2, <2>3, <2>4
    DEF HolderOK, HasCounted, GoesBack, Informed
  <2>5. CASE Context(w)' = "stopping" /\ disruptions' = disruptions + 1
    BY <1>1, <1>2, <2>1, <2>2, <2>3, <2>5
    DEF HolderOK, HasCounted, GoesBack, Informed
  <2> QED  BY <2>1, <2>4, <2>5
<1> QED  BY <1>3, <1>4, <1>5, <1>6 DEF RetryOK

\* A new copy has not failed.
LEMMA RetryPublish ==
  ASSUME RetryContext, NEW m \in Messages, RetryOK(m),
         place[m] = "unused", place'[m] = "ready", UNCHANGED <<held, tries>>,
         disruptions <= disruptions'
  PROVE  RetryOK(m)'
<1>1. \A w \in Workers : held[w] # m
  BY DEF RetryContext, WorkersHoldCopies, Published
<1>2. ToErr(m)' = {} /\ tries'[m] = 0
  BY <1>1 DEF ToErr, RetryOK, Published
<1>3. Toll(m)' <= 0
  BY <1>2, FS_EmptySet DEF Toll
<1>4. Counted(m)' \in Nat
  <2>1. BodiesKnown' /\ TypeOK'
    BY NextCopies DEF RetryContext
  <2>2. body'[m].id \in Notifications
    BY <2>1 DEF BodiesKnown, Published, Body
  <2> QED  BY <2>1, <2>2 DEF TypeOK, StoreTypeOK, Row, Counted
<1>5. Toll(m)' \in Nat /\ disruptions' \in Nat /\ MaxRetries \in Nat /\ MaxRetries > 0
  BY MaxRetriesAssumption, TollType DEF RetryContext
<1>6. Toll(m)' <= Counted(m)' + disruptions' /\ Toll(m)' < MaxRetries + disruptions'
  BY <1>3, <1>4, <1>5
<1>7. Toll(m)' <= MaxRetries + disruptions' /\ Published(m)'
  BY <1>3, <1>5 DEF Published
<1> QED  BY <1>1, <1>6, <1>7 DEF RetryOK

\* Hands, connections and processes stay as they are, and a copy at most is published.
LEMMA PublisherStepRetry ==
  ASSUME RetryContext, RetryInv, UNCHANGED <<life, link, pc, held, seen, tries>>,
         \/ place' = place
         \/ \E m \in Messages : place[m] = "unused" /\ place' = [place EXCEPT ![m] = "ready"]
  PROVE  RetryInv'
<1> SUFFICES ASSUME NEW m \in Messages  PROVE RetryOK(m)'
  BY DEF RetryInv
<1>1. RetryOK(m) /\ disruptions <= disruptions'
  BY NextDisruptions, TollType DEF RetryInv, RetryContext
<1>2. CASE place[m] = "unused" /\ place'[m] = "ready"
  BY <1>1, <1>2, RetryPublish
<1>3. CASE place'[m] = place[m]
  <2>1. Toll(m)' = Toll(m)
    BY DEF Toll, ToErr
  <2>2. \A w \in Workers : LinkOpen(w)' = LinkOpen(w) /\ Context(w)' = Context(w)
    BY DEF LinkOpen, Context
  <2> QED  BY <1>1, <1>3, <2>1, <2>2, RetryPassive, TollType DEF RetryContext, Published
<1> QED  BY <1>2, <1>3 DEF RetryContext, TypeOK, BrokerTypeOK

LEMMA TollShrinks ==
  ASSUME TypeOK, TypeOK', NEW m \in Messages, tries'[m] = tries[m],
         ToErr(m)' \subseteq ToErr(m)
  PROVE  Toll(m)' <= Toll(m)
<1>1. Cardinality(ToErr(m)') <= Cardinality(ToErr(m))
  BY TollType, NoMoreThan
<1> QED  BY <1>1, TollType DEF Toll

LEMMA LifecycleStepRetry ==
  ASSUME RetryContext, RetryInv, NEW i \in Instances, LifecycleStep(i)
  PROVE  RetryInv'
<1> SUFFICES ASSUME NEW m \in Messages  PROVE RetryOK(m)'
  BY DEF RetryInv
<1> USE InstanceOfAssumption, NoMessageAssumption
<1>1. /\ RetryOK(m) /\ disruptions <= disruptions'
      /\ tries'[m] = tries[m]
      /\ Published(m) => Published(m)'
  BY NextDisruptions, TollType, NextCopies
  DEF RetryInv, RetryContext, LifecycleStep, providerVars
<1>2. CASE Stop(i) \/ Restart(i) \/ LoseChannel(i)
  <2>1. /\ UNCHANGED <<place, pc, held, seen>>
        /\ \/ UNCHANGED <<life, link>>
           \/ /\ UNCHANGED link /\ life' = [life EXCEPT ![i] = "stopping"]
              /\ disruptions' = disruptions + 1
           \/ life[i] = "down"
    BY <1>2 DEF Stop, Restart, LoseChannel, Disrupt, brokerVars, workerVars
  <2>2. Toll(m)' <= Toll(m)
    BY <1>1, <2>1, TollShrinks DEF ToErr, RetryContext
  <2>3. ASSUME NEW w \in Workers, held'[w] = m, LinkOpen(w)'
        PROVE  /\ held[w] = m /\ LinkOpen(w) /\ pc'[w] = pc[w] /\ seen'[w] = seen[w]
               /\ \/ Context(w)' = Context(w)
                  \/ Context(w)' = "stopping" /\ disruptions' = disruptions + 1
    <3>1. life[InstanceOf[w]] # "down"
      BY <2>1, <2>3 DEF RetryContext, HoldersInv, DownHoldsNothing, Context
    <3>2. life \in [Instances -> {"running", "stopping", "down"}]
          /\ link \in [Instances -> {"open", "closed"}]
      BY DEF RetryContext, TypeOK, ProcessTypeOK
    <3> QED
      BY <1>2, <2>1, <2>3, <3>1, <3>2
      DEF LinkOpen, Context, Stop, Restart, LoseChannel
  <2> QED  BY <1>1, <2>1, <2>2, <2>3, RetryPassive
<1>3. CASE LoseLink(i) \/ Crash(i)
  <2>1. /\ disruptions' = disruptions + 1
        /\ Redeliver(HeldBy(i))
        /\ \A w \in Workers : \/ pc'[w] = pc[w] /\ held'[w] = held[w] /\ seen'[w] = seen[w]
                              \/ InstanceOf[w] = i /\ held'[w] = NoMessage
        /\ \A w \in Workers : held'[w] # NoMessage /\ LinkOpen(w)' =>
             LinkOpen(w) /\ Context(w)' = Context(w)
    BY <1>3 DEF LoseLink, Crash, ProcessEnds, WorkersReset, Disrupt, workerVars, LinkOpen,
       Context, RetryContext, TypeOK, ProcessTypeOK
  <2>2. Toll(m)' <= Toll(m)
    BY <1>1, <2>1, TollShrinks DEF ToErr, RetryContext
  <2>3. place'[m] = "ready" =>
          place[m] = "ready" \/ \E w \in Workers : held[w] = m /\ LinkOpen(w)
    BY <2>1 DEF Redeliver, HeldBy
  <2> QED  BY <1>1, <2>1, <2>2, <2>3, RetryPassive
<1>4. CASE Exit(i)
  <2>1. HeldBy(i) = {}
    BY <1>4 DEF Exit, HeldBy, RetryContext, WorkersHoldCopies
  <2>2. /\ place'[m] = place[m]
        /\ \A w \in Workers : \/ pc'[w] = pc[w] /\ held'[w] = held[w] /\ seen'[w] = seen[w]
                              \/ InstanceOf[w] = i /\ held'[w] = NoMessage
        /\ \A w \in Workers : held'[w] # NoMessage =>
             LinkOpen(w)' = LinkOpen(w) /\ Context(w)' = Context(w)
    BY <1>4, <2>1 DEF Exit, ProcessEnds, WorkersReset, Redeliver, LinkOpen, Context,
       RetryContext, TypeOK, ProcessTypeOK
  <2>3. Toll(m)' <= Toll(m)
    BY <1>1, <2>2, TollShrinks DEF ToErr, RetryContext
  <2> QED  BY <1>1, <2>2, <2>3, RetryPassive
<1> QED  BY <1>2, <1>3, <1>4 DEF LifecycleStep

LEMMA BrokerRestartsRetry ==
  ASSUME RetryContext, RetryInv, BrokerRestarts
  PROVE  RetryInv'
<1> SUFFICES ASSUME NEW m \in Messages  PROVE RetryOK(m)'
  BY DEF RetryInv
<1>1. /\ RetryOK(m) /\ disruptions' = disruptions + 1 /\ disruptions <= disruptions'
      /\ UNCHANGED <<life, pc, held, seen, tries>>
      /\ Published(m) => Published(m)'
  BY NextCopies, TollType
  DEF RetryInv, RetryContext, BrokerRestarts, Disrupt, workerVars, providerVars
<1>2. \A w \in Workers : ~LinkOpen(w)'
  BY InstanceOfAssumption DEF BrokerRestarts, LinkOpen
<1>3. place'[m] = "ready" =>
        place[m] = "ready" \/ \E w \in Workers : held[w] = m /\ LinkOpen(w)
  BY DEF BrokerRestarts, Redeliver, HeldBy
<1>4. Toll(m)' <= Toll(m)
  BY <1>1, TollShrinks DEF ToErr, RetryContext
<1> QED  BY <1>1, <1>2, <1>3, <1>4, RetryPassive

\* One who holds the copy may fail once; taking it adds that failure.
LEMMA TakeRetry ==
  ASSUME RetryContext, NEW w \in Workers, NEW k \in Messages, Take(w, k), UNCHANGED <<life, link>>,
         NEW m \in Messages, RetryOK(m)
  PROVE  RetryOK(m)'
<1>1. /\ place[k] = "ready" /\ place' = [place EXCEPT ![k] = "unacked"]
      /\ held' = [held EXCEPT ![w] = k] /\ pc' = [pc EXCEPT ![w] = "received"]
      /\ \A v \in Workers : v # w => seen'[v] = seen[v]
      /\ UNCHANGED <<tries, disruptions>>
      /\ held[w] = NoMessage
  BY DEF Take, Goto, Deliver, providerVars, RetryContext, WorkersHoldCopies, TypeOK,
     ConsumerTypeOK
<1>2. \A v \in Workers : LinkOpen(v)' = LinkOpen(v) /\ Context(v)' = Context(v)
  BY DEF LinkOpen, Context
<1>3. CASE m # k
  <2>1. ToErr(m)' \subseteq ToErr(m)
    BY <1>1, <1>3 DEF ToErr, RetryContext, TypeOK, ConsumerTypeOK
  <2>2. Toll(m)' <= Toll(m)
    BY <1>1, <2>1, TollShrinks DEF RetryContext
  <2>3. place'[m] = place[m]
    BY <1>1, <1>3 DEF RetryContext, TypeOK, BrokerTypeOK
  <2>4. \A v \in Workers : held'[v] = m => v # w /\ held[v] = m /\ pc'[v] = pc[v]
    BY <1>1, <1>3 DEF RetryContext, TypeOK, ConsumerTypeOK
  <2> QED
    BY <1>1, <1>2, <2>2, <2>3, <2>4, RetryPassive, TollType DEF RetryContext, Published
<1>4. CASE m = k
  <2>1. ToErr(m)' \subseteq ToErr(m) \cup {w}
    BY <1>1 DEF ToErr, RetryContext, TypeOK, ConsumerTypeOK
  <2>2. Toll(m)' <= Toll(m) + 1
    <3>1. Cardinality(ToErr(m)') <= Cardinality(ToErr(m)) + 1
      BY <2>1, TollType, AtMostOneMore DEF RetryContext
    <3> QED  BY <1>1, <3>1, TollType DEF Toll, RetryContext
  <2>3. /\ Counted(m) \in Nat /\ Counted(m)' \in Nat /\ Counted(m) <= Counted(m)'
        /\ Published(m)'
    BY <1>1, <1>4, NextCounted, NextCopies DEF RetryContext, Published
  <2>4. place'[m] = "unacked"
    BY <1>1, <1>4 DEF RetryContext, TypeOK, BrokerTypeOK
  <2>5. \A v \in Workers : held'[v] = m /\ LinkOpen(v)' => v = w
    BY <1>1, <1>2, <1>4, NoMessageAssumption
    DEF RetryContext, HoldersInv, HeldIsUnacked, TypeOK, ConsumerTypeOK
  <2>6. pc'[w] = "received"
    BY <1>1 DEF RetryContext, TypeOK, ConsumerTypeOK
  <2>7. /\ Toll(m) \in Nat /\ Toll(m)' \in Nat /\ disruptions \in Nat /\ MaxRetries \in Nat
    BY TollType DEF RetryContext
  <2>8. Toll(m) <= Counted(m) + disruptions /\ Toll(m) < MaxRetries + disruptions
    BY <1>1, <1>4 DEF RetryOK
  <2>9. Toll(m)' <= Counted(m)' + disruptions' + 1 /\ Toll(m)' <= MaxRetries + disruptions'
    BY <1>1, <2>2, <2>3, <2>7, <2>8
  <2>10. \A v \in Workers : held'[v] = m /\ LinkOpen(v)' =>
           ~HasCounted(v)' /\ ~GoesBack(v)' /\ ~Informed(v)'
    BY <2>5, <2>6 DEF HasCounted, GoesBack, Informed
  <2> QED  BY <2>3, <2>4, <2>9, <2>10 DEF RetryOK, HolderOK
<1> QED  BY <1>3, <1>4

\* Whoever settles a copy has counted what is to be counted.
LEMMA SettlesRetry ==
  ASSUME RetryContext, NEW w \in Workers, Settles(w), UNCHANGED <<life, link>>,
         NEW m \in Messages, RetryOK(m)
  PROVE  RetryOK(m)'
<1>1. /\ held[w] \in Messages /\ Published(held[w])
      /\ held' = [held EXCEPT ![w] = NoMessage]
      /\ pc' = [pc EXCEPT ![w] = "idle"]
      /\ \A v \in Workers : v # w => seen'[v] = seen[v]
      /\ UNCHANGED <<tries, disruptions>>
  BY SettlesLemma DEF Settles, Finish, Goto, providerVars, RetryContext, TypeOK, ConsumerTypeOK
<1>2. \A v \in Workers : LinkOpen(v)' = LinkOpen(v) /\ Context(v)' = Context(v)
  BY DEF LinkOpen, Context
<1>3. \A v \in Workers : held'[v] = m => v # w /\ held[v] = m /\ pc'[v] = pc[v]
  BY <1>1, NoMessageAssumption DEF RetryContext, TypeOK, ConsumerTypeOK
<1>4. ToErr(m)' \subseteq ToErr(m) \ {w}
  BY <1>3 DEF ToErr
<1>5. Toll(m)' <= Toll(m)
  BY <1>1, <1>4, TollShrinks DEF RetryContext
<1>6. Published(m) => Published(m)'
  BY NextCopies DEF RetryContext
<1>7. CASE held[w] # m \/ ~LinkOpen(w)
  <2>1. place'[m] = place[m]
    BY <1>1, <1>7 DEF Settles, Finish, Settle, brokerVars, RetryContext, TypeOK, BrokerTypeOK
  <2> QED
    BY <1>1, <1>2, <1>3, <1>5, <1>6, <2>1, RetryPassive, TollType DEF RetryContext
<1>8. CASE held[w] = m /\ LinkOpen(w)
  <2>1. \A v \in Workers : held'[v] = m => ~LinkOpen(v)'
    BY <1>2, <1>3, <1>8, NoMessageAssumption DEF RetryContext, HoldersInv, HoldersApart
  <2>2. /\ Toll(m) \in Nat /\ Toll(m)' \in Nat /\ disruptions \in Nat /\ MaxRetries \in Nat
        /\ Counted(m) \in Nat /\ Counted(m)' \in Nat /\ Counted(m) <= Counted(m)'
    BY <1>1, <1>8, TollType, NextCounted DEF RetryContext
  <2>3. ASSUME place'[m] = "ready"
        PROVE  /\ Toll(m)' <= Counted(m) + disruptions
               /\ Toll(m)' < MaxRetries + disruptions
    <3>1. pc[w] \in {"limited", "backoff"}
      BY <1>1, <1>8, <2>3 DEF Settles, Finish, Goto, Settle, RetryContext, TypeOK, BrokerTypeOK
    <3>2. CASE pc[w] = "backoff"
      <4>1. GoesBack(w) /\ HasCounted(w)
        BY <3>2 DEF GoesBack, HasCounted
      <4>2. Toll(m) <= Counted(m) + disruptions /\ Toll(m) < MaxRetries + disruptions
        BY <1>8, <4>1 DEF RetryOK, HolderOK
      <4> QED  BY <1>5, <2>2, <4>2
    <3>3. CASE pc[w] = "limited"
      <4>1. w \in ToErr(m)
        BY <1>8, <3>3 DEF ToErr, CouldErr
      <4>2. Toll(m)' + 1 <= Toll(m)
        <5>1. Cardinality(ToErr(m)') + 1 <= Cardinality(ToErr(m))
          BY <1>4, <4>1, TollType, OneLess DEF RetryContext
        <5> QED  BY <1>1, <5>1, TollType DEF Toll, RetryContext
      <4>3. Toll(m) <= Counted(m) + disruptions + 1 /\ Toll(m) <= MaxRetries + disruptions
        BY <1>8 DEF RetryOK, HolderOK
      <4> QED  BY <2>2, <4>2, <4>3
    <3> QED  BY <3>1, <3>2, <3>3
  <2>4. Toll(m) <= MaxRetries + disruptions /\ Published(m)'
    BY <1>1, <1>6, <1>8 DEF RetryOK
  <2>5. place'[m] = "ready" => Toll(m)' <= Counted(m)' + disruptions' /\
                               Toll(m)' < MaxRetries + disruptions'
    BY <1>1, <2>2, <2>3
  <2>6. Toll(m)' <= MaxRetries + disruptions'
    BY <1>1, <1>5, <2>2, <2>4
  <2> QED  BY <2>1, <2>4, <2>5, <2>6 DEF RetryOK
<1> QED  BY <1>7, <1>8

\* What it means for the toll of a copy that a worker goes on to q.
LEMMA TollMoves ==
  ASSUME TypeOK, TypeOK', NEW w \in Workers, NEW q, pc' = [pc EXCEPT ![w] = q],
         UNCHANGED held, NEW m \in Messages
  PROVE  /\ tries'[m] = tries[m] /\ (q \in CouldErr => pc[w] \in CouldErr) =>
              Toll(m)' <= Toll(m)
         /\ held[w] = m /\ pc[w] \in CouldErr /\ q \notin CouldErr =>
              /\ tries'[m] = tries[m] => Toll(m)' < Toll(m)
              /\ tries'[m] = tries[m] + 1 => Toll(m)' <= Toll(m)
<1>1. ASSUME tries'[m] = tries[m], q \in CouldErr => pc[w] \in CouldErr
      PROVE  Toll(m)' <= Toll(m)
  <2>1. ToErr(m)' \subseteq ToErr(m)
    BY <1>1 DEF ToErr, TypeOK, ConsumerTypeOK
  <2> QED  BY <1>1, <2>1, TollShrinks
<1>2. ASSUME held[w] = m, pc[w] \in CouldErr, q \notin CouldErr
      PROVE  /\ tries'[m] = tries[m] => Toll(m)' < Toll(m)
             /\ tries'[m] = tries[m] + 1 => Toll(m)' <= Toll(m)
  <2>1. w \in ToErr(m) /\ ToErr(m)' \subseteq ToErr(m) \ {w}
    BY <1>2 DEF ToErr, TypeOK, ConsumerTypeOK
  <2>2. Cardinality(ToErr(m)') + 1 <= Cardinality(ToErr(m))
    BY <2>1, TollType, OneLess
  <2> QED  BY <2>2, TollType DEF Toll
<1> QED  BY <1>1, <1>2

\* A worker that keeps what it holds: only the copy it holds is concerned.
LEMMA HoldingRetry ==
  ASSUME RetryContext, NEW w \in Workers, NEW q, pc' = [pc EXCEPT ![w] = q],
         UNCHANGED <<life, link, held, place>>,
         \A v \in Workers : v # w => seen'[v] = seen[v],
         disruptions <= disruptions',
         NEW m \in Messages, RetryOK(m),
         held[w] # m => tries'[m] = tries[m],
         Toll(m)' <= Toll(m),
         held[w] = m /\ LinkOpen(w) => HolderOK(w, m)'
  PROVE  RetryOK(m)'
<1>1. /\ \A v \in Workers : LinkOpen(v)' = LinkOpen(v) /\ Context(v)' = Context(v)
      /\ \A v \in Workers : v # w => pc'[v] = pc[v]
      /\ held[w] = m => Published(m)
      /\ Published(m)' = Published(m)
  BY DEF LinkOpen, Context, RetryContext, WorkersHoldCopies, TypeOK, ConsumerTypeOK, Published
<1>2. CASE held[w] # m \/ ~LinkOpen(w)
  BY <1>1, <1>2, RetryPassive
<1>3. CASE held[w] = m /\ LinkOpen(w)
  <2>1. place[m] = "unacked"
    BY <1>3, NoMessageAssumption DEF RetryContext, HoldersInv, HeldIsUnacked
  <2>2. \A v \in Workers : held'[v] = m /\ LinkOpen(v)' => v = w
    BY <1>1, <1>3, NoMessageAssumption DEF RetryContext, HoldersInv, HoldersApart
  <2>3. Toll(m)' <= MaxRetries + disruptions'
    <3>1. Toll(m) <= MaxRetries + disruptions
      BY DEF RetryOK
    <3>2. /\ Toll(m) \in Nat /\ Toll(m)' \in Nat /\ MaxRetries \in Nat
          /\ disruptions \in Nat /\ disruptions' \in Nat
      BY TollType DEF RetryContext
    <3> QED  BY <3>1, <3>2
  <2> QED  BY <1>1, <1>3, <2>1, <2>2, <2>3 DEF RetryOK
<1> QED  BY <1>2, <1>3

\* A step of processMessage that settles nothing.
LEMMA ProcessRetry ==
  ASSUME RetryContext, NEW w \in Workers, WorkerStep(w), held' = held,
         NEW m \in Messages, RetryOK(m)
  PROVE  RetryOK(m)'
<1>1. /\ UNCHANGED <<life, link, held>>
      /\ disruptions' \in {disruptions, disruptions + 1} /\ disruptions <= disruptions'
      /\ TypeOK /\ TypeOK'
  BY WorkerStepKinds, NextDisruptions, TollType DEF RetryContext
<1>2. /\ \A v \in Workers : LinkOpen(v)' = LinkOpen(v) /\ Context(v)' = Context(v)
      /\ Toll(m) \in Nat /\ Toll(m)' \in Nat /\ MaxRetries \in Nat
      /\ disruptions \in Nat /\ disruptions' \in Nat
  BY <1>1, TollType DEF LinkOpen, Context
<1>3. /\ Toll(m) <= MaxRetries + disruptions
      /\ held[w] = m /\ LinkOpen(w) =>
           /\ Toll(m) <= Counted(m) + disruptions + 1
           /\ HasCounted(w) => Toll(m) <= Counted(m) + disruptions
           /\ GoesBack(w) => Toll(m) < MaxRetries + disruptions
           /\ Informed(w) => \/ Toll(m) <= seen[w] + disruptions + 1
                             \/ Toll(m) < MaxRetries + disruptions
  BY DEF RetryOK, HolderOK
<1>4. held[w] = m => Counted(m) \in Nat /\ Counted(m)' \in Nat /\ Counted(m) <= Counted(m)'
  BY NextCounted DEF RetryContext, WorkersHoldCopies
<1>5. seen[w] \in Nat /\ seen'[w] \in Nat
  BY <1>1 DEF TypeOK, ConsumerTypeOK
<1>6. CASE ReadFresh(w)
  <2>1. /\ pc[w] = "received" /\ pc' = [pc EXCEPT ![w] = "loaded"] /\ pc'[w] = "loaded"
        /\ UNCHANGED <<rows, place, body, tries>>
        /\ \A v \in Workers : v # w => seen'[v] = seen[v]
        /\ Context(w) = "running" => \/ seen'[w] = rows[body[held[w]].id].retry_count
                                     \/ disruptions' = disruptions + 1
    BY <1>1, <1>6 DEF ReadFresh, Goto, Disrupt, brokerVars, providerVars, TypeOK, ConsumerTypeOK
  <2>2. Toll(m)' <= Toll(m)
    BY <1>1, <2>1, TollMoves DEF CouldErr
  <2>3. Counted(m)' = Counted(m) /\ (held[w] = m => Counted(m) = rows[body[held[w]].id].retry_count)
    BY <2>1 DEF Counted
  <2>4. /\ ~HasCounted(w)' /\ ~GoesBack(w)'
        /\ Informed(w)' => Context(w) = "running"
    BY <1>2, <2>1 DEF HasCounted, GoesBack, Informed
  <2>5. held[w] = m /\ LinkOpen(w) => HolderOK(w, m)'
    BY <1>1, <1>2, <1>3, <1>4, <1>5, <2>1, <2>2, <2>3, <2>4 DEF HolderOK
  <2> QED  BY <1>1, <2>1, <2>2, <2>5, HoldingRetry
<1>7. ASSUME pc[w] \in CouldErr \ {"received"},
             NEW q \in CouldErr \ {"received"}, pc' = [pc EXCEPT ![w] = q],
             UNCHANGED <<place, seen, tries>>
      PROVE  RetryOK(m)'
  <2>1. Toll(m)' <= Toll(m)
    BY <1>1, <1>7, TollMoves
  <2>2. pc'[w] = q
    BY <1>7 DEF TypeOK, ConsumerTypeOK, RetryContext
  <2>3. /\ ~HasCounted(w)' /\ ~GoesBack(w)'
        /\ Informed(w)' => Informed(w)
    BY <1>2, <1>7, <2>2 DEF HasCounted, GoesBack, Informed, CouldErr
  <2>4. held[w] = m /\ LinkOpen(w) => HolderOK(w, m)'
    BY <1>1, <1>2, <1>3, <1>4, <1>5, <1>7, <2>1, <2>3 DEF HolderOK
  <2> QED  BY <1>1, <1>7, <2>1, <2>4, HoldingRetry
<1>8. CASE \/ MarkSending(w) \/ RateLimitPass(w) \/ RateLimitDenied(w) \/ WindowOpens(w)
           \/ StartSend(w)
  BY <1>7, <1>8
  DEF MarkSending, RateLimitPass, RateLimitDenied, WindowOpens, StartSend, Goto, WorkerWrites,
      CouldErr, brokerVars, providerVars
<1>9. ASSUME held[w] \in Messages, pc[w] = "inflight" \/ pc[w] = "sending",
             NEW q \in {"delivered", "failing"}, pc' = [pc EXCEPT ![w] = q],
             UNCHANGED <<rows, place, body, seen>>,
             \/ /\ UNCHANGED tries
                /\ q = "delivered" \/ Context(w) = "stopping"
             \/ /\ tries' = [tries EXCEPT ![held[w]] = @ + 1]
                /\ Context(w) = "running" /\ q = "failing"
      PROVE  RetryOK(m)'
  <2>1. /\ pc'[w] = q /\ pc[w] \in CouldErr \ {"received"} /\ q \notin CouldErr
        /\ tries \in [Messages -> Nat]
    BY <1>9 DEF TypeOK, ConsumerTypeOK, ProviderTypeOK, RetryContext, CouldErr
  <2>2. held[w] # m => tries'[m] = tries[m]
    BY <1>9, <2>1
  <2>3. Toll(m)' <= Toll(m)
    BY <1>1, <1>2, <1>9, <2>1, TollMoves
  <2>4. Counted(m)' = Counted(m)
    BY <1>9 DEF Counted
  <2>5. CASE UNCHANGED tries /\ (q = "delivered" \/ Context(w) = "stopping")
    <3>1. held[w] = m => Toll(m)' < Toll(m)
      BY <1>1, <1>9, <2>1, <2>5, TollMoves
    <3>2. ~Informed(w)'
      BY <1>2, <2>1, <2>5 DEF Informed, CouldErr
    <3>3. held[w] = m /\ LinkOpen(w) => HolderOK(w, m)'
      BY <1>1, <1>2, <1>3, <1>4, <2>4, <3>1, <3>2 DEF HolderOK
    <3> QED  BY <1>1, <1>9, <2>2, <2>3, <3>3, HoldingRetry
  <2>6. CASE Context(w) = "running" /\ q = "failing"
    <3>1. ~HasCounted(w)' /\ ~GoesBack(w)' /\ Informed(w)
      BY <1>2, <2>1, <2>6 DEF HasCounted, GoesBack, Informed
    <3>2. held[w] = m /\ LinkOpen(w) => HolderOK(w, m)'
      BY <1>1, <1>2, <1>3, <1>4, <1>5, <1>9, <2>3, <2>4, <3>1 DEF HolderOK
    <3> QED  BY <1>1, <1>9, <2>2, <2>3, <3>2, HoldingRetry
  <2> QED  BY <1>9, <2>5, <2>6
<1>10. CASE \/ SendSucceeds(w) \/ (\E v \in Verdict : SendFails(w, v))
            \/ SendLosesReply(w) \/ SendIsCut(w)
  <2>1. held[w] \in Messages
    BY <1>10, Holding DEF RetryContext, SendSucceeds, SendFails, SendLosesReply, SendIsCut,
       SendErrs, Goto
  <2>2. CASE SendSucceeds(w)
    BY <1>9, <2>1, <2>2 DEF SendSucceeds, Accepts, Goto, brokerVars
  <2>3. CASE SendIsCut(w)
    BY <1>9, <2>1, <2>3 DEF SendIsCut, SendErrs, IsCut, Goto, brokerVars
  <2>4. CASE (\E v \in Verdict : SendFails(w, v)) \/ SendLosesReply(w)
    BY <1>9, <2>1, <2>4 DEF SendFails, SendLosesReply, SendErrs, Fails, LosesReply, Errs, Goto,
       brokerVars
  <2> QED  BY <1>10, <2>2, <2>3, <2>4
<1>11. CASE CountFailure(w)
  <2>1. PICK q \in {"exhausted", "retrying"} :
          /\ pc' = [pc EXCEPT ![w] = q] /\ pc[w] = "failing"
          /\ q = "retrying" => CurrentRetry(w) < MaxRetries
    <3>1. CASE GivesUp(w)
      BY <1>11, <3>1 DEF CountFailure, Goto
    <3>2. CASE ~GivesUp(w)
      <4>1. ~(CurrentRetry(w) >= MaxRetries) /\ CurrentRetry(w) \in Nat
        BY <1>5, <3>2 DEF GivesUp, CurrentRetry
      <4> HIDE DEF CurrentRetry
      <4> QED  BY <1>2, <1>11, <3>2, <4>1 DEF CountFailure, Goto
    <3> QED  BY <3>1, <3>2
  <2>2. /\ UNCHANGED <<place, body, seen, tries>>
        /\ \/ Context(w) = "running" /\ IncrementRetry(body[held[w]].id)
           \/ Context(w) = "running" /\ disruptions' = disruptions + 1
           \/ Context(w) = "stopping"
    BY <1>11 DEF CountFailure, WorkerWrites, Write, Context, Disrupt, brokerVars, providerVars
  <2>3. pc'[w] = q
    BY <2>1 DEF TypeOK, ConsumerTypeOK, RetryContext
  <2>4. Toll(m)' <= Toll(m)
    BY <1>1, <2>1, <2>2, TollMoves DEF CouldErr
  <2>5. /\ ~Informed(w)' /\ (GoesBack(w)' => q = "retrying")
        /\ Context(w) = "running" => Informed(w)
        /\ Context(w) = "stopping" => GoesBack(w) /\ HasCounted(w)
    BY <1>2, <2>1, <2>3 DEF Informed, GoesBack, HasCounted, CouldErr
  <2>6. ASSUME held[w] = m, LinkOpen(w)
        PROVE  /\ Toll(m)' <= Counted(m)' + disruptions'
               /\ GoesBack(w)' => Toll(m)' < MaxRetries + disruptions'
    <3>1. IncrementRetry(body[held[w]].id) => Counted(m)' = Counted(m) + 1
      <4>1. body[held[w]].id \in Notifications
        BY <2>1, Holding DEF RetryContext
      <4> QED  BY <2>2, <2>6, <4>1, IncrementRetryLemma DEF Counted, RetryContext, TypeOK
    <3>2. q = "retrying" => seen[w] + 1 < MaxRetries
      BY <2>1 DEF CurrentRetry
    <3> QED
      BY <1>1, <1>2, <1>3, <1>4, <1>5, <2>2, <2>4, <2>5, <2>6, <3>1, <3>2
  <2>7. held[w] = m /\ LinkOpen(w) => HolderOK(w, m)'
    BY <1>2, <1>4, <2>5, <2>6 DEF HolderOK
  <2> QED  BY <1>1, <2>1, <2>2, <2>4, <2>7, HoldingRetry
<1>12. ASSUME NEW q \in {"acking", "rejecting", "backoff"}, pc' = [pc EXCEPT ![w] = q],
              \/ pc[w] = "delivered" /\ q = "acking"
              \/ pc[w] = "exhausted" /\ q = "rejecting"
              \/ pc[w] = "retrying" /\ q = "backoff",
              UNCHANGED <<place, seen, tries>>
       PROVE  RetryOK(m)'
  <2>1. Toll(m)' <= Toll(m)
    BY <1>1, <1>12, TollMoves DEF CouldErr
  <2>2. pc'[w] = q
    BY <1>12 DEF TypeOK, ConsumerTypeOK, RetryContext
  <2>3. /\ ~Informed(w)' /\ HasCounted(w)
        /\ GoesBack(w)' => GoesBack(w)
    BY <1>2, <1>12, <2>2 DEF HasCounted, GoesBack, Informed, CouldErr
  <2>4. held[w] = m /\ LinkOpen(w) => HolderOK(w, m)'
    BY <1>1, <1>2, <1>3, <1>4, <1>12, <2>1, <2>3 DEF HolderOK
  <2> QED  BY <1>1, <1>12, <2>1, <2>4, HoldingRetry
<1>13. CASE MarkSent(w) \/ MarkFailed(w) \/ MarkRetrying(w)
  BY <1>12, <1>13 DEF MarkSent, MarkFailed, MarkRetrying, Goto, WorkerWrites, brokerVars,
     providerVars
<1>14. CASE ExitWorker(w)
  <2>1. /\ held[w] = NoMessage
        /\ pc' = [pc EXCEPT ![w] = "exited"] /\ UNCHANGED <<place, seen, tries>>
    BY <1>14 DEF ExitWorker, Goto, RetryContext, WorkersHoldCopies, brokerVars, providerVars
  <2>2. "exited" \notin CouldErr /\ tries'[m] = tries[m]
    BY <2>1 DEF CouldErr
  <2>3. Toll(m)' <= Toll(m)
    BY <1>1, <2>1, <2>2, TollMoves
  <2> QED  BY <1>1, <2>1, <2>3, NoMessageAssumption, HoldingRetry
<1>15. CASE (\E k \in Messages : Take(w, k)) \/ Settles(w)
  <2>1. held' # held
    BY <1>15, SettlesLemma, NoMessageAssumption
    DEF Take, Goto, RetryContext, WorkersHoldCopies, TypeOK, ConsumerTypeOK
  <2> QED  BY <2>1
<1> QED
  BY <1>6, <1>8, <1>10, <1>11, <1>13, <1>14, <1>15
  DEF WorkerStep, Process, Settles, LimitedInterrupted, AckDelivered, RejectToDLQ, Requeue

LEMMA WorkerStepRetry ==
  ASSUME RetryContext, RetryInv, NEW w \in Workers, WorkerStep(w)
  PROVE  RetryInv'
<1> SUFFICES ASSUME NEW m \in Messages  PROVE RetryOK(m)'
  BY DEF RetryInv
<1>1. RetryOK(m) /\ UNCHANGED <<life, link>>
  BY WorkerStepKinds DEF RetryInv
<1> QED
  BY <1>1, WorkerStepKinds, TakeRetry, SettlesRetry, ProcessRetry

LEMMA NextRetry ==
  ASSUME TypeOK, BodiesKnown, WorkersHoldCopies, HoldersInv, DueInv, RetryInv, [Next]_vars
  PROVE  RetryInv'
<1>0. RetryContext
  BY NextType DEF RetryContext
<1>1. ASSUME ServiceStep  PROVE RetryInv'
  <2>1. UNCHANGED <<life, link, pc, held, seen, tries>>
    BY <1>1 DEF ServiceStep, processVars, workerVars, providerVars
  <2>2. \/ place' = place
        \/ \E m \in Messages : place[m] = "unused" /\ place' = [place EXCEPT ![m] = "ready"]
    BY <1>1, PublisherCopies
  <2> QED  BY <1>0, <2>1, <2>2, PublisherStepRetry
<1>2. ASSUME NEW i \in Instances, SchedulerStep(i)  PROVE RetryInv'
  <2>1. UNCHANGED <<life, link, pc, held, seen, tries>>
    BY <1>2 DEF SchedulerStep, processVars, workerVars, providerVars
  <2>2. \/ place' = place
        \/ \E m \in Messages : place[m] = "unused" /\ place' = [place EXCEPT ![m] = "ready"]
    BY <1>2, PublisherCopies
  <2> QED  BY <1>0, <2>1, <2>2, PublisherStepRetry
<1>3. CASE ClockStep \/ UNCHANGED vars
  BY <1>0, <1>3, PublisherStepRetry
  DEF ClockStep, vars, brokerVars, processVars, workerVars, providerVars
<1> QED
  BY <1>0, <1>1, <1>2, <1>3, WorkerStepRetry, LifecycleStepRetry, BrokerRestartsRetry DEF Next

LEMMA InitRetry ==
  ASSUME Init
  PROVE  RetryInv
<1> SUFFICES ASSUME NEW m \in Messages  PROVE RetryOK(m)
  BY DEF RetryInv
<1>1. /\ place[m] = "unused" /\ tries[m] = 0 /\ disruptions = 0
      /\ \A w \in Workers : held[w] # m
  BY NoMessageAssumption DEF Init, BrokerInit, ConsumerInit, ProviderInit
<1>2. ToErr(m) = {}
  BY <1>1 DEF ToErr
<1>3. Toll(m) = 0
  BY <1>1, <1>2, FS_EmptySet DEF Toll
<1> QED  BY <1>1, <1>3, MaxRetriesAssumption DEF RetryOK, Published

(***************************************************************************)
(* Retrying ends: a copy is tried MaxRetries times in vain and at most     *)
(* once more for every fault, whoever else counts on its row, and whether  *)
(* or not the worker that gives it up could read the count or store it.    *)
(***************************************************************************)
THEOREM RetriesEnd == Spec => []RetriesBounded
<1> DEFINE Inv == TypeOK /\ BodiesKnown /\ WorkersHoldCopies /\ HoldersInv /\ DueInv /\ RetryInv
<1>1. Init => Inv
  BY InitTyped, InitHolders, InitDue, InitRetry
<1>2. Inv /\ [Next]_vars => Inv'
  BY NextType, NextCopies, NextHolds, NextHolders, NextDueInv, NextRetry
<1>3. Inv => RetriesBounded
  <2> SUFFICES ASSUME Inv, NEW m \in Messages  PROVE tries[m] <= MaxRetries + disruptions
    BY DEF RetriesBounded
  <2>1. Toll(m) <= MaxRetries + disruptions
    BY DEF RetryInv, RetryOK
  <2>2. /\ tries[m] \in Nat /\ disruptions \in Nat /\ MaxRetries \in Nat
        /\ Cardinality(ToErr(m)) \in Nat
    <3>1. ToErr(m) \subseteq Workers
      BY DEF ToErr
    <3> QED
      BY <3>1, WorkersAssumption, NoMoreThan, MaxRetriesAssumption
      DEF TypeOK, ProviderTypeOK, FaultsTypeOK
  <2> QED  BY <2>1, <2>2 DEF Toll
<1> QED  BY <1>1, <1>2, <1>3, PTL DEF Spec

=============================================================================
