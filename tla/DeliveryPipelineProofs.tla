----------------------- MODULE DeliveryPipelineProofs -----------------------
(***************************************************************************)
(* Theorems about DeliveryPipeline, for any number of notifications,       *)
(* copies, requests, processes and workers, any MaxRetries and any number  *)
(* of faults.                                                              *)
(***************************************************************************)
EXTENDS DeliveryPipeline, TLAPS

-----------------------------------------------------------------------------
(***************************************************************************)
(* The statements of the store.                                            *)
(***************************************************************************)
\* INSERT: rows that were absent become pending, the others stay.
LEMMA InsertRowsLemma ==
  ASSUME StoreTypeOK, NEW B \in SUBSET Notifications,
         NEW at, \A n \in B : at[n] \in {"none", "future"},
         InsertRows(B, at)
  PROVE  /\ StoreTypeOK'
         /\ \A n \in Notifications : \/ rows'[n] = rows[n]
                                    \/ /\ n \in B /\ ~Exists(n)
                                       /\ rows'[n].status = "pending"
                                       /\ rows'[n].retry_count = 0
                                       /\ rows'[n].provider_message_id = "null"
         /\ \A n \in B : Exists(n)'
  BY DEF StoreTypeOK, InsertRows, NewRow, Row, Status, Exists

\* UPDATE of the status: only that row changes, to that status.
LEMMA UpdateStatusLemma ==
  ASSUME StoreTypeOK, NEW n \in Notifications, NEW s \in Status, UpdateStatus(n, s)
  PROVE  /\ StoreTypeOK'
         /\ rows'[n].status = s
         /\ rows'[n].retry_count = rows[n].retry_count
         /\ rows'[n].scheduled_at = rows[n].scheduled_at
         /\ rows'[n].provider_message_id =
              IF s = "sent" THEN "set" ELSE rows[n].provider_message_id
         /\ \A k \in Notifications : k # n => rows'[k] = rows[k]
<1> DEFINE row == WithStatus(rows[n], s)
<1>1. /\ row \in Row
      /\ row.status = s
      /\ row.retry_count = rows[n].retry_count
      /\ row.scheduled_at = rows[n].scheduled_at
      /\ row.provider_message_id = IF s = "sent" THEN "set" ELSE rows[n].provider_message_id
  BY DEF StoreTypeOK, WithStatus, Row, Status
<1>2. rows' = [rows EXCEPT ![n] = row]
  BY DEF StoreTypeOK, UpdateStatus
<1> HIDE DEF row
<1> QED BY <1>1, <1>2 DEF StoreTypeOK

\* UPDATE of the counter: nothing else changes.
LEMMA IncrementRetryLemma ==
  ASSUME StoreTypeOK, NEW n \in Notifications, IncrementRetry(n)
  PROVE  /\ StoreTypeOK'
         /\ rows'[n].retry_count = rows[n].retry_count + 1
         /\ \A k \in Notifications : k # n => rows'[k] = rows[k]
         /\ \A k \in Notifications :
              /\ rows'[k].status = rows[k].status
              /\ rows'[k].scheduled_at = rows[k].scheduled_at
              /\ rows'[k].provider_message_id = rows[k].provider_message_id
  BY DEF StoreTypeOK, IncrementRetry, Row

\* The guarded UPDATE: only a pending or queued row, and only to cancelled.
LEMMA CancelRowLemma ==
  ASSUME StoreTypeOK, NEW n \in Notifications, CancelRow(n)
  PROVE  /\ StoreTypeOK'
         /\ rows[n].status \in {"pending", "queued"}
         /\ \A k \in Notifications : rows'[k] = rows[k] \/ rows'[k].status = "cancelled"
         /\ \A k \in Notifications :
              /\ rows'[k].retry_count = rows[k].retry_count
              /\ rows'[k].scheduled_at = rows[k].scheduled_at
              /\ rows'[k].provider_message_id = rows[k].provider_message_id
         /\ \A k \in Notifications : k # n => rows'[k] = rows[k]
  BY DEF StoreTypeOK, CancelRow, Row, Status

\* Time changes scheduled_at only, and only to past.
LEMMA ClockPassesLemma ==
  ASSUME StoreTypeOK, NEW n \in Notifications, ClockPasses(n)
  PROVE  /\ StoreTypeOK'
         /\ \A k \in Notifications :
              /\ rows'[k].status = rows[k].status
              /\ rows'[k].retry_count = rows[k].retry_count
              /\ rows'[k].scheduled_at \in {rows[k].scheduled_at, "past"}
              /\ rows'[k].provider_message_id = rows[k].provider_message_id
  BY DEF StoreTypeOK, ClockPasses, Row

\* Create is a batch of one.
LEMMA AcceptLemma ==
  ASSUME NEW r \in Requests, Accept(r)
  PROVE  \E B \in SUBSET Notifications : \E at \in [B -> {"none", "future"}] :
           CreateBatch(r, B, at)
<1>1. ASSUME NEW n \in Notifications, NEW at \in {"none", "future"},
             Create(r, n, [k \in {n} |-> at])
      PROVE  \E B \in SUBSET Notifications : \E t \in [B -> {"none", "future"}] :
               CreateBatch(r, B, t)
  <2> DEFINE B == {n}
             t == [k \in {n} |-> at]
  <2>1. B \in SUBSET Notifications /\ t \in [B -> {"none", "future"}] /\ CreateBatch(r, B, t)
    BY <1>1 DEF Create
  <2> QED  BY <2>1
<1> QED  BY <1>1 DEF Accept

-----------------------------------------------------------------------------
(***************************************************************************)
(* Type correctness, component by component.                               *)
(***************************************************************************)
\* What all the writes of a process have in common.
LEMMA WriteLemma ==
  ASSUME TypeOK, NEW i \in Instances, NEW ACTION statement, Write(i, statement)
  PROVE  /\ disruptions' \in 0 .. MaxDisruptions
         /\ rows' = rows \/ statement
  BY MaxDisruptionsAssumption DEF TypeOK, FaultsTypeOK, Write, Disrupt

LEMMA ServiceStepType ==
  ASSUME TypeOK, ServiceStep
  PROVE  TypeOK'
<1> USE MaxDisruptionsAssumption
<1>1. ASSUME NEW r \in Requests, NEW B \in SUBSET Notifications,
             NEW at, \A n \in B : at[n] \in {"none", "future"}, CreateBatch(r, B, at)
      PROVE  StoreTypeOK' /\ BrokerTypeOK' /\ ServiceTypeOK' /\ FaultsTypeOK'
  <2>1. StoreTypeOK'
    BY <1>1, InsertRowsLemma DEF TypeOK, CreateBatch
  <2> QED
    BY <1>1, <2>1 DEF TypeOK, CreateBatch, BrokerTypeOK, ServiceTypeOK, FaultsTypeOK, brokerVars
<1>2. ASSUME NEW r \in Requests, Accept(r)
      PROVE  StoreTypeOK' /\ BrokerTypeOK' /\ ServiceTypeOK' /\ FaultsTypeOK'
  BY <1>1, <1>2, AcceptLemma
<1>3. ASSUME NEW r \in Requests, Handle(r)
      PROVE  StoreTypeOK' /\ BrokerTypeOK' /\ ServiceTypeOK' /\ FaultsTypeOK'
  <2>1. ASSUME NEW n \in todo[r], SkipScheduled(r, n) \/ PublishDueFails(r, n)
               \/ PublishDueIsLost(r, n)
        PROVE  StoreTypeOK' /\ BrokerTypeOK' /\ ServiceTypeOK' /\ FaultsTypeOK'
    BY <1>3, <2>1 DEF TypeOK, SkipScheduled, PublishDueFails, PublishDueIsLost, Disrupt,
       StoreTypeOK, BrokerTypeOK, ServiceTypeOK, FaultsTypeOK, brokerVars
  <2>2. ASSUME NEW n \in todo[r], NEW m \in Messages, PublishDue(r, n, m)
        PROVE  StoreTypeOK' /\ BrokerTypeOK' /\ ServiceTypeOK' /\ FaultsTypeOK'
    BY <1>3, <2>2 DEF TypeOK, PublishDue, Publish, Body, Place,
       StoreTypeOK, BrokerTypeOK, ServiceTypeOK, FaultsTypeOK
  <2>3. ASSUME MarkQueued(r)
        PROVE  StoreTypeOK' /\ BrokerTypeOK' /\ ServiceTypeOK' /\ FaultsTypeOK'
    <3>1. published[r] \in Notifications
      BY <1>3, <2>3 DEF TypeOK, MarkQueued, ServiceTypeOK
    <3>2. StoreTypeOK'
      BY <2>3, <3>1, UpdateStatusLemma DEF TypeOK, MarkQueued, Status, StoreTypeOK
    <3> QED
      BY <1>3, <2>3, <3>2 DEF TypeOK, MarkQueued, Disrupt, BrokerTypeOK, ServiceTypeOK,
         FaultsTypeOK, brokerVars
  <2> QED  BY <1>3, <2>1, <2>2, <2>3 DEF Handle
<1>4. ASSUME NEW n \in Notifications, Cancel(n)
      PROVE  StoreTypeOK' /\ BrokerTypeOK' /\ ServiceTypeOK' /\ FaultsTypeOK'
  <2>1. StoreTypeOK'
    BY <1>4, CancelRowLemma DEF TypeOK, Cancel
  <2> QED
    BY <1>4, <2>1 DEF TypeOK, Cancel, BrokerTypeOK, ServiceTypeOK, FaultsTypeOK, brokerVars
<1>5. ASSUME ApiCrash \/ ApiLosesChannel
      PROVE  StoreTypeOK' /\ BrokerTypeOK' /\ ServiceTypeOK' /\ FaultsTypeOK'
  BY <1>5 DEF TypeOK, ApiCrash, ApiLosesChannel, Disrupt, StoreTypeOK, BrokerTypeOK,
     ServiceTypeOK, FaultsTypeOK, brokerVars
<1>6. StoreTypeOK' /\ BrokerTypeOK' /\ ServiceTypeOK' /\ FaultsTypeOK'
  BY <1>2, <1>3, <1>4, <1>5 DEF ServiceStep
<1>7. ProcessTypeOK' /\ SchedulerTypeOK' /\ ConsumerTypeOK' /\ ProviderTypeOK'
  BY DEF TypeOK, ServiceStep, ProcessTypeOK, SchedulerTypeOK, ConsumerTypeOK, ProviderTypeOK,
     processVars, schedulerVars, workerVars, providerVars
<1> QED  BY <1>6, <1>7 DEF TypeOK

LEMMA SchedulerStepType ==
  ASSUME TypeOK, NEW i \in Instances, SchedulerStep(i)
  PROVE  TypeOK'
<1> USE MaxDisruptionsAssumption
<1>1. ASSUME Poll(i)
      PROVE  StoreTypeOK' /\ BrokerTypeOK' /\ SchedulerTypeOK' /\ FaultsTypeOK'
  <2>1. ASSUME NEW S \in SUBSET PendingDue PROVE Snapshot(S) \in SUBSET Body
    BY <2>1 DEF TypeOK, StoreTypeOK, Row, PendingDue, Snapshot, Body
  <2> QED
    BY <1>1, <2>1 DEF TypeOK, Poll, StoreTypeOK, BrokerTypeOK, SchedulerTypeOK,
       FaultsTypeOK, brokerVars
<1>2. ASSUME NEW b \in batch[i],
             SchedulerPublishFails(i, b) \/ SchedulerPublishIsLost(i, b)
      PROVE  StoreTypeOK' /\ BrokerTypeOK' /\ SchedulerTypeOK' /\ FaultsTypeOK'
  BY <1>2 DEF TypeOK, SchedulerPublishFails, SchedulerPublishIsLost, Disrupt, Body,
     StoreTypeOK, BrokerTypeOK, SchedulerTypeOK, FaultsTypeOK, brokerVars
<1>3. ASSUME NEW b \in batch[i], NEW m \in Messages, SchedulerPublish(i, b, m)
      PROVE  StoreTypeOK' /\ BrokerTypeOK' /\ SchedulerTypeOK' /\ FaultsTypeOK'
  <2>1. b \in Body /\ b.id \in Notifications
    BY <1>3 DEF TypeOK, SchedulerTypeOK, Body
  <2> QED
    BY <1>3, <2>1 DEF TypeOK, SchedulerPublish, Publish, Place,
       StoreTypeOK, BrokerTypeOK, SchedulerTypeOK, FaultsTypeOK
<1>4. ASSUME SchedulerMarkQueued(i)
      PROVE  StoreTypeOK' /\ BrokerTypeOK' /\ SchedulerTypeOK' /\ FaultsTypeOK'
  <2>1. queued[i] \in Notifications
    BY <1>4 DEF TypeOK, SchedulerMarkQueued, SchedulerTypeOK
  <2>2. /\ disruptions' \in 0 .. MaxDisruptions
        /\ rows' = rows \/ UpdateStatus(queued[i], "queued")
    BY <1>4, WriteLemma DEF SchedulerMarkQueued
  <2>3. StoreTypeOK'
    BY <2>1, <2>2, UpdateStatusLemma DEF TypeOK, StoreTypeOK, Status
  <2> QED
    BY <1>4, <2>2, <2>3 DEF TypeOK, SchedulerMarkQueued, BrokerTypeOK, SchedulerTypeOK,
       FaultsTypeOK, brokerVars
<1>5. StoreTypeOK' /\ BrokerTypeOK' /\ SchedulerTypeOK' /\ FaultsTypeOK'
  BY <1>1, <1>2, <1>3, <1>4 DEF SchedulerStep
<1>6. ServiceTypeOK' /\ ProcessTypeOK' /\ ConsumerTypeOK' /\ ProviderTypeOK'
  BY DEF TypeOK, SchedulerStep, ServiceTypeOK, ProcessTypeOK, ConsumerTypeOK, ProviderTypeOK,
     serviceVars, processVars, workerVars, providerVars
<1> QED  BY <1>5, <1>6 DEF TypeOK

\* A write of a worker changes the status of the row it is about, and no other.
LEMMA WorkerWritesLemma ==
  ASSUME TypeOK, NEW w \in Workers, body[held[w]].id \in Notifications, NEW s \in Status,
         \/ WorkerWrites(w, UpdateStatus(body[held[w]].id, s))
         \/ WorkerWrites(w, IncrementRetry(body[held[w]].id))
  PROVE  /\ StoreTypeOK' /\ FaultsTypeOK'
         /\ \A k \in Notifications :
              rows'[k].status = rows[k].status \/ k = body[held[w]].id
<1> DEFINE n == body[held[w]].id
<1>1. InstanceOf[w] \in Instances
  BY InstanceOfAssumption
<1>2. /\ disruptions' \in 0 .. MaxDisruptions
      /\ rows' = rows \/ UpdateStatus(n, s) \/ IncrementRetry(n)
  BY <1>1, WriteLemma DEF WorkerWrites
<1> QED
  BY <1>2, UpdateStatusLemma, IncrementRetryLemma DEF TypeOK, FaultsTypeOK, StoreTypeOK

\* A worker that is not between two deliveries holds a copy that was published.
LEMMA Holding ==
  ASSUME TypeOK, BodiesKnown, WorkersHoldCopies, NEW w \in Workers,
         pc[w] \notin {"idle", "exited"}
  PROVE  /\ held[w] \in Messages /\ Published(held[w])
         /\ body[held[w]] \in Body
         /\ body[held[w]].id \in Notifications
  BY DEF TypeOK, ConsumerTypeOK, WorkersHoldCopies, BodiesKnown, Body

LEMMA WorkerStepType ==
  ASSUME TypeOK, BodiesKnown, WorkersHoldCopies, NEW w \in Workers, WorkerStep(w)
  PROVE  TypeOK'
<1> DEFINE Types == /\ StoreTypeOK' /\ BrokerTypeOK' /\ ConsumerTypeOK'
                    /\ ProviderTypeOK' /\ FaultsTypeOK'
<1> USE MaxDisruptionsAssumption, NoMessageAssumption DEF PC, Verdict, Goto
<1>1. ASSUME NEW m \in Messages, Take(w, m)  PROVE Types
  <2>1. body[m].retry_count \in Nat
    BY <1>1 DEF TypeOK, BodiesKnown, Published, Body, Take, Deliver
  <2> QED
    BY <1>1, <2>1 DEF TypeOK, Take, Deliver, Place, StoreTypeOK, BrokerTypeOK,
       ConsumerTypeOK, ProviderTypeOK, FaultsTypeOK, providerVars
<1>2. ASSUME \/ ExitWorker(w) \/ RateLimitPass(w) \/ RateLimitDenied(w)
             \/ WindowOpens(w) \/ StartSend(w)
      PROVE  Types
  BY <1>2 DEF TypeOK, ExitWorker, RateLimitPass, RateLimitDenied, WindowOpens, StartSend,
     Disrupt, StoreTypeOK, BrokerTypeOK, ConsumerTypeOK, ProviderTypeOK, FaultsTypeOK,
     brokerVars, providerVars
<1>3. ASSUME ReadFresh(w)  PROVE Types
  <2>1. rows[body[held[w]].id].retry_count \in Nat
    BY <1>3, Holding DEF TypeOK, StoreTypeOK, Row, ReadFresh
  <2> QED
    BY <1>3, <2>1 DEF TypeOK, ReadFresh, Disrupt, StoreTypeOK, BrokerTypeOK, ConsumerTypeOK,
       ProviderTypeOK, FaultsTypeOK, brokerVars, providerVars
<1>4. ASSUME \/ MarkSending(w) \/ MarkSent(w) \/ CountFailure(w)
             \/ MarkFailed(w) \/ MarkRetrying(w)
      PROVE  Types
  <2>1. body[held[w]].id \in Notifications
    BY <1>4, Holding DEF MarkSending, MarkSent, CountFailure, MarkFailed, MarkRetrying
  <2>2. \E s \in Status : \/ WorkerWrites(w, UpdateStatus(body[held[w]].id, s))
                        \/ WorkerWrites(w, IncrementRetry(body[held[w]].id))
    BY <1>4 DEF Status, MarkSending, MarkSent, CountFailure, MarkFailed, MarkRetrying
  <2>3. StoreTypeOK' /\ FaultsTypeOK'
    BY <2>1, <2>2, WorkerWritesLemma
  <2>4. UNCHANGED <<held, brokerVars, providerVars, seen, verdict>>
    BY <1>4 DEF MarkSending, MarkSent, CountFailure, MarkFailed, MarkRetrying, WorkerWrites
  <2>5. \E q \in PC : pc' = [pc EXCEPT ![w] = q]
    BY <1>4 DEF MarkSending, MarkSent, CountFailure, MarkFailed, MarkRetrying
  <2> QED
    BY <2>3, <2>4, <2>5 DEF TypeOK, BrokerTypeOK, ConsumerTypeOK, ProviderTypeOK, brokerVars,
       providerVars
<1>5. ASSUME \/ SendSucceeds(w) \/ (\E v \in Verdict : SendFails(w, v))
             \/ SendLosesReply(w) \/ SendIsCut(w)
      PROVE  Types
  <2>1. held[w] \in Messages /\ body[held[w]].id \in Notifications
    BY <1>5, Holding DEF SendSucceeds, SendFails, SendLosesReply, SendIsCut, SendErrs
  <2>2. UNCHANGED <<rows, held, seen, brokerVars>>
    BY <1>5 DEF SendSucceeds, SendFails, SendLosesReply, SendIsCut, SendErrs
  <2>3. ConsumerTypeOK'
    BY <1>5, <2>2 DEF TypeOK, ConsumerTypeOK, SendSucceeds, SendFails, SendLosesReply,
       SendIsCut, SendErrs
  <2>4. ProviderTypeOK' /\ FaultsTypeOK'
    BY <1>5, <2>1 DEF TypeOK, ProviderTypeOK, FaultsTypeOK, SendSucceeds, SendFails,
       SendLosesReply, SendIsCut, Accepts, Fails, LosesReply, Errs, IsCut, Disrupt
  <2> QED  BY <2>2, <2>3, <2>4 DEF TypeOK, StoreTypeOK, BrokerTypeOK, brokerVars
<1>6. ASSUME NEW from, NEW outcome \in Place, Finish(w, from, outcome)
      PROVE  Types
  BY <1>6 DEF TypeOK, Finish, Settle, StoreTypeOK, BrokerTypeOK, ConsumerTypeOK,
     ProviderTypeOK, FaultsTypeOK, brokerVars, providerVars
<1>7. Types
  BY <1>1, <1>2, <1>3, <1>4, <1>5, <1>6
  DEF WorkerStep, Process, LimitedInterrupted, AckDelivered, RejectToDLQ, Requeue, Place
<1>8. ServiceTypeOK' /\ ProcessTypeOK' /\ SchedulerTypeOK'
  BY DEF TypeOK, WorkerStep, ServiceTypeOK, ProcessTypeOK, SchedulerTypeOK,
     serviceVars, processVars, schedulerVars
<1> QED  BY <1>7, <1>8 DEF TypeOK

LEMMA LifecycleStepType ==
  ASSUME TypeOK, NEW i \in Instances, LifecycleStep(i)
  PROVE  TypeOK'
<1> USE MaxDisruptionsAssumption
<1>1. ASSUME Stop(i) \/ Restart(i) \/ LoseLink(i) \/ LoseChannel(i)  PROVE TypeOK'
  BY <1>1 DEF TypeOK, LifecycleStep, Stop, Restart, LoseLink, LoseChannel, Redeliver, Place,
     Disrupt,
     StoreTypeOK, BrokerTypeOK, ServiceTypeOK, ProcessTypeOK, SchedulerTypeOK,
     ConsumerTypeOK, ProviderTypeOK, FaultsTypeOK,
     brokerVars, serviceVars, schedulerVars, workerVars, providerVars
<1>2. ASSUME Exit(i) \/ Crash(i)  PROVE TypeOK'
  <2>1. ProcessEnds(i) /\ disruptions' \in 0 .. MaxDisruptions
    BY <1>2 DEF Exit, Crash, Disrupt, TypeOK, FaultsTypeOK
  <2>2. ConsumerTypeOK'
    BY <2>1 DEF TypeOK, ProcessEnds, WorkersReset, ConsumerTypeOK, PC, Verdict
  <2> QED
    BY <2>1, <2>2 DEF TypeOK, LifecycleStep, ProcessEnds, Redeliver, SchedulerDies, Place,
       StoreTypeOK, BrokerTypeOK, ServiceTypeOK, ProcessTypeOK, SchedulerTypeOK,
       ProviderTypeOK, FaultsTypeOK, serviceVars, providerVars
<1> QED  BY <1>1, <1>2 DEF LifecycleStep

LEMMA BrokerRestartsType ==
  ASSUME TypeOK, BrokerRestarts
  PROVE  TypeOK'
  BY MaxDisruptionsAssumption
  DEF TypeOK, BrokerRestarts, Redeliver, Disrupt, Place, StoreTypeOK, BrokerTypeOK,
      ServiceTypeOK, ProcessTypeOK, SchedulerTypeOK, ConsumerTypeOK, ProviderTypeOK,
      FaultsTypeOK, schedulerVars, workerVars, providerVars

LEMMA ClockStepType ==
  ASSUME TypeOK, ClockStep
  PROVE  TypeOK'
  BY ClockPassesLemma DEF TypeOK, ClockStep, BrokerTypeOK, ServiceTypeOK, ProcessTypeOK,
     SchedulerTypeOK, ConsumerTypeOK, ProviderTypeOK, FaultsTypeOK,
     brokerVars, serviceVars, processVars, schedulerVars, workerVars, providerVars

\* Every variable keeps its type.
LEMMA NextType ==
  ASSUME TypeOK, BodiesKnown, WorkersHoldCopies, [Next]_vars
  PROVE  TypeOK'
<1>1. CASE Next
  BY <1>1, ServiceStepType, ClockStepType, BrokerRestartsType, SchedulerStepType,
     LifecycleStepType, WorkerStepType DEF Next
<1>2. CASE UNCHANGED vars
  BY <1>2 DEF vars, TypeOK, StoreTypeOK, BrokerTypeOK, ServiceTypeOK, ProcessTypeOK,
     SchedulerTypeOK, ConsumerTypeOK, ProviderTypeOK, FaultsTypeOK
<1> QED  BY <1>1, <1>2

-----------------------------------------------------------------------------
(***************************************************************************)
(* The broker: what was published stays published, with the same body.     *)
(***************************************************************************)
\* A new copy disturbs no other.
LEMMA PublishLemma ==
  ASSUME BrokerTypeOK, BodiesKnown, NEW m \in Messages, NEW b \in Body, Publish(m, b)
  PROVE  /\ BodiesKnown'
         /\ \A k \in Messages : Published(k) => Published(k)' /\ body'[k] = body[k]
         /\ Published(m)' /\ body'[m] = b
  BY DEF BrokerTypeOK, BodiesKnown, Publish, Published

\* All that the API, the scheduler and the clock do to the broker is to publish.
LEMMA PublisherCopies ==
  ASSUME ServiceStep \/ ClockStep \/ \E i \in Instances : SchedulerStep(i)
  PROVE  \/ place' = place
         \/ \E m \in Messages : place[m] = "unused" /\ place' = [place EXCEPT ![m] = "ready"]
<1> DEFINE Quiet == UNCHANGED brokerVars
           Publishes == \E m \in Messages : \E b : Publish(m, b)
<1>1. ASSUME NEW r \in Requests, Accept(r)  PROVE Quiet
  BY <1>1 DEF Accept, Create, CreateBatch
<1>2. ASSUME NEW r \in Requests, Handle(r)  PROVE Quiet \/ Publishes
  <2>1. ASSUME NEW n \in todo[r], NEW m \in Messages, PublishDue(r, n, m)  PROVE Publishes
    BY <2>1 DEF PublishDue
  <2>2. ASSUME NEW n \in todo[r],
               SkipScheduled(r, n) \/ PublishDueFails(r, n) \/ PublishDueIsLost(r, n)
        PROVE  Quiet
    BY <2>2 DEF SkipScheduled, PublishDueFails, PublishDueIsLost
  <2>3. ASSUME MarkQueued(r)  PROVE Quiet
    BY <2>3 DEF MarkQueued
  <2> QED  BY <1>2, <2>1, <2>2, <2>3 DEF Handle
<1>3. ASSUME (\E n \in Notifications : Cancel(n)) \/ ApiCrash \/ ApiLosesChannel \/ ClockStep
      PROVE  Quiet
  BY <1>3 DEF Cancel, ApiCrash, ApiLosesChannel, ClockStep
<1>4. ASSUME NEW i \in Instances, SchedulerStep(i)  PROVE Quiet \/ Publishes
  <2>1. ASSUME NEW b \in batch[i], NEW m \in Messages, SchedulerPublish(i, b, m)
        PROVE  Publishes
    BY <2>1 DEF SchedulerPublish
  <2>2. ASSUME NEW b \in batch[i], SchedulerPublishFails(i, b) \/ SchedulerPublishIsLost(i, b)
        PROVE  Quiet
    BY <2>2 DEF SchedulerPublishFails, SchedulerPublishIsLost
  <2>3. ASSUME Poll(i) \/ SchedulerMarkQueued(i)  PROVE Quiet
    BY <2>3 DEF Poll, SchedulerMarkQueued
  <2> QED  BY <1>4, <2>1, <2>2, <2>3 DEF SchedulerStep
<1> HIDE DEF Quiet, Publishes
<1>5. Quiet \/ Publishes
  BY <1>1, <1>2, <1>3, <1>4 DEF ServiceStep
<1> QED  BY <1>5 DEF Quiet, Publishes, Publish, brokerVars

LEMMA ServiceStepCopies ==
  ASSUME TypeOK, BodiesKnown, ServiceStep
  PROVE  /\ BodiesKnown'
         /\ \A m \in Messages : Published(m) => Published(m)' /\ body'[m] = body[m]
<1>1. CASE UNCHANGED brokerVars
  BY <1>1 DEF BodiesKnown, Published, brokerVars
<1>2. CASE \E r \in Requests : \E n \in todo[r] : \E m \in Messages : PublishDue(r, n, m)
  <2>1. PICK r \in Requests, n \in Notifications, m \in Messages : PublishDue(r, n, m)
    BY <1>2 DEF TypeOK, ServiceTypeOK
  <2>2. [id |-> n, retry_count |-> 0] \in Body
    BY DEF Body
  <2> QED
    BY <2>1, <2>2, PublishLemma DEF PublishDue, TypeOK
<1> QED
  BY <1>1, <1>2 DEF ServiceStep, Accept, Handle, Create, CreateBatch, SkipScheduled,
     PublishDueFails, PublishDueIsLost, MarkQueued, Cancel, ApiCrash, ApiLosesChannel

LEMMA SchedulerStepCopies ==
  ASSUME TypeOK, BodiesKnown, NEW i \in Instances, SchedulerStep(i)
  PROVE  /\ BodiesKnown'
         /\ \A m \in Messages : Published(m) => Published(m)' /\ body'[m] = body[m]
<1>1. CASE UNCHANGED brokerVars
  BY <1>1 DEF BodiesKnown, Published, brokerVars
<1>2. CASE \E b \in batch[i] : \E m \in Messages : SchedulerPublish(i, b, m)
  <2>1. PICK b \in Body, m \in Messages : SchedulerPublish(i, b, m)
    BY <1>2 DEF TypeOK, SchedulerTypeOK
  <2> QED
    BY <2>1, PublishLemma DEF SchedulerPublish, TypeOK
<1> QED
  BY <1>1, <1>2 DEF SchedulerStep, Poll, SchedulerPublishFails, SchedulerPublishIsLost,
     SchedulerMarkQueued

LEMMA LifecycleStepCopies ==
  ASSUME TypeOK, BodiesKnown, WorkersHoldCopies, NEW i \in Instances, LifecycleStep(i)
  PROVE  /\ BodiesKnown'
         /\ \A m \in Messages : Published(m) => Published(m)' /\ body'[m] = body[m]
         /\ \A m \in Messages : place'[m] \in {place[m], "ready"}
<1>1. CASE UNCHANGED brokerVars
  BY <1>1 DEF TypeOK, BrokerTypeOK, BodiesKnown, Published, brokerVars
<1>2. CASE Redeliver(HeldBy(i))
  <2>1. \A m \in HeldBy(i) : m \in Messages /\ Published(m)
    BY DEF HeldBy, TypeOK, ConsumerTypeOK, WorkersHoldCopies
  <2> QED
    BY <1>2, <2>1 DEF TypeOK, BrokerTypeOK, BodiesKnown, Published, Redeliver
<1> QED
  BY <1>1, <1>2 DEF LifecycleStep, Stop, Exit, Crash, Restart, LoseLink, LoseChannel, ProcessEnds

LEMMA BrokerRestartsCopies ==
  ASSUME TypeOK, BodiesKnown, WorkersHoldCopies, BrokerRestarts
  PROVE  /\ BodiesKnown'
         /\ \A m \in Messages : Published(m) => Published(m)' /\ body'[m] = body[m]
         /\ \A m \in Messages : place'[m] \in {place[m], "ready"}
<1>1. \A m \in UNION {HeldBy(i) : i \in Instances} : m \in Messages /\ Published(m)
  BY DEF HeldBy, TypeOK, ConsumerTypeOK, WorkersHoldCopies
<1> QED
  BY <1>1 DEF BrokerRestarts, TypeOK, BrokerTypeOK, BodiesKnown, Published, Redeliver

\* Take and Finish move a published copy; nothing else a worker does touches the queue.
LEMMA WorkerStepCopies ==
  ASSUME TypeOK, BodiesKnown, WorkersHoldCopies, NEW w \in Workers, WorkerStep(w)
  PROVE  /\ BodiesKnown'
         /\ \A m \in Messages : Published(m) => Published(m)' /\ body'[m] = body[m]
<1>1. CASE UNCHANGED brokerVars
  BY <1>1 DEF BodiesKnown, Published, brokerVars
<1>2. ASSUME NEW m \in Messages, Take(w, m)
      PROVE  /\ BodiesKnown'
             /\ \A k \in Messages : Published(k) => Published(k)' /\ body'[k] = body[k]
  BY <1>2 DEF Take, Deliver, TypeOK, BrokerTypeOK, BodiesKnown, Published
<1>3. ASSUME NEW from \in PC \ {"idle", "exited"}, NEW outcome \in {"acked", "dead", "ready"},
             Finish(w, from, outcome)
      PROVE  /\ BodiesKnown'
             /\ \A k \in Messages : Published(k) => Published(k)' /\ body'[k] = body[k]
  <2>1. held[w] \in Messages /\ Published(held[w])
    BY <1>3, Holding DEF Finish, Goto
  <2> QED
    BY <1>1, <1>3, <2>1 DEF Finish, Settle, TypeOK, BrokerTypeOK, BodiesKnown, Published
<1> QED
  BY <1>1, <1>2, <1>3
  DEF WorkerStep, Process, ExitWorker, ReadFresh, MarkSending, RateLimitPass, RateLimitDenied,
      WindowOpens, LimitedInterrupted, StartSend, SendSucceeds, SendFails, SendLosesReply,
      SendIsCut, SendErrs, MarkSent, AckDelivered, CountFailure, MarkFailed, RejectToDLQ,
      MarkRetrying, Requeue, WorkerWrites, PC

\* In any step, copies of a notification only come, never go.
LEMMA NextCopies ==
  ASSUME TypeOK, BodiesKnown, WorkersHoldCopies, [Next]_vars
  PROVE  /\ BodiesKnown'
         /\ \A m \in Messages : Published(m) => Published(m)' /\ body'[m] = body[m]
         /\ \A n \in Notifications : CopiesOf(n) \subseteq CopiesOf(n)'
<1>1. /\ BodiesKnown'
      /\ \A m \in Messages : Published(m) => Published(m)' /\ body'[m] = body[m]
  <2>1. CASE Next
    BY <2>1, ServiceStepCopies, SchedulerStepCopies, LifecycleStepCopies, WorkerStepCopies,
       BrokerRestartsCopies
    DEF Next, ClockStep, BodiesKnown, Published, brokerVars
  <2>2. CASE UNCHANGED vars
    BY <2>2 DEF vars, BodiesKnown, Published
  <2> QED  BY <2>1, <2>2
<1> QED  BY <1>1 DEF CopiesOf

-----------------------------------------------------------------------------
(***************************************************************************)
(* The workers hold what was published.                                    *)
(***************************************************************************)
LEMMA WorkerStepHolds ==
  ASSUME TypeOK, BodiesKnown, WorkersHoldCopies, NEW w \in Workers, WorkerStep(w)
  PROVE  WorkersHoldCopies'
<1>0. \A m \in Messages : Published(m) => Published(m)'
  BY WorkerStepCopies
<1>1. ASSUME NEW m \in Messages, Take(w, m)  PROVE WorkersHoldCopies'
  <2>1. Published(m)
    BY <1>1 DEF Take, Deliver, Published
  <2> QED
    BY <1>0, <1>1, <2>1, NoMessageAssumption
    DEF TypeOK, ConsumerTypeOK, WorkersHoldCopies, Take, Goto
<1>2. ASSUME NEW from, NEW outcome, Finish(w, from, outcome)  PROVE WorkersHoldCopies'
  BY <1>0, <1>2, NoMessageAssumption
  DEF TypeOK, ConsumerTypeOK, WorkersHoldCopies, Finish, Goto
<1>3. ASSUME NEW p, NEW q, pc[w] = p, pc' = [pc EXCEPT ![w] = q], UNCHANGED held,
             p \in {"idle", "exited"} <=> q \in {"idle", "exited"}
      PROVE  WorkersHoldCopies'
  BY <1>0, <1>3 DEF TypeOK, ConsumerTypeOK, WorkersHoldCopies
<1>4. ASSUME ExitWorker(w)  PROVE WorkersHoldCopies'
  BY <1>3, <1>4 DEF ExitWorker, Goto
<1>5. ASSUME \/ ReadFresh(w) \/ MarkSending(w) \/ RateLimitPass(w) \/ RateLimitDenied(w)
             \/ WindowOpens(w) \/ StartSend(w)
      PROVE  WorkersHoldCopies'
  BY <1>3, <1>5 DEF ReadFresh, MarkSending, RateLimitPass, RateLimitDenied, WindowOpens,
     StartSend, WorkerWrites, Goto
<1>6. ASSUME \/ SendSucceeds(w) \/ (\E v \in Verdict : SendFails(w, v))
             \/ SendLosesReply(w) \/ SendIsCut(w)
      PROVE  WorkersHoldCopies'
  BY <1>3, <1>6 DEF SendSucceeds, SendFails, SendLosesReply, SendIsCut, SendErrs, Goto
<1>7. ASSUME \/ MarkSent(w) \/ CountFailure(w) \/ MarkFailed(w) \/ MarkRetrying(w)
      PROVE  WorkersHoldCopies'
  BY <1>3, <1>7 DEF MarkSent, CountFailure, MarkFailed, MarkRetrying, WorkerWrites, Goto
<1> QED
  BY <1>1, <1>2, <1>4, <1>5, <1>6, <1>7
  DEF WorkerStep, Process, LimitedInterrupted, AckDelivered, RejectToDLQ, Requeue

LEMMA LifecycleStepHolds ==
  ASSUME TypeOK, BodiesKnown, WorkersHoldCopies, NEW i \in Instances, LifecycleStep(i)
  PROVE  WorkersHoldCopies'
<1>1. \A m \in Messages : Published(m) => Published(m)'
  BY LifecycleStepCopies
<1>2. CASE UNCHANGED workerVars
  BY <1>1, <1>2 DEF WorkersHoldCopies, workerVars
<1>3. CASE WorkersReset(i)
  BY <1>1, <1>3, NoMessageAssumption DEF WorkersHoldCopies, WorkersReset
<1> QED
  BY <1>2, <1>3 DEF LifecycleStep, Stop, Exit, Crash, Restart, LoseLink, LoseChannel, ProcessEnds

LEMMA NextHolds ==
  ASSUME TypeOK, BodiesKnown, WorkersHoldCopies, [Next]_vars
  PROVE  WorkersHoldCopies'
<1>1. CASE UNCHANGED workerVars
  BY <1>1, NextCopies DEF WorkersHoldCopies, workerVars
<1> QED
  BY <1>1, WorkerStepHolds, LifecycleStepHolds
  DEF Next, ServiceStep, ClockStep, BrokerRestarts, SchedulerStep, vars, workerVars

-----------------------------------------------------------------------------
(***************************************************************************)
(* Backed: publish comes before UpdateStatus.  This is where a publish     *)
(* that is lost without an error would break the argument.                 *)
(***************************************************************************)
\* The status a step gives a row is harmless, or the row has a copy.
RowsBacked ==
  \A n \in Notifications : \/ rows'[n].status = rows[n].status
                         \/ rows'[n].status \in {"pending", "cancelled"}
                         \/ CopiesOf(n)' # {}

\* What a step is about to mark queued was so before, or has a copy.
RequestsBacked ==
  \A r \in Requests, n \in Notifications :
    published'[r] = n => published[r] = n \/ CopiesOf(n)' # {}

SchedulersBacked ==
  \A i \in Instances, n \in Notifications :
    queued'[i] = n => queued[i] = n \/ CopiesOf(n)' # {}

LEMMA BackedLemma ==
  ASSUME TypeOK, BodiesKnown, WorkersHoldCopies, Backed, [Next]_vars,
         RowsBacked, RequestsBacked, SchedulersBacked
  PROVE  Backed'
<1>1. \A n \in Notifications : CopiesOf(n) # {} => CopiesOf(n)' # {}
  BY NextCopies
<1>2. TypeOK'
  BY NextType
<1>3. ASSUME NEW n \in Notifications,
             rows'[n].status \in {"queued", "sending", "sent", "failed"}
      PROVE  CopiesOf(n)' # {}
  BY <1>1, <1>3 DEF Backed, RowsBacked
<1>4. ASSUME NEW r \in Requests, NEW n \in Notifications, published'[r] = n
      PROVE  CopiesOf(n)' # {}
  BY <1>1, <1>4, NoNotificationAssumption DEF Backed, RequestsBacked
<1>5. ASSUME NEW i \in Instances, NEW n \in Notifications, queued'[i] = n
      PROVE  CopiesOf(n)' # {}
  BY <1>1, <1>5, NoNotificationAssumption DEF Backed, SchedulersBacked
<1> QED
  BY <1>2, <1>3, <1>4, <1>5
  DEF Backed, TypeOK, ServiceTypeOK, SchedulerTypeOK, CopiesOf, Published

LEMMA ServiceStepBacked ==
  ASSUME TypeOK, BodiesKnown, WorkersHoldCopies, Backed, "lost" \notin Faults, ServiceStep
  PROVE  Backed'
<1> USE NoNotificationAssumption DEF RequestsBacked
<1>0. SchedulersBacked /\ [Next]_vars
  BY DEF ServiceStep, schedulerVars, Next, SchedulersBacked
<1>1. ASSUME NEW r \in Requests, Accept(r)  PROVE RowsBacked /\ RequestsBacked
  <2>1. PICK B \in SUBSET Notifications :
          \E at \in [B -> {"none", "future"}] : CreateBatch(r, B, at)
    BY <1>1, AcceptLemma
  <2>2. PICK at \in [B -> {"none", "future"}] : CreateBatch(r, B, at)
    BY <2>1
  <2> QED
    BY <2>2, InsertRowsLemma DEF CreateBatch, RowsBacked, TypeOK
<1>2. ASSUME NEW r \in Requests, NEW n \in todo[r], NEW m \in Messages, PublishDue(r, n, m)
      PROVE  RowsBacked /\ RequestsBacked
  <2>1. n \in Notifications /\ [id |-> n, retry_count |-> 0] \in Body
    BY <1>2 DEF TypeOK, ServiceTypeOK, Body
  <2>2. Published(m)' /\ body'[m].id = n
    BY <1>2, <2>1, PublishLemma DEF PublishDue, TypeOK
  <2>3. CopiesOf(n)' # {}
    BY <2>2 DEF CopiesOf
  <2> QED
    BY <1>2, <2>3 DEF PublishDue, RowsBacked, TypeOK, ServiceTypeOK
<1>3. ASSUME NEW r \in Requests, MarkQueued(r)  PROVE RowsBacked /\ RequestsBacked
  <2>1. PICK n \in Notifications : published[r] = n
    BY <1>3 DEF MarkQueued, TypeOK, ServiceTypeOK
  <2>2. CopiesOf(n)' # {}
    BY <1>0, <2>1, NextCopies, NoNotificationAssumption DEF Backed
  <2>3. rows' = rows \/ UpdateStatus(n, "queued")
    BY <1>3, <2>1 DEF MarkQueued
  <2>4. RowsBacked
    BY <2>2, <2>3, UpdateStatusLemma DEF RowsBacked, TypeOK, Status
  <2> QED
    BY <1>3, <2>4 DEF MarkQueued, TypeOK, ServiceTypeOK
<1>4. ASSUME NEW r \in Requests, NEW n \in todo[r],
             SkipScheduled(r, n) \/ PublishDueFails(r, n) \/ PublishDueIsLost(r, n)
      PROVE  RowsBacked /\ RequestsBacked
  BY <1>4 DEF SkipScheduled, PublishDueFails, PublishDueIsLost, Disrupt, RowsBacked
<1>5. ASSUME NEW n \in Notifications, Cancel(n)  PROVE RowsBacked /\ RequestsBacked
  BY <1>5, CancelRowLemma DEF Cancel, RowsBacked, TypeOK
<1>6. ASSUME ApiCrash \/ ApiLosesChannel  PROVE RowsBacked /\ RequestsBacked
  BY <1>6 DEF ApiCrash, ApiLosesChannel, RowsBacked
<1>7. RowsBacked /\ RequestsBacked
  BY <1>1, <1>2, <1>3, <1>4, <1>5, <1>6 DEF ServiceStep, Handle
<1> QED  BY <1>0, <1>7, BackedLemma

LEMMA SchedulerStepBacked ==
  ASSUME TypeOK, BodiesKnown, WorkersHoldCopies, Backed, "lost" \notin Faults,
         NEW i \in Instances, SchedulerStep(i)
  PROVE  Backed'
<1> USE NoNotificationAssumption DEF SchedulersBacked
<1>0. RequestsBacked /\ [Next]_vars
  BY DEF SchedulerStep, serviceVars, Next, RequestsBacked
<1>1. ASSUME NEW b \in batch[i], NEW m \in Messages, SchedulerPublish(i, b, m)
      PROVE  RowsBacked /\ SchedulersBacked
  <2>1. b \in Body
    BY <1>1 DEF TypeOK, SchedulerTypeOK
  <2>2. Published(m)' /\ body'[m].id = b.id
    BY <1>1, <2>1, PublishLemma DEF SchedulerPublish, TypeOK
  <2>3. CopiesOf(b.id)' # {} /\ b.id \in Notifications
    BY <2>1, <2>2 DEF CopiesOf, Body
  <2> QED
    BY <1>1, <2>3 DEF SchedulerPublish, RowsBacked, TypeOK, SchedulerTypeOK
<1>2. ASSUME SchedulerMarkQueued(i)  PROVE RowsBacked /\ SchedulersBacked
  <2>1. PICK n \in Notifications : queued[i] = n
    BY <1>2 DEF SchedulerMarkQueued, TypeOK, SchedulerTypeOK
  <2>2. CopiesOf(n)' # {}
    BY <1>0, <2>1, NextCopies, NoNotificationAssumption DEF Backed
  <2>3. rows' = rows \/ UpdateStatus(n, "queued")
    BY <1>2, <2>1, WriteLemma DEF SchedulerMarkQueued
  <2>4. RowsBacked
    BY <2>2, <2>3, UpdateStatusLemma DEF RowsBacked, TypeOK, Status
  <2> QED
    BY <1>2, <2>4 DEF SchedulerMarkQueued, TypeOK, SchedulerTypeOK
<1>3. ASSUME NEW b \in batch[i], SchedulerPublishFails(i, b) \/ SchedulerPublishIsLost(i, b)
      PROVE  RowsBacked /\ SchedulersBacked
  BY <1>3 DEF SchedulerPublishFails, SchedulerPublishIsLost, Disrupt, RowsBacked
<1>4. ASSUME Poll(i)  PROVE RowsBacked /\ SchedulersBacked
  BY <1>4 DEF Poll, RowsBacked
<1>5. RowsBacked /\ SchedulersBacked
  BY <1>1, <1>2, <1>3, <1>4 DEF SchedulerStep
<1> QED  BY <1>0, <1>5, BackedLemma

LEMMA WorkerStepBacked ==
  ASSUME TypeOK, BodiesKnown, WorkersHoldCopies, Backed, NEW w \in Workers, WorkerStep(w)
  PROVE  Backed'
<1>0. RequestsBacked /\ SchedulersBacked /\ [Next]_vars
  BY DEF WorkerStep, serviceVars, schedulerVars, Next, RequestsBacked, SchedulersBacked
<1>1. CASE UNCHANGED rows
  BY <1>0, <1>1, BackedLemma DEF RowsBacked
<1>2. ASSUME \/ MarkSending(w) \/ MarkSent(w) \/ CountFailure(w)
             \/ MarkFailed(w) \/ MarkRetrying(w)
      PROVE  Backed'
  <2>1. held[w] \in Messages /\ Published(held[w]) /\ body[held[w]].id \in Notifications
    BY <1>2, Holding DEF MarkSending, MarkSent, CountFailure, MarkFailed, MarkRetrying, Goto
  <2>2. PICK n \in Notifications : body[held[w]].id = n
    BY <2>1
  <2>3. CopiesOf(n)' # {}
    <3>1. held[w] \in CopiesOf(n)
      BY <2>1, <2>2 DEF CopiesOf
    <3> QED  BY <1>0, <3>1, NextCopies
  <2>4. \E s \in Status : \/ WorkerWrites(w, UpdateStatus(body[held[w]].id, s))
                        \/ WorkerWrites(w, IncrementRetry(body[held[w]].id))
    BY <1>2 DEF Status, MarkSending, MarkSent, CountFailure, MarkFailed, MarkRetrying
  <2>5. RowsBacked
    BY <2>1, <2>2, <2>3, <2>4, WorkerWritesLemma DEF RowsBacked
  <2> QED  BY <1>0, <2>5, BackedLemma
<1> QED
  BY <1>1, <1>2
  DEF WorkerStep, Process, Take, ExitWorker, ReadFresh, RateLimitPass, RateLimitDenied,
      WindowOpens, LimitedInterrupted, StartSend, SendSucceeds, SendFails, SendLosesReply,
      SendIsCut, SendErrs, AckDelivered, RejectToDLQ, Requeue, Finish

LEMMA NextBacked ==
  ASSUME TypeOK, BodiesKnown, WorkersHoldCopies, Backed, "lost" \notin Faults, [Next]_vars
  PROVE  Backed'
<1>1. ASSUME ClockStep  PROVE Backed'
  <2>1. RowsBacked
    BY <1>1, ClockPassesLemma DEF ClockStep, RowsBacked, TypeOK
  <2> QED
    BY <1>1, <2>1, BackedLemma
    DEF ClockStep, serviceVars, schedulerVars, Next, RequestsBacked, SchedulersBacked
<1>2. ASSUME NEW i \in Instances, LifecycleStep(i)  PROVE Backed'
  <2>1. UNCHANGED <<rows, published>>
    BY <1>2 DEF LifecycleStep, Stop, Exit, Crash, Restart, LoseLink, LoseChannel, ProcessEnds,
       serviceVars
  <2>2. SchedulersBacked
    BY <1>2, NoNotificationAssumption
    DEF LifecycleStep, Stop, Exit, Crash, Restart, LoseLink, LoseChannel, ProcessEnds,
        SchedulerDies, schedulerVars, SchedulersBacked, TypeOK, SchedulerTypeOK
  <2> QED
    BY <1>2, <2>1, <2>2, BackedLemma DEF RowsBacked, RequestsBacked, Next
<1>3. CASE BrokerRestarts \/ UNCHANGED vars
  BY <1>3, BackedLemma
  DEF vars, Next, BrokerRestarts, schedulerVars, RowsBacked, RequestsBacked, SchedulersBacked
<1> QED
  BY <1>1, <1>2, <1>3, ServiceStepBacked, SchedulerStepBacked, WorkerStepBacked DEF Next

-----------------------------------------------------------------------------
(***************************************************************************)
(* ReceivedFirst: Send comes before Ack.                                   *)
(***************************************************************************)
LEMMA WorkerStepReceived ==
  ASSUME TypeOK, BodiesKnown, WorkersHoldCopies, ReceivedFirst,
         NEW w \in Workers, WorkerStep(w)
  PROVE  ReceivedFirst'
<1> USE DEF Goto
<1>1. ASSUME NEW m \in Messages, Take(w, m)  PROVE ReceivedFirst'
  BY <1>1 DEF Take, Deliver, providerVars, TypeOK, BrokerTypeOK, ConsumerTypeOK,
     ReceivedFirst, AckedWasReceived
<1>2. ASSUME NEW from \in PC \ {"idle", "exited"}, NEW outcome \in {"acked", "dead", "ready"},
             outcome = "acked" => from = "acking", Finish(w, from, outcome)
      PROVE  ReceivedFirst'
  <2>1. held[w] \in Messages /\ UNCHANGED receipts
    BY <1>2, Holding DEF Finish, providerVars
  <2>2. AckedWasReceived'
    BY <1>2, <2>1 DEF Finish, Settle, TypeOK, BrokerTypeOK, ReceivedFirst, AckedWasReceived,
       brokerVars
  <2>3. \A v \in Workers : pc'[v] \in {"delivered", "acking"} =>
                           v # w /\ pc'[v] = pc[v] /\ held'[v] = held[v]
    BY <1>2 DEF Finish, TypeOK, ConsumerTypeOK
  <2> QED  BY <2>1, <2>2, <2>3 DEF ReceivedFirst
<1>3. ASSUME SendSucceeds(w)  PROVE ReceivedFirst'
  <2>1. held[w] \in Messages
    BY <1>3, Holding DEF SendSucceeds
  <2> QED
    BY <1>3, <2>1 DEF SendSucceeds, Accepts, brokerVars, TypeOK, ProviderTypeOK,
       ConsumerTypeOK, WorkersHoldCopies, ReceivedFirst, AckedWasReceived
<1>4. ASSUME (\E v \in Verdict : SendFails(w, v)) \/ SendLosesReply(w) \/ SendIsCut(w)
      PROVE  ReceivedFirst'
  <2>1. held[w] \in Messages
    BY <1>4, Holding DEF SendFails, SendLosesReply, SendIsCut, SendErrs
  <2>2. \A m \in Messages : receipts[m] > 0 => receipts'[m] > 0
    BY <1>4, <2>1 DEF SendFails, SendLosesReply, SendIsCut, SendErrs, Fails, LosesReply, Errs,
       IsCut, TypeOK, ProviderTypeOK
  <2>3. \A v \in Workers : pc'[v] \in {"delivered", "acking"} => pc'[v] = pc[v]
    BY <1>4 DEF SendFails, SendLosesReply, SendIsCut, SendErrs, TypeOK, ConsumerTypeOK
  <2>4. UNCHANGED <<place, held>>
    BY <1>4 DEF SendFails, SendLosesReply, SendIsCut, SendErrs, brokerVars
  <2>5. \A v \in Workers : pc[v] \in {"delivered", "acking"} => held[v] \in Messages
    BY Holding
  <2> QED
    BY <2>2, <2>3, <2>4, <2>5 DEF ReceivedFirst, AckedWasReceived
<1>5. ASSUME UNCHANGED <<place, held, receipts>>,
             \A v \in Workers : pc'[v] \in {"delivered", "acking"} =>
                                pc[v] \in {"delivered", "acking"}
      PROVE  ReceivedFirst'
  BY <1>5 DEF ReceivedFirst, AckedWasReceived
<1>6. ASSUME \/ ExitWorker(w) \/ ReadFresh(w) \/ MarkSending(w) \/ RateLimitPass(w)
             \/ RateLimitDenied(w) \/ WindowOpens(w) \/ StartSend(w)
      PROVE  ReceivedFirst'
  BY <1>5, <1>6 DEF ExitWorker, ReadFresh, MarkSending, RateLimitPass, RateLimitDenied,
     WindowOpens, StartSend, WorkerWrites, brokerVars, providerVars, TypeOK, ConsumerTypeOK
<1>7. ASSUME MarkSent(w) \/ CountFailure(w) \/ MarkFailed(w) \/ MarkRetrying(w)
      PROVE  ReceivedFirst'
  BY <1>5, <1>7 DEF MarkSent, CountFailure, MarkFailed, MarkRetrying, WorkerWrites,
     brokerVars, providerVars, TypeOK, ConsumerTypeOK
<1> QED
  BY <1>1, <1>2, <1>3, <1>4, <1>6, <1>7
  DEF WorkerStep, Process, LimitedInterrupted, AckDelivered, RejectToDLQ, Requeue, PC

LEMMA LifecycleStepReceived ==
  ASSUME TypeOK, BodiesKnown, WorkersHoldCopies, ReceivedFirst,
         NEW i \in Instances, LifecycleStep(i)
  PROVE  ReceivedFirst'
<1>1. UNCHANGED receipts /\ \A m \in Messages : place'[m] \in {place[m], "ready"}
  BY LifecycleStepCopies DEF LifecycleStep, providerVars
<1>2. \A w \in Workers : pc'[w] = "idle" \/ (pc'[w] = pc[w] /\ held'[w] = held[w])
  BY DEF LifecycleStep, Stop, Exit, Crash, Restart, LoseLink, LoseChannel, ProcessEnds,
     WorkersReset, workerVars
<1> QED  BY <1>1, <1>2 DEF ReceivedFirst, AckedWasReceived

LEMMA NextReceived ==
  ASSUME TypeOK, BodiesKnown, WorkersHoldCopies, ReceivedFirst, [Next]_vars
  PROVE  ReceivedFirst'
<1>1. CASE UNCHANGED <<receipts, pc, held>> /\ \A m \in Messages : place'[m] # "acked"
                                                    \/ place'[m] = place[m]
  BY <1>1 DEF ReceivedFirst, AckedWasReceived
<1>2. ASSUME ServiceStep \/ ClockStep \/ \E i \in Instances : SchedulerStep(i)
      PROVE  ReceivedFirst'
  <2>1. UNCHANGED <<receipts, pc, held>>
    BY <1>2 DEF ServiceStep, ClockStep, SchedulerStep, workerVars, providerVars
  <2>2. \A m \in Messages : place'[m] # "acked" \/ place'[m] = place[m]
    BY <1>2, PublisherCopies DEF TypeOK, BrokerTypeOK
  <2> QED  BY <1>1, <2>1, <2>2
<1>4. CASE UNCHANGED vars
  BY <1>1, <1>4 DEF vars
<1>5. CASE BrokerRestarts
  BY <1>1, <1>5, BrokerRestartsCopies DEF BrokerRestarts, workerVars, providerVars
<1> QED
  BY <1>2, <1>4, <1>5, WorkerStepReceived, LifecycleStepReceived DEF Next

-----------------------------------------------------------------------------
(***************************************************************************)
(* The theorems.                                                           *)
(***************************************************************************)
LEMMA InitTyped ==
  ASSUME Init
  PROVE  TypeOK /\ BodiesKnown /\ WorkersHoldCopies
<1>1. TypeOK
  BY MaxDisruptionsAssumption
  DEF Init, StoreInit, BrokerInit, ServiceInit, ProcessInit, SchedulerInit, ConsumerInit,
      ProviderInit, TypeOK, StoreTypeOK, BrokerTypeOK, ServiceTypeOK, ProcessTypeOK,
      SchedulerTypeOK, ConsumerTypeOK, ProviderTypeOK, FaultsTypeOK,
      Row, NewRow, Status, Place, PC, Verdict
<1>2. BodiesKnown
  BY DEF Init, BrokerInit, BodiesKnown, Published
<1>3. WorkersHoldCopies
  BY NoMessageAssumption DEF Init, ConsumerInit, WorkersHoldCopies
<1> QED  BY <1>1, <1>2, <1>3

(***************************************************************************)
(* No step writes a value of another type: in particular every status      *)
(* written is one the rest of the program knows, and a worker never works  *)
(* on a copy whose body it cannot read.  Holds with every fault.           *)
(***************************************************************************)
THEOREM TypeCorrect == Spec => []TypeOK
<1> DEFINE Inv == TypeOK /\ BodiesKnown /\ WorkersHoldCopies
<1>1. Init => Inv
  BY InitTyped
<1>2. Inv /\ [Next]_vars => Inv'
  BY NextType, NextCopies, NextHolds
<1>3. Inv => TypeOK
  OBVIOUS
<1> QED  BY <1>1, <1>2, <1>3, PTL DEF Spec

(***************************************************************************)
(* Send comes before Ack: what the broker has forgotten, the provider has. *)
(* Holds with every fault, a publish that is lost included.                *)
(***************************************************************************)
THEOREM AcknowledgedIsReceived == Spec => []AckedWasReceived
<1> DEFINE Inv == TypeOK /\ BodiesKnown /\ WorkersHoldCopies /\ ReceivedFirst
<1>1. Init => Inv
  BY InitTyped DEF Init, BrokerInit, ConsumerInit, ReceivedFirst, AckedWasReceived
<1>2. Inv /\ [Next]_vars => Inv'
  BY NextType, NextCopies, NextHolds, NextReceived
<1>3. Inv => AckedWasReceived
  BY DEF ReceivedFirst
<1> QED  BY <1>1, <1>2, <1>3, PTL DEF Spec

(***************************************************************************)
(* NothingLost, for any number of crashes, stops, lost connections and     *)
(* failing calls, provided only that a publish without an error reaches    *)
(* the broker ("lost" is not among the faults): the scheduler may forget a *)
(* row that has left pending, because the queues do not.                   *)
(***************************************************************************)
THEOREM NothingIsLost ==
  ASSUME "lost" \notin Faults
  PROVE  Spec => []NothingLost
<1>1. Init => IInv
  BY InitTyped
  DEF Init, StoreInit, NewRow, BrokerInit, ServiceInit, SchedulerInit, ConsumerInit, IInv,
      Backed, ReceivedFirst, AckedWasReceived
<1>2. IInv /\ [Next]_vars => IInv'
  BY NextType, NextCopies, NextHolds, NextBacked, NextReceived DEF IInv
<1>3. IInv => NothingLost
  <2> SUFFICES ASSUME IInv, NEW n \in Notifications,
                      rows[n].status \in {"queued", "sending", "sent", "failed"}
               PROVE  (\E m \in CopiesOf(n) : Live(m)) \/ Received(n) \/ DeadLettered(n)
    BY DEF NothingLost
  <2>1. PICK m \in Messages : m \in CopiesOf(n) /\ Published(m)
    BY DEF IInv, Backed, CopiesOf
  <2>2. place[m] \in {"ready", "unacked", "acked", "dead"}
    BY <2>1 DEF IInv, TypeOK, BrokerTypeOK, Place, Published
  <2> QED
    BY <2>1, <2>2 DEF IInv, ReceivedFirst, AckedWasReceived, Live, Received, DeadLettered
<1> QED  BY <1>1, <1>2, <1>3, PTL DEF Spec

=============================================================================
