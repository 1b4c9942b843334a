-------------------------- MODULE DeliveryPipeline --------------------------
(***************************************************************************)
(* The whole path of a notification: the API process and any number of     *)
(* worker processes, each with its scheduler and its workers, meeting in   *)
(* the notifications table and in the work queue of one channel.  Channels *)
(* share only the scheduler's poll, so one channel is enough.              *)
(***************************************************************************)
EXTENDS NotificationService, Scheduler, Consumer

vars == <<rows, place, body, todo, published, withdrawn, apiChannel,
          life, link, channel, batch, queued, pc, held, seen, verdict,
          receipts, attempts, tries, refused, cut, disruptions>>

Init ==
  /\ StoreInit /\ BrokerInit /\ ServiceInit /\ ProcessInit
  /\ SchedulerInit /\ ConsumerInit /\ ProviderInit
  /\ disruptions = 0

-----------------------------------------------------------------------------
(***************************************************************************)
(* The life of a worker process.                                           *)
(***************************************************************************)
\* SIGTERM: cancel(), scheduler.Stop(), and Shutdown waits for the workers.
Stop(i) ==
  /\ life[i] = "running"
  /\ Disrupt("stop")
  /\ life' = [life EXCEPT ![i] = "stopping"]
  /\ UNCHANGED <<rows, brokerVars, link, channel, schedulerVars, workerVars>>

\* The process is gone; the broker takes its unacknowledged copies back.
ProcessEnds(i) ==
  /\ life' = [life EXCEPT ![i] = "down"]
  /\ Redeliver(HeldBy(i))
  /\ WorkersReset(i)
  /\ SchedulerDies(i)
  /\ UNCHANGED <<rows, link, channel>>

\* wg.Wait() is over; nothing waits for the scheduler's goroutine.
Exit(i) ==
  /\ life[i] = "stopping"
  /\ \A w \in Workers : InstanceOf[w] = i => pc[w] = "exited"
  /\ ProcessEnds(i)
  /\ UNCHANGED disruptions

Crash(i) ==
  /\ life[i] # "down"
  /\ Disrupt("crash")
  /\ ProcessEnds(i)

Restart(i) ==
  /\ life[i] = "down"
  /\ life' = [life EXCEPT ![i] = "running"]
  /\ link' = [link EXCEPT ![i] = "open"]
  /\ channel' = [channel EXCEPT ![i] = "open"]
  /\ UNCHANGED <<rows, brokerVars, schedulerVars, workerVars, disruptions>>

\* The workers go on with what they hold; the broker gives it to others.
LoseLink(i) ==
  /\ life[i] # "down" /\ link[i] = "open"
  /\ Disrupt("link")
  /\ link' = [link EXCEPT ![i] = "closed"]
  /\ Redeliver(HeldBy(i))
  /\ UNCHANGED <<rows, life, channel, schedulerVars, workerVars>>

\* The scheduler polls on, and every publish of it fails.
LoseChannel(i) ==
  /\ life[i] # "down" /\ channel[i] = "open"
  /\ Disrupt("worker-channel")
  /\ channel' = [channel EXCEPT ![i] = "closed"]
  /\ UNCHANGED <<rows, life, link, brokerVars, schedulerVars, workerVars>>

\* Queues and messages are durable: the broker comes back with every copy.
BrokerRestarts ==
  /\ Disrupt("broker")
  /\ apiChannel' = "closed"
  /\ link' = [i \in Instances |-> "closed"]
  /\ channel' = [i \in Instances |-> "closed"]
  /\ Redeliver(UNION {HeldBy(i) : i \in Instances})
  /\ UNCHANGED <<rows, todo, published, withdrawn, life, schedulerVars, workerVars,
                 providerVars>>

-----------------------------------------------------------------------------
Accept(r) ==
  \/ \E n \in Notifications, at \in {"none", "future"} : Create(r, n, [k \in {n} |-> at])
  \/ \E B \in SUBSET Notifications :
       /\ Cardinality(B) > 1
       /\ \E at \in [B -> {"none", "future"}] : CreateBatch(r, B, at)

\* The loop after the INSERT.
Handle(r) ==
  \/ \E n \in todo[r] : \/ SkipScheduled(r, n)
                         \/ \E m \in Messages : PublishDue(r, n, m)
                         \/ PublishDueFails(r, n)
                         \/ PublishDueIsLost(r, n)
  \/ MarkQueued(r)

ServiceStep ==
  /\ \/ \E r \in Requests : Accept(r) \/ Handle(r)
     \/ \E n \in Notifications : Cancel(n)
     \/ ApiCrash \/ ApiLosesChannel
  /\ UNCHANGED <<processVars, schedulerVars, workerVars, providerVars>>

ClockStep ==
  /\ \E n \in Notifications : ClockPasses(n)
  /\ UNCHANGED <<brokerVars, serviceVars, processVars, schedulerVars, workerVars,
                 providerVars, disruptions>>

SchedulerStep(i) ==
  /\ \/ Poll(i)
     \/ \E b \in batch[i] : \/ \E m \in Messages : SchedulerPublish(i, b, m)
                            \/ SchedulerPublishFails(i, b)
                            \/ SchedulerPublishIsLost(i, b)
     \/ SchedulerMarkQueued(i)
  /\ UNCHANGED <<serviceVars, processVars, workerVars, providerVars>>

WorkerStep(w) ==
  /\ \/ \E m \in Messages : Take(w, m)
     \/ ExitWorker(w)
     \/ Process(w)
  /\ UNCHANGED <<serviceVars, processVars, schedulerVars>>

LifecycleStep(i) ==
  /\ Stop(i) \/ Exit(i) \/ Crash(i) \/ Restart(i) \/ LoseLink(i) \/ LoseChannel(i)
  /\ UNCHANGED <<serviceVars, providerVars>>

Next ==
  \/ ServiceStep
  \/ ClockStep
  \/ BrokerRestarts
  \/ \E i \in Instances : SchedulerStep(i) \/ LifecycleStep(i)
  \/ \E w \in Workers : WorkerStep(w)

Spec == Init /\ [][Next]_vars

(***************************************************************************)
(* A goroutine that can go on does, time passes, messages arrive, and the  *)
(* supervisor starts a process again.  Strong fairness where another case  *)
(* of a select or another outcome of a call can win any number of times:   *)
(* the limiter grants again in every window, and Go's select is fair.      *)
(* No fairness for clients (Accept, Cancel) and none for faults.           *)
(***************************************************************************)
ServiceAlone == UNCHANGED <<processVars, schedulerVars, workerVars, providerVars>>
WorkerAlone == UNCHANGED <<serviceVars, processVars, schedulerVars>>

Fairness ==
  /\ \A r \in Requests : WF_vars(Handle(r) /\ ServiceAlone)
  /\ \A n \in Notifications : WF_vars(ClockPasses(n) /\ ClockStep)
  /\ \A i \in Instances : /\ WF_vars(SchedulerStep(i))
                          /\ WF_vars(Exit(i) /\ UNCHANGED <<serviceVars, providerVars>>)
                          /\ WF_vars(Restart(i) /\ UNCHANGED <<serviceVars, providerVars>>)
  /\ \A w \in Workers : /\ WF_vars(Process(w) /\ WorkerAlone)
                        /\ WF_vars((\E m \in Messages : Take(w, m)) /\ WorkerAlone)
                        /\ SF_vars(RateLimitPass(w) /\ WorkerAlone)
                        /\ SF_vars(ExitWorker(w) /\ WorkerAlone)

FairSpec == Spec /\ Fairness

-----------------------------------------------------------------------------
\* Every variable keeps its type.
TypeOK ==
  /\ StoreTypeOK /\ BrokerTypeOK /\ ServiceTypeOK /\ ProcessTypeOK
  /\ SchedulerTypeOK /\ ConsumerTypeOK /\ ProviderTypeOK /\ FaultsTypeOK

CopiesOf(n) == {m \in Messages : Published(m) /\ body[m].id = n}

Received(n) == \E m \in CopiesOf(n) : receipts[m] > 0
DeadLettered(n) == \E m \in CopiesOf(n) : place[m] = "dead"

(***************************************************************************)
(* The broker keeps what nobody has finished: whatever crashed, failed or  *)
(* was cancelled, a row that has left pending still has a copy on its way, *)
(* unless the provider has it or it sits in the DLQ.  The scheduler never  *)
(* looks at such a row again, so without a copy it would be lost: publish  *)
(* comes before UpdateStatus in Create and pollAndPublish, and Send and    *)
(* the retry's UpdateStatus come before Ack and Nack in processMessage.    *)
(***************************************************************************)
NothingLost ==
  \A n \in Notifications :
    rows[n].status \in {"queued", "sending", "sent", "failed"} =>
      (\E m \in CopiesOf(n) : Live(m)) \/ Received(n) \/ DeadLettered(n)

(***************************************************************************)
(* A copy is acknowledged only after the provider had it, by whatever      *)
(* worker holds it at the time.                                            *)
(***************************************************************************)
AckedWasReceived ==
  \A m \in Messages : place[m] = "acked" => receipts[m] > 0

(***************************************************************************)
(* The broker and the workers agree on who works on what: an               *)
(* unacknowledged copy has exactly one worker of a connected process, and  *)
(* no connected worker holds a copy the broker has given away.             *)
(***************************************************************************)
HeldByOne ==
  \A m \in Messages :
    LET holders == {w \in Workers : held[w] = m /\ LinkOpen(w)} IN
    Cardinality(holders) = (IF place[m] = "unacked" THEN 1 ELSE 0)

(***************************************************************************)
(* A copy reaches the DLQ only for a cause: a permanent answer, or         *)
(* MaxRetries failed Sends of its notification; a shutdown may stand in    *)
(* for the last of them, because the Send it cuts short counts as one.     *)
(***************************************************************************)
DeadLetterJustified ==
  \A n \in Notifications :
    DeadLettered(n) => \/ n \in refused
                       \/ attempts[n] >= MaxRetries
                       \/ n \in cut /\ attempts[n] + 1 >= MaxRetries

(***************************************************************************)
(* What the API tells a client who asks: sent (and a provider message id)  *)
(* means the provider received it, and failed means that a try really      *)
(* failed for good, whichever of several copies wrote the row last.        *)
(***************************************************************************)
StatusTruthful ==
  \A n \in Notifications :
    /\ rows[n].status = "sent" => rows[n].provider_message_id = "set"
    /\ rows[n].provider_message_id = "set" => Received(n)
    /\ rows[n].status = "failed" => \/ n \in refused
                                    \/ attempts[n] >= MaxRetries
                                    \/ n \in cut /\ attempts[n] + 1 >= MaxRetries

(***************************************************************************)
(* The retry counter of a row never runs ahead of the Sends that failed,   *)
(* although several copies may count on it at the same time.               *)
(***************************************************************************)
RetryCountTruthful ==
  \A n \in Notifications : rows[n].retry_count <= attempts[n]

(***************************************************************************)
(* While nothing is disturbed, a row that says sending has a worker that   *)
(* is sending it: the last writer of the row is never one that has gone.   *)
(***************************************************************************)
SendingMeansWorking ==
  disruptions = 0 =>
    \A n \in Notifications :
      rows[n].status = "sending" =>
        \E w \in Workers :
          /\ held[w] \in CopiesOf(n)
          /\ pc[w] \in {"limiting", "limited", "sending", "inflight", "delivered",
                        "failing", "exhausted", "retrying"}

(***************************************************************************)
(* Nothing is published before its scheduled_at, by either of the two      *)
(* publishers.                                                             *)
(***************************************************************************)
NotBeforeDue ==
  \A n \in Notifications : rows[n].scheduled_at = "future" => CopiesOf(n) = {}

(***************************************************************************)
(* One notification is published once by the API and once by each          *)
(* scheduler that read the row before it left pending; each further copy   *)
(* takes a fault.                                                          *)
(***************************************************************************)
DuplicationBounded ==
  \A n \in Notifications :
    Cardinality(CopiesOf(n)) <= 1 + Cardinality(Instances) + disruptions

\* The provider sees a copy again only after a fault: at least once, hardly ever more.
ReceiptsBounded == \A m \in Messages : receipts[m] <= 1 + disruptions

(***************************************************************************)
(* Retrying ends: copies share the counter of the row, and a copy is given *)
(* up after MaxRetries failed Sends, and at most one more for every fault: *)
(* a fault keeps a failure from being counted or a verdict from being      *)
(* carried out, or leaves the copy in the hands of two workers.            *)
(***************************************************************************)
RetriesBounded == \A m \in Messages : tries[m] <= MaxRetries + disruptions

(***************************************************************************)
(* A cancellation that comes before any publisher has picked the           *)
(* notification up is final: no later poll brings it back.                 *)
(***************************************************************************)
PickedUp(n) ==
  \/ CopiesOf(n) # {}
  \/ \E r \in Requests : n \in todo[r]
  \/ \E i \in Instances : \E b \in batch[i] : b.id = n

CancelBeforePickupIsFinal ==
  [][\A n \in Notifications :
       rows[n].status = "cancelled" /\ ~PickedUp(n) =>
         ~PickedUp(n)' /\ rows'[n].status = "cancelled"]_vars

-----------------------------------------------------------------------------
(***************************************************************************)
(* The inductive invariant behind NothingLost and AckedWasReceived.        *)
(***************************************************************************)
\* What was published carries a notification.
BodiesKnown == \A m \in Messages : Published(m) => body[m] \in Body

\* A worker between two deliveries holds nothing, otherwise a published copy.
WorkersHoldCopies ==
  \A w \in Workers :
    /\ pc[w] \in {"idle", "exited"} <=> held[w] = NoMessage
    /\ held[w] \in Messages => Published(held[w])

\* Whoever is about to mark a row queued has published it, and so had whoever did.
Backed ==
  /\ \A n \in Notifications :
       rows[n].status \in {"queued", "sending", "sent", "failed"} => CopiesOf(n) # {}
  /\ \A r \in Requests : published[r] # NoNotification => CopiesOf(published[r]) # {}
  /\ \A i \in Instances : queued[i] # NoNotification => CopiesOf(queued[i]) # {}

\* A worker that is about to acknowledge has had its copy received.
ReceivedFirst ==
  /\ AckedWasReceived
  /\ \A w \in Workers : pc[w] \in {"delivered", "acking"} => receipts[held[w]] > 0

IInv == TypeOK /\ BodiesKnown /\ WorkersHoldCopies /\ Backed /\ ReceivedFirst

-----------------------------------------------------------------------------
(***************************************************************************)
(* The pipeline keeps the promise of DeliveryPromise.                      *)
(***************************************************************************)
Promise == INSTANCE DeliveryPromise WITH
  accepted  <- {n \in Notifications : Exists(n)},
  received  <- {n \in Notifications : Received(n)},
  abandoned <- {n \in Notifications : DeadLettered(n)},
  withdrawn <- withdrawn,
  failures  <- attempts,
  refused   <- refused,
  cut       <- cut

\* Every step of the pipeline is a step the promise allows, or none at all.
ImplementsPromise == Promise!Spec

(***************************************************************************)
(* And what is accepted is settled in the end, as long as the worker       *)
(* process keeps its connections to the broker: the API may lose its       *)
(* channel for good, the scheduler publishes what it no longer can.        *)
(***************************************************************************)
KeepsPromise == Promise!FairSpec

\* No copy stays in the work queue for ever.
EveryCopySettles ==
  \A m \in Messages : Live(m) ~> place[m] \in {"acked", "dead"}

-----------------------------------------------------------------------------
(***************************************************************************)
(* What the documentation says and the code does not do.                   *)
(***************************************************************************)
\* "Cancel lifecycle (... sent -> 404)": not once the provider's id is stored.
SentIsNotCancellable ==
  [][\A n \in Notifications : rows[n].provider_message_id = "set" => ~Cancel(n)]_vars

\* "reliable delivery": what is accepted gets somewhere.
AcceptedIsSettled ==
  \A n \in Notifications :
    Exists(n) ~> Received(n) \/ DeadLettered(n) \/ n \in withdrawn

=============================================================================
