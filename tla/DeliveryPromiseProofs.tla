----------------------- MODULE DeliveryPromiseProofs -----------------------
(***************************************************************************)
(* The pipeline implements DeliveryPromise: a step of the API process, of  *)
(* a worker process or of their surroundings is a step the promise allows, *)
(* or changes nothing the promise speaks of.                               *)
(***************************************************************************)
EXTENDS DeliveryRowsProofs

-----------------------------------------------------------------------------
(***************************************************************************)
(* The refinement mapping.                                                 *)
(***************************************************************************)
AcceptedIds  == {n \in Notifications : Exists(n)}
ReceivedIds  == {n \in Notifications : Received(n)}
AbandonedIds == {n \in Notifications : DeadLettered(n)}

\* What the provider has received was published.
ReceivedPublished == \A m \in Messages : receipts[m] > 0 => Published(m)

PromiseInv ==
  /\ TypeOK /\ BodiesKnown /\ WorkersHoldCopies /\ HoldersInv
  /\ DueInv /\ CountInv /\ CauseInv
  /\ ReceivedPublished

\* What a worker holds was accepted, for it was published.
LEMMA HeldIsAccepted ==
  ASSUME PromiseInv, NEW w \in Workers, pc[w] \notin {"idle", "exited"}
  PROVE  /\ held[w] \in Messages /\ Published(held[w])
         /\ body[held[w]].id \in AcceptedIds
         /\ held[w] \in CopiesOf(body[held[w]].id)
  BY Holding DEF PromiseInv, DueInv, Due, AcceptedIds, CopiesOf

LEMMA NextReceivedPublished ==
  ASSUME PromiseInv, [Next]_vars
  PROVE  ReceivedPublished'
<1> USE DEF PromiseInv
<1>1. \A m \in Messages : Published(m) => Published(m)'
  BY NextCopies
<1>2. CASE UNCHANGED receipts
  BY <1>1, <1>2 DEF ReceivedPublished
<1>3. ASSUME NEW w \in Workers, pc[w] \notin {"idle", "exited"}, NEW c,
             receipts' = [receipts EXCEPT ![held[w]] = @ + c]
      PROVE  ReceivedPublished'
  BY <1>1, <1>3, Holding DEF ReceivedPublished, TypeOK, ProviderTypeOK
<1>4. ASSUME NEW w \in Workers, WorkerStep(w), ~UNCHANGED receipts
      PROVE  /\ pc[w] \notin {"idle", "exited"}
             /\ \E c : receipts' = [receipts EXCEPT ![held[w]] = @ + c]
  BY <1>4 DEF WorkerStep, Process, Take, ExitWorker, ReadFresh, MarkSending, RateLimitPass,
     RateLimitDenied, WindowOpens, LimitedInterrupted, StartSend, SendSucceeds, SendFails,
     SendLosesReply, SendIsCut, SendErrs, MarkSent, AckDelivered, CountFailure, MarkFailed,
     RejectToDLQ, MarkRetrying, Requeue, Finish, Goto, WorkerWrites, Accepts, Fails,
     LosesReply, Errs, IsCut, providerVars
<1> QED
  BY <1>2, <1>3, <1>4
  DEF Next, vars, ServiceStep, ClockStep, BrokerRestarts, SchedulerStep, LifecycleStep,
      providerVars

LEMMA NextPromiseInv ==
  ASSUME PromiseInv, [Next]_vars
  PROVE  PromiseInv'
  BY NextType, NextCopies, NextHolds, NextHolders, NextDueInv, NextCount, NextCause,
     NextReceivedPublished DEF PromiseInv

LEMMA InitPromiseInv ==
  ASSUME Init
  PROVE  PromiseInv
<1>1. ReceivedPublished
  BY DEF Init, ProviderInit, ReceivedPublished
<1> QED
  BY <1>1, InitTyped, InitHolders, InitDue, InitCount, InitCause DEF PromiseInv

-----------------------------------------------------------------------------
(***************************************************************************)
(* What the steps of the pipeline do to the three sets.                    *)
(***************************************************************************)
\* A dead-lettered copy stays where it is: nobody holds it any more.
LEMMA DeadStaysDead ==
  ASSUME PromiseInv, [Next]_vars, NEW m \in Messages, place[m] = "dead"
  PROVE  place'[m] = "dead"
<1> USE DEF PromiseInv, TypeOK, BrokerTypeOK
<1>1. ASSUME NEW w \in Workers, LinkOpen(w)  PROVE held[w] # m
  BY <1>1, NoMessageAssumption DEF HoldersInv, HeldIsUnacked
<1>2. ASSUME NEW w \in Workers, WorkerStep(w)  PROVE place'[m] = "dead"
  <2>1. CASE \E k \in Messages : Take(w, k)
    BY <2>1 DEF Take, Deliver
  <2>2. CASE Settles(w)
    BY <1>1, <2>2, SettlesLemma
  <2> QED  BY <1>2, <2>1, <2>2, WorkerStepKinds
<1>3. ASSUME NEW i \in Instances  PROVE m \notin HeldBy(i)
  BY <1>1 DEF HeldBy
<1>4. ASSUME NEW i \in Instances, LifecycleStep(i)  PROVE place'[m] = "dead"
  BY <1>3, <1>4 DEF LifecycleStep, Stop, Exit, Crash, Restart, LoseLink, LoseChannel,
     ProcessEnds, Redeliver, brokerVars
<1>5. ASSUME BrokerRestarts  PROVE place'[m] = "dead"
  BY <1>3, <1>5 DEF BrokerRestarts, Redeliver
<1>6. ASSUME ServiceStep \/ ClockStep \/ \E i \in Instances : SchedulerStep(i)
      PROVE  place'[m] = "dead"
  BY <1>6, PublisherCopies
<1> QED  BY <1>2, <1>4, <1>5, <1>6 DEF Next, vars

\* Nothing is forgotten.
LEMMA SetsGrow ==
  ASSUME PromiseInv, [Next]_vars
  PROVE  /\ AcceptedIds \subseteq AcceptedIds'
         /\ ReceivedIds \subseteq ReceivedIds'
         /\ AbandonedIds \subseteq AbandonedIds'
<1>1. \A n \in Notifications : CopiesOf(n) \subseteq CopiesOf(n)'
  BY NextCopies DEF PromiseInv
<1>2. \A m \in Messages : receipts[m] > 0 => receipts'[m] > 0
  BY NextHistory DEF PromiseInv
<1>3. \A m \in Messages : place[m] = "dead" => place'[m] = "dead"
  BY DeadStaysDead
<1>4. AcceptedIds \subseteq AcceptedIds'
  BY NextExists DEF PromiseInv, AcceptedIds
<1>5. ReceivedIds \subseteq ReceivedIds'
  BY <1>1, <1>2 DEF ReceivedIds, Received, CopiesOf
<1>6. AbandonedIds \subseteq AbandonedIds'
  BY <1>1, <1>3 DEF AbandonedIds, DeadLettered, CopiesOf
<1> QED  BY <1>4, <1>5, <1>6

\* Without a receipt nothing is received; one more copy does not change that.
LEMMA NothingReceived ==
  ASSUME PromiseInv, [Next]_vars, UNCHANGED receipts
  PROVE  ReceivedIds' = ReceivedIds
<1>1. ASSUME NEW n \in Notifications, Received(n)'  PROVE Received(n)
  <2>1. PICK m \in Messages : Published(m)' /\ body'[m].id = n /\ receipts'[m] > 0
    BY <1>1 DEF Received, CopiesOf
  <2>2. Published(m) /\ body'[m] = body[m]
    BY <2>1, NextCopies DEF PromiseInv, ReceivedPublished
  <2> QED  BY <2>1, <2>2 DEF Received, CopiesOf
<1>2. ReceivedIds' \subseteq ReceivedIds
  BY <1>1 DEF ReceivedIds
<1> QED  BY <1>2, SetsGrow

\* A receipt is one of the notification the worker holds a copy of.
LEMMA HeldReceived ==
  ASSUME PromiseInv, [Next]_vars, NEW w \in Workers, pc[w] \notin {"idle", "exited"},
         UNCHANGED brokerVars, receipts' = [receipts EXCEPT ![held[w]] = @ + 1]
  PROVE  ReceivedIds' = ReceivedIds \cup {body[held[w]].id}
<1>1. PICK n \in Notifications : n = body[held[w]].id
  BY HeldIsAccepted DEF AcceptedIds
<1>2. /\ held[w] \in CopiesOf(n)
      /\ receipts'[held[w]] = receipts[held[w]] + 1 /\ receipts[held[w]] \in Nat
      /\ \A m \in Messages : m # held[w] => receipts'[m] = receipts[m]
      /\ \A k \in Notifications : CopiesOf(k)' = CopiesOf(k)
  BY <1>1, HeldIsAccepted DEF PromiseInv, TypeOK, ProviderTypeOK, CopiesOf, Published,
     brokerVars
<1>3. \A k \in Notifications : Received(k)' => Received(k) \/ k = n
  BY <1>1, <1>2 DEF Received, CopiesOf
<1>4. Received(n)'
  BY <1>2 DEF Received
<1>5. n \in ReceivedIds' /\ ReceivedIds' \subseteq ReceivedIds \cup {n}
  BY <1>3, <1>4 DEF ReceivedIds
<1> QED  BY <1>1, <1>5, SetsGrow

\* Only a rejection abandons.
LEMMA NothingAbandoned ==
  ASSUME PromiseInv, [Next]_vars, \A w \in Workers : ~(WorkerStep(w) /\ RejectToDLQ(w))
  PROVE  AbandonedIds' = AbandonedIds
<1>1. ASSUME NEW n \in Notifications, DeadLettered(n)'  PROVE DeadLettered(n)
  <2>1. PICK m \in Messages : body'[m].id = n /\ place'[m] = "dead"
    BY <1>1 DEF DeadLettered, CopiesOf
  <2>2. place[m] = "dead"
    BY <2>1, NewDead DEF PromiseInv
  <2>3. Published(m) /\ body'[m] = body[m]
    BY <2>2, NextCopies DEF PromiseInv, Published
  <2> QED  BY <2>1, <2>2, <2>3 DEF DeadLettered, CopiesOf
<1>2. AbandonedIds' \subseteq AbandonedIds
  BY <1>1 DEF AbandonedIds
<1> QED  BY <1>2, SetsGrow

-----------------------------------------------------------------------------
(***************************************************************************)
(* Step by step.                                                           *)
(***************************************************************************)
\* A step the provider and the client do not notice: at most new rows.
LEMMA QuietStep ==
  ASSUME PromiseInv, [Next]_vars, UNCHANGED <<withdrawn, providerVars>>,
         \A w \in Workers : ~(WorkerStep(w) /\ RejectToDLQ(w))
  PROVE  Promise!Next
<1>1. /\ AcceptedIds \subseteq AcceptedIds'
      /\ UNCHANGED <<ReceivedIds, AbandonedIds>>
  BY SetsGrow, NothingReceived, NothingAbandoned DEF providerVars
<1> DEFINE B == AcceptedIds' \ AcceptedIds
<1>2. B \in SUBSET Notifications
  BY DEF AcceptedIds
<1>3. Promise!Accept(B)
  BY <1>1 DEF Promise!Accept, AcceptedIds, ReceivedIds, AbandonedIds, providerVars
<1> QED  BY <1>2, <1>3 DEF Promise!Next

LEMMA CancelStep ==
  ASSUME PromiseInv, ServiceStep, NEW n \in Notifications, Cancel(n)
  PROVE  Promise!Withdraw(n)
<1>0. [Next]_vars /\ UNCHANGED providerVars /\ withdrawn' = withdrawn \cup {n}
  BY DEF Next, ServiceStep, Cancel
<1>1. n \in AcceptedIds /\ AcceptedIds' = AcceptedIds
  BY CancelRowLemma DEF PromiseInv, TypeOK, Cancel, AcceptedIds, Exists
<1>2. UNCHANGED <<ReceivedIds, AbandonedIds>>
  <2>1. UNCHANGED <<place, body, receipts>>
    BY <1>0 DEF Cancel, brokerVars, providerVars
  <2> QED
    BY <2>1 DEF ReceivedIds, AbandonedIds, Received, DeadLettered, CopiesOf, Published
<1> QED
  BY <1>0, <1>1, <1>2
  DEF Promise!Withdraw, AcceptedIds, ReceivedIds, AbandonedIds, providerVars

\* The answers of the provider, and the Sends a shutdown cuts short.
LEMMA SendStep ==
  ASSUME PromiseInv, NEW w \in Workers, WorkerStep(w),
         \/ SendSucceeds(w) \/ (\E v \in Verdict : SendFails(w, v))
         \/ SendLosesReply(w) \/ SendIsCut(w)
  PROVE  Promise!Next
<1>0. /\ [Next]_vars /\ UNCHANGED <<rows, brokerVars, withdrawn>>
      /\ pc[w] \notin {"idle", "exited"}
  BY DEF Next, WorkerStep, SendSucceeds, SendFails, SendLosesReply, SendIsCut, SendErrs, Goto,
     serviceVars
<1>1. PICK n \in Notifications : n = body[held[w]].id /\ n \in AcceptedIds
  BY <1>0, HeldIsAccepted DEF AcceptedIds
<1>2. AcceptedIds' = AcceptedIds
  BY <1>0 DEF AcceptedIds, Exists
<1>3. AbandonedIds' = AbandonedIds
  BY <1>0 DEF AbandonedIds, DeadLettered, CopiesOf, Published, brokerVars
<1>4. CASE SendSucceeds(w)
  <2>1. /\ receipts' = [receipts EXCEPT ![held[w]] = @ + 1]
        /\ UNCHANGED <<attempts, refused, cut>>
    BY <1>4 DEF SendSucceeds, Accepts
  <2>2. ReceivedIds' = ReceivedIds \cup {n}
    BY <1>0, <1>1, <2>1, HeldReceived
  <2>3. Promise!Receive(n)
    BY <1>0, <1>1, <1>2, <1>3, <2>1, <2>2
    DEF Promise!Receive, AcceptedIds, ReceivedIds, AbandonedIds
  <2> QED  BY <2>3 DEF Promise!Next
<1>5. CASE \E v \in Verdict : SendFails(w, v)
  <2>1. /\ attempts' = [attempts EXCEPT ![n] = @ + 1]
        /\ refused' \in {refused, refused \cup {n}}
        /\ UNCHANGED <<receipts, cut>>
    BY <1>1, <1>5 DEF SendFails, Fails, Errs
  <2>2. ReceivedIds' = ReceivedIds
    BY <1>0, <2>1, NothingReceived
  <2>3. Promise!Fail(n)
    BY <1>0, <1>1, <1>2, <1>3, <2>1, <2>2
    DEF Promise!Fail, AcceptedIds, ReceivedIds, AbandonedIds
  <2> QED  BY <2>3 DEF Promise!Next
<1>6. CASE SendLosesReply(w)
  <2>1. /\ receipts' = [receipts EXCEPT ![held[w]] = @ + 1]
        /\ attempts' = [attempts EXCEPT ![n] = @ + 1]
        /\ UNCHANGED <<refused, cut>>
    BY <1>1, <1>6 DEF SendLosesReply, LosesReply, Errs
  <2>2. ReceivedIds' = ReceivedIds \cup {n}
    BY <1>0, <1>1, <2>1, HeldReceived
  <2>3. Promise!Receive(n)
    BY <1>0, <1>1, <1>2, <1>3, <2>1, <2>2
    DEF Promise!Receive, AcceptedIds, ReceivedIds, AbandonedIds
  <2> QED  BY <2>3 DEF Promise!Next
<1>7. CASE SendIsCut(w)
  <2>1. PICK reached \in {0, 1} : receipts' = [receipts EXCEPT ![held[w]] = @ + reached]
    BY <1>7 DEF SendIsCut, IsCut
  <2>2. cut' = cut \cup {n} /\ UNCHANGED <<attempts, refused>>
    BY <1>1, <1>7 DEF SendIsCut, IsCut
  <2>3. ASSUME reached = 0  PROVE ReceivedIds' = ReceivedIds
    <3>1. receipts' = receipts
      BY <2>1, <2>3 DEF PromiseInv, TypeOK, ProviderTypeOK
    <3> QED  BY <1>0, <3>1, NothingReceived
  <2>4. ReceivedIds' \in {ReceivedIds, ReceivedIds \cup {n}}
    BY <1>0, <1>1, <2>1, <2>3, HeldReceived
  <2>5. Promise!CutShort(n)
    BY <1>0, <1>1, <1>2, <1>3, <2>2, <2>4
    DEF Promise!CutShort, AcceptedIds, ReceivedIds, AbandonedIds
  <2> QED  BY <2>5 DEF Promise!Next
<1> QED  BY <1>4, <1>5, <1>6, <1>7

\* A rejection counts only over an open connection; otherwise the broker has put the copy back.
LEMMA RejectStep ==
  ASSUME PromiseInv, NEW w \in Workers, WorkerStep(w), RejectToDLQ(w)
  PROVE  [Promise!Next]_(Promise!vars)
<1>0. /\ [Next]_vars /\ UNCHANGED <<rows, body, providerVars, withdrawn>>
      /\ pc[w] = "rejecting"
  BY DEF Next, WorkerStep, RejectToDLQ, Finish, Settle, Goto, serviceVars, brokerVars
<1>1. PICK n \in Notifications : n = body[held[w]].id /\ n \in AcceptedIds
                                 /\ held[w] \in CopiesOf(n) /\ held[w] \in Messages
  BY <1>0, HeldIsAccepted DEF AcceptedIds
<1>2. AcceptedIds' = AcceptedIds /\ ReceivedIds' = ReceivedIds
  BY <1>0, NothingReceived DEF AcceptedIds, Exists, providerVars
<1>3. CASE LinkOpen(w)
  <2>1. place' = [place EXCEPT ![held[w]] = "dead"]
    BY <1>3 DEF RejectToDLQ, Finish, Settle
  <2>2. /\ place'[held[w]] = "dead"
        /\ \A m \in Messages : m # held[w] => place'[m] = place[m]
    BY <1>1, <2>1 DEF PromiseInv, TypeOK, BrokerTypeOK
  <2>3. \A k \in Notifications : DeadLettered(k)' => DeadLettered(k) \/ k = n
    BY <1>0, <1>1, <2>2 DEF DeadLettered, CopiesOf, Published
  <2>4. held[w] \in CopiesOf(n)'
    BY <1>0, <1>1, <2>2 DEF CopiesOf, Published
  <2>5. DeadLettered(n)'
    BY <2>2, <2>4 DEF DeadLettered
  <2>6. AbandonedIds' = AbandonedIds \cup {n}
    <3>1. n \in AbandonedIds' /\ AbandonedIds' \subseteq AbandonedIds \cup {n}
      BY <2>3, <2>5 DEF AbandonedIds
    <3> QED  BY <1>0, <3>1, SetsGrow
  <2>7. Cause(n)
    BY <1>0, <1>1 DEF PromiseInv, CauseInv, GivenUpForCause
  <2>8. Promise!Abandon(n)
    BY <1>0, <1>1, <1>2, <2>6, <2>7
    DEF Promise!Abandon, Promise!Cause, Cause, AcceptedIds, ReceivedIds, AbandonedIds,
        providerVars
  <2> QED  BY <2>8 DEF Promise!Next
<1>4. CASE ~LinkOpen(w)
  <2>1. place' = place
    BY <1>4 DEF RejectToDLQ, Finish, brokerVars
  <2>2. AbandonedIds' = AbandonedIds
    BY <1>0, <2>1 DEF AbandonedIds, DeadLettered, CopiesOf, Published
  <2> QED
    BY <1>0, <1>2, <2>2
    DEF Promise!vars, AcceptedIds, ReceivedIds, AbandonedIds, providerVars
<1> QED  BY <1>3, <1>4

LEMMA PromiseStep ==
  ASSUME PromiseInv, [Next]_vars
  PROVE  [Promise!Next]_(Promise!vars)
<1>1. CASE \E n \in Notifications : ServiceStep /\ Cancel(n)
  BY <1>1, CancelStep DEF Promise!Next
<1>2. CASE \E w \in Workers :
             /\ WorkerStep(w)
             /\ \/ SendSucceeds(w) \/ (\E v \in Verdict : SendFails(w, v))
                \/ SendLosesReply(w) \/ SendIsCut(w)
  BY <1>2, SendStep
<1>3. CASE \E w \in Workers : WorkerStep(w) /\ RejectToDLQ(w)
  BY <1>3, RejectStep
<1>4. CASE ServiceStep /\ ~\E n \in Notifications : Cancel(n)
  <2>1. UNCHANGED <<withdrawn, providerVars, workerVars>>
    BY <1>4 DEF ServiceStep, Accept, Create, CreateBatch, Handle, SkipScheduled, PublishDue,
       PublishDueFails, PublishDueIsLost, MarkQueued, ApiCrash, ApiLosesChannel
  <2> QED  BY <1>3, <2>1, QuietStep
<1>5. CASE \E w \in Workers :
             /\ WorkerStep(w)
             /\ ~(SendSucceeds(w) \/ (\E v \in Verdict : SendFails(w, v))
                  \/ SendLosesReply(w) \/ SendIsCut(w))
  <2>1. UNCHANGED <<withdrawn, providerVars>>
    BY <1>5 DEF WorkerStep, Process, Take, ExitWorker, ReadFresh, MarkSending, RateLimitPass,
       RateLimitDenied, WindowOpens, LimitedInterrupted, StartSend, MarkSent, AckDelivered,
       CountFailure, MarkFailed, RejectToDLQ, MarkRetrying, Requeue, Finish, WorkerWrites,
       serviceVars
  <2> QED  BY <1>3, <2>1, QuietStep
<1>6. CASE \/ ClockStep \/ BrokerRestarts \/ UNCHANGED vars
           \/ \E i \in Instances : SchedulerStep(i) \/ LifecycleStep(i)
  <2>1. UNCHANGED <<withdrawn, providerVars>>
    BY <1>6 DEF ClockStep, BrokerRestarts, SchedulerStep, LifecycleStep, serviceVars,
       providerVars, vars
  <2> QED  BY <1>3, <2>1, QuietStep
<1> QED  BY <1>1, <1>2, <1>3, <1>4, <1>5, <1>6 DEF Next

(***************************************************************************)
(* The pipeline keeps the promise, as far as safety goes: whatever the API *)
(* and the worker processes do, and whatever is done to them, a client is  *)
(* told of nothing, the provider receives nothing and nothing is abandoned *)
(* that the promise does not allow.                                        *)
(***************************************************************************)
THEOREM PipelineKeepsPromise == Spec => ImplementsPromise
<1>1. Init => PromiseInv
  BY InitPromiseInv
<1>2. PromiseInv /\ [Next]_vars => PromiseInv'
  BY NextPromiseInv
<1>3. Init => Promise!Init
  BY DEF Init, StoreInit, NewRow, BrokerInit, ServiceInit, ProviderInit, Exists, Received,
     DeadLettered, CopiesOf, Published, Promise!Init
<1>4. PromiseInv /\ [Next]_vars => [Promise!Next]_(Promise!vars)
  BY PromiseStep
<1> QED  BY <1>1, <1>2, <1>3, <1>4, PTL DEF Spec, ImplementsPromise, Promise!Spec

=============================================================================
