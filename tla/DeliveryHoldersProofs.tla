----------------------- MODULE DeliveryHoldersProofs -----------------------
(***************************************************************************)
(* Who holds what, and how often: theorems about DeliveryPipeline whose    *)
(* statements count workers.                                               *)
(***************************************************************************)
EXTENDS DeliveryPipelineProofs, FiniteSetTheorems

-----------------------------------------------------------------------------
(***************************************************************************)
(* Counting: what one element more or less does to a cardinality.          *)
(***************************************************************************)
LEMMA NoMoreThan ==
  ASSUME NEW S, NEW T, IsFiniteSet(S), T \subseteq S
  PROVE  /\ IsFiniteSet(T)
         /\ Cardinality(S) \in Nat /\ Cardinality(T) \in Nat
         /\ Cardinality(T) <= Cardinality(S)
  BY FS_Subset, FS_CardinalityType

LEMMA AtMostOneMore ==
  ASSUME NEW S, NEW T, NEW x, IsFiniteSet(S), T \subseteq S \cup {x}
  PROVE  /\ IsFiniteSet(T)
         /\ Cardinality(S) \in Nat /\ Cardinality(T) \in Nat
         /\ Cardinality(T) <= Cardinality(S) + 1
<1>1. /\ IsFiniteSet(S \cup {x})
      /\ Cardinality(S) \in Nat
      /\ Cardinality(S \cup {x}) \in {Cardinality(S), Cardinality(S) + 1}
  BY FS_AddElement, FS_CardinalityType
<1>2. /\ IsFiniteSet(T) /\ Cardinality(T) \in Nat
      /\ Cardinality(T) <= Cardinality(S \cup {x})
  BY <1>1, NoMoreThan
<1> QED  BY <1>1, <1>2

LEMMA OneLess ==
  ASSUME NEW S, NEW T, NEW x \in S, IsFiniteSet(S), T \subseteq S \ {x}
  PROVE  /\ IsFiniteSet(T)
         /\ Cardinality(S) \in Nat /\ Cardinality(T) \in Nat
         /\ Cardinality(T) + 1 <= Cardinality(S)
<1>1. /\ IsFiniteSet(S \ {x})
      /\ Cardinality(S) \in Nat
      /\ Cardinality(S \ {x}) = Cardinality(S) - 1
  BY FS_RemoveElement, FS_CardinalityType
<1>2. /\ IsFiniteSet(T) /\ Cardinality(T) \in Nat
      /\ Cardinality(T) <= Cardinality(S \ {x})
  BY <1>1, NoMoreThan
<1> QED  BY <1>1, <1>2

-----------------------------------------------------------------------------
(***************************************************************************)
(* What a step of a worker does to the queue and to what workers hold.     *)
(***************************************************************************)
\* The ways in which processMessage lets go of a copy.
Settles(w) ==
  \/ Context(w) = "stopping" /\ Finish(w, "limited", "ready")
  \/ Finish(w, "acking", "acked")
  \/ Finish(w, "rejecting", "dead")
  \/ Finish(w, "backoff", "ready")

LEMMA WorkerStepKinds ==
  ASSUME NEW w \in Workers, WorkerStep(w)
  PROVE  /\ UNCHANGED <<life, link, channel>>
         /\ \/ \E m \in Messages : Take(w, m)
            \/ Settles(w)
            \/ UNCHANGED <<place, body, held>>
  BY DEF WorkerStep, Process, ExitWorker, ReadFresh, MarkSending, RateLimitPass,
     RateLimitDenied, WindowOpens, LimitedInterrupted, StartSend, SendSucceeds, SendFails,
     SendLosesReply, SendIsCut, SendErrs, MarkSent, AckDelivered, CountFailure, MarkFailed,
     RejectToDLQ, MarkRetrying, Requeue, WorkerWrites, Settles, brokerVars, processVars

\* A worker that lets go held a published copy, and holds nothing afterwards.
LEMMA SettlesLemma ==
  ASSUME TypeOK, BodiesKnown, WorkersHoldCopies, NEW w \in Workers, Settles(w)
  PROVE  /\ held[w] \in Messages /\ Published(held[w])
         /\ held' = [held EXCEPT ![w] = NoMessage]
         /\ \/ ~LinkOpen(w) /\ place' = place
            \/ /\ LinkOpen(w)
               /\ \E outcome \in {"ready", "acked", "dead"} :
                    place' = [place EXCEPT ![held[w]] = outcome]
  BY Holding DEF Settles, Finish, Goto, Settle, brokerVars

-----------------------------------------------------------------------------
(***************************************************************************)
(* The broker and the workers agree.                                       *)
(***************************************************************************)
\* What a connected worker holds, the broker counts as delivered.
HeldIsUnacked ==
  \A w \in Workers : held[w] # NoMessage /\ LinkOpen(w) => place[held[w]] = "unacked"

\* And conversely.
UnackedIsHeld ==
  \A m \in Messages : place[m] = "unacked" => \E w \in Workers : held[w] = m /\ LinkOpen(w)

(***************************************************************************)
(* Two workers may hold one copy, but then one of them has lost its        *)
(* connection, and the other belongs to another process: a process never   *)
(* gets a connection back before its workers have been started anew.       *)
(***************************************************************************)
HoldersApart ==
  \A v, w \in Workers :
    v # w /\ held[v] = held[w] /\ held[w] # NoMessage =>
      InstanceOf[v] # InstanceOf[w] /\ ~(LinkOpen(v) /\ LinkOpen(w))

\* A process that is down has no workers.
DownHoldsNothing ==
  \A w \in Workers : Context(w) = "down" => held[w] = NoMessage

HoldersInv == HeldIsUnacked /\ UnackedIsHeld /\ HoldersApart /\ DownHoldsNothing

\* Neither hands nor connections change, and the queue at most gets a copy more.
LEMMA HoldersPublish ==
  ASSUME TypeOK, WorkersHoldCopies, HoldersInv, UNCHANGED <<life, link, held>>,
         \/ place' = place
         \/ \E m \in Messages : place[m] = "unused" /\ place' = [place EXCEPT ![m] = "ready"]
  PROVE  HoldersInv'
<1> USE DEF LinkOpen, Context
<1>1. \A m \in Messages : /\ Published(m) => place'[m] = place[m]
                          /\ place'[m] = "unacked" => place[m] = "unacked"
  BY DEF TypeOK, BrokerTypeOK, Published
<1>2. HeldIsUnacked'
  BY <1>1 DEF HoldersInv, HeldIsUnacked, WorkersHoldCopies, TypeOK, ConsumerTypeOK
<1>3. UnackedIsHeld'
  BY <1>1 DEF HoldersInv, UnackedIsHeld
<1>4. HoldersApart' /\ DownHoldsNothing'
  BY DEF HoldersInv, HoldersApart, DownHoldsNothing
<1> QED  BY <1>2, <1>3, <1>4 DEF HoldersInv

LEMMA WorkerStepHolders ==
  ASSUME TypeOK, BodiesKnown, WorkersHoldCopies, HoldersInv, NEW w \in Workers, WorkerStep(w)
  PROVE  HoldersInv'
<1> USE NoMessageAssumption DEF LinkOpen, Context
<1>0. UNCHANGED <<life, link>>
  BY WorkerStepKinds
<1>1. ASSUME NEW m \in Messages, Take(w, m)  PROVE HoldersInv'
  <2>1. /\ place[m] = "ready" /\ place' = [place EXCEPT ![m] = "unacked"]
        /\ held' = [held EXCEPT ![w] = m]
        /\ held[w] = NoMessage
        /\ LinkOpen(w) /\ Context(w) # "down"
    BY <1>1 DEF Take, Deliver, Goto, WorkersHoldCopies
  <2>2. \A v \in Workers : held[v] = m => ~LinkOpen(v) /\ InstanceOf[v] # InstanceOf[w]
    BY <2>1 DEF HoldersInv, HeldIsUnacked
  <2>3. HeldIsUnacked'
    BY <1>0, <2>1, <2>2 DEF HoldersInv, HeldIsUnacked, TypeOK, BrokerTypeOK, ConsumerTypeOK
  <2>4. UnackedIsHeld'
    BY <1>0, <2>1 DEF HoldersInv, UnackedIsHeld, TypeOK, BrokerTypeOK, ConsumerTypeOK
  <2>5. HoldersApart'
    BY <1>0, <2>1, <2>2 DEF HoldersInv, HoldersApart, TypeOK, ConsumerTypeOK
  <2>6. DownHoldsNothing'
    BY <1>0, <2>1 DEF HoldersInv, DownHoldsNothing, TypeOK, ConsumerTypeOK
  <2> QED  BY <2>3, <2>4, <2>5, <2>6 DEF HoldersInv
<1>2. ASSUME Settles(w)  PROVE HoldersInv'
  <2>1. /\ held[w] \in Messages
        /\ held' = [held EXCEPT ![w] = NoMessage]
        /\ \/ ~LinkOpen(w) /\ place' = place
           \/ /\ LinkOpen(w)
              /\ \E outcome \in {"ready", "acked", "dead"} :
                   place' = [place EXCEPT ![held[w]] = outcome]
    BY <1>2, SettlesLemma
  <2>2. HeldIsUnacked'
    BY <1>0, <2>1
    DEF HoldersInv, HeldIsUnacked, HoldersApart, TypeOK, BrokerTypeOK, ConsumerTypeOK
  <2>3. UnackedIsHeld'
    BY <1>0, <2>1 DEF HoldersInv, UnackedIsHeld, TypeOK, BrokerTypeOK, ConsumerTypeOK
  <2>4. HoldersApart' /\ DownHoldsNothing'
    BY <1>0, <2>1 DEF HoldersInv, HoldersApart, DownHoldsNothing, TypeOK, ConsumerTypeOK
  <2> QED  BY <2>2, <2>3, <2>4 DEF HoldersInv
<1>3. CASE UNCHANGED <<place, body, held>>
  BY <1>0, <1>3, HoldersPublish
<1> QED  BY <1>1, <1>2, <1>3, WorkerStepKinds

\* A copy the broker takes back has no connected holder left.
LEMMA LifecycleStepHolders ==
  ASSUME TypeOK, WorkersHoldCopies, HoldersInv, NEW i \in Instances, LifecycleStep(i)
  PROVE  HoldersInv'
<1> USE NoMessageAssumption, InstanceOfAssumption DEF LinkOpen, Context
<1>1. ASSUME Stop(i) \/ LoseChannel(i)  PROVE HoldersInv'
  BY <1>1 DEF Stop, LoseChannel, brokerVars, workerVars, TypeOK, ProcessTypeOK,
     HoldersInv, HeldIsUnacked, UnackedIsHeld, HoldersApart, DownHoldsNothing
<1>2. ASSUME Restart(i)  PROVE HoldersInv'
  <2>1. \A w \in Workers : InstanceOf[w] = i => held[w] = NoMessage
    BY <1>2 DEF Restart, HoldersInv, DownHoldsNothing
  <2> QED
    BY <1>2, <2>1 DEF Restart, brokerVars, workerVars, TypeOK, ProcessTypeOK,
       HoldersInv, HeldIsUnacked, UnackedIsHeld, HoldersApart, DownHoldsNothing
<1>3. ASSUME LoseLink(i)  PROVE HoldersInv'
  <2>1. /\ UNCHANGED <<life, held>>
        /\ link' = [link EXCEPT ![i] = "closed"]
        /\ place' = [m \in Messages |-> IF m \in HeldBy(i) THEN "ready" ELSE place[m]]
    BY <1>3 DEF LoseLink, Redeliver, workerVars
  <2>2. \A w \in Workers : held[w] \in HeldBy(i) /\ LinkOpen(w) => InstanceOf[w] = i
    BY DEF HeldBy, HoldersInv, HoldersApart
  <2>3. HeldIsUnacked'
    BY <2>1, <2>2 DEF HoldersInv, HeldIsUnacked, TypeOK, ConsumerTypeOK, ProcessTypeOK
  <2>4. UnackedIsHeld'
    BY <2>1 DEF HeldBy, HoldersInv, UnackedIsHeld, TypeOK, ProcessTypeOK
  <2>5. HoldersApart' /\ DownHoldsNothing'
    BY <2>1 DEF HoldersInv, HoldersApart, DownHoldsNothing, TypeOK, ProcessTypeOK
  <2> QED  BY <2>3, <2>4, <2>5 DEF HoldersInv
<1>4. ASSUME Exit(i) \/ Crash(i)  PROVE HoldersInv'
  <2>1. /\ link' = link /\ life' = [life EXCEPT ![i] = "down"]
        /\ held' = [w \in Workers |-> IF InstanceOf[w] = i THEN NoMessage ELSE held[w]]
        /\ place' = [m \in Messages |-> IF m \in HeldBy(i) THEN "ready" ELSE place[m]]
    BY <1>4 DEF Exit, Crash, ProcessEnds, Redeliver, WorkersReset
  <2>2. \A w \in Workers : held[w] \in HeldBy(i) /\ LinkOpen(w) => InstanceOf[w] = i
    BY DEF HeldBy, HoldersInv, HoldersApart
  <2>3. HeldIsUnacked'
    BY <2>1, <2>2 DEF HoldersInv, HeldIsUnacked, TypeOK, ConsumerTypeOK
  <2>4. UnackedIsHeld'
    BY <2>1 DEF HeldBy, HoldersInv, UnackedIsHeld
  <2>5. HoldersApart' /\ DownHoldsNothing'
    BY <2>1 DEF HoldersInv, HoldersApart, DownHoldsNothing, TypeOK, ProcessTypeOK
  <2> QED  BY <2>3, <2>4, <2>5 DEF HoldersInv
<1> QED  BY <1>1, <1>2, <1>3, <1>4 DEF LifecycleStep

LEMMA BrokerRestartsHolders ==
  ASSUME TypeOK, WorkersHoldCopies, HoldersInv, BrokerRestarts
  PROVE  HoldersInv'
<1> USE NoMessageAssumption, InstanceOfAssumption DEF LinkOpen, Context
<1>1. /\ UNCHANGED <<life, held>>
      /\ link' = [i \in Instances |-> "closed"]
      /\ \A m \in Messages : place'[m] = IF m \in UNION {HeldBy(i) : i \in Instances}
                                        THEN "ready" ELSE place[m]
  BY DEF BrokerRestarts, Redeliver, workerVars
<1>2. \A m \in Messages : place[m] = "unacked" => m \in UNION {HeldBy(i) : i \in Instances}
  BY DEF HeldBy, HoldersInv, UnackedIsHeld
<1> QED
  BY <1>1, <1>2
  DEF HoldersInv, HeldIsUnacked, UnackedIsHeld, HoldersApart, DownHoldsNothing

LEMMA NextHolders ==
  ASSUME TypeOK, BodiesKnown, WorkersHoldCopies, HoldersInv, [Next]_vars
  PROVE  HoldersInv'
<1>1. ASSUME ServiceStep  PROVE HoldersInv'
  <2>1. UNCHANGED <<life, link, held>>
    BY <1>1 DEF ServiceStep, processVars, workerVars
  <2>2. \/ place' = place
        \/ \E m \in Messages : place[m] = "unused" /\ place' = [place EXCEPT ![m] = "ready"]
    BY <1>1, PublisherCopies
  <2> QED  BY <2>1, <2>2, HoldersPublish
<1>2. ASSUME NEW i \in Instances, SchedulerStep(i)  PROVE HoldersInv'
  <2>1. UNCHANGED <<life, link, held>>
    BY <1>2 DEF SchedulerStep, processVars, workerVars
  <2>2. \/ place' = place
        \/ \E m \in Messages : place[m] = "unused" /\ place' = [place EXCEPT ![m] = "ready"]
    BY <1>2, PublisherCopies
  <2> QED  BY <2>1, <2>2, HoldersPublish
<1>3. CASE ClockStep \/ UNCHANGED vars
  BY <1>3, HoldersPublish DEF ClockStep, vars, brokerVars, processVars, workerVars
<1> QED
  BY <1>1, <1>2, <1>3, WorkerStepHolders, LifecycleStepHolders, BrokerRestartsHolders DEF Next

LEMMA InitHolders ==
  ASSUME Init
  PROVE  HoldersInv
  BY DEF Init, BrokerInit, ConsumerInit, HoldersInv, HeldIsUnacked, UnackedIsHeld,
     HoldersApart, DownHoldsNothing

(***************************************************************************)
(* The broker and the workers agree on who works on what, whatever crashes *)
(* or loses its connection: an unacknowledged copy has exactly one worker  *)
(* that can acknowledge it, and any other copy has none.                   *)
(***************************************************************************)
THEOREM OneHolderEach == Spec => []HeldByOne
<1> DEFINE Inv == TypeOK /\ BodiesKnown /\ WorkersHoldCopies /\ HoldersInv
<1>1. Init => Inv
  BY InitTyped, InitHolders
<1>2. Inv /\ [Next]_vars => Inv'
  BY NextType, NextCopies, NextHolds, NextHolders
<1>3. Inv => HeldByOne
  <2> SUFFICES ASSUME Inv, NEW m \in Messages
               PROVE  Cardinality({w \in Workers : held[w] = m /\ LinkOpen(w)})
                        = IF place[m] = "unacked" THEN 1 ELSE 0
    BY DEF HeldByOne
  <2> DEFINE holders == {w \in Workers : held[w] = m /\ LinkOpen(w)}
  <2>1. CASE place[m] = "unacked"
    <3>1. PICK w \in Workers : held[w] = m /\ LinkOpen(w)
      BY <2>1 DEF HoldersInv, UnackedIsHeld
    <3>2. holders = {w}
      BY <3>1, NoMessageAssumption DEF HoldersInv, HoldersApart
    <3> QED  BY <2>1, <3>2, FS_Singleton
  <2>2. CASE place[m] # "unacked"
    <3>1. holders = {}
      BY <2>2, NoMessageAssumption DEF HoldersInv, HeldIsUnacked
    <3> QED  BY <2>2, <3>1, FS_EmptySet
  <2> QED  BY <2>1, <2>2
<1> QED  BY <1>1, <1>2, <1>3, PTL DEF Spec

-----------------------------------------------------------------------------
(***************************************************************************)
(* The retry counter and the failures about to be counted.                 *)
(***************************************************************************)
\* Workers whose failed Send of n is still to be counted, and can be.
Failing(n) ==
  {w \in Workers : /\ pc[w] = "failing" /\ Context(w) = "running"
                   /\ body[held[w]].id = n}

CountInv ==
  \A n \in Notifications : rows[n].retry_count + Cardinality(Failing(n)) <= attempts[n]

LEMMA FailingFinite ==
  ASSUME NEW n
  PROVE  /\ IsFiniteSet(Failing(n)) /\ Cardinality(Failing(n)) \in Nat
         /\ IsFiniteSet(Failing(n)') /\ Cardinality(Failing(n))' \in Nat
<1>1. Failing(n) \subseteq Workers /\ Failing(n)' \subseteq Workers
  BY DEF Failing
<1>2. /\ IsFiniteSet(Failing(n)) /\ Cardinality(Failing(n)) \in Nat
      /\ IsFiniteSet(Failing(n)') /\ Cardinality(Failing(n)') \in Nat
  BY <1>1, WorkersAssumption, NoMoreThan
<1> QED  BY <1>2

\* Whoever fails after a step that fails nobody did so before it.
FailsNobody ==
  \A w \in Workers :
    pc'[w] = "failing" /\ life'[InstanceOf[w]] = "running" =>
      pc[w] = "failing" /\ Context(w) = "running" /\ held'[w] = held[w]

\* No failure and no count: a row at most begins anew.
LEMMA CountQuiet ==
  ASSUME TypeOK, BodiesKnown, WorkersHoldCopies, CountInv, [Next]_vars, FailsNobody,
         UNCHANGED attempts,
         \A n \in Notifications : rows'[n].retry_count \in {rows[n].retry_count, 0}
  PROVE  CountInv'
<1> SUFFICES ASSUME NEW n \in Notifications
             PROVE  (rows[n].retry_count + Cardinality(Failing(n)) <= attempts[n])'
  BY DEF CountInv
<1>1. \A w \in Workers : pc[w] = "failing" => body'[held[w]] = body[held[w]]
  BY Holding, NextCopies
<1>2. Failing(n)' \subseteq Failing(n)
  BY <1>1 DEF Failing, FailsNobody, Context
<1>3. Cardinality(Failing(n)') <= Cardinality(Failing(n))
  BY <1>2, FailingFinite, NoMoreThan
<1>4. rows[n].retry_count \in Nat /\ attempts[n] \in Nat
  BY DEF TypeOK, StoreTypeOK, Row, ProviderTypeOK
<1>5. rows[n].retry_count + Cardinality(Failing(n)) <= attempts[n]
  BY DEF CountInv
<1>6. rows'[n].retry_count <= rows[n].retry_count /\ rows'[n].retry_count \in Nat
  BY <1>4
<1>7. rows'[n].retry_count + Cardinality(Failing(n)') <= attempts[n]
  BY <1>3, <1>4, <1>5, <1>6, FailingFinite
<1> QED  BY <1>7

LEMMA ServiceStepCount ==
  ASSUME TypeOK, BodiesKnown, WorkersHoldCopies, CountInv, ServiceStep
  PROVE  CountInv'
<1>1. UNCHANGED attempts /\ FailsNobody /\ [Next]_vars
  BY DEF ServiceStep, FailsNobody, Context, processVars, workerVars, providerVars, Next
<1> DEFINE Quiet == \A n \in Notifications : rows'[n].retry_count \in {rows[n].retry_count, 0}
<1>2. ASSUME NEW r \in Requests, NEW B \in SUBSET Notifications,
             NEW at \in [B -> {"none", "future"}], CreateBatch(r, B, at)
      PROVE  Quiet
  BY <1>2, InsertRowsLemma DEF CreateBatch, TypeOK
<1>3. ASSUME NEW r \in Requests, Accept(r)  PROVE Quiet
  BY <1>2, <1>3, AcceptLemma
<1>4. ASSUME NEW r \in Requests, MarkQueued(r)  PROVE Quiet
  <2>1. published[r] \in Notifications /\ "queued" \in Status
    BY <1>4 DEF MarkQueued, TypeOK, ServiceTypeOK, Status
  <2> QED  BY <1>4, <2>1, UpdateStatusLemma DEF MarkQueued, TypeOK
<1>5. ASSUME NEW n \in Notifications, Cancel(n)  PROVE Quiet
  BY <1>5, CancelRowLemma DEF Cancel, TypeOK
<1>6. Quiet
  BY <1>3, <1>4, <1>5
  DEF ServiceStep, Handle, SkipScheduled, PublishDue, PublishDueFails, PublishDueIsLost,
      ApiCrash, ApiLosesChannel
<1> QED  BY <1>1, <1>6, CountQuiet

LEMMA SchedulerStepCount ==
  ASSUME TypeOK, BodiesKnown, WorkersHoldCopies, CountInv,
         NEW i \in Instances, SchedulerStep(i)
  PROVE  CountInv'
<1>1. UNCHANGED attempts /\ FailsNobody /\ [Next]_vars
  BY DEF SchedulerStep, FailsNobody, Context, processVars, workerVars, providerVars, Next
<1>2. ASSUME SchedulerMarkQueued(i)
      PROVE  \A n \in Notifications : rows'[n].retry_count \in {rows[n].retry_count, 0}
  <2>1. queued[i] \in Notifications /\ "queued" \in Status
    BY <1>2 DEF SchedulerMarkQueued, TypeOK, SchedulerTypeOK, Status
  <2>2. rows' = rows \/ UpdateStatus(queued[i], "queued")
    BY <1>2, WriteLemma DEF SchedulerMarkQueued
  <2> QED  BY <2>1, <2>2, UpdateStatusLemma DEF TypeOK
<1>3. \A n \in Notifications : rows'[n].retry_count \in {rows[n].retry_count, 0}
  BY <1>2 DEF SchedulerStep, Poll, SchedulerPublish, SchedulerPublishFails,
     SchedulerPublishIsLost
<1> QED  BY <1>1, <1>3, CountQuiet

\* A failed Send is one more to count; counting it takes it away.
LEMMA WorkerStepCount ==
  ASSUME TypeOK, BodiesKnown, WorkersHoldCopies, CountInv, NEW w \in Workers, WorkerStep(w)
  PROVE  CountInv'
<1> DEFINE k == body[held[w]].id
<1>0. [Next]_vars /\ UNCHANGED life
  BY WorkerStepKinds DEF Next
<1>1. ASSUME (\E v \in Verdict : SendFails(w, v)) \/ SendLosesReply(w)  PROVE CountInv'
  <2>1. k \in Notifications
    BY <1>1, Holding DEF SendFails, SendLosesReply, SendErrs, Goto
  <2>2. /\ UNCHANGED <<rows, held, body>>
        /\ attempts' = [attempts EXCEPT ![k] = @ + 1]
        /\ pc' = [pc EXCEPT ![w] = "failing"]
    BY <1>1 DEF SendFails, SendLosesReply, SendErrs, Goto, Fails, LosesReply, Errs, brokerVars
  <2> HIDE DEF k
  <2> SUFFICES ASSUME NEW n \in Notifications
               PROVE  rows[n].retry_count + Cardinality(Failing(n)') <= attempts'[n]
    BY <2>2 DEF CountInv
  <2>3. /\ rows[n].retry_count \in Nat /\ attempts[n] \in Nat
        /\ rows[n].retry_count + Cardinality(Failing(n)) <= attempts[n]
    BY DEF CountInv, TypeOK, StoreTypeOK, Row, ProviderTypeOK
  <2>4. CASE n = k
    <3>1. Failing(n)' \subseteq Failing(n) \cup {w} /\ attempts'[n] = attempts[n] + 1
      BY <1>0, <2>1, <2>2, <2>4 DEF Failing, Context, TypeOK, ConsumerTypeOK, ProviderTypeOK
    <3>2. Cardinality(Failing(n)') <= Cardinality(Failing(n)) + 1
      BY <3>1, FailingFinite, AtMostOneMore
    <3> QED  BY <2>3, <3>1, <3>2, FailingFinite
  <2>5. CASE n # k
    <3>1. Failing(n)' \subseteq Failing(n) /\ attempts'[n] = attempts[n]
      BY <1>0, <2>1, <2>2, <2>5 DEF Failing, Context, TypeOK, ConsumerTypeOK, ProviderTypeOK, k
    <3>2. Cardinality(Failing(n)') <= Cardinality(Failing(n))
      BY <3>1, FailingFinite, NoMoreThan
    <3> QED  BY <2>3, <3>1, <3>2, FailingFinite
  <2> QED  BY <2>4, <2>5
<1>2. ASSUME CountFailure(w)  PROVE CountInv'
  <2>1. k \in Notifications /\ pc[w] = "failing"
    BY <1>2, Holding DEF CountFailure, Goto
  <2>2. /\ UNCHANGED <<held, body, attempts>>
        /\ \/ rows' = rows
           \/ Context(w) = "running" /\ IncrementRetry(k)
        /\ \E q \in {"exhausted", "retrying"} : pc' = [pc EXCEPT ![w] = q]
    BY <1>2 DEF CountFailure, Goto, WorkerWrites, Write, Context, brokerVars, providerVars
  <2> HIDE DEF k
  <2> SUFFICES ASSUME NEW n \in Notifications
               PROVE  rows'[n].retry_count + Cardinality(Failing(n)') <= attempts[n]
    BY <2>2 DEF CountInv
  <2>3. /\ rows[n].retry_count \in Nat /\ attempts[n] \in Nat
        /\ rows[n].retry_count + Cardinality(Failing(n)) <= attempts[n]
    BY DEF CountInv, TypeOK, StoreTypeOK, Row, ProviderTypeOK
  <2>4. Failing(n)' \subseteq Failing(n) \ {w}
    BY <1>0, <2>2 DEF Failing, Context, TypeOK, ConsumerTypeOK
  <2>5. CASE rows'[n].retry_count = rows[n].retry_count
    <3>1. Cardinality(Failing(n)') <= Cardinality(Failing(n))
      BY <2>4, FailingFinite, NoMoreThan
    <3> QED  BY <2>3, <2>5, <3>1, FailingFinite
  <2>6. CASE n = k /\ IncrementRetry(k) /\ Context(w) = "running"
    <3>1. w \in Failing(n) /\ rows'[n].retry_count = rows[n].retry_count + 1
      BY <2>1, <2>6, IncrementRetryLemma DEF Failing, TypeOK, k
    <3>2. Cardinality(Failing(n)') + 1 <= Cardinality(Failing(n))
      BY <2>4, <3>1, FailingFinite, OneLess
    <3> QED  BY <2>3, <3>1, <3>2, FailingFinite
  <2> QED  BY <2>1, <2>2, <2>5, <2>6, IncrementRetryLemma DEF TypeOK
<1>3. ASSUME \/ MarkSending(w) \/ MarkSent(w) \/ MarkFailed(w) \/ MarkRetrying(w)
      PROVE  CountInv'
  <2>1. k \in Notifications
    BY <1>3, Holding DEF MarkSending, MarkSent, MarkFailed, MarkRetrying, Goto
  <2>2. PICK s \in Status : WorkerWrites(w, UpdateStatus(k, s))
    BY <1>3 DEF MarkSending, MarkSent, MarkFailed, MarkRetrying, Status
  <2>3. rows' = rows \/ UpdateStatus(k, s)
    BY <2>2 DEF WorkerWrites, Write
  <2>4. UNCHANGED attempts /\ FailsNobody
    BY <1>0, <1>3 DEF MarkSending, MarkSent, MarkFailed, MarkRetrying, Goto, WorkerWrites,
       FailsNobody, Context, providerVars, TypeOK, ConsumerTypeOK
  <2>5. \A n \in Notifications : rows'[n].retry_count = rows[n].retry_count
    BY <2>1, <2>3, UpdateStatusLemma DEF TypeOK
  <2> QED  BY <1>0, <2>4, <2>5, CountQuiet
<1>4. ASSUME UNCHANGED <<rows, attempts>>, FailsNobody  PROVE CountInv'
  BY <1>0, <1>4, CountQuiet
<1>5. ASSUME (\E m \in Messages : Take(w, m)) \/ SendSucceeds(w) \/ ExitWorker(w)
             \/ ReadFresh(w) \/ RateLimitPass(w) \/ RateLimitDenied(w) \/ WindowOpens(w)
             \/ StartSend(w)
      PROVE  CountInv'
  BY <1>0, <1>4, <1>5 DEF Take, SendSucceeds, Accepts, ExitWorker, ReadFresh, RateLimitPass,
     RateLimitDenied, WindowOpens, StartSend, Goto, providerVars, FailsNobody, Context,
     TypeOK, ConsumerTypeOK
<1>6. ASSUME Settles(w)  PROVE CountInv'
  BY <1>0, <1>4, <1>6 DEF Settles, Finish, Goto, providerVars, FailsNobody, Context, TypeOK,
     ConsumerTypeOK
<1>7. ASSUME SendIsCut(w)  PROVE CountInv'
  BY <1>0, <1>4, <1>7 DEF SendIsCut, SendErrs, IsCut, Goto, FailsNobody, Context, TypeOK,
     ConsumerTypeOK
<1> QED
  BY <1>1, <1>2, <1>3, <1>5, <1>6, <1>7
  DEF WorkerStep, Process, Settles, LimitedInterrupted, AckDelivered, RejectToDLQ, Requeue

LEMMA LifecycleStepCount ==
  ASSUME TypeOK, BodiesKnown, WorkersHoldCopies, HoldersInv, CountInv,
         NEW i \in Instances, LifecycleStep(i)
  PROVE  CountInv'
<1>1. UNCHANGED <<rows, attempts>> /\ [Next]_vars
  BY DEF LifecycleStep, Stop, Exit, Crash, Restart, LoseLink, LoseChannel, ProcessEnds,
     providerVars, Next
<1>2. CASE UNCHANGED workerVars
  <2>1. \A w \in Workers : pc[w] = "failing" => held[w] # NoMessage
    BY DEF WorkersHoldCopies
  <2>2. \A w \in Workers : pc[w] = "failing" /\ life'[InstanceOf[w]] = "running" =>
                           Context(w) = "running"
    BY <2>1, <1>2, InstanceOfAssumption
    DEF LifecycleStep, Stop, Exit, Crash, Restart, LoseLink, LoseChannel, ProcessEnds, Context,
        TypeOK, ProcessTypeOK, HoldersInv, DownHoldsNothing
  <2> QED  BY <1>1, <1>2, <2>2, CountQuiet DEF FailsNobody, workerVars
<1>3. CASE ProcessEnds(i)
  BY <1>1, <1>3, InstanceOfAssumption, CountQuiet
  DEF FailsNobody, ProcessEnds, WorkersReset, Context, TypeOK, ProcessTypeOK
<1> QED
  BY <1>2, <1>3 DEF LifecycleStep, Stop, Exit, Crash, Restart, LoseLink, LoseChannel

LEMMA NextCount ==
  ASSUME TypeOK, BodiesKnown, WorkersHoldCopies, HoldersInv, CountInv, [Next]_vars
  PROVE  CountInv'
<1>1. ASSUME ClockStep  PROVE CountInv'
  <2>1. \A n \in Notifications : rows'[n].retry_count = rows[n].retry_count
    BY <1>1, ClockPassesLemma DEF ClockStep, TypeOK
  <2> QED
    BY <1>1, <2>1, CountQuiet
    DEF ClockStep, FailsNobody, Context, processVars, workerVars, providerVars
<1>2. CASE BrokerRestarts \/ UNCHANGED vars
  BY <1>2, CountQuiet
  DEF BrokerRestarts, vars, FailsNobody, Context, workerVars, providerVars
<1> QED
  BY <1>1, <1>2, ServiceStepCount, SchedulerStepCount, WorkerStepCount, LifecycleStepCount
  DEF Next

LEMMA InitCount ==
  ASSUME Init
  PROVE  CountInv
<1> SUFFICES ASSUME NEW n \in Notifications
             PROVE  rows[n].retry_count + Cardinality(Failing(n)) <= attempts[n]
  BY DEF CountInv
<1>1. Failing(n) = {} /\ rows[n].retry_count = 0 /\ attempts[n] = 0
  BY DEF Init, StoreInit, NewRow, ConsumerInit, ProviderInit, Failing
<1> QED  BY <1>1, FS_EmptySet

(***************************************************************************)
(* However many copies count on one row at a time, and whichever counts    *)
(* are lost or made by a process that is stopping, the row's counter stays *)
(* behind the Sends that failed.  The workers about to count are what a    *)
(* single increment, or the bound itself, does not see.                    *)
(***************************************************************************)
THEOREM CounterIsTruthful == Spec => []RetryCountTruthful
<1> DEFINE Inv == TypeOK /\ BodiesKnown /\ WorkersHoldCopies /\ HoldersInv /\ CountInv
<1>1. Init => Inv
  BY InitTyped, InitHolders, InitCount
<1>2. Inv /\ [Next]_vars => Inv'
  BY NextType, NextCopies, NextHolds, NextHolders, NextCount
<1>3. Inv => RetryCountTruthful
  <2> SUFFICES ASSUME Inv, NEW n \in Notifications
               PROVE  rows[n].retry_count <= attempts[n]
    BY DEF RetryCountTruthful
  <2>1. /\ rows[n].retry_count + Cardinality(Failing(n)) <= attempts[n]
        /\ rows[n].retry_count \in Nat /\ attempts[n] \in Nat
    BY DEF CountInv, TypeOK, StoreTypeOK, Row, ProviderTypeOK
  <2> QED  BY <2>1, FailingFinite
<1> QED  BY <1>1, <1>2, <1>3, PTL DEF Spec

-----------------------------------------------------------------------------
(***************************************************************************)
(* How often the provider may still see a copy, if no further fault comes. *)
(***************************************************************************)
\* Once more for a copy that waits in the queue, or is not published yet.
Waiting(m) == IF place[m] \in {"unused", "ready"} THEN 1 ELSE 0

\* Once more for a worker that has not delivered the copy it holds ...
ToSend(m) == {w \in Workers : held[w] = m /\ pc[w] \notin {"delivered", "acking"}}

\* ... and twice if a shutdown may yet cut its Send short: the copy goes back.
MayBeCut(m) ==
  {w \in Workers : held[w] = m /\ pc[w] = "inflight" /\ Context(w) = "stopping"}

Tally(m) ==
  receipts[m] + Waiting(m) + Cardinality(ToSend(m)) + Cardinality(MayBeCut(m))

ReceiptsInv == \A m \in Messages : Tally(m) <= 1 + disruptions

LEMMA TallyType ==
  ASSUME TypeOK, NEW m \in Messages
  PROVE  /\ receipts[m] \in Nat /\ Waiting(m) \in {0, 1} /\ disruptions \in Nat
         /\ IsFiniteSet(ToSend(m)) /\ Cardinality(ToSend(m)) \in Nat
         /\ IsFiniteSet(MayBeCut(m)) /\ Cardinality(MayBeCut(m)) \in Nat
         /\ Tally(m) \in Nat
<1>1. ToSend(m) \subseteq Workers /\ MayBeCut(m) \subseteq Workers
  BY DEF ToSend, MayBeCut
<1>2. /\ IsFiniteSet(ToSend(m)) /\ Cardinality(ToSend(m)) \in Nat
      /\ IsFiniteSet(MayBeCut(m)) /\ Cardinality(MayBeCut(m)) \in Nat
  BY <1>1, WorkersAssumption, NoMoreThan
<1>3. receipts[m] \in Nat /\ Waiting(m) \in {0, 1} /\ disruptions \in Nat
  BY MaxDisruptionsAssumption DEF TypeOK, ProviderTypeOK, FaultsTypeOK, Waiting
<1> QED  BY <1>2, <1>3 DEF Tally

LEMMA TallyTypeNext ==
  ASSUME TypeOK', NEW m \in Messages
  PROVE  /\ receipts'[m] \in Nat /\ Waiting(m)' \in {0, 1} /\ disruptions' \in Nat
         /\ IsFiniteSet(ToSend(m)') /\ Cardinality(ToSend(m)') \in Nat
         /\ IsFiniteSet(MayBeCut(m)') /\ Cardinality(MayBeCut(m)') \in Nat
         /\ Tally(m)' = receipts'[m] + Waiting(m)' + Cardinality(ToSend(m)')
                          + Cardinality(MayBeCut(m)')
<1>1. ToSend(m)' \subseteq Workers /\ MayBeCut(m)' \subseteq Workers
  BY DEF ToSend, MayBeCut
<1>2. /\ IsFiniteSet(ToSend(m)') /\ Cardinality(ToSend(m)') \in Nat
      /\ IsFiniteSet(MayBeCut(m)') /\ Cardinality(MayBeCut(m)') \in Nat
  BY <1>1, WorkersAssumption, NoMoreThan
<1>3. receipts'[m] \in Nat /\ Waiting(m)' \in {0, 1} /\ disruptions' \in Nat
  BY MaxDisruptionsAssumption DEF TypeOK, ProviderTypeOK, FaultsTypeOK, Waiting
<1> QED  BY <1>2, <1>3 DEF Tally

\* No fault, no receipt, and nobody gets a chance to send it that had none.
LEMMA TallyQuiet ==
  ASSUME TypeOK, TypeOK', NEW m \in Messages,
         Tally(m) <= 1 + disruptions, disruptions <= disruptions',
         receipts'[m] = receipts[m],
         Waiting(m)' <= Waiting(m),
         ToSend(m)' \subseteq ToSend(m),
         MayBeCut(m)' \subseteq MayBeCut(m)
  PROVE  Tally(m)' <= 1 + disruptions'
<1>1. /\ Cardinality(ToSend(m)') <= Cardinality(ToSend(m))
      /\ Cardinality(MayBeCut(m)') <= Cardinality(MayBeCut(m))
  BY TallyType, NoMoreThan
<1> QED  BY <1>1, TallyType, TallyTypeNext DEF Tally

\* A fault makes up for one chance more.
LEMMA TallyFault ==
  ASSUME TypeOK, TypeOK', NEW m \in Messages,
         Tally(m) <= 1 + disruptions, disruptions' = disruptions + 1,
         receipts'[m] = receipts[m],
         NEW x,
         \/ ToSend(m)' \subseteq ToSend(m) /\ MayBeCut(m)' \subseteq MayBeCut(m)
         \/ /\ Waiting(m)' = Waiting(m)
            /\ ToSend(m)' \subseteq ToSend(m) /\ MayBeCut(m)' \subseteq MayBeCut(m) \cup {x}
  PROVE  Tally(m)' <= 1 + disruptions'
<1>1. CASE ToSend(m)' \subseteq ToSend(m) /\ MayBeCut(m)' \subseteq MayBeCut(m)
  <2>1. /\ Cardinality(ToSend(m)') <= Cardinality(ToSend(m))
        /\ Cardinality(MayBeCut(m)') <= Cardinality(MayBeCut(m))
    BY <1>1, TallyType, NoMoreThan
  <2>2. Waiting(m)' <= Waiting(m) + 1
    BY TallyType, TallyTypeNext
  <2> QED  BY <2>1, <2>2, TallyType, TallyTypeNext DEF Tally
<1>2. CASE /\ Waiting(m)' = Waiting(m)
           /\ ToSend(m)' \subseteq ToSend(m) /\ MayBeCut(m)' \subseteq MayBeCut(m) \cup {x}
  <2>1. Cardinality(ToSend(m)') <= Cardinality(ToSend(m))
    BY <1>2, TallyType, NoMoreThan
  <2>2. Cardinality(MayBeCut(m)') <= Cardinality(MayBeCut(m)) + 1
    BY <1>2, TallyType, AtMostOneMore
  <2> QED  BY <1>2, <2>1, <2>2, TallyType, TallyTypeNext DEF Tally
<1> QED  BY <1>1, <1>2

LEMMA NextDisruptions ==
  ASSUME TypeOK, [Next]_vars
  PROVE  disruptions' \in {disruptions, disruptions + 1}
<1>1. CASE ServiceStep
  BY <1>1 DEF ServiceStep, Accept, Handle, Create, CreateBatch, SkipScheduled, PublishDue,
     PublishDueFails, PublishDueIsLost, MarkQueued, Cancel, ApiCrash, ApiLosesChannel, Disrupt
<1>2. ASSUME NEW i \in Instances, SchedulerStep(i)
      PROVE  disruptions' \in {disruptions, disruptions + 1}
  BY <1>2 DEF SchedulerStep, Poll, SchedulerPublish, SchedulerPublishFails,
     SchedulerPublishIsLost, SchedulerMarkQueued, Write, Disrupt
<1>3. ASSUME NEW w \in Workers, WorkerStep(w)
      PROVE  disruptions' \in {disruptions, disruptions + 1}
  BY <1>3 DEF WorkerStep, Process, Take, ExitWorker, ReadFresh, MarkSending, RateLimitPass,
     RateLimitDenied, WindowOpens, LimitedInterrupted, StartSend, SendSucceeds, SendFails,
     SendLosesReply, SendIsCut, MarkSent, AckDelivered, CountFailure, MarkFailed, RejectToDLQ,
     MarkRetrying, Requeue, Finish, WorkerWrites, Write, Disrupt, Accepts, Fails, LosesReply,
     Errs,
     IsCut
<1>4. ASSUME NEW i \in Instances, LifecycleStep(i)
      PROVE  disruptions' \in {disruptions, disruptions + 1}
  BY <1>4 DEF LifecycleStep, Stop, Exit, Crash, Restart, LoseLink, LoseChannel, Disrupt
<1>5. CASE ClockStep \/ BrokerRestarts \/ UNCHANGED vars
  BY <1>5 DEF ClockStep, BrokerRestarts, vars, Disrupt
<1> QED  BY <1>1, <1>2, <1>3, <1>4, <1>5 DEF Next

\* Nobody's hands and no process change, and a copy at most is published.
LEMMA PublisherStepTally ==
  ASSUME TypeOK, TypeOK', [Next]_vars, ReceiptsInv,
         UNCHANGED <<life, pc, held, receipts>>,
         \/ place' = place
         \/ \E m \in Messages : place[m] = "unused" /\ place' = [place EXCEPT ![m] = "ready"]
  PROVE  ReceiptsInv'
<1> SUFFICES ASSUME NEW m \in Messages  PROVE Tally(m)' <= 1 + disruptions'
  BY DEF ReceiptsInv
<1>1. Waiting(m)' = Waiting(m)
  BY DEF Waiting, TypeOK, BrokerTypeOK
<1>2. ToSend(m)' = ToSend(m) /\ MayBeCut(m)' = MayBeCut(m)
  BY DEF ToSend, MayBeCut, Context
<1>3. disruptions <= disruptions' /\ Tally(m) <= 1 + disruptions
  BY NextDisruptions, TallyType DEF ReceiptsInv
<1> QED  BY <1>1, <1>2, <1>3, TallyQuiet, TallyType

\* Taking a copy and putting it back move one chance between queue and worker.
LEMMA TakeTally ==
  ASSUME TypeOK, TypeOK', WorkersHoldCopies, NEW w \in Workers, NEW m \in Messages,
         Tally(m) <= 1 + disruptions, NEW k \in Messages, Take(w, k), UNCHANGED life
  PROVE  Tally(m)' <= 1 + disruptions'
<1>1. /\ place[k] = "ready" /\ place' = [place EXCEPT ![k] = "unacked"]
      /\ held' = [held EXCEPT ![w] = k] /\ pc' = [pc EXCEPT ![w] = "received"]
      /\ UNCHANGED <<receipts, disruptions>>
      /\ held[w] = NoMessage
  BY DEF Take, Goto, Deliver, providerVars, WorkersHoldCopies
<1>2. MayBeCut(m)' \subseteq MayBeCut(m)
  BY <1>1 DEF MayBeCut, Context, TypeOK, ConsumerTypeOK
<1>3. CASE m = k
  <2>1. Waiting(m) = 1 /\ Waiting(m)' = 0
    BY <1>1, <1>3 DEF Waiting, TypeOK, BrokerTypeOK
  <2>2. ToSend(m)' \subseteq ToSend(m) \cup {w}
    BY <1>1 DEF ToSend, TypeOK, ConsumerTypeOK
  <2>3. /\ Cardinality(ToSend(m)') <= Cardinality(ToSend(m)) + 1
        /\ Cardinality(MayBeCut(m)') <= Cardinality(MayBeCut(m))
    BY <1>2, <2>2, TallyType, AtMostOneMore, NoMoreThan
  <2> QED  BY <1>1, <2>1, <2>3, TallyType, TallyTypeNext DEF Tally
<1>4. CASE m # k
  <2>1. Waiting(m)' = Waiting(m)
    BY <1>1, <1>4 DEF Waiting, TypeOK, BrokerTypeOK
  <2>2. ToSend(m)' \subseteq ToSend(m)
    BY <1>1, <1>4 DEF ToSend, TypeOK, ConsumerTypeOK
  <2> QED  BY <1>1, <1>2, <2>1, <2>2, TallyQuiet, TallyType
<1> QED  BY <1>3, <1>4

LEMMA SettlesTally ==
  ASSUME TypeOK, TypeOK', BodiesKnown, WorkersHoldCopies, NEW w \in Workers,
         NEW m \in Messages, Tally(m) <= 1 + disruptions, Settles(w), UNCHANGED life
  PROVE  Tally(m)' <= 1 + disruptions'
<1>0. /\ held[w] \in Messages /\ Published(held[w])
      /\ held' = [held EXCEPT ![w] = NoMessage]
      /\ \/ ~LinkOpen(w) /\ place' = place
         \/ \E outcome \in {"ready", "acked", "dead"} :
              place' = [place EXCEPT ![held[w]] = outcome]
  BY SettlesLemma
<1>1. UNCHANGED <<receipts, disruptions>> /\ pc' = [pc EXCEPT ![w] = "idle"]
  BY DEF Settles, Finish, Goto, providerVars
<1>2. /\ MayBeCut(m)' \subseteq MayBeCut(m)
      /\ ToSend(m)' \subseteq ToSend(m)
  BY <1>0, <1>1, NoMessageAssumption DEF ToSend, MayBeCut, Context, TypeOK, ConsumerTypeOK
<1>3. CASE Waiting(m)' <= Waiting(m)
  BY <1>1, <1>2, <1>3, TallyQuiet, TallyType
<1>4. CASE ~(Waiting(m)' <= Waiting(m))
  <2>1. held[w] = m /\ place'[m] = "ready" /\ Waiting(m) = 0 /\ Waiting(m)' = 1
    BY <1>0, <1>4, TallyType, TallyTypeNext DEF Waiting, Published, TypeOK, BrokerTypeOK
  <2>2. pc[w] \in {"limited", "backoff"}
    BY <1>0, <1>4, <2>1 DEF Settles, Finish, Goto, Settle, LinkOpen, brokerVars, Waiting,
       TypeOK, BrokerTypeOK
  <2>3. w \in ToSend(m) /\ ToSend(m)' \subseteq ToSend(m) \ {w}
    BY <1>0, <1>1, <1>2, <2>1, <2>2, NoMessageAssumption DEF ToSend, TypeOK, ConsumerTypeOK
  <2>4. /\ Cardinality(ToSend(m)') + 1 <= Cardinality(ToSend(m))
        /\ Cardinality(MayBeCut(m)') <= Cardinality(MayBeCut(m))
    BY <1>2, <2>3, TallyType, OneLess, NoMoreThan
  <2> QED  BY <1>1, <2>1, <2>4, TallyType, TallyTypeNext DEF Tally
<1> QED  BY <1>3, <1>4

\* A Send takes the sender's chance away; a fault, or a shutdown in its way, leaves it.
LEMMA SendTally ==
  ASSUME TypeOK, TypeOK', BodiesKnown, WorkersHoldCopies, NEW w \in Workers,
         NEW m \in Messages, Tally(m) <= 1 + disruptions, UNCHANGED life,
         \/ SendSucceeds(w) \/ (\E v \in Verdict : SendFails(w, v))
         \/ SendLosesReply(w) \/ SendIsCut(w)
  PROVE  Tally(m)' <= 1 + disruptions'
<1>0. /\ held[w] \in Messages /\ UNCHANGED <<place, held>>
      /\ \E q \in {"delivered", "failing"} : pc' = [pc EXCEPT ![w] = q]
  BY Holding DEF SendSucceeds, SendFails, SendLosesReply, SendIsCut, SendErrs, Goto, brokerVars
<1>1. /\ Waiting(m)' = Waiting(m)
      /\ ToSend(m)' \subseteq ToSend(m) /\ MayBeCut(m)' \subseteq MayBeCut(m)
  <2>1. pc[w] \in {"sending", "inflight"}
    BY DEF SendSucceeds, SendFails, SendLosesReply, SendIsCut, SendErrs, Goto
  <2> QED
    BY <1>0, <2>1 DEF Waiting, ToSend, MayBeCut, Context, TypeOK, ConsumerTypeOK
<1>2. /\ Cardinality(ToSend(m)') <= Cardinality(ToSend(m))
      /\ Cardinality(MayBeCut(m)') <= Cardinality(MayBeCut(m))
  BY <1>1, TallyType, NoMoreThan
<1>3. CASE receipts'[m] = receipts[m] /\ disruptions <= disruptions'
  BY <1>1, <1>3, TallyQuiet, TallyType
<1>4. CASE receipts'[m] = receipts[m] + 1 /\ disruptions' = disruptions + 1
  BY <1>1, <1>2, <1>4, TallyType, TallyTypeNext DEF Tally
<1>5. CASE SendSucceeds(w)
  <2>1. /\ receipts' = [receipts EXCEPT ![held[w]] = @ + 1] /\ UNCHANGED disruptions
        /\ pc[w] = "inflight" /\ pc' = [pc EXCEPT ![w] = "delivered"]
    BY <1>5 DEF SendSucceeds, Accepts, Goto
  <2>2. CASE held[w] = m
    <3>1. receipts'[m] = receipts[m] + 1
      BY <2>1, <2>2 DEF TypeOK, ProviderTypeOK
    <3>2. w \in ToSend(m) /\ ToSend(m)' \subseteq ToSend(m) \ {w}
      BY <1>0, <2>1, <2>2 DEF ToSend, TypeOK, ConsumerTypeOK
    <3>3. Cardinality(ToSend(m)') + 1 <= Cardinality(ToSend(m))
      BY <3>2, TallyType, OneLess
    <3> QED  BY <1>1, <1>2, <2>1, <3>1, <3>3, TallyType, TallyTypeNext DEF Tally
  <2>3. CASE held[w] # m
    BY <1>3, <2>1, <2>3, TallyType DEF TypeOK, ProviderTypeOK
  <2> QED  BY <2>2, <2>3
<1>6. CASE \E v \in Verdict : SendFails(w, v)
  BY <1>3, <1>6, TallyType DEF SendFails, Fails
<1>7. CASE SendLosesReply(w)
  <2>1. /\ receipts' = [receipts EXCEPT ![held[w]] = @ + 1]
        /\ disruptions' = disruptions + 1
    BY <1>7 DEF SendLosesReply, LosesReply, Disrupt
  <2>2. receipts'[m] \in {receipts[m], receipts[m] + 1}
    BY <1>0, <2>1 DEF TypeOK, ProviderTypeOK
  <2> QED  BY <1>3, <1>4, <2>1, <2>2, TallyType
<1>8. CASE SendIsCut(w)
  <2>1. PICK reached \in {0, 1} :
          /\ receipts' = [receipts EXCEPT ![held[w]] = @ + reached]
          /\ reached = 1 => pc[w] = "inflight"
    BY <1>8 DEF SendIsCut, IsCut, SendErrs, Goto
  <2>2. UNCHANGED disruptions /\ Context(w) = "stopping"
    BY <1>8 DEF SendIsCut, IsCut
  <2>3. CASE held[w] = m /\ reached = 1
    <3>1. receipts'[m] = receipts[m] + 1
      BY <2>1, <2>3 DEF TypeOK, ProviderTypeOK
    <3>2. w \in MayBeCut(m) /\ MayBeCut(m)' \subseteq MayBeCut(m) \ {w}
      BY <1>0, <2>1, <2>2, <2>3 DEF MayBeCut, Context, TypeOK, ConsumerTypeOK
    <3>3. Cardinality(MayBeCut(m)') + 1 <= Cardinality(MayBeCut(m))
      BY <3>2, TallyType, OneLess
    <3> QED  BY <1>1, <1>2, <2>2, <3>1, <3>3, TallyType, TallyTypeNext DEF Tally
  <2>4. CASE held[w] # m \/ reached = 0
    <3>1. receipts'[m] = receipts[m]
      BY <1>0, <2>1, <2>4 DEF TypeOK, ProviderTypeOK
    <3> QED  BY <1>3, <2>2, <3>1, TallyType
  <2> QED  BY <2>3, <2>4
<1> QED  BY <1>5, <1>6, <1>7, <1>8

LEMMA WorkerStepTally ==
  ASSUME TypeOK, TypeOK', BodiesKnown, WorkersHoldCopies, ReceiptsInv,
         NEW w \in Workers, WorkerStep(w)
  PROVE  ReceiptsInv'
<1> SUFFICES ASSUME NEW m \in Messages  PROVE Tally(m)' <= 1 + disruptions'
  BY DEF ReceiptsInv
<1>0. /\ UNCHANGED life
      /\ Tally(m) <= 1 + disruptions
      /\ disruptions <= disruptions'
  BY WorkerStepKinds, NextDisruptions, TallyType DEF ReceiptsInv, Next
<1>1. CASE \E k \in Messages : Take(w, k)
  BY <1>0, <1>1, TakeTally
<1>2. CASE Settles(w)
  BY <1>0, <1>2, SettlesTally
<1>3. CASE \/ SendSucceeds(w) \/ (\E v \in Verdict : SendFails(w, v))
           \/ SendLosesReply(w) \/ SendIsCut(w)
  BY <1>0, <1>3, SendTally
<1>4. ASSUME UNCHANGED <<place, held, receipts>>,
             NEW q, pc' = [pc EXCEPT ![w] = q],
             q = "inflight" => Context(w) = "running",
             q \notin {"delivered", "acking"} =>
               pc[w] \notin {"delivered", "acking"} \/ held[w] = NoMessage
      PROVE  Tally(m)' <= 1 + disruptions'
  <2>1. Waiting(m)' = Waiting(m)
    BY <1>4 DEF Waiting
  <2>2. ToSend(m)' \subseteq ToSend(m) /\ MayBeCut(m)' \subseteq MayBeCut(m)
    BY <1>0, <1>4, NoMessageAssumption DEF ToSend, MayBeCut, Context, TypeOK, ConsumerTypeOK
  <2> QED  BY <1>0, <1>4, <2>1, <2>2, TallyQuiet, TallyType
<1>5. CASE \/ ReadFresh(w) \/ MarkSending(w) \/ RateLimitPass(w) \/ RateLimitDenied(w)
           \/ WindowOpens(w) \/ StartSend(w) \/ ExitWorker(w)
  BY <1>4, <1>5 DEF ReadFresh, MarkSending, RateLimitPass, RateLimitDenied, WindowOpens,
     StartSend, ExitWorker, Goto, WorkerWrites, brokerVars, providerVars
<1>6. CASE MarkSent(w) \/ CountFailure(w) \/ MarkFailed(w) \/ MarkRetrying(w)
  BY <1>4, <1>6 DEF MarkSent, CountFailure, MarkFailed, MarkRetrying, Goto, WorkerWrites,
     brokerVars, providerVars
<1> QED
  BY <1>1, <1>2, <1>3, <1>5, <1>6
  DEF WorkerStep, Process, Settles, LimitedInterrupted, AckDelivered, RejectToDLQ, Requeue

LEMMA LifecycleStepTally ==
  ASSUME TypeOK, TypeOK', WorkersHoldCopies, HoldersInv, ReceiptsInv,
         NEW i \in Instances, LifecycleStep(i)
  PROVE  ReceiptsInv'
<1> SUFFICES ASSUME NEW m \in Messages  PROVE Tally(m)' <= 1 + disruptions'
  BY DEF ReceiptsInv
<1> USE InstanceOfAssumption, NoMessageAssumption
<1>0. Tally(m) <= 1 + disruptions /\ receipts'[m] = receipts[m]
  BY DEF ReceiptsInv, LifecycleStep, providerVars
<1>1. CASE Stop(i)
  <2>1. /\ life' = [life EXCEPT ![i] = "stopping"] /\ disruptions' = disruptions + 1
        /\ UNCHANGED <<place, pc, held>>
    BY <1>1 DEF Stop, Disrupt, brokerVars, workerVars
  <2>2. Waiting(m)' = Waiting(m) /\ ToSend(m)' \subseteq ToSend(m)
    BY <2>1 DEF Waiting, ToSend
  <2>3. \E x : MayBeCut(m)' \subseteq MayBeCut(m) \cup {x}
    <3>1. CASE \E w \in Workers : held[w] = m /\ InstanceOf[w] = i
      <4>1. PICK w \in Workers : held[w] = m /\ InstanceOf[w] = i
        BY <3>1
      <4>2. MayBeCut(m)' \subseteq MayBeCut(m) \cup {w}
        BY <2>1, <4>1 DEF MayBeCut, Context, HoldersInv, HoldersApart, TypeOK, ProcessTypeOK
      <4> QED  BY <4>2
    <3>2. CASE ~\E w \in Workers : held[w] = m /\ InstanceOf[w] = i
      BY <2>1, <3>2 DEF MayBeCut, Context, TypeOK, ProcessTypeOK
    <3> QED  BY <3>1, <3>2
  <2> QED  BY <1>0, <2>1, <2>2, <2>3, TallyFault
<1>2. CASE Restart(i) \/ LoseChannel(i)
  <2>1. /\ UNCHANGED <<place, pc, held>>
        /\ disruptions <= disruptions'
        /\ life' = life \/ (life[i] = "down" /\ life' = [life EXCEPT ![i] = "running"])
    BY <1>2, TallyType DEF Restart, LoseChannel, Disrupt, brokerVars, workerVars
  <2>2. Waiting(m)' = Waiting(m) /\ ToSend(m)' \subseteq ToSend(m)
    BY <2>1 DEF Waiting, ToSend
  <2>3. MayBeCut(m)' \subseteq MayBeCut(m)
    BY <2>1 DEF MayBeCut, Context, TypeOK, ProcessTypeOK
  <2> QED  BY <1>0, <2>1, <2>2, <2>3, TallyQuiet, TallyType
<1>3. CASE LoseLink(i) \/ Crash(i)
  <2>1. /\ disruptions' = disruptions + 1
        /\ \A w \in Workers : pc'[w] = "idle" \/ (pc'[w] = pc[w] /\ held'[w] = held[w])
        /\ \A w \in Workers : pc'[w] = "idle" => held'[w] = NoMessage
        /\ life' = life \/ life' = [life EXCEPT ![i] = "down"]
    BY <1>3 DEF LoseLink, Crash, ProcessEnds, WorkersReset, Disrupt, workerVars,
       WorkersHoldCopies
  <2>2. ToSend(m)' \subseteq ToSend(m) /\ MayBeCut(m)' \subseteq MayBeCut(m)
    BY <2>1 DEF ToSend, MayBeCut, Context, TypeOK, ProcessTypeOK
  <2> QED  BY <1>0, <2>1, <2>2, TallyFault
<1>4. CASE Exit(i)
  <2>1. HeldBy(i) = {}
    BY <1>4 DEF Exit, HeldBy, WorkersHoldCopies
  <2>2. /\ UNCHANGED disruptions /\ \A k \in Messages : place'[k] = place[k]
        /\ \A w \in Workers : pc'[w] = "idle" \/ (pc'[w] = pc[w] /\ held'[w] = held[w])
        /\ \A w \in Workers : InstanceOf[w] = i => held'[w] = NoMessage
        /\ \A w \in Workers : InstanceOf[w] # i => pc'[w] = pc[w] /\ held'[w] = held[w]
        /\ life' = [life EXCEPT ![i] = "down"]
    BY <1>4, <2>1 DEF Exit, ProcessEnds, WorkersReset, Redeliver
  <2>3. ToSend(m)' \subseteq ToSend(m) /\ MayBeCut(m)' \subseteq MayBeCut(m)
    BY <2>2 DEF ToSend, MayBeCut, Context, TypeOK, ProcessTypeOK
  <2>4. Waiting(m)' = Waiting(m)
    BY <2>2 DEF Waiting
  <2> QED  BY <1>0, <2>2, <2>3, <2>4, TallyQuiet, TallyType
<1> QED  BY <1>1, <1>2, <1>3, <1>4 DEF LifecycleStep

LEMMA NextReceipts ==
  ASSUME TypeOK, BodiesKnown, WorkersHoldCopies, HoldersInv, ReceiptsInv, [Next]_vars
  PROVE  ReceiptsInv'
<1>0. TypeOK'
  BY NextType
<1>1. ASSUME ServiceStep  PROVE ReceiptsInv'
  <2>1. UNCHANGED <<life, pc, held, receipts>>
    BY <1>1 DEF ServiceStep, processVars, workerVars, providerVars
  <2>2. \/ place' = place
        \/ \E m \in Messages : place[m] = "unused" /\ place' = [place EXCEPT ![m] = "ready"]
    BY <1>1, PublisherCopies
  <2> QED  BY <1>0, <2>1, <2>2, PublisherStepTally
<1>2. ASSUME NEW i \in Instances, SchedulerStep(i)  PROVE ReceiptsInv'
  <2>1. UNCHANGED <<life, pc, held, receipts>>
    BY <1>2 DEF SchedulerStep, processVars, workerVars, providerVars
  <2>2. \/ place' = place
        \/ \E m \in Messages : place[m] = "unused" /\ place' = [place EXCEPT ![m] = "ready"]
    BY <1>2, PublisherCopies
  <2> QED  BY <1>0, <2>1, <2>2, PublisherStepTally
<1>3. CASE ClockStep \/ UNCHANGED vars
  BY <1>0, <1>3, PublisherStepTally
  DEF ClockStep, vars, brokerVars, processVars, workerVars, providerVars
<1>4. ASSUME BrokerRestarts, NEW m \in Messages  PROVE Tally(m)' <= 1 + disruptions'
  <2>1. /\ disruptions' = disruptions + 1 /\ UNCHANGED <<life, pc, held, receipts>>
    BY <1>4 DEF BrokerRestarts, Disrupt, workerVars, providerVars
  <2>2. ToSend(m)' \subseteq ToSend(m) /\ MayBeCut(m)' \subseteq MayBeCut(m)
    BY <2>1 DEF ToSend, MayBeCut, Context
  <2> QED  BY <1>0, <2>1, <2>2, TallyFault DEF ReceiptsInv
<1>5. CASE BrokerRestarts
  BY <1>4, <1>5 DEF ReceiptsInv
<1> QED
  BY <1>0, <1>1, <1>2, <1>3, <1>5, WorkerStepTally, LifecycleStepTally DEF Next

LEMMA InitReceipts ==
  ASSUME Init
  PROVE  ReceiptsInv
<1> SUFFICES ASSUME NEW m \in Messages  PROVE Tally(m) <= 1 + disruptions
  BY DEF ReceiptsInv
<1>1. receipts[m] = 0 /\ Waiting(m) = 1 /\ disruptions = 0
  BY DEF Init, BrokerInit, ProviderInit, Waiting
<1>2. ToSend(m) = {} /\ MayBeCut(m) = {}
  BY NoMessageAssumption DEF Init, ConsumerInit, ToSend, MayBeCut
<1> QED  BY <1>1, <1>2, FS_EmptySet DEF Tally

(***************************************************************************)
(* At least once, and once more for each fault at the very most: the       *)
(* provider is sent a copy again only when a reply was lost, a process     *)
(* stopped or crashed, or a connection closed, whoever else is at work.    *)
(***************************************************************************)
THEOREM HardlyEverTwice == Spec => []ReceiptsBounded
<1> DEFINE Inv == TypeOK /\ BodiesKnown /\ WorkersHoldCopies /\ HoldersInv /\ ReceiptsInv
<1>1. Init => Inv
  BY InitTyped, InitHolders, InitReceipts
<1>2. Inv /\ [Next]_vars => Inv'
  BY NextType, NextCopies, NextHolds, NextHolders, NextReceipts
<1>3. Inv => ReceiptsBounded
  <2> SUFFICES ASSUME Inv, NEW m \in Messages  PROVE receipts[m] <= 1 + disruptions
    BY DEF ReceiptsBounded
  <2> QED  BY TallyType DEF Tally, ReceiptsInv
<1> QED  BY <1>1, <1>2, <1>3, PTL DEF Spec

=============================================================================
