------------------------------ MODULE Consumer ------------------------------
(***************************************************************************)
(* The worker goroutines (internal/queue/consumer.go).  A worker takes a   *)
(* copy and carries it through processMessage and handleFailure; every     *)
(* call that touches the database, Redis, the provider or the broker is a  *)
(* step of its own, so that everything else may happen in between.  Errors *)
(* of the database are dropped throughout.                                 *)
(*                                                                         *)
(* pc[w] names the call the worker is about to make:                       *)
(*   idle        the select of worker()                                    *)
(*   received    GetByID                                                   *)
(*   loaded      UpdateStatus sending                                      *)
(*   limiting    limiter.Allow             limited    waiting, over limit  *)
(*   sending     provider.Send             inflight    in client.Do        *)
(*   delivered   UpdateStatus sent         acking     Ack                  *)
(*   failing     IncrementRetry                                            *)
(*   exhausted   UpdateStatus failed       rejecting  Nack, no requeue     *)
(*   retrying    UpdateStatus queued       backoff    Nack, requeue        *)
(*   exited      the goroutine has returned                                *)
(***************************************************************************)
EXTENDS WorkerProcess, Provider

CONSTANTS Workers,      \* the goroutines of all instances
          InstanceOf,   \* the process each of them runs in
          MaxRetries,   \* WORKER_MAX_RETRIES
          NoMessage

ASSUME WorkersAssumption == IsFiniteSet(Workers)
ASSUME InstanceOfAssumption == InstanceOf \in [Workers -> Instances]
ASSUME MaxRetriesAssumption == MaxRetries \in Nat \ {0}
ASSUME NoMessageAssumption == NoMessage \notin Messages

VARIABLES pc,
          held,     \* the copy being processed
          seen,     \* n.RetryCount of the struct in memory
          verdict   \* the kind of the error Send returned

workerVars == <<pc, held, seen, verdict>>

PC == {"idle", "received", "loaded", "limiting", "limited", "sending",
       "inflight", "delivered", "acking", "failing", "exhausted", "rejecting",
       "retrying", "backoff", "exited"}

ConsumerTypeOK ==
  /\ pc \in [Workers -> PC]
  /\ held \in [Workers -> Messages \cup {NoMessage}]
  /\ seen \in [Workers -> Nat]
  /\ verdict \in [Workers -> Verdict]

ConsumerInit ==
  /\ pc = [w \in Workers |-> "idle"]
  /\ held = [w \in Workers |-> NoMessage]
  /\ seen = [w \in Workers |-> 0]
  /\ verdict = [w \in Workers |-> "transient"]

Context(w) == life[InstanceOf[w]]
LinkOpen(w) == link[InstanceOf[w]] = "open"

Goto(w, from, to) ==
  /\ pc[w] = from
  /\ pc' = [pc EXCEPT ![w] = to]

\* A write of worker w about the notification it is processing.
WorkerWrites(w, statement) ==
  /\ Write(InstanceOf[w], statement)
  /\ UNCHANGED <<held, brokerVars, providerVars>>

(***************************************************************************)
(* Ack or Nack of the held copy, after which processMessage returns.  Over *)
(* a closed connection it is an error, logged, and the broker has long put *)
(* the copy back.                                                          *)
(***************************************************************************)
Finish(w, from, outcome) ==
  /\ Goto(w, from, "idle")
  /\ IF LinkOpen(w) THEN Settle(held[w], outcome) ELSE UNCHANGED brokerVars
  /\ held' = [held EXCEPT ![w] = NoMessage]
  /\ seen' = [seen EXCEPT ![w] = 0]
  /\ verdict' = [verdict EXCEPT ![w] = "transient"]
  /\ UNCHANGED <<rows, providerVars, disruptions>>

-----------------------------------------------------------------------------
(***************************************************************************)
(* The select picks a delivery although the context may be cancelled too:  *)
(* with several cases ready, Go chooses at random.                         *)
(***************************************************************************)
Take(w, m) ==
  /\ Goto(w, "idle", "received")
  /\ Context(w) # "down" /\ LinkOpen(w)
  /\ Deliver(m)
  /\ held' = [held EXCEPT ![w] = m]
  /\ seen' = [seen EXCEPT ![w] = body[m].retry_count]
  /\ UNCHANGED <<rows, verdict, providerVars, disruptions>>

\* What the mutants below do: return without an Ack or a Nack.
ReturnUnsettled(w, from) ==
  /\ Goto(w, from, "idle")
  /\ held' = [held EXCEPT ![w] = NoMessage]
  /\ seen' = [seen EXCEPT ![w] = 0]
  /\ verdict' = [verdict EXCEPT ![w] = "transient"]
  /\ UNCHANGED <<rows, brokerVars, providerVars, disruptions>>

\* ctx.Done(), c.done, or the closed deliveries channel.
ExitWorker(w) ==
  /\ Goto(w, "idle", "exited")
  /\ Context(w) = "stopping" \/ ~LinkOpen(w)
  /\ UNCHANGED <<rows, held, seen, verdict, brokerVars, providerVars, disruptions>>

\* When GetByID fails, the retry_count of the message body stays.
ReadFresh(w) ==
  /\ Goto(w, "received", "loaded")
  /\ \/ /\ Context(w) = "running"
        /\ seen' = [seen EXCEPT ![w] = rows[body[held[w]].id].retry_count]
        /\ UNCHANGED disruptions
     \/ /\ Context(w) = "running"
        /\ Disrupt("db")
        /\ UNCHANGED seen
     \/ /\ Context(w) = "stopping"
        /\ UNCHANGED <<seen, disruptions>>
  /\ UNCHANGED <<rows, held, verdict, brokerVars, providerVars>>

MarkSending(w) ==
  /\ Goto(w, "loaded", "limiting")
  /\ WorkerWrites(w, UpdateStatus(body[held[w]].id, "sending"))
  /\ UNCHANGED <<seen, verdict>>

(***************************************************************************)
(* The limiter grants, or fails: an error, of Redis or because the context *)
(* is cancelled, ends the loop as a grant does.                            *)
(***************************************************************************)
RateLimitPass(w) ==
  /\ Goto(w, "limiting", "sending")
  /\ \/ UNCHANGED disruptions
     \/ Disrupt("limiter")
  /\ UNCHANGED <<rows, held, seen, verdict, brokerVars, providerVars>>

RateLimitDenied(w) ==
  /\ Goto(w, "limiting", "limited")
  /\ Context(w) = "running"
  /\ UNCHANGED <<rows, held, seen, verdict, brokerVars, providerVars, disruptions>>

\* The next window opens; both cases of the select may be ready.
WindowOpens(w) ==
  /\ Goto(w, "limited", "limiting")
  /\ UNCHANGED <<rows, held, seen, verdict, brokerVars, providerVars, disruptions>>

\* Mutant: requeue is false.
LimitedInterruptedRejects(w) ==
  /\ Context(w) = "stopping"
  /\ Finish(w, "limited", "dead")

LimitedInterrupted(w) ==
  /\ Context(w) = "stopping"
  /\ Finish(w, "limited", "ready")

-----------------------------------------------------------------------------
StartSend(w) ==
  /\ Goto(w, "sending", "inflight")
  /\ Context(w) = "running"
  /\ UNCHANGED <<rows, held, seen, verdict, brokerVars, providerVars, disruptions>>

SendSucceeds(w) ==
  /\ Goto(w, "inflight", "delivered")
  /\ Context(w) = "running"
  /\ Accepts(held[w])
  /\ UNCHANGED <<rows, held, seen, verdict, brokerVars>>

\* handleFailure is entered with an error of kind v.
SendErrs(w, from, v) ==
  /\ Goto(w, from, "failing")
  /\ verdict' = [verdict EXCEPT ![w] = v]
  /\ UNCHANGED <<rows, held, seen, brokerVars>>

SendFails(w, v) ==
  /\ SendErrs(w, "inflight", v)
  /\ Context(w) = "running"
  /\ Fails(held[w], v)

SendLosesReply(w) ==
  /\ SendErrs(w, "inflight", "transient")
  /\ Context(w) = "running"
  /\ LosesReply(held[w])

\* The error of a cancelled context is no ProviderError, hence transient.
SendIsCut(w) ==
  /\ Context(w) = "stopping"
  /\ \/ SendErrs(w, "sending", "transient") /\ IsCut(held[w], 0)
     \/ \E reached \in {0, 1} :
          SendErrs(w, "inflight", "transient") /\ IsCut(held[w], reached)

MarkSent(w) ==
  /\ Goto(w, "delivered", "acking")
  /\ WorkerWrites(w, UpdateStatus(body[held[w]].id, "sent"))
  /\ UNCHANGED <<seen, verdict>>

\* Mutants: the copy is put back, or not settled at all.
AckDeliveredRequeues(w) == Finish(w, "acking", "ready")

AckDeliveredForgotten(w) == ReturnUnsettled(w, "acking")

AckDelivered(w) == Finish(w, "acking", "acked")

-----------------------------------------------------------------------------
\* currentRetry counts this failure, from the count that was read, not stored.
CurrentRetry(w) == seen[w] + 1

\* Mutant: off by one.
GivesUpEarly(w) == verdict[w] = "permanent" \/ CurrentRetry(w) + 1 >= MaxRetries

GivesUp(w) == verdict[w] = "permanent" \/ CurrentRetry(w) >= MaxRetries

\* Mutant: the failure is not stored.
CountFailureInMemory(w) ==
  /\ Goto(w, "failing", IF GivesUp(w) THEN "exhausted" ELSE "retrying")
  /\ UNCHANGED <<rows, held, seen, verdict, brokerVars, providerVars, disruptions>>

\* IncrementRetry, then the decision between the DLQ and another try.
CountFailure(w) ==
  /\ Goto(w, "failing", IF GivesUp(w) THEN "exhausted" ELSE "retrying")
  /\ WorkerWrites(w, IncrementRetry(body[held[w]].id))
  /\ UNCHANGED <<seen, verdict>>

\* Mutant: the row is left as it is.
MarkFailedForgotten(w) ==
  /\ Goto(w, "exhausted", "rejecting")
  /\ UNCHANGED <<rows, held, seen, verdict, brokerVars, providerVars, disruptions>>

MarkFailed(w) ==
  /\ Goto(w, "exhausted", "rejecting")
  /\ WorkerWrites(w, UpdateStatus(body[held[w]].id, "failed"))
  /\ UNCHANGED <<seen, verdict>>

\* Mutant: no Nack.
RejectForgotten(w) == ReturnUnsettled(w, "rejecting")

RejectToDLQ(w) == Finish(w, "rejecting", "dead")

\* Mutant: every failure is reported as final.
MarkRetryingAsFailed(w) ==
  /\ Goto(w, "retrying", "backoff")
  /\ WorkerWrites(w, UpdateStatus(body[held[w]].id, "failed"))
  /\ UNCHANGED <<seen, verdict>>

MarkRetrying(w) ==
  /\ Goto(w, "retrying", "backoff")
  /\ WorkerWrites(w, UpdateStatus(body[held[w]].id, "queued"))
  /\ UNCHANGED <<seen, verdict>>

\* Mutant: Ack instead of Nack.
RequeueAcks(w) == Finish(w, "backoff", "acked")

\* After the backoff, or at once when the context is cancelled.
Requeue(w) == Finish(w, "backoff", "ready")

-----------------------------------------------------------------------------
\* One step of processMessage and handleFailure.
Process(w) ==
  \/ ReadFresh(w) \/ MarkSending(w)
  \/ RateLimitPass(w) \/ RateLimitDenied(w) \/ WindowOpens(w) \/ LimitedInterrupted(w)
  \/ StartSend(w) \/ SendSucceeds(w) \/ (\E v \in Verdict : SendFails(w, v))
  \/ SendLosesReply(w) \/ SendIsCut(w)
  \/ MarkSent(w) \/ AckDelivered(w)
  \/ CountFailure(w) \/ MarkFailed(w) \/ RejectToDLQ(w)
  \/ MarkRetrying(w) \/ Requeue(w)

\* The goroutines of instance i are gone, or started anew with a new process.
WorkersReset(i) ==
  /\ pc' = [w \in Workers |-> IF InstanceOf[w] = i THEN "idle" ELSE pc[w]]
  /\ held' = [w \in Workers |-> IF InstanceOf[w] = i THEN NoMessage ELSE held[w]]
  /\ seen' = [w \in Workers |-> IF InstanceOf[w] = i THEN 0 ELSE seen[w]]
  /\ verdict' = [w \in Workers |-> IF InstanceOf[w] = i THEN "transient" ELSE verdict[w]]

\* The copies the broker counts as delivered to instance i.
HeldBy(i) ==
  {held[w] : w \in {v \in Workers : InstanceOf[v] = i /\ LinkOpen(v)}} \ {NoMessage}

=============================================================================
