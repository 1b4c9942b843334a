--------------------------- MODULE WorkerProcess ---------------------------
(***************************************************************************)
(* A worker process (cmd/worker/main.go) as its goroutines see it: whether *)
(* the context they were all given is cancelled, and whether the AMQP      *)
(* connections of the consumer and of the scheduler's publisher are open.  *)
(* Nothing in the program opens one of them again, or leaves the process,  *)
(* when it closes.                                                         *)
(***************************************************************************)
EXTENDS NotificationStore, Faults, FiniteSets

CONSTANT Instances   \* the worker processes

ASSUME InstancesAssumption == IsFiniteSet(Instances)

VARIABLES life,   \* "stopping" from cancel() until main returns
          link,   \* the consumer's AMQP connection
          channel \* the one the scheduler publishes on

processVars == <<life, link, channel>>

ProcessTypeOK ==
  /\ life \in [Instances -> {"running", "stopping", "down"}]
  /\ link \in [Instances -> {"open", "closed"}]
  /\ channel \in [Instances -> {"open", "closed"}]

ProcessInit ==
  /\ life = [i \in Instances |-> "running"]
  /\ link = [i \in Instances |-> "open"]
  /\ channel = [i \in Instances |-> "open"]

\* Mutant: the writes are made under context.Background().
WriteRegardless(i, statement) ==
  \/ statement /\ UNCHANGED disruptions
  \/ Disrupt("db") /\ UNCHANGED rows

(***************************************************************************)
(* A write to the database under the process's context, the way the worker *)
(* and the scheduler make it: the error is dropped.  Under a cancelled     *)
(* context the statement is never sent.                                    *)
(***************************************************************************)
Write(i, statement) ==
  \/ /\ life[i] = "running"
     /\ statement
     /\ UNCHANGED disruptions
  \/ /\ life[i] = "running"
     /\ Disrupt("db")
     /\ UNCHANGED rows
  \/ /\ life[i] = "stopping"
     /\ UNCHANGED <<rows, disruptions>>

=============================================================================
