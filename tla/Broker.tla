------------------------------- MODULE Broker -------------------------------
(***************************************************************************)
(* The work queue of one channel and its dead-letter queue in RabbitMQ, as *)
(* setup() declares them and publisher and consumer use them.  Every       *)
(* Publish makes a copy with an identity of its own, so that two copies of *)
(* one notification can be told apart.  Queues are durable and messages    *)
(* persistent: a copy survives a restart of the clients.  The order within *)
(* the queue (priority) is left open: any ready copy may be delivered.  A  *)
(* copy prefetched into a client's buffer but not yet taken by a worker is *)
(* still "ready" here: nobody has acted on it.                             *)
(***************************************************************************)
EXTENDS Notification

CONSTANTS Messages,   \* identities of the copies, one per Publish, in that order
          NoBody      \* stands for "nothing published under this identity"

ASSUME MessagesAssumption == Messages \subseteq Nat
ASSUME NoBodyAssumption == NoBody \notin Body

VARIABLES place,   \* where each copy is
          body     \* what it carries

brokerVars == <<place, body>>

\* "acked" copies are gone from the broker; "dead" ones sit in the DLQ.
Place == {"unused", "ready", "unacked", "acked", "dead"}

BrokerTypeOK ==
  /\ place \in [Messages -> Place]
  /\ body \in [Messages -> Body \cup {NoBody}]

BrokerInit ==
  /\ place = [m \in Messages |-> "unused"]
  /\ body = [m \in Messages |-> NoBody]

Published(m) == place[m] # "unused"
Live(m) == place[m] \in {"ready", "unacked"}

-----------------------------------------------------------------------------
\* The broker routes b to the queue; m is the next identity.
Publish(m, b) ==
  /\ place[m] = "unused"
  /\ \A k \in Messages : k < m => Published(k)
  /\ place' = [place EXCEPT ![m] = "ready"]
  /\ body' = [body EXCEPT ![m] = b]

Deliver(m) ==
  /\ place[m] = "ready"
  /\ place' = [place EXCEPT ![m] = "unacked"]
  /\ UNCHANGED body

\* Ack, Nack without requeue (to the DLQ) and Nack with requeue.
Settle(m, outcome) ==
  /\ place' = [place EXCEPT ![m] = outcome]
  /\ UNCHANGED body

\* The broker takes back what a closed connection had not acknowledged.
Redeliver(S) ==
  /\ place' = [m \in Messages |-> IF m \in S THEN "ready" ELSE place[m]]
  /\ UNCHANGED body

=============================================================================
