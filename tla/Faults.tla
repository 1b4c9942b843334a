------------------------------- MODULE Faults -------------------------------
(***************************************************************************)
(* What the surroundings of the program may do to it, and how often.  Each *)
(* fault draws on one budget, MaxDisruptions, which is a bound of the      *)
(* model: it keeps state spaces finite and lets a property say how much    *)
(* damage it tolerates.                                                    *)
(*   "db"       a statement fails without effect                           *)
(*   "api-channel"     the channel the API publishes on closes             *)
(*   "worker-channel"  the one a worker process's scheduler publishes on   *)
(*   "broker"          RabbitMQ restarts: every connection is closed       *)
(*   "lost"     Publish returns nil, but the message never reaches the     *)
(*              queue: the channel is not in confirm mode and the message  *)
(*              is not mandatory, so nil only means written to the socket  *)
(*   "reply"    the provider accepts, its answer is lost (timeout, reset)  *)
(*   "limiter"  the Redis call of the rate limiter fails                   *)
(*   "commit"   a COMMIT takes effect, but the program sees an error       *)
(*   "crash"    a process is killed                                        *)
(*   "stop"     a worker process receives SIGTERM                          *)
(*   "link"     a worker process loses the consumer's connection           *)
(*   "outage"   PostgreSQL, Redis or RabbitMQ does not answer in time      *)
(***************************************************************************)
EXTENDS Naturals

CONSTANTS Faults,          \* the kinds that may occur
          MaxDisruptions   \* how many in all

ASSUME MaxDisruptionsAssumption == MaxDisruptions \in Nat

VARIABLE disruptions

FaultsTypeOK == disruptions \in 0 .. MaxDisruptions

Disrupt(kind) ==
  /\ kind \in Faults
  /\ disruptions < MaxDisruptions
  /\ disruptions' = disruptions + 1

=============================================================================
