------------------------------ MODULE ApiReads ------------------------------
(***************************************************************************)
(* The read endpoints of the API over a table that others write.  They     *)
(* share nothing but that table, which they only read, so that a client    *)
(* that pages and calls of /health and /metrics are not in each other's    *)
(* way: the model lets clients page before the first connection to         *)
(* RabbitMQ is opened, which bounds its states.                            *)
(***************************************************************************)
EXTENDS Listing, Health

apiVars == <<viewVars, walk, healthVars, disruptions>>

ApiReadsTypeOK == ViewTypeOK /\ ListingTypeOK /\ HealthTypeOK /\ FaultsTypeOK

ApiReadsInit == ViewInit /\ ListingInit /\ HealthInit /\ disruptions = 0

BeforeProbes == conn = "none" /\ up = Dependencies /\ \A c \in Probers : probe[c].pc = "idle"

ListingNext ==
  \/ /\ BeforeProbes
     /\ \E request \in Requests : StartWalk(request)
     /\ UNCHANGED disruptions
  \/ WalkStep
  \/ ListFails

HealthNext ==
  \/ /\ walk = NoWalk
     /\ \E c \in Probers, kind \in {"health", "metrics"} : StartProbe(c, kind)
     /\ UNCHANGED disruptions
  \/ (\E c \in Probers : ProbeStep(c)) /\ UNCHANGED disruptions
  \/ (\E dependency \in Dependencies : BreakDown(dependency) \/ Recover(dependency))
  \/ FoundDead

ApiReadsNext ==
  \/ ViewNext /\ UNCHANGED <<walk, healthVars, disruptions>>
  \/ ListingNext /\ UNCHANGED <<viewVars, healthVars>>
  \/ HealthNext /\ UNCHANGED <<viewVars, walk>>

(***************************************************************************)
(* Handlers run on.  A sync.Mutex does not starve a goroutine that waits   *)
(* for it, and a dead connection is found out by its heartbeats.           *)
(***************************************************************************)
ApiReadsSpec ==
  /\ ApiReadsInit /\ [][ApiReadsNext]_apiVars
  /\ WF_walk(WalkStep)
  /\ \A c \in Probers : WF_probe(ProbeStep(c)) /\ SF_probe(Lock(c))
  /\ WF_conn(FoundDead)

-----------------------------------------------------------------------------
(***************************************************************************)
(* Every call gets its answer: nobody keeps the mutex, or waits for ever   *)
(* on a broker that is gone.                                               *)
(***************************************************************************)
ReadsEnd == []<>(walk = NoWalk) /\ \A c \in Probers : []<>(probe[c].pc = "idle")

=============================================================================
