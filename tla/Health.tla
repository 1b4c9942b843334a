------------------------------- MODULE Health -------------------------------
(***************************************************************************)
(* GET /health and GET /metrics (internal/handler/health.go).  Both use    *)
(* one cached RabbitMQ connection behind a mutex.  pc names the next call: *)
(*   postgres, redis      the pings of Health                              *)
(*   snapshot             the GROUP BY of Metrics                          *)
(*   lock, look, dial     getAMQPConn                                      *)
(*   depths, latency      the queues, and the second query of Metrics      *)
(*   answered             the response is written                          *)
(***************************************************************************)
EXTENDS ReadView, Faults

CONSTANTS Probers,   \* who asks, one question at a time
          NoProber

ASSUME NoProberAssumption == NoProber \notin Probers

Dependencies == {"postgres", "redis", "rabbitmq"}

VARIABLES up,            \* the dependencies that answer in time
          conn,          \* h.amqpConn; "dead" if the peer is gone and nobody knows
          connections,   \* how many connections of the handler are not closed
          lock,          \* h.amqpMu
          probe          \* the calls in progress

healthVars == <<up, conn, connections, lock, probe>>

(***************************************************************************)
(* clean is not state of the program: nothing has been down since the call *)
(* came in.                                                                *)
(***************************************************************************)
Probe == [pc : {"idle", "postgres", "redis", "snapshot", "lock", "look", "dial", "depths",
                "latency", "answered"},
          kind : {"none", "health", "metrics"}, healthy : BOOLEAN, clean : BOOLEAN,
          sent : SUBSET Channels, latency : SUBSET Channels]
NoProbe == [pc |-> "idle", kind |-> "none", healthy |-> TRUE, clean |-> TRUE,
            sent |-> {}, latency |-> {}]

HealthTypeOK ==
  /\ up \subseteq Dependencies
  /\ conn \in {"none", "open", "dead", "closed"}
  /\ connections \in Nat
  /\ lock \in Probers \cup {NoProber}
  /\ probe \in [Probers -> Probe]
  /\ connections > 0 <=> conn \in {"open", "dead"}
  /\ \A c \in Probers : lock = c <=> probe[c].pc \in {"look", "dial"}

HealthInit ==
  /\ up = Dependencies
  /\ conn = "none" /\ connections = 0 /\ lock = NoProber
  /\ probe = [c \in Probers |-> NoProbe]

-----------------------------------------------------------------------------
StartProbe(c, kind) ==
  /\ probe[c].pc = "idle"
  /\ probe' = [probe EXCEPT ![c] =
                 [@ EXCEPT !.kind = kind, !.clean = (up = Dependencies),
                           !.pc = IF kind = "health" THEN "postgres" ELSE "snapshot"]]
  /\ UNCHANGED <<up, conn, connections, lock>>

\* A call goes on, having found out whether a dependency is there.
Judged(call, next, ok) == [call EXCEPT !.pc = next, !.healthy = @ /\ ok]

Ping(c, dependency, next) ==
  /\ probe[c].pc = dependency
  /\ probe' = [probe EXCEPT ![c] = Judged(@, next, dependency \in up)]
  /\ UNCHANGED <<up, conn, connections, lock>>

SentChannels == {ChannelOf[i] : i \in {j \in Present : entries[j].status = "sent"}}
TimedChannels == {ChannelOf[i] : i \in {j \in Present : entries[j].sent_at}}

\* A query that fails is a 500, and the end of the call.
Snapshot(c) ==
  /\ probe[c].pc = "snapshot"
  /\ probe' = [probe EXCEPT ![c] =
                 IF "postgres" \in up THEN [@ EXCEPT !.pc = "lock", !.sent = SentChannels]
                 ELSE NoProbe]
  /\ UNCHANGED <<up, conn, connections, lock>>

-----------------------------------------------------------------------------
\* Mutant: getAMQPConn without the mutex.
LockIgnored(c) ==
  /\ probe[c].pc = "lock"
  /\ lock' = c
  /\ probe' = [probe EXCEPT ![c].pc = "look"]
  /\ UNCHANGED <<up, conn, connections>>

Lock(c) ==
  /\ probe[c].pc = "lock" /\ lock = NoProber
  /\ lock' = c
  /\ probe' = [probe EXCEPT ![c].pc = "look"]
  /\ UNCHANGED <<up, conn, connections>>

\* What the handler does with the connection, or with the error.
Continue(c, connected) ==
  IF probe[c].kind = "health"
  THEN probe' = [probe EXCEPT ![c] = Judged(@, "answered", connected)]
  ELSE probe' = [probe EXCEPT ![c].pc = IF connected THEN "depths" ELSE "latency"]

\* IsClosed does not know that a connection is dead.
CachedConn(c) ==
  /\ probe[c].pc = "look" /\ conn \in {"open", "dead"}
  /\ lock' = NoProber
  /\ Continue(c, TRUE)
  /\ UNCHANGED <<up, conn, connections>>

\* Mutant: a connection that was closed is an error for ever.
NoCachedConnOnce(c) ==
  /\ probe[c].pc = "look" /\ conn \in {"none", "closed"}
  /\ IF conn = "none"
     THEN probe' = [probe EXCEPT ![c].pc = "dial"] /\ UNCHANGED lock
     ELSE Continue(c, FALSE) /\ lock' = NoProber
  /\ UNCHANGED <<up, conn, connections>>

NoCachedConn(c) ==
  /\ probe[c].pc = "look" /\ conn \in {"none", "closed"}
  /\ probe' = [probe EXCEPT ![c].pc = "dial"]
  /\ UNCHANGED <<up, conn, connections, lock>>

Dial(c) ==
  /\ probe[c].pc = "dial" /\ "rabbitmq" \in up
  /\ conn' = "open" /\ connections' = connections + 1
  /\ lock' = NoProber
  /\ Continue(c, TRUE)
  /\ UNCHANGED up

\* Mutant: the error path returns with the mutex locked.
DialFailsLocked(c) ==
  /\ probe[c].pc = "dial" /\ "rabbitmq" \notin up
  /\ Continue(c, FALSE)
  /\ UNCHANGED <<up, conn, connections, lock>>

DialFails(c) ==
  /\ probe[c].pc = "dial" /\ "rabbitmq" \notin up
  /\ lock' = NoProber
  /\ Continue(c, FALSE)
  /\ UNCHANGED <<up, conn, connections>>

-----------------------------------------------------------------------------
\* Channel() and the passive declarations wait on a dead connection until
\* it is found dead; if anything fails, depths are missing from the answer.
Depths(c) ==
  /\ probe[c].pc = "depths" /\ conn # "dead"
  /\ probe' = [probe EXCEPT ![c].pc = "latency"]
  /\ UNCHANGED <<up, conn, connections, lock>>

\* Mutant: the average over the rows of status sent.
LatencyOfSent(c) ==
  /\ probe[c].pc = "latency"
  /\ probe' = [probe EXCEPT ![c] =
                 IF "postgres" \in up THEN [@ EXCEPT !.pc = "answered", !.latency = SentChannels]
                 ELSE NoProbe]
  /\ UNCHANGED <<up, conn, connections, lock>>

Latency(c) ==
  /\ probe[c].pc = "latency"
  /\ probe' = [probe EXCEPT ![c] =
                 IF "postgres" \in up THEN [@ EXCEPT !.pc = "answered", !.latency = TimedChannels]
                 ELSE NoProbe]
  /\ UNCHANGED <<up, conn, connections, lock>>

Answered(c) ==
  /\ probe[c].pc = "answered"
  /\ probe' = [probe EXCEPT ![c] = NoProbe]
  /\ UNCHANGED <<up, conn, connections, lock>>

ProbeStep(c) ==
  \/ Ping(c, "postgres", "redis") \/ Ping(c, "redis", "lock") \/ Snapshot(c) \/ Lock(c)
  \/ CachedConn(c) \/ NoCachedConn(c) \/ Dial(c) \/ DialFails(c) \/ Depths(c)
  \/ Latency(c) \/ Answered(c)

-----------------------------------------------------------------------------
BreakDown(dependency) ==
  /\ dependency \in up
  /\ Disrupt("outage")
  /\ up' = up \ {dependency}
  /\ conn' = IF dependency = "rabbitmq" /\ conn = "open" THEN "dead" ELSE conn
  /\ probe' = [c \in Probers |->
                 IF probe[c].pc = "idle" THEN NoProbe ELSE [probe[c] EXCEPT !.clean = FALSE]]
  /\ UNCHANGED <<connections, lock>>

Recover(dependency) ==
  /\ dependency \notin up
  /\ up' = up \cup {dependency}
  /\ UNCHANGED <<conn, connections, lock, probe, disruptions>>

\* A reset, or heartbeats that do not come.
FoundDead ==
  /\ conn = "dead"
  /\ conn' = "closed" /\ connections' = 0
  /\ UNCHANGED <<up, lock, probe, disruptions>>

-----------------------------------------------------------------------------
(***************************************************************************)
(* A channel of which something was sent has a latency in the same answer, *)
(* although that is another query, and a row once sent may have got        *)
(* another status in between.                                              *)
(***************************************************************************)
SentHasLatency ==
  \A c \in Probers :
    probe[c].kind = "metrics" /\ probe[c].pc = "answered" => probe[c].sent \subseteq probe[c].latency

(***************************************************************************)
(* Health does not cry wolf: if nothing was down during the call, it says  *)
(* healthy, even if the cached connection was lost before.                 *)
(***************************************************************************)
NoFalseAlarm ==
  \A c \in Probers :
    probe[c].kind = "health" /\ probe[c].pc = "answered" /\ probe[c].clean => probe[c].healthy

\* However many ask at once, the handler keeps one connection to RabbitMQ.
OneConnection == connections <= 1

=============================================================================
