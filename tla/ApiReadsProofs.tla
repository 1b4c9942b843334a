--------------------------- MODULE ApiReadsProofs ---------------------------
(***************************************************************************)
(* Theorems about ApiReads, for any table, any number of clients and any   *)
(* faults.  None of them depends on the fairness of ApiReadsSpec.          *)
(***************************************************************************)
EXTENDS ApiReads, FiniteSetTheorems, TLAPS

\* Whoever dials has found no connection, and holds the mutex since then.
DialMeansNone == \A c \in Probers : probe[c].pc = "dial" => conn \in {"none", "closed"}

ConnectionInv == HealthTypeOK /\ DialMeansNone /\ OneConnection

\* As long as a call is clean, everything is up, and nothing has failed it.
CleanMeansUp ==
  \A c \in Probers :
    /\ probe[c].pc = "idle" => probe[c] = NoProbe
    /\ probe[c].pc # "idle" /\ probe[c].clean => up = Dependencies /\ probe[c].healthy

\* A row that is sent has a sent_at, which it keeps, so that whoever has seen
\* it sent finds a latency.
RowsTimed == ViewTypeOK /\ \A i \in Present : entries[i].status = "sent" => entries[i].sent_at

-----------------------------------------------------------------------------
\* The steps of calls and of the dependencies, without the clients' walk.
HealthStep ==
  \/ \E c \in Probers, kind \in {"health", "metrics"} : StartProbe(c, kind)
  \/ \E c \in Probers : ProbeStep(c)
  \/ \E dependency \in Dependencies : BreakDown(dependency) \/ Recover(dependency)
  \/ FoundDead

LEMMA StepsOfHealth ==
  ASSUME [ApiReadsNext]_apiVars
  PROVE  \/ UNCHANGED viewVars /\ HealthStep
         \/ UNCHANGED healthVars /\ (UNCHANGED viewVars \/ ViewNext)
BY DEF ApiReadsNext, ListingNext, HealthNext, HealthStep, apiVars

USE NoProberAssumption

LEMMA ConnectionInit == ApiReadsInit => ConnectionInv
BY DEF ApiReadsInit, HealthInit, ConnectionInv, HealthTypeOK, DialMeansNone, OneConnection,
       Probe, NoProbe, Dependencies

\* A step that replaces the record of one call.
LEMMA OneCallMoves ==
  ASSUME ConnectionInv, NEW c \in Probers, NEW r \in Probe,
         probe' = [probe EXCEPT ![c] = r], up' = up,
         \/ lock' = lock /\ (r.pc \in {"look", "dial"} <=> probe[c].pc \in {"look", "dial"})
         \/ lock = NoProber /\ lock' = c /\ r.pc \in {"look", "dial"}
         \/ lock = c /\ lock' = NoProber /\ r.pc \notin {"look", "dial"},
         \/ UNCHANGED <<conn, connections>> /\ (r.pc = "dial" => conn \in {"none", "closed"})
         \/ probe[c].pc = "dial" /\ r.pc # "dial" /\ conn' = "open"
              /\ connections' = connections + 1
  PROVE  ConnectionInv'
<1> USE DEF ConnectionInv, HealthTypeOK, DialMeansNone, OneConnection
<1>1. probe' \in [Probers -> Probe] /\ probe'[c] = r /\ \A d \in Probers \ {c} : probe'[d] = probe[d]
  OBVIOUS
<1>2. \A d \in Probers : lock' = d <=> probe'[d].pc \in {"look", "dial"}
  BY <1>1
<1>3. lock' \in Probers \cup {NoProber} /\ up' \subseteq Dependencies
  OBVIOUS
<1>4. /\ conn' \in {"none", "open", "dead", "closed"} /\ connections' \in Nat
      /\ connections' > 0 <=> conn' \in {"open", "dead"}
      /\ connections' <= 1
  OBVIOUS
<1>5. DialMeansNone'
  BY <1>1, <1>2
<1> QED BY <1>1, <1>2, <1>3, <1>4, <1>5

\* A call that goes on.
MovedOn(p, pc) == [p EXCEPT !.pc = pc]

\* The records the steps of a call write.
LEMMA RecordOfCall ==
  ASSUME NEW p \in Probe
  PROVE  /\ \A pc \in {"look", "dial", "depths", "latency"} :
              MovedOn(p, pc) \in Probe /\ MovedOn(p, pc).pc = pc
         /\ \A pc \in {"redis", "lock", "answered"}, b \in BOOLEAN :
              Judged(p, pc, b) \in Probe /\ Judged(p, pc, b).pc = pc
         /\ \A S \in SUBSET Channels :
              /\ [p EXCEPT !.pc = "lock", !.sent = S] \in Probe
              /\ [p EXCEPT !.pc = "lock", !.sent = S].pc = "lock"
              /\ [p EXCEPT !.pc = "answered", !.latency = S] \in Probe
              /\ [p EXCEPT !.pc = "answered", !.latency = S].pc = "answered"
         /\ NoProbe \in Probe /\ NoProbe.pc = "idle"
BY DEF Probe, NoProbe, Judged, MovedOn

LEMMA ChannelsOfRows ==
  ASSUME ViewTypeOK
  PROVE  SentChannels \subseteq Channels /\ TimedChannels \subseteq Channels
BY DEF ViewTypeOK, SentChannels, TimedChannels, Channels, Present

\* What the handler does next is to answer, or to go on without the mutex.
LEMMA ContinueMoves ==
  ASSUME NEW c \in Probers, probe[c] \in Probe, NEW b \in BOOLEAN, Continue(c, b)
  PROVE  \E r \in Probe : /\ probe' = [probe EXCEPT ![c] = r]
                          /\ r.pc \in {"answered", "depths", "latency"}
<1>1. CASE probe[c].kind = "health"
  <2> DEFINE r == Judged(probe[c], "answered", b)
  <2>1. r \in Probe /\ r.pc = "answered" BY DEF Judged, Probe
  <2>2. probe' = [probe EXCEPT ![c] = r] BY <1>1 DEF Continue
  <2> QED BY <2>1, <2>2
<1>2. CASE probe[c].kind # "health"
  <2> DEFINE r == MovedOn(probe[c], IF b THEN "depths" ELSE "latency")
  <2>1. r \in Probe /\ r.pc \in {"depths", "latency"} BY RecordOfCall
  <2>2. probe' = [probe EXCEPT ![c] = r] BY <1>2 DEF Continue, MovedOn
  <2> QED BY <2>1, <2>2
<1> QED BY <1>1, <1>2

LEMMA ContinueRecord ==
  ASSUME probe \in [Probers -> Probe], NEW c \in Probers, NEW b \in BOOLEAN, Continue(c, b)
  PROVE  /\ \A d \in Probers \ {c} : probe'[d] = probe[d]
         /\ probe'[c].kind = probe[c].kind /\ probe'[c].clean = probe[c].clean
         /\ probe'[c].sent = probe[c].sent
         /\ probe'[c].pc # "idle"
         /\ probe'[c].pc = "answered" => probe[c].kind = "health"
         /\ b /\ probe[c].healthy => probe'[c].healthy
<1>1. CASE probe[c].kind = "health"
  <2>1. probe'[c] = Judged(probe[c], "answered", b) /\ \A d \in Probers \ {c} : probe'[d] = probe[d]
    BY <1>1 DEF Continue
  <2>2. LET r == Judged(probe[c], "answered", b)
        IN  /\ r.kind = probe[c].kind /\ r.clean = probe[c].clean /\ r.sent = probe[c].sent
            /\ r.pc = "answered"
            /\ b /\ probe[c].healthy => r.healthy
    BY DEF Judged, Probe
  <2> QED BY <1>1, <2>1, <2>2
<1>2. CASE probe[c].kind # "health"
  <2>1. probe'[c] = MovedOn(probe[c], IF b THEN "depths" ELSE "latency")
        /\ \A d \in Probers \ {c} : probe'[d] = probe[d]
    BY <1>2 DEF Continue, MovedOn
  <2>2. LET r == MovedOn(probe[c], IF b THEN "depths" ELSE "latency")
        IN  /\ r.kind = probe[c].kind /\ r.clean = probe[c].clean /\ r.sent = probe[c].sent
            /\ r.pc \notin {"answered", "idle"}
            /\ probe[c].healthy => r.healthy
    BY DEF MovedOn, Probe
  <2> QED BY <2>1, <2>2
<1> QED BY <1>1, <1>2

LEMMA ConnectionProbe ==
  ASSUME ViewTypeOK, ConnectionInv, NEW c \in Probers, ProbeStep(c)
  PROVE  ConnectionInv'
<1> DEFINE p == probe[c]
<1>0. /\ p \in Probe
      /\ lock = c <=> p.pc \in {"look", "dial"}
  BY DEF ConnectionInv, HealthTypeOK
<1>1. ASSUME NEW dependency \in {"postgres", "redis"}, NEW next \in {"redis", "lock"},
             Ping(c, dependency, next)
      PROVE  ConnectionInv'
  <2> DEFINE r == Judged(p, next, dependency \in up)
  <2>1. r \in Probe /\ r.pc = next BY <1>0 DEF Judged, Probe
  <2>2. probe' = [probe EXCEPT ![c] = r] /\ p.pc = dependency
        /\ UNCHANGED <<up, conn, connections, lock>>
    BY <1>1 DEF Ping
  <2> HIDE DEF r
  <2> QED BY <2>1, <2>2, OneCallMoves
<1>2. CASE Snapshot(c)
  <2>1. \E r \in Probe : probe' = [probe EXCEPT ![c] = r] /\ r.pc \in {"lock", "idle"}
    <3>1. CASE "postgres" \in up
      <4> DEFINE r == [p EXCEPT !.pc = "lock", !.sent = SentChannels]
      <4>1. SentChannels \in SUBSET Channels BY ChannelsOfRows
      <4>3. r \in Probe /\ r.pc = "lock" BY <1>0, <4>1, RecordOfCall, Zenon
      <4>2. probe' = [probe EXCEPT ![c] = r] BY <1>2, <3>1 DEF Snapshot
      <4> QED BY <4>2, <4>3
    <3>2. CASE "postgres" \notin up BY <1>0, <1>2, <3>2, RecordOfCall DEF Snapshot
    <3> QED BY <3>1, <3>2
  <2>2. p.pc = "snapshot" /\ UNCHANGED <<up, conn, connections, lock>> BY <1>2 DEF Snapshot
  <2> QED BY <2>1, <2>2, OneCallMoves
<1>3. CASE Lock(c)
  <2> DEFINE r == MovedOn(p, "look")
  <2>1. r \in Probe /\ r.pc = "look" BY <1>0, RecordOfCall
  <2>2. /\ probe' = [probe EXCEPT ![c] = r] /\ p.pc = "lock"
        /\ lock = NoProber /\ lock' = c /\ UNCHANGED <<up, conn, connections>>
    BY <1>3 DEF Lock, MovedOn
  <2> HIDE DEF r
  <2> QED BY <2>1, <2>2, OneCallMoves
<1>4. CASE CachedConn(c)
  <2>1. p.pc = "look" /\ lock' = NoProber /\ UNCHANGED <<up, conn, connections>>
    BY <1>4 DEF CachedConn
  <2>2. PICK r \in Probe : /\ probe' = [probe EXCEPT ![c] = r]
                           /\ r.pc \in {"answered", "depths", "latency"}
    BY <1>0, <1>4, ContinueMoves DEF CachedConn
  <2> QED BY <1>0, <2>1, <2>2, OneCallMoves
<1>5. CASE NoCachedConn(c)
  <2> DEFINE r == MovedOn(p, "dial")
  <2>1. r \in Probe /\ r.pc = "dial" BY <1>0, RecordOfCall
  <2>2. /\ probe' = [probe EXCEPT ![c] = r] /\ p.pc = "look" /\ conn \in {"none", "closed"}
        /\ UNCHANGED <<up, conn, connections, lock>>
    BY <1>5 DEF NoCachedConn, MovedOn
  <2> HIDE DEF r
  <2> QED BY <2>1, <2>2, OneCallMoves
<1>6. CASE Dial(c)
  <2>1. /\ p.pc = "dial" /\ lock' = NoProber /\ up' = up
        /\ conn' = "open" /\ connections' = connections + 1
    BY <1>6 DEF Dial
  <2>2. PICK r \in Probe : /\ probe' = [probe EXCEPT ![c] = r]
                           /\ r.pc \in {"answered", "depths", "latency"}
    BY <1>0, <1>6, ContinueMoves DEF Dial
  <2> QED BY <1>0, <2>1, <2>2, OneCallMoves
<1>7. CASE DialFails(c)
  <2>1. p.pc = "dial" /\ lock' = NoProber /\ UNCHANGED <<up, conn, connections>>
    BY <1>7 DEF DialFails
  <2>2. PICK r \in Probe : /\ probe' = [probe EXCEPT ![c] = r]
                           /\ r.pc \in {"answered", "depths", "latency"}
    BY <1>0, <1>7, ContinueMoves DEF DialFails
  <2> QED BY <1>0, <2>1, <2>2, OneCallMoves
<1>8. CASE Depths(c)
  <2> DEFINE r == MovedOn(p, "latency")
  <2>1. r \in Probe /\ r.pc = "latency" BY <1>0, RecordOfCall
  <2>2. /\ probe' = [probe EXCEPT ![c] = r] /\ p.pc = "depths"
        /\ UNCHANGED <<up, conn, connections, lock>>
    BY <1>8 DEF Depths, MovedOn
  <2> HIDE DEF r
  <2> QED BY <2>1, <2>2, OneCallMoves
<1>9. CASE Latency(c)
  <2>1. \E r \in Probe : probe' = [probe EXCEPT ![c] = r] /\ r.pc \in {"answered", "idle"}
    <3>1. CASE "postgres" \in up
      <4> DEFINE r == [p EXCEPT !.pc = "answered", !.latency = TimedChannels]
      <4>1. r \in Probe /\ r.pc = "answered" BY <1>0, RecordOfCall, ChannelsOfRows
      <4>2. probe' = [probe EXCEPT ![c] = r] BY <1>9, <3>1 DEF Latency
      <4> QED BY <4>1, <4>2
    <3>2. CASE "postgres" \notin up BY <1>0, <1>9, <3>2, RecordOfCall DEF Latency
    <3> QED BY <3>1, <3>2
  <2>2. p.pc = "latency" /\ UNCHANGED <<up, conn, connections, lock>> BY <1>9 DEF Latency
  <2> QED BY <2>1, <2>2, OneCallMoves
<1>10. CASE Answered(c)
  <2>1. probe' = [probe EXCEPT ![c] = NoProbe] /\ p.pc = "answered"
        /\ UNCHANGED <<up, conn, connections, lock>>
    BY <1>10 DEF Answered
  <2> QED BY <2>1, RecordOfCall, <1>0, OneCallMoves
<1> QED
  BY <1>1, <1>2, <1>3, <1>4, <1>5, <1>6, <1>7, <1>8, <1>9, <1>10 DEF ProbeStep

LEMMA ConnectionStep ==
  ASSUME ViewTypeOK, ConnectionInv, [ApiReadsNext]_apiVars
  PROVE  ConnectionInv'
<1> USE DEF ConnectionInv, HealthTypeOK, DialMeansNone, OneConnection
<1>1. ASSUME NEW c \in Probers, NEW kind \in {"health", "metrics"}, StartProbe(c, kind)
      PROVE  ConnectionInv'
  <2> DEFINE clean == (up = Dependencies)
             first == IF kind = "health" THEN "postgres" ELSE "snapshot"
             r == [probe[c] EXCEPT !.kind = kind, !.clean = clean, !.pc = first]
  <2>1. r \in Probe /\ r.pc \in {"postgres", "snapshot"}
    <3>1. probe[c] \in Probe /\ clean \in BOOLEAN /\ first \in {"postgres", "snapshot"}
      OBVIOUS
    <3> HIDE DEF clean, first
    <3> QED  BY <3>1 DEF Probe
  <2>2. /\ probe' = [probe EXCEPT ![c] = r] /\ probe[c].pc = "idle"
        /\ UNCHANGED <<up, conn, connections, lock>>
    BY <1>1 DEF StartProbe
  <2> HIDE DEF r
  <2> QED BY <2>1, <2>2, OneCallMoves
<1>2. ASSUME NEW dependency \in Dependencies, BreakDown(dependency)
      PROVE  ConnectionInv'
  <2>1. probe' \in [Probers -> Probe] /\ \A c \in Probers : probe'[c].pc = probe[c].pc
    <3>1. /\ probe \in [Probers -> Probe]
          /\ probe' = [c \in Probers |->
               IF probe[c].pc = "idle" THEN NoProbe ELSE [probe[c] EXCEPT !.clean = FALSE]]
      BY <1>2 DEF BreakDown
    <3>2. ASSUME NEW p \in Probe
          PROVE  /\ [p EXCEPT !.clean = FALSE] \in Probe
                 /\ [p EXCEPT !.clean = FALSE].pc = p.pc
      BY DEF Probe
    <3>3. NoProbe \in Probe /\ NoProbe.pc = "idle"
      BY DEF Probe, NoProbe
    <3> QED  BY <3>1, <3>2, <3>3
  <2>2. up' \subseteq Dependencies /\ UNCHANGED <<connections, lock>>
        /\ conn' \in {conn, "dead"}
        /\ (conn' # conn => conn = "open")
    BY <1>2 DEF BreakDown
  <2> QED BY <2>1, <2>2
<1>3. ASSUME NEW dependency \in Dependencies, Recover(dependency)
      PROVE  ConnectionInv'
  BY <1>3 DEF Recover
<1>4. CASE FoundDead BY <1>4 DEF FoundDead
<1>5. CASE UNCHANGED healthVars BY <1>5 DEF healthVars
<1> QED BY <1>1, <1>2, <1>3, <1>4, <1>5, StepsOfHealth, ConnectionProbe DEF HealthStep

LEMMA RowsInit == ApiReadsInit => RowsTimed
BY TablesAssumption, MaxWritesAssumption
   DEF ApiReadsInit, ViewInit, RowsTimed, ViewTypeOK, Present

\* A write leaves the table typed and timed, and takes no latency away.
LEMMA RowsWrite ==
  ASSUME RowsTimed, ViewNext
  PROVE  RowsTimed' /\ TimedChannels \subseteq TimedChannels'
<1> USE DEF RowsTimed, ViewTypeOK, Present
<1>0. PICK T \in SUBSET Ids : entries \in [T -> Entry] OBVIOUS
<1>1. ASSUME NEW S \in SUBSET Ids \ {{}}, NEW stamp \in Stamps, InsertEntries(S, stamp)
      PROVE  RowsTimed' /\ TimedChannels \subseteq TimedChannels'
  <2>1. writes' \in 0 .. MaxWrites BY <1>1, MaxWritesAssumption DEF InsertEntries, Write
  <2>2. entries' \in [T \cup S -> Entry] /\ T \cup S \in SUBSET Ids
    BY <1>0, <1>1, StatusSeenAssumption DEF InsertEntries, Entry
  <2>3. /\ \A i \in T : entries'[i] = entries[i]
        /\ \A i \in S : entries'[i].status = "pending" /\ ~entries'[i].sent_at
    BY <1>0, <1>1 DEF InsertEntries
  <2>4. \A i \in T \cup S : entries'[i].status = "sent" => entries'[i].sent_at
    BY <1>0, <2>3
  <2> QED BY <1>0, <2>1, <2>2, <2>3, <2>4 DEF TimedChannels
<1>2. ASSUME NEW i \in Present, NEW status \in StatusSeen \ {"pending"}, SetStatus(i, status)
      PROVE  RowsTimed' /\ TimedChannels \subseteq TimedChannels'
  <2>1. writes' \in 0 .. MaxWrites BY <1>2, MaxWritesAssumption DEF SetStatus, Write
  <2>2. LET e == WithStatus(entries[i], status)
        IN  /\ e \in Entry
            /\ entries[i].sent_at \/ status = "sent" => e.sent_at
            /\ e.status = status
    BY <1>0 DEF WithStatus, Entry
  <2>3. /\ entries' \in [T -> Entry]
        /\ entries'[i] = WithStatus(entries[i], status)
        /\ \A j \in T \ {i} : entries'[j] = entries[j]
    BY <1>0, <1>2, <2>2 DEF SetStatus
  <2>4. \A j \in T : /\ entries[j].sent_at => entries'[j].sent_at
                     /\ entries'[j].status = "sent" => entries'[j].sent_at
    BY <1>0, <2>2, <2>3
  <2> QED BY <1>0, <2>1, <2>3, <2>4 DEF TimedChannels
<1> QED BY <1>1, <1>2 DEF ViewNext

LEMMA RowsStep ==
  ASSUME RowsTimed, [ApiReadsNext]_apiVars
  PROVE  RowsTimed' /\ TimedChannels \subseteq TimedChannels'
<1>1. CASE UNCHANGED viewVars
  BY <1>1 DEF viewVars, RowsTimed, ViewTypeOK, Present, TimedChannels
<1> QED BY <1>1, StepsOfHealth, RowsWrite

(***************************************************************************)
(* However many clients ask for /health and /metrics at once, and whenever *)
(* the broker goes, the handler has at most one connection to RabbitMQ     *)
(* that is not closed (getAMQPConn).                                       *)
(***************************************************************************)
THEOREM NeverTwoConnections == ApiReadsSpec => []OneConnection
<1>1. ApiReadsInit => RowsTimed /\ ConnectionInv BY RowsInit, ConnectionInit
<1>2. RowsTimed /\ ConnectionInv /\ [ApiReadsNext]_apiVars => (RowsTimed /\ ConnectionInv)'
  BY RowsStep, ConnectionStep DEF RowsTimed
<1>3. RowsTimed /\ ConnectionInv => OneConnection BY DEF ConnectionInv
<1> QED BY <1>1, <1>2, <1>3, PTL DEF ApiReadsSpec

-----------------------------------------------------------------------------
\* What a call has noted is in the table still, and what it answers with is
\* as of a later query.
SentStaysTimed ==
  /\ \A c \in Probers : probe[c].sent \subseteq TimedChannels
  /\ SentHasLatency

LEMMA SentTimedNow == RowsTimed => SentChannels \subseteq TimedChannels
BY DEF RowsTimed, SentChannels, TimedChannels

LEMMA SentInit == ApiReadsInit => SentStaysTimed
BY DEF ApiReadsInit, HealthInit, SentStaysTimed, SentHasLatency, NoProbe

LEMMA SentStep ==
  ASSUME RowsTimed, ConnectionInv, SentStaysTimed, [ApiReadsNext]_apiVars
  PROVE  SentStaysTimed'
<1> USE DEF SentStaysTimed, SentHasLatency
<1>0. probe \in [Probers -> Probe] BY DEF ConnectionInv, HealthTypeOK
<1>1. CASE UNCHANGED healthVars BY <1>1, RowsStep DEF healthVars
<1>2. CASE UNCHANGED viewVars /\ HealthStep
  <2>0. UNCHANGED <<SentChannels, TimedChannels>>
    BY <1>2 DEF viewVars, SentChannels, TimedChannels, Present
  <2>1. ASSUME NEW c \in Probers, NEW kind \in {"health", "metrics"}, StartProbe(c, kind)
        PROVE  SentStaysTimed'
    BY <1>0, <2>0, <2>1 DEF StartProbe, Probe
  <2>2. ASSUME NEW c \in Probers, ProbeStep(c)
        PROVE  SentStaysTimed'
    <3>1. CASE Snapshot(c)
      <4>1. /\ probe'[c].pc \in {"lock", "idle"} /\ probe'[c].sent \subseteq TimedChannels
            /\ \A d \in Probers \ {c} : probe'[d] = probe[d]
        BY <1>0, <3>1, SentTimedNow DEF Snapshot, NoProbe, Probe
      <4> QED BY <2>0, <4>1
    <3>2. CASE Latency(c)
      <4>1. /\ probe'[c].sent \subseteq TimedChannels
            /\ probe'[c].pc = "answered" => probe'[c].latency = TimedChannels
            /\ \A d \in Probers \ {c} : probe'[d] = probe[d]
        BY <1>0, <3>2 DEF Latency, NoProbe, Probe
      <4> QED BY <2>0, <4>1
    <3>3. CASE Answered(c) BY <1>0, <2>0, <3>3 DEF Answered, NoProbe
    <3>4. ASSUME NEW next \in {"redis", "lock"}, NEW d \in Dependencies, Ping(c, d, next)
          PROVE  SentStaysTimed'
      BY <1>0, <2>0, <3>4 DEF Ping, Judged, Probe
    <3>5. CASE Lock(c) \/ NoCachedConn(c) \/ Depths(c)
      BY <1>0, <2>0, <3>5 DEF Lock, NoCachedConn, Depths, Probe
    <3>6. CASE CachedConn(c) \/ Dial(c) \/ DialFails(c)
      <4>1. PICK b \in BOOLEAN : Continue(c, b) BY <3>6 DEF CachedConn, Dial, DialFails
      <4>2. /\ probe'[c].sent = probe[c].sent /\ probe'[c].kind = probe[c].kind
            /\ probe'[c].pc = "answered" => probe[c].kind = "health"
            /\ \A d \in Probers \ {c} : probe'[d] = probe[d]
        BY <1>0, <4>1, ContinueRecord
      <4> QED BY <2>0, <4>2
    <3> QED
      BY <2>2, <3>1, <3>2, <3>3, <3>4, <3>5, <3>6 DEF ProbeStep, Dependencies
  <2>3. ASSUME NEW dependency \in Dependencies, BreakDown(dependency)
        PROVE  SentStaysTimed'
    <3>1. \A c \in Probers : \/ probe'[c] = NoProbe
                             \/ /\ probe'[c].sent = probe[c].sent
                                /\ probe'[c].latency = probe[c].latency
                                /\ probe'[c].kind = probe[c].kind
                                /\ probe'[c].pc = probe[c].pc
      BY <1>0, <2>3 DEF BreakDown, Probe
    <3> QED BY <2>0, <3>1 DEF NoProbe
  <2>4. ASSUME NEW dependency \in Dependencies, Recover(dependency)
        PROVE  SentStaysTimed'
    BY <2>0, <2>4 DEF Recover
  <2>5. CASE FoundDead BY <2>0, <2>5 DEF FoundDead
  <2> QED BY <1>2, <2>1, <2>2, <2>3, <2>4, <2>5 DEF HealthStep
<1> QED BY <1>1, <1>2, StepsOfHealth

(***************************************************************************)
(* A channel of which Metrics has seen something sent has a latency in the *)
(* same answer, although that is a later query and rows may have changed   *)
(* their status in between: sent_at is never cleared (UpdateStatus).       *)
(***************************************************************************)
THEOREM LatencyOfAllSent == ApiReadsSpec => []SentHasLatency
<1>1. ApiReadsInit => RowsTimed /\ ConnectionInv /\ SentStaysTimed
  BY RowsInit, ConnectionInit, SentInit
<1>2. RowsTimed /\ ConnectionInv /\ SentStaysTimed /\ [ApiReadsNext]_apiVars
        => (RowsTimed /\ ConnectionInv /\ SentStaysTimed)'
  BY RowsStep, ConnectionStep, SentStep DEF RowsTimed
<1>3. RowsTimed /\ ConnectionInv /\ SentStaysTimed => SentHasLatency BY DEF SentStaysTimed
<1> QED BY <1>1, <1>2, <1>3, PTL DEF ApiReadsSpec

-----------------------------------------------------------------------------
LEMMA CleanInit == ApiReadsInit => CleanMeansUp
BY DEF ApiReadsInit, HealthInit, CleanMeansUp, NoProbe

LEMMA CleanStep ==
  ASSUME ConnectionInv, CleanMeansUp, [ApiReadsNext]_apiVars
  PROVE  CleanMeansUp'
<1> USE DEF CleanMeansUp
<1>0. probe \in [Probers -> Probe] BY DEF ConnectionInv, HealthTypeOK
<1>1. CASE UNCHANGED healthVars BY <1>1 DEF healthVars
<1>2. CASE HealthStep
  <2>1. ASSUME NEW c \in Probers, NEW kind \in {"health", "metrics"}, StartProbe(c, kind)
        PROVE  CleanMeansUp'
    <3>1. /\ up' = up /\ \A d \in Probers \ {c} : probe'[d] = probe[d]
          /\ probe'[c].pc # "idle" /\ probe'[c].clean = (up = Dependencies)
          /\ probe'[c].healthy = TRUE
      BY <1>0, <2>1 DEF StartProbe, NoProbe
    <3> QED BY <3>1
  <2>2. ASSUME NEW c \in Probers, ProbeStep(c)
        PROVE  CleanMeansUp'
    <3>1. CASE Snapshot(c) \/ Latency(c) \/ Answered(c)
      <4>1. /\ up' = up /\ probe[c].pc # "idle"
            /\ \A d \in Probers \ {c} : probe'[d] = probe[d]
        BY <1>0, <3>1 DEF Snapshot, Latency, Answered
      <4>2. \/ probe'[c] = NoProbe
            \/ probe'[c] = [probe[c] EXCEPT !.pc = "lock", !.sent = SentChannels]
            \/ probe'[c] = [probe[c] EXCEPT !.pc = "answered", !.latency = TimedChannels]
        BY <1>0, <3>1 DEF Snapshot, Latency, Answered
      <4>3. CASE probe'[c] = NoProbe BY <4>1, <4>3 DEF NoProbe
      <4>4. CASE probe'[c] = [probe[c] EXCEPT !.pc = "lock", !.sent = SentChannels]
        <5>1. /\ probe'[c].pc # "idle" /\ probe'[c].clean = probe[c].clean
              /\ probe'[c].healthy = probe[c].healthy
          BY <1>0, <4>4 DEF Probe
        <5> QED BY <4>1, <5>1
      <4>5. CASE probe'[c] = [probe[c] EXCEPT !.pc = "answered", !.latency = TimedChannels]
        <5>1. /\ probe'[c].pc # "idle" /\ probe'[c].clean = probe[c].clean
              /\ probe'[c].healthy = probe[c].healthy
          BY <1>0, <4>5 DEF Probe
        <5> QED BY <4>1, <5>1
      <4> QED BY <4>2, <4>3, <4>4, <4>5
    <3>2. ASSUME NEW next \in {"redis", "lock"}, NEW d \in Dependencies, Ping(c, d, next)
          PROVE  CleanMeansUp'
      <4>1. /\ up' = up /\ \A e \in Probers \ {c} : probe'[e] = probe[e]
            /\ probe'[c] = Judged(probe[c], next, d \in up) /\ probe[c].pc # "idle"
        BY <1>0, <3>2 DEF Ping, Dependencies
      <4>2. /\ probe'[c].clean = probe[c].clean /\ probe'[c].pc = next
            /\ probe'[c].healthy = (probe[c].healthy /\ d \in up)
        BY <1>0, <4>1 DEF Judged, Probe
      <4> QED BY <4>1, <4>2
    <3>3. CASE Lock(c) \/ NoCachedConn(c) \/ Depths(c)
      <4>1. /\ up' = up /\ \A d \in Probers \ {c} : probe'[d] = probe[d]
            /\ probe'[c].pc # "idle" /\ probe[c].pc # "idle"
            /\ probe'[c].clean = probe[c].clean /\ probe'[c].healthy = probe[c].healthy
        BY <1>0, <3>3 DEF Lock, NoCachedConn, Depths, Probe
      <4> QED BY <4>1
    <3>4. CASE CachedConn(c) \/ Dial(c)
      <4>1. up' = up /\ probe[c].pc # "idle" /\ Continue(c, TRUE)
        BY <3>4 DEF CachedConn, Dial
      <4>2. /\ \A d \in Probers \ {c} : probe'[d] = probe[d]
            /\ probe'[c].clean = probe[c].clean /\ probe'[c].pc # "idle"
            /\ probe[c].healthy => probe'[c].healthy
        BY <1>0, <4>1, ContinueRecord
      <4> QED BY <4>1, <4>2
    <3>5. CASE DialFails(c)
      <4>1. up' = up /\ probe[c].pc # "idle" /\ "rabbitmq" \notin up /\ Continue(c, FALSE)
        BY <3>5 DEF DialFails
      <4>2. /\ \A d \in Probers \ {c} : probe'[d] = probe[d]
            /\ probe'[c].clean = probe[c].clean /\ probe'[c].pc # "idle"
        BY <1>0, <4>1, ContinueRecord
      <4> QED BY <4>1, <4>2 DEF Dependencies
    <3> QED
      BY <2>2, <3>1, <3>2, <3>3, <3>4, <3>5 DEF ProbeStep, Dependencies
  <2>3. ASSUME NEW dependency \in Dependencies, BreakDown(dependency)
        PROVE  CleanMeansUp'
    BY <1>0, <2>3 DEF BreakDown, Probe, NoProbe
  <2>4. ASSUME NEW dependency \in Dependencies, Recover(dependency)
        PROVE  CleanMeansUp'
    BY <2>4 DEF Recover
  <2>5. CASE FoundDead BY <2>5 DEF FoundDead
  <2> QED BY <1>2, <2>1, <2>2, <2>3, <2>4, <2>5 DEF HealthStep
<1> QED BY <1>1, <1>2, StepsOfHealth

(***************************************************************************)
(* /health does not cry wolf: if nothing was down from the moment the call *)
(* came in, it says healthy, even if the cached connection was lost before *)
(* the call (checkRabbitMQ dials again).                                   *)
(***************************************************************************)
THEOREM AlarmsAreTrue == ApiReadsSpec => []NoFalseAlarm
<1>1. ApiReadsInit => RowsTimed /\ ConnectionInv /\ CleanMeansUp
  BY RowsInit, ConnectionInit, CleanInit
<1>2. RowsTimed /\ ConnectionInv /\ CleanMeansUp /\ [ApiReadsNext]_apiVars
        => (RowsTimed /\ ConnectionInv /\ CleanMeansUp)'
  BY RowsStep, ConnectionStep, CleanStep DEF RowsTimed
<1>3. RowsTimed /\ ConnectionInv /\ CleanMeansUp => NoFalseAlarm
  BY DEF CleanMeansUp, NoFalseAlarm
<1> QED BY <1>1, <1>2, <1>3, PTL DEF ApiReadsSpec

-----------------------------------------------------------------------------
(***************************************************************************)
(* The pages of a client.  For a filter that no row drops out of, a row    *)
(* the client is owed and has not seen, and that no other row may change   *)
(* places with, is still ahead of it: as many rows as the next page skips  *)
(* are newer, and there is a next page.                                    *)
(***************************************************************************)
Unlike(i, request) ==
  \A j \in Matching(request) \ {i} : entries[j].stamp # entries[i].stamp

Newer(i, request) == {j \in Matching(request) : entries[j].stamp > entries[i].stamp}

NextOffset(w) == Offset(w.request) + (IF w.pc = "answered" THEN w.request.size ELSE 0)

StillAhead(w, i) ==
  /\ w.pc # "over"
  /\ w.pc = "answered" => Cardinality(w.got) = w.request.size
  /\ Cardinality(Newer(i, w.request)) >= NextOffset(w)

\* The client sets out from the first page.
FromFirstPage == \A request \in Requests : request.page <= 1

OwedIsAhead ==
  FromFirstPage /\ walk # NoWalk /\ walk.request.status = Any =>
    /\ walk.owed \subseteq Matching(walk.request)
    /\ \A i \in walk.owed \ walk.seen : Unlike(i, walk.request) => StillAhead(walk, i)

CountedEarlier ==
  walk.pc = "select" /\ walk.request.status = Any =>
    walk.total <= Cardinality(Matching(walk.request))

PageIsNumbered ==
  walk # NoWalk => walk.request.page \in Nat \ {0} /\ walk.request.size \in Nat \ {0}

WalkInv ==
  /\ ViewTypeOK /\ ListingTypeOK /\ PageIsNumbered
  /\ OwedIsAhead /\ CountedEarlier /\ PagesPromisedExist

LEMMA LesserOf ==
  ASSUME NEW a \in Nat, NEW b \in Nat
  PROVE  Min({a, b}) = IF a <= b THEN a ELSE b
<1>1. CASE a <= b
  <2>1. \A x \in {a, b} : (\A y \in {a, b} : x <= y) => x = a
    BY <1>1
  <2> QED  BY <1>1, <2>1 DEF Min
<1>2. CASE ~(a <= b)
  <2>1. \A x \in {a, b} : (\A y \in {a, b} : x <= y) => x = b
    BY <1>2
  <2>2. \A y \in {a, b} : b <= y
    BY <1>2
  <2> QED  BY <1>2, <2>1, <2>2 DEF Min
<1> QED  BY <1>1, <1>2

\* How the rows of a table are counted.
LEMMA Counting ==
  ASSUME NEW M, IsFiniteSet(M)
  PROVE  /\ Cardinality(M) \in Nat
         /\ \A S \in SUBSET M :
              /\ IsFiniteSet(S) /\ Cardinality(S) \in Nat
              /\ Cardinality(S) <= Cardinality(M)
              /\ Cardinality(S) = Cardinality(M) => S = M
              /\ Cardinality(M \ S) = Cardinality(M) - Cardinality(S)
<1>1. Cardinality(M) \in Nat
  BY FS_CardinalityType
<1>2. ASSUME NEW S \in SUBSET M
      PROVE  /\ IsFiniteSet(S) /\ Cardinality(S) \in Nat
             /\ Cardinality(S) <= Cardinality(M)
             /\ Cardinality(S) = Cardinality(M) => S = M
             /\ Cardinality(M \ S) = Cardinality(M) - Cardinality(S)
  <2>1. /\ IsFiniteSet(S) /\ Cardinality(S) <= Cardinality(M)
        /\ Cardinality(S) = Cardinality(M) => S = M
    BY FS_Subset
  <2>2. Cardinality(S) \in Nat
    BY <2>1, FS_CardinalityType
  <2>3. Cardinality(M \ S) = Cardinality(M) - Cardinality(M \cap S)
    BY FS_Difference
  <2>4. M \cap S = S
    OBVIOUS
  <2> QED  BY <2>1, <2>2, <2>3, <2>4
<1> QED  BY <1>1, <1>2

LEMMA RowsAreFinite ==
  ASSUME ViewTypeOK, NEW request
  PROVE  /\ IsFiniteSet(Matching(request))
         /\ \A i \in Matching(request) : entries[i].stamp \in Nat
<1>1. Present \subseteq Ids /\ \A i \in Present : entries[i].stamp \in Nat
  BY StampsAssumption DEF ViewTypeOK, Present, Entry
<1>2. Matching(request) \subseteq Ids
  BY <1>1 DEF Matching
<1> QED  BY <1>1, <1>2, IdsAssumption, FS_Subset DEF Matching

(***************************************************************************)
(* What ORDER BY, LIMIT and OFFSET promise of a page: it is full if there  *)
(* are enough rows, and a row that is behind it is behind a full page.     *)
(***************************************************************************)
LEMMA PageOfRows ==
  ASSUME ViewTypeOK, NEW request \in Request, NEW S \in PageSets(request),
         request.page >= 1, request.size >= 1
  PROVE  LET M == Matching(request)
             offset == Offset(request)
         IN /\ S \subseteq M
            /\ offset < Cardinality(M) => S # {}
            /\ offset + request.size <= Cardinality(M) => Cardinality(S) = request.size
            /\ \A i \in M \ S :
                 Unlike(i, request) /\ Cardinality(Newer(i, request)) >= offset =>
                   /\ Cardinality(S) = request.size
                   /\ Cardinality(Newer(i, request)) >= offset + request.size
<1> DEFINE M == Matching(request)
           offset == Offset(request)
           size == request.size
<1>1. IsFiniteSet(M) /\ \A i \in M : entries[i].stamp \in Nat
  BY RowsAreFinite
<1>2. offset \in Nat /\ size \in Nat \ {0}
  BY DEF Request, Offset
<1>3. PICK skipped \in SUBSET (M \ S) :
        /\ Cardinality(skipped) = Min({offset, Cardinality(M)})
        /\ Cardinality(S) = Min({size, Cardinality(M \ skipped)})
        /\ Before(skipped, M \ skipped)
        /\ Before(S, (M \ skipped) \ S)
  BY DEF PageSets
<1>4. S \subseteq M
  BY DEF PageSets
<1> DEFINE rest == M \ skipped
<1>5. /\ Cardinality(M) \in Nat /\ Cardinality(S) \in Nat
      /\ Cardinality(skipped) \in Nat /\ Cardinality(rest) \in Nat
      /\ Cardinality(rest) = Cardinality(M) - Cardinality(skipped)
  <2>1. S \in SUBSET M /\ skipped \in SUBSET M /\ rest \in SUBSET M
    BY <1>4
  <2> QED  BY <1>1, <2>1, Counting
<1>6. /\ Cardinality(skipped) = IF offset <= Cardinality(M) THEN offset ELSE Cardinality(M)
      /\ Cardinality(S) = IF size <= Cardinality(rest) THEN size ELSE Cardinality(rest)
  BY <1>2, <1>3, <1>5, LesserOf
<1>7. Before(skipped, rest) /\ Before(S, rest \ S)
  BY <1>3
<1>8. S \cap skipped = {} /\ skipped \subseteq M
  BY <1>3
<1> HIDE DEF M, offset, size
<1>9. offset < Cardinality(M) => S # {}
  <2>1. S = {} => Cardinality(S) = 0
    BY FS_EmptySet
  <2>2. offset < Cardinality(M) => Cardinality(S) > 0
    BY <1>2, <1>5, <1>6
  <2> QED  BY <2>1, <2>2
<1>10. offset + size <= Cardinality(M) => Cardinality(S) = size
  BY <1>2, <1>5, <1>6
<1>11. ASSUME NEW i \in M \ S, Unlike(i, request), Cardinality(Newer(i, request)) >= offset
       PROVE  /\ Cardinality(S) = size
              /\ Cardinality(Newer(i, request)) >= offset + size
  <2> DEFINE newer == Newer(i, request)
  <2>1. /\ newer = {j \in M : entries[j].stamp > entries[i].stamp}
        /\ \A j \in M \ {i} : entries[j].stamp # entries[i].stamp
    BY <1>11 DEF Newer, Unlike, M
  <2> HIDE DEF newer
  <2>2. newer \in SUBSET M /\ i \notin newer /\ Cardinality(newer) \in Nat
    <3>1. newer \in SUBSET M
      BY <2>1
    <3>2. i \notin newer
      BY <1>1, <1>11, <2>1
    <3>3. Cardinality(newer) \in Nat
      BY <1>1, <3>1, Counting
    <3> QED  BY <3>1, <3>2, <3>3
  <2>3. i \notin skipped
    <3> SUFFICES ASSUME i \in skipped  PROVE FALSE
      OBVIOUS
    <3>1. newer \subseteq skipped \ {i}
      BY <1>1, <1>7, <1>8, <2>1 DEF Before
    <3>2. IsFiniteSet(skipped)
      BY <1>1, <1>8, Counting
    <3>3. Cardinality(skipped \ {i}) = Cardinality(skipped) - 1
      BY <3>2, FS_RemoveElement
    <3>4. IsFiniteSet(skipped \ {i})
      BY <3>2, FS_RemoveElement
    <3>5. Cardinality(newer) <= Cardinality(skipped \ {i})
      BY <3>1, <3>4, FS_Subset
    <3> QED
      BY <1>2, <1>5, <1>6, <1>11, <2>2, <3>3, <3>5 DEF newer
  <2>4. Cardinality(S) = size
    <3> SUFFICES ASSUME Cardinality(S) # size  PROVE FALSE
      OBVIOUS
    <3>1. Cardinality(S) = Cardinality(rest)
      BY <1>6
    <3>2. S \in SUBSET rest /\ IsFiniteSet(rest)
      BY <1>1, <1>4, <1>8, Counting
    <3>3. S = rest
      BY <3>1, <3>2, FS_Subset
    <3> QED  BY <1>11, <2>3, <3>3
  <2>5. skipped \cup S \subseteq newer
    BY <1>1, <1>4, <1>7, <1>8, <1>11, <2>1, <2>3 DEF Before
  <2>6. Cardinality(skipped \cup S) = Cardinality(skipped) + Cardinality(S)
    <3>1. IsFiniteSet(skipped) /\ IsFiniteSet(S)
      BY <1>1, <1>4, <1>8, Counting
    <3>2. Cardinality(skipped \cup S)
            = Cardinality(skipped) + Cardinality(S) - Cardinality(skipped \cap S)
      BY <3>1, FS_Union
    <3>3. skipped \cap S = {}
      BY <1>8
    <3> QED  BY <1>5, <3>2, <3>3, FS_EmptySet
  <2>7. /\ Cardinality(skipped \cup S) <= Cardinality(newer)
        /\ Cardinality(newer) <= Cardinality(M)
    <3>1. IsFiniteSet(newer)
      BY <1>1, <2>2, Counting
    <3> QED  BY <1>1, <2>2, <2>5, <3>1, FS_Subset
  <2>8. Cardinality(skipped) = offset
    BY <1>2, <1>5, <1>6, <1>11, <2>2, <2>7 DEF newer
  <2> QED  BY <1>2, <2>2, <2>4, <2>6, <2>7, <2>8 DEF newer
<1> QED  BY <1>4, <1>9, <1>10, <1>11 DEF M, offset, size

-----------------------------------------------------------------------------
\* The steps of the client that pages, and what goes on around it.
LEMMA StepsOfWalk ==
  ASSUME [ApiReadsNext]_apiVars
  PROVE  \/ ViewNext /\ UNCHANGED walk
         \/ UNCHANGED viewVars /\ \E request \in Requests : StartWalk(request)
         \/ UNCHANGED viewVars /\ (CountRows \/ SelectRows \/ TurnPage \/ EndWalk \/ ListFails)
         \/ UNCHANGED <<viewVars, walk>>
BY DEF ApiReadsNext, ListingNext, WalkStep, apiVars

\* Rows come, and keep the columns that never change.
LEMMA TableGrows ==
  ASSUME ViewTypeOK, ViewNext
  PROVE  /\ Present \subseteq Present'
         /\ \A i \in Present : entries'[i].stamp = entries[i].stamp
         /\ \A request : request.status = Any => Matching(request) \subseteq Matching(request)'
<1>1. /\ Present \subseteq Present'
      /\ \A i \in Present : entries'[i].stamp = entries[i].stamp
  <2>1. ASSUME NEW S \in SUBSET Ids, NEW stamp \in Stamps, InsertEntries(S, stamp)
        PROVE  /\ Present \subseteq Present'
               /\ \A i \in Present : entries'[i].stamp = entries[i].stamp
    BY <2>1 DEF InsertEntries, Present
  <2>2. ASSUME NEW i \in Present, NEW status \in StatusSeen, SetStatus(i, status)
        PROVE  /\ Present \subseteq Present'
               /\ \A j \in Present : entries'[j].stamp = entries[j].stamp
    <3>1. \A j \in Present : entries[j] \in Entry
      BY DEF ViewTypeOK, Present
    <3>2. WithStatus(entries[i], status).stamp = entries[i].stamp
      BY <3>1 DEF WithStatus, Entry
    <3>3. entries' = [entries EXCEPT ![i] = WithStatus(entries[i], status)]
      BY <2>2 DEF SetStatus
    <3> QED  BY <3>2, <3>3 DEF Present
  <2> QED  BY <2>1, <2>2 DEF ViewNext
<1>2. ASSUME NEW request, request.status = Any, NEW i \in Matching(request)
      PROVE  i \in Matching(request)'
  BY <1>1, <1>2 DEF Matching, Matches
<1> QED  BY <1>1, <1>2

LEMMA RowsStayFinite ==
  ASSUME ViewTypeOK', NEW request
  PROVE  IsFiniteSet(Matching(request)')
<1>1. Matching(request)' \subseteq Ids
  BY DEF Matching, ViewTypeOK, Present
<1> QED  BY <1>1, IdsAssumption, FS_Subset

LEMMA AheadAsTableGrows ==
  ASSUME ViewTypeOK, ViewTypeOK', ViewNext,
         NEW request, request.status = Any, NEW i \in Matching(request)
  PROVE  /\ Unlike(i, request)' => Unlike(i, request)
         /\ Cardinality(Newer(i, request)) <= Cardinality(Newer(i, request)')
         /\ Cardinality(Newer(i, request)) \in Nat /\ Cardinality(Newer(i, request)') \in Nat
<1>1. Matching(request) \subseteq Matching(request)' /\ Matching(request) \subseteq Present
      /\ \A j \in Present : entries'[j].stamp = entries[j].stamp
  BY TableGrows DEF Matching
<1>2. Unlike(i, request)' => Unlike(i, request)
  BY <1>1 DEF Unlike
<1>3. Newer(i, request) \subseteq Newer(i, request)'
  BY <1>1 DEF Newer
<1>4. IsFiniteSet(Newer(i, request)')
  <2>1. IsFiniteSet(Matching(request)')
    BY RowsStayFinite
  <2>2. Newer(i, request)' \in SUBSET Matching(request)'
    BY DEF Newer
  <2> QED  BY <2>1, <2>2, FS_Subset
<1> QED  BY <1>2, <1>3, <1>4, Counting

LEMMA CountingRows ==
  ASSUME ViewTypeOK, NEW request
  PROVE  /\ Cardinality(Matching(request)) \in Nat
         /\ \A i : Cardinality(Newer(i, request)) \in Nat
<1>1. \A i : Newer(i, request) \in SUBSET Matching(request)
  BY DEF Newer
<1> QED  BY <1>1, RowsAreFinite, Counting

(***************************************************************************)
(* While rows are written, and as long as the client does nothing.         *)
(***************************************************************************)
LEMMA WalkAsTableGrows ==
  ASSUME WalkInv, ViewTypeOK', ViewNext, UNCHANGED walk
  PROVE  WalkInv'
<1> USE DEF WalkInv
<1>1. ListingTypeOK' /\ PageIsNumbered' /\ PagesPromisedExist'
  BY DEF ListingTypeOK, PageIsNumbered, PagesPromisedExist, TotalPages
<1>2. OwedIsAhead'
  <2> SUFFICES ASSUME FromFirstPage, walk # NoWalk, walk.request.status = Any
               PROVE  OwedIsAhead'
    BY DEF OwedIsAhead
  <2> DEFINE request == walk.request
  <2>1. walk.owed \subseteq Matching(request) /\ Matching(request) \subseteq Matching(request)'
    BY TableGrows DEF OwedIsAhead
  <2>2. NextOffset(walk)' = NextOffset(walk) /\ NextOffset(walk) \in Nat
    BY DEF NextOffset, Offset, PageIsNumbered
  <2>3. ASSUME NEW i \in walk.owed \ walk.seen, Unlike(i, request)'
        PROVE  StillAhead(walk, i)'
    <3>1. StillAhead(walk, i) /\ Cardinality(Newer(i, request)) <= Cardinality(Newer(i, request)')
          /\ Cardinality(Newer(i, request)) \in Nat /\ Cardinality(Newer(i, request)') \in Nat
      BY <2>1, <2>3, AheadAsTableGrows DEF OwedIsAhead
    <3> QED  BY <2>2, <3>1 DEF StillAhead
  <2> QED  BY <2>1, <2>3 DEF OwedIsAhead
<1>3. CountedEarlier'
  <2> SUFFICES ASSUME walk.pc = "select", walk.request.status = Any
               PROVE  walk.total <= Cardinality(Matching(walk.request)')
    BY DEF CountedEarlier
  <2> DEFINE request == walk.request
  <2>1. Matching(request) \in SUBSET Matching(request)'
    BY TableGrows
  <2>2. /\ Cardinality(Matching(request)) <= Cardinality(Matching(request)')
        /\ Cardinality(Matching(request)) \in Nat /\ Cardinality(Matching(request)') \in Nat
    BY <2>1, RowsStayFinite, Counting
  <2>3. walk.total \in Nat /\ walk.total <= Cardinality(Matching(request))
    BY DEF ListingTypeOK, Walk, NoWalk, CountedEarlier
  <2>4. walk.total <= Cardinality(Matching(request)')
    BY <2>2, <2>3
  <2> QED  BY <2>4
<1> QED  BY <1>1, <1>2, <1>3

-----------------------------------------------------------------------------
\* What it takes for the invariant to hold again after a step of the client.
LEMMA WalkArrives ==
  ASSUME WalkInv, UNCHANGED viewVars, NEW w \in Walk, walk' = w,
         w.request.page \in Nat \ {0}, w.request.size \in Nat \ {0},
         FromFirstPage /\ w.request.status = Any =>
           /\ w.owed \subseteq Matching(w.request)
           /\ \A i \in w.owed \ w.seen : Unlike(i, w.request) => StillAhead(w, i),
         w.request.status = Any =>
           /\ w.pc = "select" => w.total <= Cardinality(Matching(w.request))
           /\ w.pc = "answered" =>
                /\ w.request.page <= TotalPages(w) => w.got # {}
                /\ w.request.page < TotalPages(w) => Cardinality(w.got) = w.request.size
  PROVE  WalkInv'
<1>1. /\ Matching(w.request)' = Matching(w.request)
      /\ \A i : Unlike(i, w.request)' = Unlike(i, w.request)
      /\ \A i : StillAhead(w, i)' = StillAhead(w, i)
  BY DEF viewVars, Matching, Matches, Present, Unlike, StillAhead, Newer, NextOffset, Offset
<1>2. ViewTypeOK'
  BY DEF WalkInv, ViewTypeOK, viewVars
<1>3. ListingTypeOK' /\ PageIsNumbered'
  BY DEF ListingTypeOK, PageIsNumbered
<1>4. OwedIsAhead'
  BY <1>1 DEF OwedIsAhead
<1>5. CountedEarlier'
  BY <1>1 DEF CountedEarlier
<1>6. PagesPromisedExist'
  BY DEF PagesPromisedExist
<1> QED  BY <1>2, <1>3, <1>4, <1>5, <1>6 DEF WalkInv

\* No client is on its way: nothing is owed.
LEMMA WalkIsOver ==
  ASSUME WalkInv, UNCHANGED viewVars, walk' = NoWalk
  PROVE  WalkInv'
BY DEF WalkInv, ViewTypeOK, viewVars, ListingTypeOK, PageIsNumbered, OwedIsAhead,
       CountedEarlier, PagesPromisedExist, NoWalk

\* Any page number and page size a client sends is made a legal one.
LEMMA NormalizedRequest ==
  ASSUME NEW request \in Request
  PROVE  /\ Normalize(request) \in Request
         /\ Normalize(request).page \in Nat \ {0} /\ Normalize(request).size \in Nat \ {0}
<1>1. Min({request.size, MaxSize}) = IF request.size <= MaxSize THEN request.size ELSE MaxSize
  BY LesserOf, SizesAssumption DEF Request
<1> DEFINE page == IF request.page < 1 THEN 1 ELSE request.page
           size == IF request.size < 1 THEN DefaultSize ELSE Min({request.size, MaxSize})
<1>2. page \in Nat \ {0} /\ size \in Nat \ {0}
  BY <1>1, SizesAssumption DEF Request
<1> HIDE DEF page, size
<1>3. Normalize(request) = [request EXCEPT !.page = page, !.size = size]
  BY DEF Normalize, page, size
<1>4. /\ Normalize(request) \in Request
      /\ Normalize(request).page = page /\ Normalize(request).size = size
  BY <1>2, <1>3 DEF Request
<1> QED  BY <1>2, <1>4

LEMMA WalkStarts ==
  ASSUME WalkInv, UNCHANGED viewVars, NEW request \in Requests, StartWalk(request)
  PROVE  WalkInv'
<1> DEFINE normal == Normalize(request)
           w == [pc |-> "count", request |-> normal, total |-> 0, got |-> {},
                 owed |-> Matching(request), seen |-> {}]
<1>1. normal \in Request /\ normal.page \in Nat \ {0} /\ normal.size \in Nat \ {0}
  BY NormalizedRequest, RequestsAssumption
<1>2. normal.status = request.status /\ normal.channel = request.channel
  BY RequestsAssumption DEF Normalize, Request
<1>3. Matching(normal) = Matching(request) /\ Matching(request) \subseteq Ids
  BY <1>2 DEF Matching, Matches, WalkInv, ViewTypeOK, Present
<1>4. walk' = w
  BY DEF StartWalk
<1>5. w \in Walk
  BY <1>1, <1>3 DEF Walk
<1>6. ASSUME FromFirstPage, NEW i \in w.owed  PROVE StillAhead(w, i)
  <2>1. normal.page = 1
    <3>1. request \in Request /\ request.page <= 1
      BY <1>6, RequestsAssumption DEF FromFirstPage
    <3> QED  BY <3>1 DEF Normalize, Request
  <2>2. Offset(normal) = 0
    BY <1>1, <2>1 DEF Offset
  <2>3. Cardinality(Newer(i, normal)) \in Nat
    BY CountingRows DEF WalkInv
  <2> QED  BY <2>2, <2>3 DEF StillAhead, NextOffset
<1> QED  BY <1>1, <1>3, <1>4, <1>5, <1>6, WalkArrives

LEMMA RowsCounted ==
  ASSUME WalkInv, UNCHANGED viewVars, CountRows
  PROVE  WalkInv'
<1> DEFINE w == [walk EXCEPT !.pc = "select", !.total = Cardinality(Matching(walk.request))]
<1>1. walk \in Walk /\ walk # NoWalk /\ walk.pc = "count"
  BY DEF WalkInv, ListingTypeOK, CountRows, NoWalk
<1>2. Cardinality(Matching(walk.request)) \in Nat
  BY CountingRows DEF WalkInv
<1>3. /\ w \in Walk /\ w.request = walk.request /\ w.owed = walk.owed /\ w.seen = walk.seen
      /\ w.pc = "select" /\ w.total = Cardinality(Matching(walk.request))
  BY <1>1, <1>2 DEF Walk
<1>4. walk' = w
  BY DEF CountRows
<1> HIDE DEF w
<1>5. \A i : StillAhead(walk, i) => StillAhead(w, i)
  BY <1>1, <1>3 DEF StillAhead, NextOffset
<1> QED
  BY <1>1, <1>2, <1>3, <1>4, <1>5, WalkArrives DEF WalkInv, PageIsNumbered, OwedIsAhead

\* What the number of pages says about the rows that were counted.
LEMMA PagesOfRows ==
  ASSUME NEW total \in Nat, NEW size \in Nat \ {0}, NEW page \in Nat \ {0}
  PROVE  LET pages == (total + size - 1) \div size
         IN /\ page <= pages => (page - 1) * size < total
            /\ page < pages => (page - 1) * size + size < total
<1> DEFINE rows == total + size - 1
           pages == rows \div size
<1>1. rows \in Nat
  OBVIOUS
<1>2. pages \in Nat /\ size * pages <= rows
  BY <1>1
<1>3. rows = total + size - 1
  OBVIOUS
<1> HIDE DEF rows, pages
<1>4. page <= pages => size * page <= size * pages
  BY <1>2
<1>5. page + 1 <= pages => size * (page + 1) <= size * pages
  BY <1>2
<1>6. size * page \in Nat /\ size * (page + 1) = size * page + size
      /\ (page - 1) * size = size * page - size /\ size * pages \in Nat
  BY <1>2
<1>7. page <= pages => (page - 1) * size < total
  BY <1>1, <1>2, <1>3, <1>4, <1>6
<1>8. page < pages => (page - 1) * size + size < total
  BY <1>1, <1>2, <1>3, <1>5, <1>6
<1> QED  BY <1>7, <1>8 DEF pages, rows

LEMMA RowsSelected ==
  ASSUME WalkInv, UNCHANGED viewVars, SelectRows
  PROVE  WalkInv'
<1> DEFINE request == walk.request
<1>1. /\ walk \in Walk /\ walk # NoWalk /\ walk.pc = "select"
      /\ request \in Request /\ request.page \in Nat \ {0} /\ request.size \in Nat \ {0}
      /\ walk.total \in Nat
  BY DEF WalkInv, ListingTypeOK, PageIsNumbered, SelectRows, NoWalk, Walk
<1>2. PICK S \in PageSets(request) :
        walk' = [walk EXCEPT !.pc = "answered", !.got = S, !.seen = @ \cup S]
  BY DEF SelectRows
<1> DEFINE w == [walk EXCEPT !.pc = "answered", !.got = S, !.seen = @ \cup S]
<1>3. /\ S \subseteq Matching(request)
      /\ Offset(request) < Cardinality(Matching(request)) => S # {}
      /\ Offset(request) + request.size <= Cardinality(Matching(request)) =>
           Cardinality(S) = request.size
      /\ \A i \in Matching(request) \ S :
           Unlike(i, request) /\ Cardinality(Newer(i, request)) >= Offset(request) =>
             /\ Cardinality(S) = request.size
             /\ Cardinality(Newer(i, request)) >= Offset(request) + request.size
  BY <1>1, PageOfRows DEF WalkInv
<1>4. Matching(request) \subseteq Ids
  BY DEF Matching, Present, WalkInv, ViewTypeOK
<1>5. /\ w \in Walk /\ w.request = request /\ w.owed = walk.owed /\ w.seen = walk.seen \cup S
      /\ w.pc = "answered" /\ w.got = S /\ w.total = walk.total
  BY <1>1, <1>3, <1>4 DEF Walk
<1>6. walk' = w
  BY <1>2
<1> HIDE DEF w
<1>7. ASSUME FromFirstPage, request.status = Any
      PROVE  /\ w.owed \subseteq Matching(request)
             /\ \A i \in w.owed \ w.seen : Unlike(i, request) => StillAhead(w, i)
  <2>1. walk.owed \subseteq Matching(request)
    BY <1>1, <1>7 DEF WalkInv, OwedIsAhead
  <2>2. ASSUME NEW i \in w.owed \ w.seen, Unlike(i, request)  PROVE StillAhead(w, i)
    <3>1. StillAhead(walk, i) /\ i \in Matching(request) \ S
      BY <1>1, <1>5, <1>7, <2>1, <2>2 DEF WalkInv, OwedIsAhead
    <3>2. Cardinality(Newer(i, request)) >= Offset(request)
      <4>1. Offset(request) \in Nat
        BY <1>1 DEF Offset
      <4> QED  BY <1>1, <3>1, <4>1 DEF StillAhead, NextOffset
    <3>3. /\ Cardinality(S) = request.size
          /\ Cardinality(Newer(i, request)) >= Offset(request) + request.size
      BY <1>3, <2>2, <3>1, <3>2
    <3> QED  BY <1>5, <3>3 DEF StillAhead, NextOffset
  <2> QED  BY <1>5, <2>1, <2>2
<1>8. ASSUME request.status = Any
      PROVE  /\ request.page <= TotalPages(w) => S # {}
             /\ request.page < TotalPages(w) => Cardinality(S) = request.size
  <2>1. walk.total <= Cardinality(Matching(request)) /\ Cardinality(Matching(request)) \in Nat
    BY <1>1, <1>8, CountingRows DEF WalkInv, CountedEarlier
  <2>2. /\ request.page <= TotalPages(w) => Offset(request) < walk.total
        /\ request.page < TotalPages(w) => Offset(request) + request.size < walk.total
    BY <1>1, <1>5, PagesOfRows DEF TotalPages, Offset
  <2>3. Offset(request) \in Nat
    BY <1>1 DEF Offset
  <2>4. request.page <= TotalPages(w) => Offset(request) < Cardinality(Matching(request))
    BY <1>1, <2>1, <2>2, <2>3
  <2>5. request.page < TotalPages(w) =>
          Offset(request) + request.size <= Cardinality(Matching(request))
    BY <1>1, <2>1, <2>2, <2>3
  <2> QED  BY <1>3, <2>4, <2>5
<1> QED  BY <1>1, <1>5, <1>6, <1>7, <1>8, WalkArrives

LEMMA PageTurned ==
  ASSUME WalkInv, UNCHANGED viewVars, TurnPage
  PROVE  WalkInv'
<1> DEFINE request == walk.request
           full == Cardinality(walk.got) = request.size
           next == [request EXCEPT !.page = @ + 1]
           w == IF full THEN [walk EXCEPT !.pc = "count", !.request = next]
                ELSE [walk EXCEPT !.pc = "over"]
<1>1. /\ walk \in Walk /\ walk # NoWalk /\ walk.pc = "answered"
      /\ request \in Request /\ request.page \in Nat \ {0} /\ request.size \in Nat \ {0}
  BY DEF WalkInv, ListingTypeOK, PageIsNumbered, TurnPage, NoWalk, Walk
<1>2. /\ next \in Request /\ next.page = request.page + 1 /\ next.size = request.size
      /\ next.status = request.status /\ next.channel = request.channel
  BY <1>1 DEF Request
<1>3. walk' = w
  BY <1>1 DEF TurnPage, Walk
<1>4. /\ w \in Walk /\ w.owed = walk.owed /\ w.seen = walk.seen
      /\ full => w.pc = "count" /\ w.request = next
      /\ ~full => w.pc = "over" /\ w.request = request
  BY <1>1, <1>2 DEF Walk
<1> HIDE DEF w, next
<1>5. /\ Matching(w.request) = Matching(request)
      /\ \A i : Unlike(i, w.request) = Unlike(i, request)
      /\ \A i : Newer(i, w.request) = Newer(i, request)
  BY <1>2, <1>4 DEF Matching, Matches, Unlike, Newer
<1>6. full => Offset(w.request) = Offset(request) + request.size
  BY <1>1, <1>2, <1>4 DEF Offset
<1>7. ASSUME NEW i, StillAhead(walk, i)  PROVE StillAhead(w, i)
  <2>1. full /\ Cardinality(Newer(i, request)) >= Offset(request) + request.size
    BY <1>1, <1>7 DEF StillAhead, NextOffset
  <2>2. Offset(w.request) \in Nat
    BY <1>1, <1>2, <1>4, <2>1 DEF Offset
  <2> QED  BY <1>4, <1>5, <1>6, <2>1, <2>2 DEF StillAhead, NextOffset
<1>8. /\ w.request.page \in Nat \ {0} /\ w.request.size \in Nat \ {0}
      /\ w.request.status = request.status /\ w.pc \in {"count", "over"}
  BY <1>1, <1>2, <1>4
<1> QED
  BY <1>1, <1>3, <1>4, <1>5, <1>7, <1>8, WalkArrives DEF WalkInv, OwedIsAhead

LEMMA WalkNext ==
  ASSUME WalkInv, ViewTypeOK', [ApiReadsNext]_apiVars
  PROVE  WalkInv'
<1>1. CASE ViewNext /\ UNCHANGED walk
  BY <1>1, WalkAsTableGrows
<1>2. CASE UNCHANGED viewVars /\ \E request \in Requests : StartWalk(request)
  BY <1>2, WalkStarts
<1>3. CASE UNCHANGED viewVars /\ (CountRows \/ SelectRows \/ TurnPage)
  BY <1>3, RowsCounted, RowsSelected, PageTurned
<1>4. CASE UNCHANGED viewVars /\ (EndWalk \/ ListFails)
  BY <1>4, WalkIsOver DEF EndWalk, ListFails
<1>5. CASE UNCHANGED <<viewVars, walk>>
  <2>1. CASE walk = NoWalk
    BY <1>5, <2>1, WalkIsOver
  <2>2. CASE walk # NoWalk
    <3>1. walk \in Walk /\ walk.request.page \in Nat \ {0} /\ walk.request.size \in Nat \ {0}
      BY <2>2 DEF WalkInv, ListingTypeOK, PageIsNumbered
    <3> QED
      BY <1>5, <2>2, <3>1, WalkArrives
      DEF WalkInv, OwedIsAhead, CountedEarlier, PagesPromisedExist
  <2> QED  BY <2>1, <2>2
<1> QED  BY <1>1, <1>2, <1>3, <1>4, <1>5, StepsOfWalk

LEMMA WalkInvariant == ApiReadsSpec => []WalkInv
<1>1. ApiReadsInit => RowsTimed /\ WalkInv
  <2> SUFFICES ASSUME ApiReadsInit  PROVE RowsTimed /\ WalkInv
    OBVIOUS
  <2>1. RowsTimed
    BY RowsInit
  <2> QED
    BY <2>1 DEF ApiReadsInit, ListingInit, RowsTimed, WalkInv, ListingTypeOK, PageIsNumbered,
       OwedIsAhead, CountedEarlier, PagesPromisedExist, NoWalk
<1>2. RowsTimed /\ WalkInv /\ [ApiReadsNext]_apiVars => (RowsTimed /\ WalkInv)'
  BY RowsStep, WalkNext DEF RowsTimed
<1> QED  BY <1>1, <1>2, PTL DEF ApiReadsSpec

(***************************************************************************)
(* A client that reads all pages from the first one on is shown every row  *)
(* that was there when it began and that has a created_at of its own,      *)
(* whatever is inserted meanwhile and however the database orders the rows *)
(* of one created_at.                                                      *)
(***************************************************************************)
THEOREM PagesMissNothing ==
  ASSUME \A request \in Requests : request.page <= 1
  PROVE  ApiReadsSpec => []WalkSeesAll
<1>1. WalkInv => WalkSeesAll
  <2> SUFFICES ASSUME WalkInv, walk.pc = "over", walk.request.status = Any,
                      NEW i \in walk.owed \ walk.seen
               PROVE  \E j \in Matching(walk.request) \ {i} : entries[j].stamp = entries[i].stamp
    BY DEF WalkSeesAll
  <2>1. ~Unlike(i, walk.request)
    BY DEF WalkInv, OwedIsAhead, StillAhead, FromFirstPage, NoWalk
  <2> QED  BY <2>1 DEF Unlike
<1> QED  BY <1>1, WalkInvariant, PTL

(***************************************************************************)
(* total_pages never promises a page that is empty, or one before the last *)
(* that is not full, although it was counted in an earlier statement.      *)
(***************************************************************************)
THEOREM PromisedPagesExist == ApiReadsSpec => []PagesPromisedExist
<1>1. WalkInv => PagesPromisedExist
  BY DEF WalkInv
<1> QED  BY <1>1, WalkInvariant, PTL

\* The table, the client that pages and the calls keep to their types.
THEOREM ApiReadsTypeCorrect == ApiReadsSpec => []ApiReadsTypeOK
<1>1. ApiReadsInit => RowsTimed /\ ConnectionInv /\ FaultsTypeOK
  BY RowsInit, ConnectionInit, MaxDisruptionsAssumption DEF ApiReadsInit, FaultsTypeOK
<1>2. RowsTimed /\ ConnectionInv /\ FaultsTypeOK /\ [ApiReadsNext]_apiVars =>
        (RowsTimed /\ ConnectionInv /\ FaultsTypeOK)'
  <2>1. FaultsTypeOK /\ [ApiReadsNext]_apiVars => FaultsTypeOK'
    BY MaxDisruptionsAssumption
    DEF FaultsTypeOK, ApiReadsNext, ListingNext, WalkStep, ListFails, HealthNext, BreakDown,
        Recover, FoundDead, Disrupt, apiVars
  <2> QED  BY <2>1, RowsStep, ConnectionStep DEF RowsTimed
<1>3. RowsTimed /\ WalkInv /\ ConnectionInv /\ FaultsTypeOK => ApiReadsTypeOK
  BY DEF RowsTimed, WalkInv, ConnectionInv, ApiReadsTypeOK
<1> QED  BY <1>1, <1>2, <1>3, WalkInvariant, PTL DEF ApiReadsSpec

=============================================================================
