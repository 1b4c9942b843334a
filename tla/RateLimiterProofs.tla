------------------------- MODULE RateLimiterProofs --------------------------
(***************************************************************************)
(* Proofs about RateLimiter, for any number of callers, any limit, any     *)
(* resolution of the clock and any length of the run.                      *)
(***************************************************************************)
EXTENDS RateLimiter, FiniteSetTheorems, TLAPS

LEMMA TimesLemma == \A t : t \in Times <=> t \in Nat /\ t <= MaxTime
  BY MaxTimeAssumption DEF Times

\* A window holds the moments it is named after.
LEMMA WindowLemma ==
  ASSUME NEW t \in Times
  PROVE  /\ WindowOf(t) \in Times
         /\ WindowOf(t) <= t /\ t < WindowOf(t) + Second
<1>1. t \in Nat /\ t % Second \in 0 .. (Second - 1)
  BY SecondAssumption, MaxTimeAssumption DEF Times
<1>2. t % Second <= t
  BY <1>1, SecondAssumption
<1> QED  BY <1>1, <1>2, SecondAssumption, MaxTimeAssumption DEF WindowOf, Times

-----------------------------------------------------------------------------
(***************************************************************************)
(* The inductive invariant.  A counter that is there has counted every     *)
(* grant of its window and outlives the window by Ttl - Second; once it is *)
(* gone, nobody can still be asking for that window.                       *)
(***************************************************************************)
AskedIsRecent ==
  \A c \in Callers : state[c] = "asked" => stamp[c] <= now /\ now <= stamp[c] + MaxLag

CounterCounts ==
  \A t \in Times :
    /\ granted[t] <= Limit
    /\ count[t] > 0 => granted[t] <= count[t] /\ expires[t] >= t + Ttl
    /\ count[t] = 0 => granted[t] = 0 \/ now >= t + Second + MaxLag

LimiterInv == LimiterTypeOK /\ AskedIsRecent /\ CounterCounts

LEMMA LimiterNextType ==
  ASSUME LimiterTypeOK, [LimiterNext]_limiterVars
  PROVE  LimiterTypeOK'
<1> USE TimesLemma DEF LimiterTypeOK
<1>1. ASSUME NEW c \in Callers, state[c] # "idle"  PROVE Key(c) \in Times
  BY WindowLemma DEF Key
<1>2. ASSUME NEW c \in Callers, Incr(c)
      PROVE  count' \in [Times -> Nat] /\ expires' \in [Times -> Nat]
  BY <1>1, <1>2, TtlAssumption DEF Incr
<1>3. ASSUME NEW c \in Callers, Forget(c)
      PROVE  /\ state' \in [Callers -> {"idle", "asked", "waiting"}]
             /\ stamp' \in [Callers -> Times]
             /\ refused' \in [Callers -> Times \cup {Never}]
  BY <1>3, MaxTimeAssumption DEF Forget
<1>4. CASE Tick
  BY <1>4, MaxTimeAssumption DEF Tick
<1>5. ASSUME NEW c \in Callers, ReadClock(c) \/ WaitOver(c)  PROVE LimiterTypeOK'
  BY <1>5 DEF ReadClock, WaitOver
<1>6. ASSUME NEW c \in Callers, Grant(c)  PROVE LimiterTypeOK'
  <2>1. Incr(c) /\ Forget(c) /\ UNCHANGED now /\ Key(c) \in Times
    BY <1>1, <1>6 DEF Grant, Incr
  <2>2. granted' \in [Times -> Nat] /\ passed' \in [Times -> Nat]
    BY <1>6, <2>1 DEF Grant
  <2> QED  BY <1>2, <1>3, <2>1, <2>2
<1>7. ASSUME NEW c \in Callers, Deny(c)  PROVE LimiterTypeOK'
  BY <1>1, <1>2, <1>7 DEF Deny, Incr
<1>8. ASSUME NEW c \in Callers, CallFails(c) \/ Interrupted(c)  PROVE LimiterTypeOK'
  BY <1>2, <1>3, <1>8 DEF CallFails, Interrupted
<1>9. CASE UNCHANGED limiterVars
  BY <1>9 DEF limiterVars
<1> QED  BY <1>4, <1>5, <1>6, <1>7, <1>8, <1>9 DEF LimiterNext

\* Time does not pass while a script is MaxLag late.
LEMMA LimiterNextRecent ==
  ASSUME LimiterTypeOK, AskedIsRecent, [LimiterNext]_limiterVars
  PROVE  AskedIsRecent'
<1> USE TimesLemma, MaxTimeAssumption, MaxLagAssumption DEF LimiterTypeOK, AskedIsRecent
<1>1. CASE Tick
  BY <1>1 DEF Tick
<1>2. ASSUME NEW c \in Callers, ReadClock(c) \/ WaitOver(c)  PROVE AskedIsRecent'
  BY <1>2 DEF ReadClock, WaitOver
<1>3. ASSUME NEW c \in Callers, Grant(c) \/ CallFails(c) \/ Interrupted(c)
      PROVE  AskedIsRecent'
  BY <1>3 DEF Grant, CallFails, Interrupted, Forget
<1>4. ASSUME NEW c \in Callers, Deny(c)  PROVE AskedIsRecent'
  BY <1>4 DEF Deny
<1>5. CASE UNCHANGED limiterVars
  BY <1>5 DEF limiterVars
<1> QED  BY <1>1, <1>2, <1>3, <1>4, <1>5 DEF LimiterNext

\* A caller whose counter is gone is the first of its window.
LEMMA FirstOfWindow ==
  ASSUME LimiterInv, NEW c \in Callers, state[c] = "asked", count[Key(c)] = 0
  PROVE  granted[Key(c)] = 0
<1>1. stamp[c] \in Times /\ now \in Times
  BY DEF LimiterInv, LimiterTypeOK
<1>2. /\ Key(c) \in Times
      /\ Key(c) <= stamp[c] /\ stamp[c] < Key(c) + Second
  BY <1>1, WindowLemma DEF Key
<1>3. now <= stamp[c] + MaxLag
  BY DEF LimiterInv, AskedIsRecent
<1>4. granted[Key(c)] = 0 \/ now >= Key(c) + Second + MaxLag
  BY <1>2 DEF LimiterInv, CounterCounts
<1> QED
  BY <1>1, <1>2, <1>3, <1>4, TimesLemma, SecondAssumption, MaxLagAssumption

LEMMA LimiterNextCounts ==
  ASSUME LimiterInv, [LimiterNext]_limiterVars, MaxLag + Second <= Ttl
  PROVE  CounterCounts'
<1> USE LimitAssumption, SecondAssumption, TtlAssumption, MaxLagAssumption, MaxTimeAssumption,
        TimesLemma
<1>1. CASE Tick
  BY <1>1 DEF Tick, LimiterInv, LimiterTypeOK, CounterCounts
<1>2. ASSUME NEW c \in Callers, Incr(c), UNCHANGED now,
             \/ UNCHANGED granted
             \/ count'[Key(c)] <= Limit /\ granted' = [granted EXCEPT ![Key(c)] = @ + 1]
      PROVE  CounterCounts'
  <2>1. /\ Key(c) \in Times /\ Key(c) <= now
        /\ state[c] = "asked"
    BY <1>2, WindowLemma DEF Incr, Key, LimiterInv, LimiterTypeOK, AskedIsRecent
  <2>2. granted[Key(c)] <= count[Key(c)]
    BY <2>1, FirstOfWindow DEF LimiterInv, LimiterTypeOK, CounterCounts
  <2>3. /\ count'[Key(c)] = count[Key(c)] + 1
        /\ expires'[Key(c)] >= Key(c) + Ttl
    BY <1>2, <2>1 DEF Incr, LimiterInv, LimiterTypeOK, CounterCounts
  <2>4. granted'[Key(c)] <= Limit /\ granted'[Key(c)] <= count'[Key(c)]
    BY <1>2, <2>1, <2>2, <2>3 DEF LimiterInv, LimiterTypeOK, CounterCounts
  <2>5. \A t \in Times \ {Key(c)} :
          granted'[t] = granted[t] /\ count'[t] = count[t] /\ expires'[t] = expires[t]
    BY <1>2, <2>1 DEF Incr, LimiterInv, LimiterTypeOK
  <2>6. count'[Key(c)] > 0
    BY <2>1, <2>3 DEF LimiterInv, LimiterTypeOK
  <2> QED
    BY <1>2, <2>1, <2>3, <2>4, <2>5, <2>6 DEF LimiterInv, CounterCounts
<1>3. ASSUME UNCHANGED <<now, count, expires, granted>>  PROVE CounterCounts'
  BY <1>3 DEF LimiterInv, CounterCounts
<1> QED
  BY <1>1, <1>2, <1>3
  DEF LimiterNext, ReadClock, Grant, Deny, CallFails, WaitOver, Interrupted, limiterVars

(***************************************************************************)
(* The limit holds in every window, provided the script runs at most       *)
(* Ttl - Second, that is 100 ms, after the caller has read its clock.      *)
(***************************************************************************)
THEOREM LimitHoldsPerWindow ==
  ASSUME MaxLag + Second <= Ttl
  PROVE  LimiterSpec => []WindowHolds
<1>1. LimiterInit => LimiterInv
  BY LimitAssumption, MaxTimeAssumption, MaxLagAssumption, TimesLemma
  DEF LimiterInit, LimiterInv, LimiterTypeOK, AskedIsRecent, CounterCounts, Never
<1>2. LimiterInv /\ [LimiterNext]_limiterVars => LimiterInv'
  BY LimiterNextType, LimiterNextRecent, LimiterNextCounts DEF LimiterInv
<1>3. LimiterInv => WindowHolds
  BY DEF LimiterInv, CounterCounts, WindowHolds
<1> QED  BY <1>1, <1>2, <1>3, PTL DEF LimiterSpec

-----------------------------------------------------------------------------
\* What a caller remembers of its last refusal.
RefusalKnown ==
  \A c \in Callers :
    /\ state[c] = "idle" => refused[c] = Never
    /\ state[c] = "waiting" => refused[c] = Key(c)
    /\ state[c] = "asked" => Key(c) # refused[c]

(***************************************************************************)
(* The hint makes a refused caller wait until the next window: it does not *)
(* spin on a window that has nothing left, however late its calls are.     *)
(***************************************************************************)
THEOREM NoSpinning == LimiterSpec => []RefusedOnce
<1> DEFINE Inv == LimiterTypeOK /\ RefusalKnown
<1>1. LimiterInit => Inv
  BY LimitAssumption, MaxTimeAssumption, TimesLemma
  DEF LimiterInit, LimiterTypeOK, RefusalKnown, Never
<1>2. ASSUME Inv, [LimiterNext]_limiterVars  PROVE RefusalKnown'
  <2> USE TimesLemma DEF LimiterTypeOK, RefusalKnown, Key
  <2>1. ASSUME UNCHANGED <<state, stamp, refused>>  PROVE RefusalKnown'
    BY <1>2, <2>1
  <2>2. ASSUME NEW c \in Callers, ReadClock(c)  PROVE RefusalKnown'
    <3>1. WindowOf(now) \in Times /\ Never \notin Times
      BY <1>2, WindowLemma, MaxTimeAssumption DEF Never
    <3> QED  BY <1>2, <2>2, <3>1 DEF ReadClock
  <2>3. ASSUME NEW c \in Callers, WaitOver(c)  PROVE RefusalKnown'
    <3>1. /\ now < WindowOf(now) + Second
          /\ now >= WindowOf(stamp[c]) + Second
          /\ WindowOf(now) \in Nat /\ WindowOf(stamp[c]) \in Nat /\ now \in Nat
      BY <1>2, <2>3, WindowLemma DEF WaitOver, NextWindow
    <3>2. WindowOf(now) # WindowOf(stamp[c])
      BY <3>1, SecondAssumption
    <3> QED  BY <1>2, <2>3, <3>2 DEF WaitOver
  <2>4. ASSUME NEW c \in Callers, Deny(c)  PROVE RefusalKnown'
    BY <1>2, <2>4 DEF Deny
  <2>5. ASSUME NEW c \in Callers, Forget(c)  PROVE RefusalKnown'
    BY <1>2, <2>5 DEF Forget
  <2> QED
    BY <1>2, <2>1, <2>2, <2>3, <2>4, <2>5
    DEF LimiterNext, Tick, Grant, CallFails, Interrupted, limiterVars
<1>3. Inv => RefusedOnce
  BY DEF RefusalKnown, RefusedOnce
<1> QED  BY <1>1, <1>2, <1>3, LimiterNextType, PTL DEF LimiterSpec

-----------------------------------------------------------------------------
(***************************************************************************)
(* Windows are multiples of a second, and a counter that is there belongs  *)
(* to one that began not long ago: whoever set its time to live had read   *)
(* the clock in that window at most MaxLag earlier.                        *)
(***************************************************************************)
KeysRecent ==
  \A t \in Times : count[t] > 0 =>
    /\ t = Second * (t \div Second)
    /\ t <= now /\ now < expires[t]
    /\ expires[t] < t + Second + MaxLag + Ttl

FewKeysInv == LimiterTypeOK /\ AskedIsRecent /\ KeysRecent

LEMMA WindowIsMultiple ==
  ASSUME NEW t \in Times
  PROVE  WindowOf(t) = Second * (WindowOf(t) \div Second)
<1>0. t \in Nat
  BY TimesLemma
<1>1. t \div Second \in Nat /\ t = Second * (t \div Second) + (t % Second)
  BY <1>0, SecondAssumption
<1>2. WindowOf(t) = Second * (t \div Second)
  BY <1>0, <1>1, SecondAssumption DEF WindowOf
<1>3. (Second * (t \div Second)) \div Second = t \div Second
  BY <1>1, SecondAssumption
<1> QED  BY <1>2, <1>3

LEMMA LimiterNextKeys ==
  ASSUME FewKeysInv, [LimiterNext]_limiterVars
  PROVE  KeysRecent'
<1> USE SecondAssumption, TtlAssumption, MaxLagAssumption, MaxTimeAssumption, TimesLemma
<1>1. CASE Tick
  BY <1>1 DEF Tick, FewKeysInv, LimiterTypeOK, KeysRecent
<1>2. ASSUME NEW c \in Callers, Incr(c), UNCHANGED now
      PROVE  KeysRecent'
  <2>1. state[c] = "asked" /\ stamp[c] \in Times /\ now \in Times
    BY <1>2 DEF Incr, FewKeysInv, LimiterTypeOK
  <2>2. /\ Key(c) \in Times /\ Key(c) = Second * (Key(c) \div Second)
        /\ Key(c) <= stamp[c] /\ stamp[c] < Key(c) + Second
    BY <2>1, WindowLemma, WindowIsMultiple DEF Key
  <2>3. stamp[c] <= now /\ now <= stamp[c] + MaxLag
    BY <2>1 DEF FewKeysInv, AskedIsRecent
  <2>4. count[Key(c)] \in Nat /\ expires[Key(c)] \in Nat
    BY <2>2 DEF FewKeysInv, LimiterTypeOK
  <2>5. now < expires'[Key(c)] /\ expires'[Key(c)] < Key(c) + Second + MaxLag + Ttl
    <3>1. CASE count[Key(c)] = 0
      <4>1. expires'[Key(c)] = now + Ttl
        BY <1>2, <2>2, <3>1 DEF Incr, FewKeysInv, LimiterTypeOK
      <4> QED  BY <2>1, <2>2, <2>3, <4>1
    <3>2. CASE count[Key(c)] > 0
      <4>1. expires'[Key(c)] = expires[Key(c)]
        BY <1>2, <2>2, <3>2 DEF Incr, FewKeysInv, LimiterTypeOK
      <4> QED  BY <2>2, <3>2, <4>1 DEF FewKeysInv, KeysRecent
    <3> QED  BY <2>4, <3>1, <3>2
  <2>6. \A t \in Times \ {Key(c)} : count'[t] = count[t] /\ expires'[t] = expires[t]
    BY <1>2, <2>2 DEF Incr, FewKeysInv, LimiterTypeOK
  <2>7. Key(c) <= now
    BY <2>1, <2>2, <2>3
  <2> SUFFICES ASSUME NEW t \in Times, count'[t] > 0
               PROVE  /\ t = Second * (t \div Second)
                      /\ t <= now /\ now < expires'[t]
                      /\ expires'[t] < t + Second + MaxLag + Ttl
    BY <1>2 DEF KeysRecent
  <2>8. CASE t = Key(c)
    BY <2>2, <2>5, <2>7, <2>8
  <2>9. CASE t # Key(c)
    BY <2>6, <2>9 DEF FewKeysInv, KeysRecent
  <2> QED  BY <2>8, <2>9
<1>3. ASSUME UNCHANGED <<now, count, expires>>  PROVE KeysRecent'
  BY <1>3 DEF FewKeysInv, KeysRecent
<1> QED
  BY <1>1, <1>2, <1>3
  DEF LimiterNext, ReadClock, Grant, Deny, CallFails, WaitOver, Interrupted, limiterVars

LEMMA AtMostThree ==
  ASSUME NEW a, NEW b, NEW c, NEW S \in SUBSET {a, b, c}
  PROVE  Cardinality(S) <= 3
<1>1. IsFiniteSet({a}) /\ Cardinality({a}) = 1
  BY FS_Singleton
<1>2. IsFiniteSet({a} \cup {b}) /\ Cardinality({a} \cup {b}) \in {1, 2}
  BY <1>1, FS_AddElement
<1>3. /\ IsFiniteSet({a} \cup {b} \cup {c})
      /\ Cardinality({a} \cup {b} \cup {c}) \in {1, 2, 3}
  BY <1>2, FS_AddElement
<1>4. S \subseteq {a} \cup {b} \cup {c}
  OBVIOUS
<1>5. IsFiniteSet(S) /\ Cardinality(S) <= Cardinality({a} \cup {b} \cup {c})
  BY <1>3, <1>4, FS_Subset
<1>6. Cardinality(S) \in Nat
  BY <1>5, FS_CardinalityType
<1> QED  BY <1>3, <1>5, <1>6

\* Three windows at most have begun at or before now, and not long before.
LEMMA RecentWindows ==
  ASSUME FewKeysInv, MaxLag + Ttl <= 2 * Second
  PROVE  FewKeys
<1> DEFINE p == now \div Second
           window(k) == Second * (p - k)
<1>1. now \in Nat /\ p \in Nat /\ Second * p <= now /\ now < Second * p + Second
  BY SecondAssumption, TimesLemma DEF FewKeysInv, LimiterTypeOK
<1>2. ASSUME NEW t \in Times, count[t] > 0  PROVE t \in {window(0), window(1), window(2)}
  <2> DEFINE q == t \div Second
  <2>1. /\ t \in Nat /\ q \in Nat /\ expires[t] \in Nat
        /\ t = Second * q
        /\ t <= now /\ now < expires[t] /\ expires[t] < t + Second + MaxLag + Ttl
    BY <1>2, SecondAssumption, TimesLemma DEF FewKeysInv, KeysRecent, LimiterTypeOK
  <2>2. Second * q < Second * p + Second
    BY <1>1, <2>1, SecondAssumption
  <2>3. Second * p < Second * q + 3 * Second
    BY <1>1, <2>1, SecondAssumption, MaxLagAssumption, TtlAssumption
  <2> HIDE DEF p, q
  <2>4. q <= p
    BY <1>1, <2>1, <2>2, SecondAssumption
  <2>5. p < q + 3
    BY <1>1, <2>1, <2>3, SecondAssumption
  <2>6. q = p - 0 \/ q = p - 1 \/ q = p - 2
    BY <1>1, <2>1, <2>4, <2>5
  <2> QED  BY <2>1, <2>6
<1> HIDE DEF window
<1>3. {t \in Times : count[t] > 0} \subseteq {window(0), window(1), window(2)}
  BY <1>2
<1> QED  BY <1>3, AtMostThree DEF FewKeys

(***************************************************************************)
(* Redis holds the counters of at most three windows of a channel, however *)
(* many callers there are and however long they run, if a key outlives the *)
(* reading of the clock by no more than two seconds (it is 1.1 s, and the  *)
(* time the call takes).                                                   *)
(***************************************************************************)
THEOREM KeysAreDropped ==
  ASSUME MaxLag + Ttl <= 2 * Second
  PROVE  LimiterSpec => []FewKeys
<1>1. LimiterInit => FewKeysInv
  BY LimitAssumption, MaxTimeAssumption, MaxLagAssumption, TimesLemma
  DEF LimiterInit, FewKeysInv, LimiterTypeOK, AskedIsRecent, KeysRecent, Never
<1>2. FewKeysInv /\ [LimiterNext]_limiterVars => FewKeysInv'
  BY LimiterNextType, LimiterNextRecent, LimiterNextKeys DEF FewKeysInv
<1>3. FewKeysInv => FewKeys
  BY RecentWindows
<1> QED  BY <1>1, <1>2, <1>3, PTL DEF LimiterSpec

\* The counters, the clock and the callers keep to their types.
THEOREM LimiterTypeCorrect == LimiterSpec => []LimiterTypeOK
<1>1. LimiterInit => LimiterTypeOK
  BY LimitAssumption, MaxTimeAssumption, TimesLemma DEF LimiterInit, LimiterTypeOK, Never
<1> QED  BY <1>1, LimiterNextType, PTL DEF LimiterSpec

-----------------------------------------------------------------------------
\* A tally holds the pairs of a tick and a number no greater than its count.
LEMMA TallyMembers ==
  ASSUME NEW f \in [Times -> Nat], NEW from \in Times, NEW to \in Times
  PROVE  \A x : x \in Tally(f, from, to) <=>
                  \E t \in from .. to : \E n \in 1 .. f[t] : x = <<t, n>>
  BY DEF Tally

LEMMA FirstNumbers ==
  ASSUME NEW n \in Nat
  PROVE  IsFiniteSet(1 .. n) /\ Cardinality(1 .. n) = n
<1>1. 1 \in Int /\ n \in Int
  OBVIOUS
<1>2. IsFiniteSet(1 .. n) /\ Cardinality(1 .. n) = IF 1 > n THEN 0 ELSE n - 1 + 1
  BY <1>1, FS_Interval
<1>3. (IF 1 > n THEN 0 ELSE n - 1 + 1) = n
  OBVIOUS
<1> QED  BY <1>2, <1>3

LEMMA TallyFinite ==
  ASSUME NEW f \in [Times -> Nat], NEW from \in Times, NEW to \in Times
  PROVE  IsFiniteSet(Tally(f, from, to))
<1> DEFINE column == [t \in from .. to |-> {t} \X (1 .. f[t])]
           columns == {{t} \X (1 .. f[t]) : t \in from .. to}
<1>1. from \in Int /\ to \in Int /\ from .. to \subseteq Times
  BY MaxTimeAssumption DEF Times
<1>2. IsFiniteSet(from .. to)
  BY <1>1, FS_Interval
<1>3. column \in Surjection(from .. to, columns)
  BY DEF Surjection
<1>4. IsFiniteSet(columns)
  BY <1>2, <1>3, FS_Surjection
<1>5. ASSUME NEW t \in from .. to  PROVE IsFiniteSet({t} \X (1 .. f[t]))
  <2>1. f[t] \in Nat
    BY <1>1
  <2>2. IsFiniteSet({t})
    BY FS_Singleton
  <2>3. IsFiniteSet(1 .. f[t])
    <3> DEFINE n == f[t]
    <3>1. n \in Nat
      BY <2>1
    <3> HIDE DEF n
    <3>2. IsFiniteSet(1 .. n)
      BY <3>1, FirstNumbers
    <3> QED  BY <3>2 DEF n
  <2> QED  BY <2>2, <2>3, FS_Product
<1>6. \A c \in columns : IsFiniteSet(c)
  BY <1>5
<1> HIDE DEF columns
<1>7. IsFiniteSet(UNION columns)
  BY <1>4, <1>6, FS_UNION
<1> QED  BY <1>7 DEF Tally, columns

\* One more at a tick is one more in every tally that includes the tick.
LEMMA TallyOneMore ==
  ASSUME NEW f \in [Times -> Nat], NEW g \in [Times -> Nat], NEW k \in Times,
         g[k] = f[k] + 1, \A t \in Times \ {k} : g[t] = f[t],
         NEW from \in Times, NEW to \in Times
  PROVE  /\ k \in from .. to =>
              Cardinality(Tally(g, from, to)) = Cardinality(Tally(f, from, to)) + 1
         /\ k \notin from .. to =>
              Cardinality(Tally(g, from, to)) = Cardinality(Tally(f, from, to))
<1>1. from .. to \subseteq Times
  BY MaxTimeAssumption DEF Times
<1>2. IsFiniteSet(Tally(f, from, to)) /\ Cardinality(Tally(f, from, to)) \in Nat
  BY TallyFinite, FS_CardinalityType
<1>3. CASE k \notin from .. to
  <2>1. \A t \in from .. to : g[t] = f[t]
    BY <1>1, <1>3
  <2>2. Tally(g, from, to) = Tally(f, from, to)
    BY <2>1 DEF Tally
  <2> QED  BY <1>3, <2>2
<1>4. CASE k \in from .. to
  <2> DEFINE new == <<k, f[k] + 1>>
  <2>1. new \notin Tally(f, from, to)
    BY <1>1, <1>4, TallyMembers
  <2>2. Tally(g, from, to) = Tally(f, from, to) \cup {new}
    <3>1. ASSUME NEW t \in from .. to
          PROVE  \A n : n \in 1 .. g[t] <=>
                          n \in 1 .. f[t] \/ (t = k /\ n = f[k] + 1)
      <4>1. f[t] \in Nat /\ t \in Times
        BY <1>1, <3>1
      <4>2. CASE t = k
        BY <1>1, <4>1, <4>2
      <4>3. CASE t # k
        BY <1>1, <4>1, <4>3
      <4> QED  BY <4>2, <4>3
    <3>2. \A x : x \in Tally(g, from, to) <=> x \in Tally(f, from, to) \/ x = new
      <4>1. \A x : x \in Tally(g, from, to) <=>
                     \E t \in from .. to : \E n \in 1 .. g[t] : x = <<t, n>>
        BY <1>1, TallyMembers
      <4>2. \A x : x \in Tally(f, from, to) <=>
                     \E t \in from .. to : \E n \in 1 .. f[t] : x = <<t, n>>
        BY TallyMembers
      <4>3. ASSUME NEW x, x \in Tally(g, from, to)
            PROVE  x \in Tally(f, from, to) \/ x = new
        <5>0. PICK t \in from .. to : \E n \in 1 .. g[t] : x = <<t, n>>
          BY <4>1, <4>3
        <5>1. PICK n \in 1 .. g[t] : x = <<t, n>>
          BY <5>0
        <5>2. n \in 1 .. f[t] \/ (t = k /\ n = f[k] + 1)
          BY <3>1, <5>1
        <5> QED  BY <4>2, <5>1, <5>2
      <4>4. ASSUME NEW x, x \in Tally(f, from, to)  PROVE x \in Tally(g, from, to)
        <5>0. PICK t \in from .. to : \E n \in 1 .. f[t] : x = <<t, n>>
          BY <4>2, <4>4
        <5>1. PICK n \in 1 .. f[t] : x = <<t, n>>
          BY <5>0
        <5>2. n \in 1 .. g[t]
          BY <3>1, <5>1
        <5> QED  BY <4>1, <5>1, <5>2
      <4>5. new \in Tally(g, from, to)
        <5>1. f[k] + 1 \in 1 .. g[k]
          BY <1>4, <3>1
        <5> QED  BY <1>4, <4>1, <5>1
      <4> QED  BY <4>3, <4>4, <4>5
    <3> QED  BY <3>2
  <2>3. Cardinality(Tally(f, from, to) \cup {new}) = Cardinality(Tally(f, from, to)) + 1
    BY <1>2, <2>1, FS_AddElement
  <2> QED  BY <1>4, <2>2, <2>3
<1> QED  BY <1>3, <1>4

(***************************************************************************)
(* Grants are counted for windows, which start at multiples of a second;   *)
(* and what went through between two ticks was granted by windows that     *)
(* callers can have read their clocks in.                                  *)
(***************************************************************************)
GrantsAtStarts ==
  \A t \in Times : granted[t] > 0 => t = Second * (t \div Second)

PassedWasGranted ==
  \A from, to \in Times :
    Cardinality(Tally(passed, from, to))
      <= Cardinality(Tally(granted, WindowOf(Behind(from)), to))

BurstInv == LimiterTypeOK /\ AskedIsRecent /\ GrantsAtStarts /\ PassedWasGranted

LEMMA BehindLemma ==
  ASSUME NEW t \in Times
  PROVE  /\ Behind(t) \in Times /\ Behind(t) <= t
         /\ \A s \in Times : t <= s + MaxLag => Behind(t) <= s
  BY MaxTimeAssumption, MaxLagAssumption DEF Behind, Times

\* The window of an earlier moment is no later one.
LEMMA WindowsInOrder ==
  ASSUME NEW s \in Times, NEW t \in Times, s <= t
  PROVE  WindowOf(s) <= WindowOf(t)
<1> DEFINE p == WindowOf(s) \div Second
           q == WindowOf(t) \div Second
<1>1. /\ WindowOf(s) \in Nat /\ WindowOf(s) <= s
      /\ WindowOf(t) \in Nat /\ t < WindowOf(t) + Second
      /\ s \in Nat /\ t \in Nat
  BY WindowLemma, TimesLemma
<1>2. /\ p \in Nat /\ WindowOf(s) = Second * p
      /\ q \in Nat /\ WindowOf(t) = Second * q
  BY <1>1, WindowIsMultiple, SecondAssumption
<1> HIDE DEF p, q
<1>3. Second * p < Second * q + Second
  BY <1>1, <1>2, SecondAssumption
<1>4. p <= q
  BY <1>2, <1>3, SecondAssumption
<1> QED  BY <1>2, <1>4, SecondAssumption

LEMMA BurstNext ==
  ASSUME BurstInv, [LimiterNext]_limiterVars
  PROVE  GrantsAtStarts' /\ PassedWasGranted'
<1>1. CASE UNCHANGED <<granted, passed>>
  BY <1>1 DEF BurstInv, GrantsAtStarts, PassedWasGranted
<1>2. ASSUME NEW c \in Callers, Grant(c)  PROVE GrantsAtStarts' /\ PassedWasGranted'
  <2>1. /\ state[c] = "asked" /\ stamp[c] \in Times /\ now \in Times
        /\ granted \in [Times -> Nat] /\ passed \in [Times -> Nat]
    BY <1>2 DEF Grant, Incr, BurstInv, LimiterTypeOK
  <2>2. /\ Key(c) \in Times /\ Key(c) <= stamp[c]
        /\ Key(c) = Second * (Key(c) \div Second)
    BY <2>1, WindowLemma, WindowIsMultiple DEF Key
  <2>3. stamp[c] <= now /\ now <= stamp[c] + MaxLag
    BY <2>1 DEF BurstInv, AskedIsRecent
  <2>4. /\ granted' = [granted EXCEPT ![Key(c)] = @ + 1]
        /\ passed' = [passed EXCEPT ![now] = @ + 1]
    BY <1>2 DEF Grant
  <2>5. GrantsAtStarts'
    BY <2>1, <2>2, <2>4 DEF BurstInv, GrantsAtStarts
  <2>6. ASSUME NEW from \in Times, NEW to \in Times
        PROVE  Cardinality(Tally(passed', from, to))
                 <= Cardinality(Tally(granted', WindowOf(Behind(from)), to))
    <3> DEFINE back == WindowOf(Behind(from))
               before == Cardinality(Tally(passed, from, to))
               room == Cardinality(Tally(granted, back, to))
    <3>1. back \in Times
      BY BehindLemma, WindowLemma
    <3>2. before \in Nat /\ room \in Nat
      BY <2>1, <3>1, TallyFinite, FS_CardinalityType
    <3>3. before <= room
      BY DEF BurstInv, PassedWasGranted
    <3>4. /\ now \in from .. to =>
               Cardinality(Tally(passed', from, to)) = before + 1
          /\ now \notin from .. to =>
               Cardinality(Tally(passed', from, to)) = before
      <4>1. /\ passed' \in [Times -> Nat] /\ passed'[now] = passed[now] + 1
            /\ \A t \in Times \ {now} : passed'[t] = passed[t]
        BY <2>1, <2>4
      <4> QED  BY <2>1, <4>1, TallyOneMore
    <3>5. /\ Key(c) \in back .. to =>
               Cardinality(Tally(granted', back, to)) = room + 1
          /\ Key(c) \notin back .. to =>
               Cardinality(Tally(granted', back, to)) = room
      <4>1. /\ granted' \in [Times -> Nat] /\ granted'[Key(c)] = granted[Key(c)] + 1
            /\ \A t \in Times \ {Key(c)} : granted'[t] = granted[t]
        BY <2>1, <2>2, <2>4
      <4> QED  BY <2>1, <2>2, <3>1, <4>1, TallyOneMore
    <3>6. now \in from .. to => Key(c) \in back .. to
      <4> SUFFICES ASSUME now \in from .. to  PROVE Key(c) \in back .. to
        OBVIOUS
      <4>1. from <= stamp[c] + MaxLag /\ Key(c) <= to
        BY <2>1, <2>2, <2>3, TimesLemma, MaxLagAssumption
      <4>2. Behind(from) \in Times /\ Behind(from) <= stamp[c]
        BY <2>1, <4>1, BehindLemma
      <4>3. back <= Key(c)
        BY <2>1, <4>2, WindowsInOrder DEF Key
      <4> QED  BY <2>2, <3>1, <4>1, <4>3, TimesLemma
    <3> HIDE DEF before, room, back
    <3>7. Cardinality(Tally(passed', from, to)) <= Cardinality(Tally(granted', back, to))
      BY <3>2, <3>3, <3>4, <3>5, <3>6
    <3> QED  BY <3>7 DEF back
  <2>7. PassedWasGranted'
    BY <2>6 DEF PassedWasGranted
  <2> QED  BY <2>5, <2>7
<1> QED
  BY <1>1, <1>2
  DEF LimiterNext, Tick, ReadClock, Deny, CallFails, WaitOver, Interrupted, limiterVars

\* Windows that each let Limit through make a tally of no more than that.
LEMMA GrantsOfWindows ==
  ASSUME LimiterTypeOK, WindowHolds, GrantsAtStarts,
         NEW first \in Times, NEW to \in Times, first <= to
  PROVE  Cardinality(Tally(granted, WindowOf(first), to))
           <= Limit * (to \div Second - first \div Second + 1)
<1> DEFINE p == first \div Second
           q == to \div Second
           T == Tally(granted, WindowOf(first), to)
           place == [x \in T |-> <<x[1] \div Second, x[2]>>]
<1>1. /\ first \in Nat /\ to \in Nat
      /\ WindowOf(first) \in Times /\ granted \in [Times -> Nat]
  BY WindowLemma, TimesLemma DEF LimiterTypeOK
<1>2. p \in Nat /\ q \in Nat /\ p <= q
  BY <1>1, SecondAssumption
<1>3. ASSUME NEW x \in T
      PROVE  /\ x = <<x[1], x[2]>>
             /\ x[1] = Second * (x[1] \div Second)
             /\ x[1] \div Second \in p .. q /\ x[2] \in 1 .. Limit
  <2>1. PICK t \in WindowOf(first) .. to : \E n \in 1 .. granted[t] : x = <<t, n>>
    <3>1. \A y : y \in Tally(granted, WindowOf(first), to) <=>
                   \E t \in WindowOf(first) .. to : \E n \in 1 .. granted[t] : y = <<t, n>>
      BY <1>1, TallyMembers
    <3> QED  BY <1>3, <3>1
  <2>2. PICK n \in 1 .. granted[t] : x = <<t, n>>
    BY <2>1
  <2>3. t \in Times /\ t \in Nat /\ WindowOf(first) <= t /\ t <= to
    BY <1>1, MaxTimeAssumption DEF Times
  <2>4. t = Second * (t \div Second) /\ n \in 1 .. Limit
    BY <1>1, <2>2, <2>3, LimitAssumption DEF GrantsAtStarts, WindowHolds
  <2>5. first < t + Second
    BY <1>1, <2>3, WindowLemma, TimesLemma, SecondAssumption
  <2>6. t \div Second \in Nat /\ p <= t \div Second /\ t \div Second <= q
    <3> DEFINE r == t \div Second
    <3>1. /\ r \in Nat /\ t = Second * r
          /\ Second * p <= first /\ to < Second * q + Second
      BY <1>1, <2>3, <2>4, SecondAssumption
    <3>2. WindowOf(first) = Second * p
      BY <1>1, SecondAssumption DEF WindowOf
    <3> HIDE DEF p, q, r
    <3>3. Second * p < Second * r + Second /\ Second * r < Second * q + Second
      BY <1>1, <1>2, <2>3, <3>1, <3>2, SecondAssumption
    <3>4. p <= r /\ r <= q
      BY <1>2, <3>1, <3>3, SecondAssumption
    <3> QED  BY <3>1, <3>4 DEF r
  <2> HIDE DEF p, q
  <2>7. x[1] = t /\ x[2] = n
    BY <2>2
  <2> QED  BY <1>2, <2>2, <2>4, <2>6, <2>7
<1> HIDE DEF p, q, T
<1>4. place \in Injection(T, (p .. q) \X (1 .. Limit))
  <2>1. place \in [T -> (p .. q) \X (1 .. Limit)]
    BY <1>3
  <2>2. ASSUME NEW x \in T, NEW y \in T, place[x] = place[y]  PROVE x = y
    BY <1>3, <2>2
  <2> QED  BY <2>1, <2>2 DEF Injection, IsInjective
<1>5. /\ IsFiniteSet((p .. q) \X (1 .. Limit))
      /\ Cardinality((p .. q) \X (1 .. Limit)) = (q - p + 1) * Limit
  <2> DEFINE A == p .. q
             B == 1 .. Limit
  <2>1. IsFiniteSet(A) /\ Cardinality(A) = q - p + 1
    BY <1>2, FS_Interval
  <2>2. IsFiniteSet(B) /\ Cardinality(B) = Limit
    BY LimitAssumption, FirstNumbers
  <2> HIDE DEF A, B
  <2>3. IsFiniteSet(A \X B) /\ Cardinality(A \X B) = Cardinality(A) * Cardinality(B)
    BY <2>1, <2>2, FS_Product
  <2> QED  BY <2>1, <2>2, <2>3 DEF A, B
<1> HIDE DEF place
<1>6. Cardinality(T) <= Cardinality((p .. q) \X (1 .. Limit))
  BY <1>4, <1>5, FS_Injection
<1>7. (q - p + 1) * Limit = Limit * (q - p + 1)
  BY <1>2, LimitAssumption
<1> QED  BY <1>5, <1>6, <1>7 DEF T, p, q

(***************************************************************************)
(* Whatever second one looks at, the limit holds for it once per window in *)
(* which its callers may have read their clocks, if scripts run no later   *)
(* than the key outlives its window.                                       *)
(***************************************************************************)
THEOREM BurstsAreBounded ==
  ASSUME MaxLag + Second <= Ttl
  PROVE  LimiterSpec => []BurstsBounded
<1>1. LimiterInit => BurstInv
  <2> SUFFICES ASSUME LimiterInit  PROVE BurstInv
    OBVIOUS
  <2>1. LimiterTypeOK /\ AskedIsRecent /\ GrantsAtStarts
    BY LimitAssumption, MaxTimeAssumption, MaxLagAssumption, TimesLemma
    DEF LimiterInit, LimiterTypeOK, AskedIsRecent, GrantsAtStarts, Never
  <2>2. ASSUME NEW from \in Times, NEW to \in Times
        PROVE  Cardinality(Tally(passed, from, to))
                 <= Cardinality(Tally(granted, WindowOf(Behind(from)), to))
    <3>1. passed \in [Times -> Nat] /\ \A t \in Times : passed[t] = 0
      BY <2>1 DEF LimiterInit
    <3>2. Tally(passed, from, to) = {}
      <4>1. from .. to \subseteq Times
        BY MaxTimeAssumption DEF Times
      <4> QED  BY <3>1, <4>1, TallyMembers
    <3>3. Cardinality(Tally(passed, from, to)) = 0
      BY <3>2, FS_EmptySet
    <3>4. WindowOf(Behind(from)) \in Times /\ granted \in [Times -> Nat]
      BY <2>1, BehindLemma, WindowLemma DEF LimiterTypeOK
    <3>5. Cardinality(Tally(granted, WindowOf(Behind(from)), to)) \in Nat
      BY <3>4, TallyFinite, FS_CardinalityType
    <3> QED  BY <3>3, <3>5
  <2> QED  BY <2>1, <2>2 DEF BurstInv, PassedWasGranted
<1>2. BurstInv /\ [LimiterNext]_limiterVars => BurstInv'
  BY LimiterNextType, LimiterNextRecent, BurstNext DEF BurstInv
<1>3. ASSUME BurstInv, WindowHolds  PROVE BurstsBounded
  <2> SUFFICES ASSUME NEW t \in Times
               PROVE  Cardinality(Tally(passed, SecondBefore(t), t))
                        <= Limit * (t \div Second
                                    - Behind(SecondBefore(t)) \div Second + 1)
    BY DEF BurstsBounded
  <2> DEFINE start == SecondBefore(t)
             first == Behind(start)
  <2>1. start \in Times /\ start <= t /\ t \in Nat
    BY MaxTimeAssumption, SecondAssumption DEF SecondBefore, Times
  <2>2. first \in Times /\ first <= t
    BY <2>1, BehindLemma, TimesLemma
  <2> HIDE DEF start
  <2>3. Cardinality(Tally(passed, start, t))
          <= Cardinality(Tally(granted, WindowOf(first), t))
    BY <1>3, <2>1 DEF BurstInv, PassedWasGranted
  <2> HIDE DEF first
  <2>4. Cardinality(Tally(granted, WindowOf(first), t))
          <= Limit * (t \div Second - first \div Second + 1)
    BY <1>3, <2>2, GrantsOfWindows DEF BurstInv
  <2>5. /\ WindowOf(first) \in Times
        /\ passed \in [Times -> Nat] /\ granted \in [Times -> Nat]
    BY <1>3, <2>2, WindowLemma DEF BurstInv, LimiterTypeOK
  <2>6. /\ Cardinality(Tally(passed, start, t)) \in Nat
        /\ Cardinality(Tally(granted, WindowOf(first), t)) \in Nat
    BY <2>1, <2>5, TallyFinite, FS_CardinalityType
  <2>7. Limit * (t \div Second - first \div Second + 1) \in Int
    BY <2>1, <2>2, LimitAssumption, SecondAssumption, TimesLemma
  <2>8. Cardinality(Tally(passed, start, t))
          <= Limit * (t \div Second - first \div Second + 1)
    BY <2>3, <2>4, <2>6, <2>7
  <2> QED  BY <2>8 DEF start, first
<1> QED  BY <1>1, <1>2, <1>3, LimitHoldsPerWindow, PTL DEF LimiterSpec

=============================================================================
