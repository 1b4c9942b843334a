---------------------------- MODULE RateLimiter -----------------------------
(***************************************************************************)
(* The limiter of one channel (internal/ratelimiter/ratelimiter.go) with   *)
(* the loop of processMessage that asks it.  Allow reads the worker's      *)
(* clock, then runs a script in Redis that increments the counter named    *)
(* after that second and lets it expire.  Other workers, the network and   *)
(* time come in between; a slow clock is the same thing as a late script.  *)
(* Callers are the workers of all processes; what they send after a grant  *)
(* is Consumer's business.                                                 *)
(***************************************************************************)
EXTENDS Naturals, FiniteSets

CONSTANTS Callers,
          Limit,     \* maxPerSec
          Second,    \* ticks of the clock in a second
          Ttl,       \* the 1100 ms of PEXPIRE, in ticks
          MaxLag,    \* ticks between reading the clock and the script, at most
          MaxTime,   \* bound of the model: where the clock stops
          MaxCount   \* bound of the model: the highest value of a counter

ASSUME LimitAssumption == Limit \in Nat \ {0}
ASSUME SecondAssumption == Second \in Nat \ {0}
ASSUME TtlAssumption == Ttl \in Nat \ {0}
ASSUME MaxLagAssumption == MaxLag \in Nat
ASSUME MaxTimeAssumption == MaxTime \in Nat
ASSUME MaxCountAssumption == MaxCount \in Nat

Times == 0 .. MaxTime

\* now.Truncate(time.Second): a window is named by its first tick.
WindowOf(t) == t - (t % Second)

VARIABLES now,
          count,     \* the counters in Redis, 0 where there is no key
          expires,   \* when the key of a window goes
          state,     \* of each caller
          stamp,     \* the clock as the caller read it
          refused,   \* the window the caller was last refused in, or Never
          granted,   \* history: grants per window
          passed     \* history: grants per tick

limiterVars == <<now, count, expires, state, stamp, refused, granted, passed>>

Never == MaxTime + 1

LimiterTypeOK ==
  /\ now \in Times
  /\ count \in [Times -> Nat]
  /\ expires \in [Times -> Nat]
  /\ state \in [Callers -> {"idle", "asked", "waiting"}]
  /\ stamp \in [Callers -> Times]
  /\ refused \in [Callers -> Times \cup {Never}]
  /\ granted \in [Times -> Nat]
  /\ passed \in [Times -> Nat]

LimiterInit ==
  /\ now = 0
  /\ count = [t \in Times |-> 0]
  /\ expires = [t \in Times |-> 0]
  /\ state = [c \in Callers |-> "idle"]
  /\ stamp = [c \in Callers |-> 0]
  /\ refused = [c \in Callers |-> Never]
  /\ granted = [t \in Times |-> 0]
  /\ passed = [t \in Times |-> 0]

-----------------------------------------------------------------------------
\* now := time.Now(), the name of the key with it.
ReadClock(c) ==
  /\ state[c] = "idle"
  /\ state' = [state EXCEPT ![c] = "asked"]
  /\ stamp' = [stamp EXCEPT ![c] = now]
  /\ UNCHANGED <<now, count, expires, refused, granted, passed>>

Key(c) == WindowOf(stamp[c])

\* Mutant: INCR without PEXPIRE.
IncrNoExpire(c) ==
  /\ state[c] = "asked" /\ count[Key(c)] < MaxCount
  /\ count' = [count EXCEPT ![Key(c)] = @ + 1]
  /\ expires' = [expires EXCEPT ![Key(c)] = MaxTime + 1]

\* Mutant: the key expires before its window has ended.
IncrShortLived(c) ==
  /\ state[c] = "asked" /\ count[Key(c)] < MaxCount
  /\ count' = [count EXCEPT ![Key(c)] = @ + 1]
  /\ expires' = [expires EXCEPT ![Key(c)] = IF count[Key(c)] = 0 THEN now + 1 ELSE @]

\* INCR, and PEXPIRE for the first.
Incr(c) ==
  /\ state[c] = "asked" /\ count[Key(c)] < MaxCount
  /\ count' = [count EXCEPT ![Key(c)] = @ + 1]
  /\ expires' = [expires EXCEPT ![Key(c)] = IF count[Key(c)] = 0 THEN now + Ttl ELSE @]

\* The caller leaves the loop.
Forget(c) ==
  /\ state' = [state EXCEPT ![c] = "idle"]
  /\ refused' = [refused EXCEPT ![c] = Never]
  /\ stamp' = [stamp EXCEPT ![c] = 0]

\* Mutant: the counter is compared before it counts the caller.
GrantOneMore(c) ==
  /\ Incr(c)
  /\ count[Key(c)] <= Limit
  /\ Forget(c)
  /\ granted' = [granted EXCEPT ![Key(c)] = @ + 1]
  /\ passed' = [passed EXCEPT ![now] = @ + 1]
  /\ UNCHANGED now

\* The script returns 1: Send follows, and the next message.
Grant(c) ==
  /\ Incr(c)
  /\ count'[Key(c)] <= Limit
  /\ Forget(c)
  /\ granted' = [granted EXCEPT ![Key(c)] = @ + 1]
  /\ passed' = [passed EXCEPT ![now] = @ + 1]
  /\ UNCHANGED now

\* The script returns 0: the caller waits, with a hint.
Deny(c) ==
  /\ Incr(c)
  /\ count'[Key(c)] > Limit
  /\ state' = [state EXCEPT ![c] = "waiting"]
  /\ refused' = [refused EXCEPT ![c] = Key(c)]
  /\ UNCHANGED <<now, stamp, granted, passed>>

\* The call fails, before the script ran or after: the consumer sends unlimited.
CallFails(c) ==
  /\ state[c] = "asked"
  /\ Incr(c) \/ UNCHANGED <<count, expires>>
  /\ Forget(c)
  /\ UNCHANGED <<now, granted, passed>>

\* A shutdown ends the wait.
Interrupted(c) ==
  /\ state[c] = "waiting"
  /\ Forget(c)
  /\ UNCHANGED <<now, count, expires, granted, passed>>

\* Mutant: the hint is the start of the window the caller was refused in.
HintTooEarly(c) == Key(c)

NextWindow(c) == Key(c) + Second

\* Mutant: the clock is taken to stand where the wait was to end.
WaitOverAhead(c) ==
  /\ state[c] = "waiting"
  /\ state' = [state EXCEPT ![c] = "asked"]
  /\ stamp' = [stamp EXCEPT ![c] = NextWindow(c)]
  /\ UNCHANGED <<now, count, expires, refused, granted, passed>>

\* time.After(time.Until(nextWindow)) fires, not before that moment.
WaitOver(c) ==
  /\ state[c] = "waiting" /\ now >= NextWindow(c)
  /\ state' = [state EXCEPT ![c] = "asked"]
  /\ stamp' = [stamp EXCEPT ![c] = now]
  /\ UNCHANGED <<now, count, expires, refused, granted, passed>>

\* Time passes, and Redis drops what has expired.
Tick ==
  /\ now < MaxTime
  /\ \A c \in Callers : state[c] = "asked" => now + 1 <= stamp[c] + MaxLag
  /\ now' = now + 1
  /\ count' = [t \in Times |-> IF expires[t] <= now + 1 THEN 0 ELSE count[t]]
  /\ expires' = [t \in Times |-> IF expires[t] <= now + 1 THEN 0 ELSE expires[t]]
  /\ UNCHANGED <<state, stamp, refused, granted, passed>>

LimiterNext ==
  \/ Tick
  \/ \E c \in Callers : ReadClock(c) \/ Grant(c) \/ Deny(c)
                       \/ CallFails(c) \/ WaitOver(c) \/ Interrupted(c)

LimiterSpec == LimiterInit /\ [][LimiterNext]_limiterVars

-----------------------------------------------------------------------------
(***************************************************************************)
(* No window lets more than Limit through.  The 100 ms by which a key      *)
(* outlives its window cover the lag of the callers that read their clock  *)
(* in it: with MaxLag + Second <= Ttl, which a run has to choose and the   *)
(* theorem assumes, the key is never gone while one of them is on its way. *)
(* Where it can be gone, a script that comes late begins to count anew,    *)
(* and the limit does not hold: the code has nothing against that.         *)
(***************************************************************************)
WindowHolds == \A t \in Times : granted[t] <= Limit

\* One element for each grant that f counts from one tick to another.
Tally(f, from, to) == UNION {{t} \X (1 .. f[t]) : t \in from .. to}

\* The earliest clock that a caller may have read whose script runs at t.
Behind(t) == IF t < MaxLag THEN 0 ELSE t - MaxLag

SecondBefore(t) == IF t < Second THEN 0 ELSE t - Second + 1

(***************************************************************************)
(* Whatever second one looks at, no more goes through in it than Limit for *)
(* each window in which a caller may have read its clock: two windows,     *)
(* and a third where scripts run late.                                     *)
(***************************************************************************)
BurstsBounded ==
  \A t \in Times :
    LET first == Behind(SecondBefore(t))
    IN Cardinality(Tally(passed, SecondBefore(t), t))
         <= Limit * (t \div Second - first \div Second + 1)

\* A caller that was refused asks again in another window, not the same one.
RefusedOnce == \A c \in Callers : state[c] = "asked" => Key(c) # refused[c]

\* Redis keeps no more than the counters of the last windows.
FewKeys == Cardinality({t \in Times : count[t] > 0}) <= 3

=============================================================================
