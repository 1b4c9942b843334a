-------------------------- MODULE DeliveryPromise --------------------------
(***************************************************************************)
(* What the engine promises about each notification it has accepted, with  *)
(* no table, queue or worker in sight: the provider receives it, or it is  *)
(* abandoned for a cause, or its client is told that it was withdrawn; and *)
(* nothing is received or abandoned that was not accepted.  A notification *)
(* may be received more than once, also after it was withdrawn or          *)
(* abandoned: the engine promises "at least once", not more.               *)
(***************************************************************************)
EXTENDS Naturals

CONSTANTS Notifications, MaxRetries

VARIABLES accepted,    \* stored; the client has, or could have, been told so
          received,    \* the provider has it
          abandoned,   \* put aside in the dead-letter queue
          withdrawn,   \* a client was told it is cancelled
          failures,    \* tries that failed
          refused,     \* answered with a permanent error
          cut          \* a try of it was cut short

vars == <<accepted, received, abandoned, withdrawn, failures, refused, cut>>

Init ==
  /\ accepted = {} /\ received = {} /\ abandoned = {} /\ withdrawn = {}
  /\ failures = [n \in Notifications |-> 0]
  /\ refused = {} /\ cut = {}

Cause(n) ==
  \/ n \in refused
  \/ failures[n] >= MaxRetries
  \/ n \in cut /\ failures[n] + 1 >= MaxRetries

Accept(B) ==
  /\ B \cap accepted = {}
  /\ accepted' = accepted \cup B
  /\ UNCHANGED <<received, abandoned, withdrawn, failures, refused, cut>>

\* Whether or not the engine hears of it: if not, it counts a failed try.
Receive(n) ==
  /\ n \in accepted
  /\ received' = received \cup {n}
  /\ \/ UNCHANGED failures
     \/ failures' = [failures EXCEPT ![n] = @ + 1]
  /\ UNCHANGED <<accepted, abandoned, withdrawn, refused, cut>>

Fail(n) ==
  /\ n \in accepted
  /\ failures' = [failures EXCEPT ![n] = @ + 1]
  /\ refused' \in {refused, refused \cup {n}}
  /\ UNCHANGED <<accepted, received, abandoned, withdrawn, cut>>

CutShort(n) ==
  /\ n \in accepted
  /\ cut' = cut \cup {n}
  /\ received' \in {received, received \cup {n}}
  /\ UNCHANGED <<accepted, abandoned, withdrawn, failures, refused>>

Abandon(n) ==
  /\ n \in accepted
  /\ Cause(n)
  /\ abandoned' = abandoned \cup {n}
  /\ UNCHANGED <<accepted, received, withdrawn, failures, refused, cut>>

Withdraw(n) ==
  /\ n \in accepted
  /\ withdrawn' = withdrawn \cup {n}
  /\ UNCHANGED <<accepted, received, abandoned, failures, refused, cut>>

Settled(n) == n \in received \cup abandoned \cup withdrawn

Settle(n) == ~Settled(n) /\ (Receive(n) \/ Abandon(n) \/ Withdraw(n))

Next ==
  \/ \E B \in SUBSET Notifications : Accept(B)
  \/ \E n \in Notifications :
       Receive(n) \/ Fail(n) \/ CutShort(n) \/ Abandon(n) \/ Withdraw(n)

Spec == Init /\ [][Next]_vars

\* No accepted notification stays unsettled for ever.
FairSpec == Spec /\ \A n \in Notifications : WF_vars(Settle(n))

=============================================================================
