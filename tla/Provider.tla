------------------------------ MODULE Provider ------------------------------
(***************************************************************************)
(* The webhook provider as internal/delivery/provider.go sees it, with a   *)
(* record of what really happened at the far end.  The program cannot read *)
(* these variables: they are history that the properties are stated with.  *)
(***************************************************************************)
EXTENDS Broker, Faults

VARIABLES receipts,   \* how often the provider received each copy
          attempts,   \* how many Sends of each notification ended in an error
          tries,      \* and how many of each copy
          refused,    \* notifications answered with a permanent 4xx
          cut         \* notifications a Send of which a shutdown cut short

providerVars == <<receipts, attempts, tries, refused, cut>>

Verdict == {"transient", "permanent"}

ProviderTypeOK ==
  /\ receipts \in [Messages -> Nat]
  /\ attempts \in [Notifications -> Nat]
  /\ tries \in [Messages -> Nat]
  /\ refused \subseteq Notifications
  /\ cut \subseteq Notifications

ProviderInit ==
  /\ receipts = [m \in Messages |-> 0]
  /\ attempts = [n \in Notifications |-> 0]
  /\ tries = [m \in Messages |-> 0]
  /\ refused = {}
  /\ cut = {}

-----------------------------------------------------------------------------
\* 2xx, the answer arrives.
Accepts(m) ==
  /\ receipts' = [receipts EXCEPT ![m] = @ + 1]
  /\ UNCHANGED <<attempts, tries, refused, cut, disruptions>>

\* A Send of m ended in an error.
Errs(m) ==
  /\ attempts' = [attempts EXCEPT ![body[m].id] = @ + 1]
  /\ tries' = [tries EXCEPT ![m] = @ + 1]

(***************************************************************************)
(* An error without delivery: a status that is neither 2xx, 429 nor 5xx is *)
(* permanent; 429, 5xx and an unreachable provider are transient.          *)
(***************************************************************************)
Fails(m, verdict) ==
  /\ Errs(m)
  /\ refused' = IF verdict = "permanent" THEN refused \cup {body[m].id} ELSE refused
  /\ UNCHANGED <<receipts, cut, disruptions>>

\* The provider has the message; client.Do or ReadAll returns an error.
LosesReply(m) ==
  /\ Disrupt("reply")
  /\ receipts' = [receipts EXCEPT ![m] = @ + 1]
  /\ Errs(m)
  /\ UNCHANGED <<refused, cut>>

(***************************************************************************)
(* The context is cancelled: client.Do returns at once with an error.  A   *)
(* request on its way may have reached the provider or not.                *)
(***************************************************************************)
IsCut(m, reached) ==
  /\ cut' = cut \cup {body[m].id}
  /\ receipts' = [receipts EXCEPT ![m] = @ + reached]
  /\ UNCHANGED <<attempts, tries, refused, disruptions>>

=============================================================================
