------------------------------ MODULE ReadView ------------------------------
(***************************************************************************)
(* The notifications table as the read endpoints see it, and the two ways  *)
(* in which the rest of the program changes what they see.  Which changes  *)
(* of status occur, and in what order, is left open here: see              *)
(* DeliveryPipeline.                                                       *)
(***************************************************************************)
EXTENDS Naturals, FiniteSets

CONSTANTS Ids,         \* primary keys
          ChannelOf,   \* the channel of each row
          Stamps,      \* values of created_at
          StatusSeen,  \* the values of status that are told apart
          Tables,      \* what the table may hold when the model begins
          MaxWrites    \* bound of the model: how many transactions write

ASSUME IdsAssumption == IsFiniteSet(Ids)
ASSUME ChannelOfAssumption == DOMAIN ChannelOf = Ids
ASSUME StampsAssumption == Stamps \subseteq Nat
ASSUME StatusSeenAssumption == {"pending", "sent"} \subseteq StatusSeen
ASSUME MaxWritesAssumption == MaxWrites \in Nat

Channels == {ChannelOf[i] : i \in Ids}

Entry == [stamp : Stamps, status : StatusSeen, sent_at : BOOLEAN]

\* UpdateStatus sets sent_at together with the status.
ASSUME TablesAssumption ==
  \A t \in Tables :
    /\ \E S \in SUBSET Ids : t \in [S -> Entry]
    /\ \A i \in DOMAIN t : t[i].status = "sent" => t[i].sent_at

VARIABLES entries,   \* the rows there are; none is ever deleted
          writes     \* how many transactions have written

viewVars == <<entries, writes>>

ViewTypeOK ==
  /\ \E S \in SUBSET Ids : entries \in [S -> Entry]
  /\ writes \in 0 .. MaxWrites

ViewInit == entries \in Tables /\ writes = 0

Present == DOMAIN entries

Write == writes < MaxWrites /\ writes' = writes + 1

(***************************************************************************)
(* Create, or a batch: created_at is NOW(), the start of the transaction,  *)
(* so the rows of a batch have the same one, and a transaction may commit  *)
(* after another one that has started later.                               *)
(***************************************************************************)
InsertEntries(S, stamp) ==
  /\ Write
  /\ S \cap Present = {}
  /\ entries' = [i \in Present \cup S |->
                   IF i \in S THEN [stamp |-> stamp, status |-> "pending", sent_at |-> FALSE]
                   ELSE entries[i]]

\* UpdateStatus and Cancel: sent_at is set with status sent, and never cleared.
WithStatus(entry, status) ==
  [entry EXCEPT !.status = status, !.sent_at = @ \/ status = "sent"]

SetStatus(i, status) ==
  /\ Write
  /\ entries' = [entries EXCEPT ![i] = WithStatus(@, status)]

ViewNext ==
  \/ \E S \in SUBSET Ids \ {{}}, stamp \in Stamps : InsertEntries(S, stamp)
  \/ \E i \in Present, status \in StatusSeen \ {"pending"} : SetStatus(i, status)

=============================================================================
