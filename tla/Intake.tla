------------------------------- MODULE Intake -------------------------------
(***************************************************************************)
(* What Create and CreateBatch do up to and including the INSERT           *)
(* (internal/service/notification.go): validation, the idempotency lookup, *)
(* the template, then one INSERT or one transaction of INSERTs under the   *)
(* unique index on idempotency_key.  NotificationService takes over from   *)
(* there; for it, all of this is one step.  A call with no item or with    *)
(* more than 1000 is refused before anything else and is left out.         *)
(*                                                                         *)
(* pc[r] names what the call does next:                                    *)
(*   idle       not yet received                                           *)
(*   items      Validate, then GetByIdempotencyKey, of the next item       *)
(*   template   tmplRepo.GetByID and Render (Create only)                  *)
(*   insert     the next INSERT, or the COMMIT when all rows are in        *)
(*   done       answered, see outcome                                      *)
(***************************************************************************)
EXTENDS Templates

CONSTANTS MaxRequests,  \* how many calls there are (a bound of the model)
          Keys,       \* idempotency keys
          NoKey,      \* idempotency_key is NULL
          Calls,      \* what a client may ask
          NoCall,
          MaxLength   \* the most content each channel takes

\* Calls are numbered in the order in which they arrive.
Requests == 1 .. MaxRequests

Channel == DOMAIN MaxLength

\* malformed stands for every rule of Validate that is not about content.
IsItem(item) ==
  /\ item.key \in Keys \cup {NoKey}
  /\ item.channel \in Channel
  /\ item.content \in Text
  /\ item.template \in TemplateIds \cup {NoTemplate}
  /\ IsVariables(item.variables)
  /\ item.malformed \in BOOLEAN

ASSUME MaxRequestsAssumption == MaxRequests \in Nat
ASSUME NoKeyAssumption == NoKey \notin Keys
ASSUME CallsAssumption ==
  \A c \in Calls :
    /\ c.kind \in {"create", "batch"}
    /\ Len(c.items) > 0 /\ (c.kind = "create" => Len(c.items) = 1)
    /\ \A i \in 1 .. Len(c.items) : IsItem(c.items[i])
ASSUME MaxLengthAssumption == \A channel \in Channel : MaxLength[channel] \in Nat
ASSUME NoCallAssumption == NoCall \notin Calls

VARIABLES table,     \* committed rows
          call, pc,
          answers,   \* resp.Notifications, one entry per item dealt with
          fresh,     \* accepted: the rows this call wants to insert
          inserted,  \* how many of them its transaction holds
          outcome    \* what the client is told: "none" if it is told nothing

callVars == <<table, call, pc, answers, fresh, inserted, outcome, disruptions>>
intakeVars == <<callVars, templates>>

\* uuid.New() for the i-th item of a call is an id of its own.
Id == Requests \X Nat
NoId == <<>>

TableRow == [id : Id, key : Keys \cup {NoKey}, content : Text]

IntakeTypeOK ==
  /\ table \subseteq TableRow
  /\ call \in [Requests -> Calls \cup {NoCall}]
  /\ pc \in [Requests -> {"idle", "items", "template", "insert", "done"}]
  /\ answers \in [Requests -> Seq([status : {"accepted", "rejected"}, id : Id \cup {NoId}])]
  /\ fresh \in [Requests -> Seq(TableRow)]
  /\ inserted \in [Requests -> Nat]
  /\ outcome \in [Requests -> {"none", "ok", "invalid", "error"}]
  /\ TemplatesTypeOK
  /\ FaultsTypeOK
  /\ \A r \in Requests :   \* only a call that goes on has a transaction open
       inserted[r] <= Len(fresh[r]) /\ (inserted[r] > 0 => pc[r] = "insert")

IntakeInit ==
  /\ table = {}
  /\ call = [r \in Requests |-> NoCall]
  /\ pc = [r \in Requests |-> "idle"]
  /\ answers = [r \in Requests |-> <<>>]
  /\ fresh = [r \in Requests |-> <<>>]
  /\ inserted = [r \in Requests |-> 0]
  /\ outcome = [r \in Requests |-> "none"]
  /\ TemplatesInit
  /\ disruptions = 0

-----------------------------------------------------------------------------
IsCreate(r) == call[r].kind = "create"
Index(r) == Len(answers[r]) + 1
ItemsLeft(r) == pc[r] = "items" /\ Index(r) <= Len(call[r].items)
CurrentItem(r) == call[r].items[Index(r)]

Goto(r, next) == pc' = [pc EXCEPT ![r] = next]

\* Mutant: the deferred Rollback is missing.
EndWithoutRollback(r, told) ==
  /\ Goto(r, "done")
  /\ outcome' = [outcome EXCEPT ![r] = told]
  /\ UNCHANGED inserted

\* The call is over; a transaction that has not committed is rolled back.
End(r, told) ==
  /\ Goto(r, "done")
  /\ outcome' = [outcome EXCEPT ![r] = told]
  /\ inserted' = [inserted EXCEPT ![r] = 0]

Answer(r, status, id) ==
  answers' = [answers EXCEPT ![r] = Append(@, [status |-> status, id |-> id])]

HasTemplate(item) == item.template # NoTemplate

\* Mutant: only the content of a template is limited in length.
ValidateUnmeasured(item) ==
  /\ ~item.malformed
  /\ item.content = <<>> => HasTemplate(item)

\* Content is looked at as the client sent it, before any template.
Validate(item) ==
  /\ ~item.malformed
  /\ item.content = <<>> => HasTemplate(item)
  /\ Len(item.content) <= MaxLength[item.channel]

Receive(r) ==
  /\ pc[r] = "idle" /\ \A s \in Requests : s < r => pc[s] # "idle"
  /\ \E c \in Calls : call' = [call EXCEPT ![r] = c]
  /\ Goto(r, "items")
  /\ UNCHANGED <<table, answers, fresh, inserted, outcome, disruptions>>

Reject(r) ==
  /\ ItemsLeft(r) /\ ~Validate(CurrentItem(r))
  /\ IF IsCreate(r)
     THEN End(r, "invalid") /\ UNCHANGED answers
     ELSE Answer(r, "rejected", NoId) /\ UNCHANGED <<pc, inserted, outcome>>
  /\ UNCHANGED <<table, call, fresh, disruptions>>

\* GetByIdempotencyKey finds a row: the caller gets that notification.
Hit(r) ==
  /\ ItemsLeft(r) /\ Validate(CurrentItem(r))
  /\ CurrentItem(r).key # NoKey
  /\ \E row \in table : row.key = CurrentItem(r).key /\ Answer(r, "accepted", row.id)
  /\ IF IsCreate(r) THEN End(r, "ok") ELSE UNCHANGED <<pc, inserted, outcome>>
  /\ UNCHANGED <<table, call, fresh, disruptions>>

Accepted(r, content) ==
  LET id == <<r, Index(r)>> IN
  /\ fresh' = [fresh EXCEPT ![r] =
                 Append(@, [id |-> id, key |-> CurrentItem(r).key, content |-> content])]
  /\ Answer(r, "accepted", id)

\* Not found, or no key: the item becomes a row to insert.
NewItem(r) ==
  IF IsCreate(r) /\ HasTemplate(CurrentItem(r))
  THEN Goto(r, "template") /\ UNCHANGED <<answers, fresh>>
  ELSE /\ Accepted(r, CurrentItem(r).content)
       /\ IF IsCreate(r) THEN Goto(r, "insert") ELSE UNCHANGED pc

Miss(r) ==
  /\ ItemsLeft(r) /\ Validate(CurrentItem(r))
  /\ CurrentItem(r).key = NoKey \/ \A row \in table : row.key # CurrentItem(r).key
  /\ NewItem(r)
  /\ UNCHANGED <<table, call, inserted, outcome, disruptions>>

\* Create gives up with a 500; CreateBatch takes an error for a miss.
LookupFails(r) ==
  /\ ItemsLeft(r) /\ Validate(CurrentItem(r))
  /\ CurrentItem(r).key # NoKey
  /\ Disrupt("db")
  /\ IF IsCreate(r)
     THEN End(r, "error") /\ UNCHANGED <<answers, fresh>>
     ELSE NewItem(r) /\ UNCHANGED <<inserted, outcome>>
  /\ UNCHANGED <<table, call>>

\* Any error of the lookup is "template not found", a fault of the client's.
TemplateUnusable(r) ==
  LET item == call[r].items[1] IN
  /\ pc[r] = "template"
  /\ \/ /\ Stored(item.template) => Definition[item.template].channel # item.channel
        /\ UNCHANGED disruptions
     \/ Disrupt("db")
  /\ End(r, "invalid")
  /\ UNCHANGED <<table, call, answers, fresh>>

\* What Render returns replaces the content, whatever its length.
ResolveTemplate(r) ==
  LET item == call[r].items[1]
      template == Definition[item.template]
  IN
  /\ pc[r] = "template"
  /\ Stored(item.template) /\ template.channel = item.channel
  /\ \E content \in Renderings(template.body, item.variables) : Accepted(r, content)
  /\ Goto(r, "insert")
  /\ UNCHANGED <<table, call, inserted, outcome, disruptions>>

\* Behind the loop of CreateBatch.
Begin(r) ==
  /\ pc[r] = "items" /\ ~ItemsLeft(r)
  /\ IF fresh[r] = <<>> THEN End(r, "ok") ELSE Goto(r, "insert") /\ UNCHANGED <<inserted, outcome>>
  /\ UNCHANGED <<table, call, answers, fresh, disruptions>>

-----------------------------------------------------------------------------
(***************************************************************************)
(* INSERT under the unique index.  An entry of a transaction still open    *)
(* makes a second INSERT of that key wait for its end; a committed one, or *)
(* one of the same transaction, makes it fail.                             *)
(***************************************************************************)
Inserting(r) == pc[r] = "insert" /\ inserted[r] < Len(fresh[r])
NextRow(r) == fresh[r][inserted[r] + 1]

RowsOf(r) == {fresh[r][i] : i \in 1 .. Len(fresh[r])}
RowsHeld(r) == {fresh[r][i] : i \in 1 .. inserted[r]}
KeysIn(S) == {row.key : row \in S} \ {NoKey}

\* The open transactions r has to wait for.
WaitsFor(r) ==
  {s \in Requests \ {r} : Inserting(r) /\ NextRow(r).key \in KeysIn(RowsHeld(s))}

\* PostgreSQL finds a cycle of waiting transactions.
Deadlocked(r) ==
  \E S \in SUBSET Requests :
    /\ r \in S
    /\ \A s \in S : WaitsFor(s) # {}
    /\ UNION {WaitsFor(s) : s \in S} = S

\* Mutant: the rows of a batch are inserted without a transaction.
InsertOutsideTx(r) ==
  /\ Inserting(r)
  /\ NextRow(r).key \notin KeysIn(table)
  /\ table' = table \cup {NextRow(r)}
  /\ inserted' = [inserted EXCEPT ![r] = @ + 1]
  /\ UNCHANGED <<pc, outcome, call, answers, fresh, disruptions>>

\* The INSERT of Create commits by itself.
Insert(r) ==
  /\ Inserting(r) /\ WaitsFor(r) = {}
  /\ NextRow(r).key \notin KeysIn(table \cup RowsHeld(r))
  /\ IF IsCreate(r)
     THEN table' = table \cup {NextRow(r)} /\ End(r, "ok")
     ELSE /\ inserted' = [inserted EXCEPT ![r] = @ + 1]
          /\ UNCHANGED <<table, pc, outcome>>
  /\ UNCHANGED <<call, answers, fresh, disruptions>>

\* Mutant: a duplicate is taken for a hit.
DuplicateIgnored(r) ==
  /\ Inserting(r) /\ WaitsFor(r) = {}
  /\ NextRow(r).key \in KeysIn(table \cup RowsHeld(r))
  /\ End(r, "ok")
  /\ UNCHANGED <<table, call, answers, fresh, disruptions>>

\* 23505: the call is answered with 500, whatever row was there first.
DuplicateKey(r) ==
  /\ Inserting(r) /\ WaitsFor(r) = {}
  /\ NextRow(r).key \in KeysIn(table \cup RowsHeld(r))
  /\ End(r, "error")
  /\ UNCHANGED <<table, call, answers, fresh, disruptions>>

DeadlockVictim(r) ==
  /\ Deadlocked(r)
  /\ End(r, "error")
  /\ UNCHANGED <<table, call, answers, fresh, disruptions>>

Commit(r) ==
  /\ pc[r] = "insert" /\ ~Inserting(r)
  /\ table' = table \cup RowsOf(r)
  /\ End(r, "ok")
  /\ UNCHANGED <<call, answers, fresh, disruptions>>

\* A statement fails: the transaction is rolled back.
StatementFails(r) ==
  /\ pc[r] = "insert"
  /\ Disrupt("db")
  /\ End(r, "error")
  /\ UNCHANGED <<table, call, answers, fresh>>

\* The COMMIT takes effect, but the program only sees an error.
CommitUnknown(r) ==
  /\ pc[r] = "insert" /\ WaitsFor(r) = {}
  /\ Len(fresh[r]) = inserted[r] + (IF IsCreate(r) THEN 1 ELSE 0)
  /\ KeysIn(RowsOf(r)) \cap KeysIn(table) = {}
  /\ Disrupt("commit")
  /\ table' = table \cup RowsOf(r)
  /\ End(r, "error")
  /\ UNCHANGED <<call, answers, fresh>>

\* The API process is killed: nobody is answered, open transactions end.
IntakeCrash ==
  /\ \E r \in Requests : pc[r] \notin {"idle", "done"}
  /\ Disrupt("crash")
  /\ pc' = [r \in Requests |-> IF pc[r] = "idle" THEN "idle" ELSE "done"]
  /\ inserted' = [r \in Requests |-> 0]
  /\ UNCHANGED <<table, call, answers, fresh, outcome>>

-----------------------------------------------------------------------------
Proceed(r) ==
  \/ Reject(r) \/ Hit(r) \/ Miss(r) \/ LookupFails(r)
  \/ TemplateUnusable(r) \/ ResolveTemplate(r)
  \/ Begin(r) \/ Insert(r) \/ DuplicateKey(r) \/ DeadlockVictim(r) \/ Commit(r)
  \/ StatementFails(r) \/ CommitUnknown(r)

CallStep == IntakeCrash \/ \E r \in Requests : Receive(r) \/ Proceed(r)

IntakeNext ==
  \/ CallStep /\ UNCHANGED templates
  \/ TemplatesNext /\ UNCHANGED callVars

IntakeSpec == IntakeInit /\ [][IntakeNext]_intakeVars

\* PostgreSQL resolves deadlocks, and some call that can go on does.
IntakeFairSpec == IntakeSpec /\ WF_callVars(\E r \in Requests : Proceed(r))

-----------------------------------------------------------------------------
(***************************************************************************)
(* Idempotency: two clients told of a notification under the same key were *)
(* told of the same one, and it is in the table under that key - whether   *)
(* they came one after the other, at the same time, or in one batch.       *)
(***************************************************************************)
AnsweredItems == UNION {{r} \X DOMAIN answers[r] : r \in Requests}

Told ==
  {t \in AnsweredItems : outcome[t[1]] = "ok" /\ answers[t[1]][t[2]].status = "accepted"}

KeyAsked(t) == call[t[1]].items[t[2]].key
IdTold(t) == answers[t[1]][t[2]].id

AnswersAgree ==
  \A t, u \in Told :
    /\ \E row \in table : row.id = IdTold(t) /\ row.key = KeyAsked(t)
    /\ KeyAsked(t) = KeyAsked(u) /\ KeyAsked(t) # NoKey => IdTold(t) = IdTold(u)

(***************************************************************************)
(* A batch is stored whole or not at all, at every moment, so that neither *)
(* the scheduler nor a lookup ever sees part of one.                       *)
(***************************************************************************)
BatchAtomic ==
  \A r \in Requests : RowsOf(r) \subseteq table \/ RowsOf(r) \cap table = {}

(***************************************************************************)
(* A client told of an error may try again: without a fault of the         *)
(* database, nothing of the refused call has been stored.                  *)
(***************************************************************************)
RefusedLeavesNothing ==
  disruptions = 0 =>
    \A r \in Requests : outcome[r] \in {"invalid", "error"} => RowsOf(r) \cap table = {}

(***************************************************************************)
(* What a row says is what its item asked for: the text of the template,   *)
(* whatever has become of it since, with every placeholder replaced - and  *)
(* not depending on the order of the keys, as long as keys have no braces, *)
(* values no opening one, and two opening braces in the body always begin  *)
(* a placeholder.  Elsewhere the order shows: see Tidy.  CreateBatch has   *)
(* no templates and is left to TemplateIsRendered.                         *)
(***************************************************************************)
ItemOf(row) == call[row.id[1]].items[row.id[2]]

ContentAsAsked ==
  \A row \in table :
    LET item == ItemOf(row)
        body == Definition[item.template].body
    IN
    IF IsCreate(row.id[1]) /\ HasTemplate(item)
    THEN PlainVariables(item.variables) /\ Tidy(body) =>
           row.content = Substituted(body, item.variables)
    ELSE row.content = item.content

(***************************************************************************)
(* Only templates get content into the table that Validate would refuse,   *)
(* which is sent to the provider at its full length.                       *)
(***************************************************************************)
UnfitOnlyByTemplate ==
  \A row \in table :
    LET item == ItemOf(row) IN
    row.content = <<>> \/ Len(row.content) > MaxLength[item.channel] => HasTemplate(item)

\* No call waits for ever, even if batches take keys in opposite orders.
EveryCallEnds == []<>(\A r \in Requests : pc[r] \in {"idle", "done"})

-----------------------------------------------------------------------------
\* "returns existing notification if key matches. DB-level unique
\* constraint prevents race conditions": without a fault, nobody gets a 500.
RacesAreHits == disruptions = 0 => \A r \in Requests : outcome[r] # "error"

\* "pass template_id + variables instead of content - the service renders
\* the template": what is stored is what the template gave.
TemplateIsRendered ==
  \A row \in table :
    LET item == ItemOf(row) IN
    HasTemplate(item) =>
      row.content \in Renderings(Definition[item.template].body, item.variables)

=============================================================================
