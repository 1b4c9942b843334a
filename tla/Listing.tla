------------------------------- MODULE Listing -------------------------------
(***************************************************************************)
(* GET /api/v1/notifications: List of the handler and of the repository,   *)
(* and a client that asks for page after page.  One page is two            *)
(* statements, a COUNT and a SELECT, outside of any transaction.           *)
(*                                                                         *)
(* A filter on status may match a row at one moment and not at the next.   *)
(* The others (channel, batch_id, the dates) are on columns that never     *)
(* change, and channel stands for them all.                                *)
(***************************************************************************)
EXTENDS ReadView, Faults, FiniteSetsExt

CONSTANTS Any,                     \* no filter on that column
          Requests,                \* what clients ask for
          DefaultSize, MaxSize     \* 20 and 100

ASSUME SizesAssumption ==
  DefaultSize \in Nat \ {0} /\ MaxSize \in Nat \ {0} /\ DefaultSize <= MaxSize

Request ==
  [status : StatusSeen \cup {Any}, channel : Channels \cup {Any}, page : Nat, size : Nat]

ASSUME RequestsAssumption == Requests \subseteq Request

VARIABLE walk   \* one client on its way through the pages

(***************************************************************************)
(* owed and seen are not state of the program: the rows the filter matched *)
(* when the client set out, and those it has been shown since.             *)
(***************************************************************************)
Walk == [pc : {"count", "select", "answered", "over"}, request : Request, total : Nat,
         got : SUBSET Ids, owed : SUBSET Ids, seen : SUBSET Ids]
NoWalk == [pc |-> "idle"]

ListingTypeOK == walk \in Walk \cup {NoWalk}
ListingInit == walk = NoWalk

-----------------------------------------------------------------------------
\* Negative values are treated like 0.
Normalize(request) ==
  [request EXCEPT !.page = IF @ < 1 THEN 1 ELSE @,
                  !.size = IF @ < 1 THEN DefaultSize ELSE Min({@, MaxSize})]

Matches(i, request) ==
  /\ request.status \in {Any, entries[i].status}
  /\ request.channel \in {Any, ChannelOf[i]}

Matching(request) == {i \in Present : Matches(i, request)}

\* Mutant: pages counted from 0.
OffsetFromZero(request) == request.page * request.size

Offset(request) == (request.page - 1) * request.size

(***************************************************************************)
(* ORDER BY created_at DESC LIMIT size OFFSET offset: PostgreSQL may order *)
(* rows of one created_at as it likes, and differently each time.          *)
(***************************************************************************)
Before(S, T) == \A i \in S, j \in T : entries[i].stamp >= entries[j].stamp

PageSets(request) ==
  LET M == Matching(request) IN
  {S \in SUBSET M :
     \E skipped \in SUBSET (M \ S) :
       /\ Cardinality(skipped) = Min({Offset(request), Cardinality(M)})
       /\ Cardinality(S) = Min({request.size, Cardinality(M \ skipped)})
       /\ Before(skipped, M \ skipped)
       /\ Before(S, (M \ skipped) \ S)}

\* Mutant: a last page too many when the rows fill their pages.
TotalPagesRoundedUp(w) == w.total \div w.request.size + 1

TotalPages(w) == (w.total + w.request.size - 1) \div w.request.size

-----------------------------------------------------------------------------
StartWalk(request) ==
  /\ walk = NoWalk
  /\ walk' = [pc |-> "count", request |-> Normalize(request), total |-> 0, got |-> {},
              owed |-> Matching(request), seen |-> {}]

CountRows ==
  /\ walk.pc = "count"
  /\ walk' = [walk EXCEPT !.pc = "select", !.total = Cardinality(Matching(walk.request))]

SelectRows ==
  /\ walk.pc = "select"
  /\ \E S \in PageSets(walk.request) :
       walk' = [walk EXCEPT !.pc = "answered", !.got = S, !.seen = @ \cup S]

\* Either statement fails: the answer is a 500, and the client gives up.
ListFails ==
  /\ walk.pc \in {"count", "select"}
  /\ Disrupt("db")
  /\ walk' = NoWalk

\* The client goes on until a page is not full.
TurnPage ==
  /\ walk.pc = "answered"
  /\ walk' = IF Cardinality(walk.got) = walk.request.size
             THEN [walk EXCEPT !.pc = "count", !.request.page = @ + 1]
             ELSE [walk EXCEPT !.pc = "over"]

EndWalk ==
  /\ walk.pc = "over"
  /\ walk' = NoWalk

WalkStep == (CountRows \/ SelectRows \/ TurnPage \/ EndWalk) /\ UNCHANGED disruptions

-----------------------------------------------------------------------------
(***************************************************************************)
(* A client that goes through all pages sees every row that was there when *)
(* it set out, whatever is inserted meanwhile: new rows only push old ones *)
(* to later pages.  That takes a filter which rows do not drop out of, and *)
(* a created_at of the row's own, since rows of one batch may be shown in  *)
(* a different order each time.                                            *)
(***************************************************************************)
WalkSeesAll ==
  walk.pc = "over" /\ walk.request.status = Any =>
    \A i \in walk.owed \ walk.seen :
      \E j \in Matching(walk.request) \ {i} : entries[j].stamp = entries[i].stamp

(***************************************************************************)
(* total_pages is never too high: the rows were counted before they were   *)
(* selected, and none of them goes away.  (It may be too low.)             *)
(***************************************************************************)
PagesPromisedExist ==
  walk.pc = "answered" /\ walk.request.status = Any =>
    /\ walk.request.page <= TotalPages(walk) => walk.got # {}
    /\ walk.request.page < TotalPages(walk) => Cardinality(walk.got) = walk.request.size

=============================================================================
