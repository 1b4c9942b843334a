--------------------------- MODULE MigrateProofs ----------------------------
(***************************************************************************)
(* Proofs about Migrate, for any number of runners and of files.           *)
(***************************************************************************)
EXTENDS Migrate, TLAPS

LEMMA MigrateInitInv == MigrateInit => MigrateInv
<1> SUFFICES ASSUME MigrateInit  PROVE MigrateInv
  OBVIOUS
<1>1. 1 \in 1 .. Last + 1
  BY LastAssumption
<1>2. FaultsTypeOK
  BY MaxDisruptionsAssumption DEF MigrateInit, FaultsTypeOK
<1>3. file \in [Runners -> 1 .. Last + 1]
  BY <1>1 DEF MigrateInit
<1>4. MigrateTypeOK
  BY <1>2, <1>3 DEF MigrateInit, MigrateTypeOK
<1> QED
  BY <1>4 DEF MigrateInit, MigrateInv, RecordedIffApplied, InOrder, CompletedMeansAll,
              EarlierApplied, ObjectsHeldOnce, InTransaction, Running

\* A step that leaves the database alone and moves one runner to a place
\* where it need not know more keeps the invariant.
LEMMA RunnerMoves ==
  ASSUME MigrateInv, NEW r \in Runners, NEW next, NEW f \in 1 .. Last + 1,
         next \in {"off", "creating", "check", "exec", "record", "commit", "done", "failed"},
         next \in {"exec", "record", "commit"} => f \in Files,
         next \notin {"off", "done", "failed"} => 1 .. (f - 1) \subseteq schema,
         next = "done" => schema = Files,
         next \in {"record", "commit"} =>
           /\ f \notin schema
           /\ \A s \in Runners \ {r} : InTransaction(s) => file[s] # f,
         pc' = [pc EXCEPT ![r] = next],
         file' = [file EXCEPT ![r] = f],
         UNCHANGED <<versions, schema>>,
         versionTable' \in BOOLEAN,
         FaultsTypeOK'
  PROVE  MigrateInv'
<1>1. MigrateTypeOK'
  BY DEF MigrateInv, MigrateTypeOK
<1>2. RecordedIffApplied' /\ InOrder'
  BY DEF MigrateInv, RecordedIffApplied, InOrder
<1>3. CompletedMeansAll'
  BY DEF MigrateInv, MigrateTypeOK, CompletedMeansAll, Files
<1>4. EarlierApplied'
  BY DEF MigrateInv, MigrateTypeOK, EarlierApplied, Running
<1>5. ObjectsHeldOnce'
  BY DEF MigrateInv, MigrateTypeOK, ObjectsHeldOnce, InTransaction
<1> QED  BY <1>1, <1>2, <1>3, <1>4, <1>5 DEF MigrateInv

\* A COMMIT makes the next file of its runner the newest one of the schema.
LEMMA CommitLemma ==
  ASSUME MigrateInv, NEW r \in Runners, TakesEffect(r), FaultsTypeOK',
         \/ pc' = [pc EXCEPT ![r] = "check"] /\ file' = [file EXCEPT ![r] = @ + 1]
         \/ pc' = [pc EXCEPT ![r] = "failed"] /\ file' = file
  PROVE  MigrateInv'
<1> USE DEF MigrateInv, TakesEffect, InTransaction, Running
<1>1. file[r] \in Files /\ file[r] \notin schema /\ 1 .. (file[r] - 1) \subseteq schema
  BY DEF MigrateTypeOK, EarlierApplied, ObjectsHeldOnce
<1>2. MigrateTypeOK'
  <2>1. file[r] + 1 \in 1 .. Last + 1
    BY <1>1, LastAssumption DEF Files
  <2>2. file' \in [Runners -> 1 .. Last + 1]
    BY <2>1 DEF MigrateTypeOK
  <2> QED  BY <1>1, <2>2 DEF MigrateTypeOK
<1>3. RecordedIffApplied'
  BY DEF RecordedIffApplied
<1>4. InOrder'
  <2> SUFFICES ASSUME NEW f \in schema', NEW g \in 1 .. f  PROVE g \in schema'
    BY DEF InOrder
  <2>1. CASE f \in schema
    BY <2>1 DEF InOrder
  <2>2. CASE f = file[r]
    BY <1>1, <2>2, LastAssumption DEF Files
  <2> QED  BY <2>1, <2>2
<1>5. CompletedMeansAll'
  BY <1>1 DEF CompletedMeansAll, MigrateTypeOK
<1>6. EarlierApplied'
  <2> SUFFICES ASSUME NEW s \in Runners, NEW g \in 1 .. (file'[s] - 1),
                      Running(s)'
               PROVE  g \in schema'
    BY DEF EarlierApplied
  <2>1. CASE s = r
    BY <1>1, <2>1, LastAssumption DEF MigrateTypeOK, Files
  <2>2. CASE s # r
    BY <2>2 DEF MigrateTypeOK, EarlierApplied
  <2> QED  BY <2>1, <2>2
<1>7. ObjectsHeldOnce'
  BY DEF ObjectsHeldOnce, MigrateTypeOK
<1> QED  BY <1>2, <1>3, <1>4, <1>5, <1>6, <1>7

LEMMA MigrateNextInv ==
  ASSUME MigrateInv, [MigrateNext]_migrateVars
  PROVE  MigrateInv'
<1> USE LastAssumption DEF Files
<1>0. /\ MigrateTypeOK /\ FaultsTypeOK
      /\ \A r \in Runners : file = [file EXCEPT ![r] = file[r]] /\ file[r] \in 1 .. Last + 1
  BY DEF MigrateInv, MigrateTypeOK
<1>1. CASE UNCHANGED migrateVars
  BY <1>1 DEF migrateVars, MigrateInv, MigrateTypeOK, FaultsTypeOK, RecordedIffApplied, InOrder,
              CompletedMeansAll, EarlierApplied, ObjectsHeldOnce, InTransaction, Running
<1>2. ASSUME NEW r \in Runners, Start(r) \/ Statement(r) \/ Killed(r)  PROVE MigrateInv'
  <2>0. \A kind : Disrupt(kind) => FaultsTypeOK'
    BY <1>0, MaxDisruptionsAssumption DEF Disrupt, FaultsTypeOK
  <2>1. CASE Start(r)
    <3>1. 1 \in 1 .. Last + 1 /\ 1 .. (1 - 1) = {}
      OBVIOUS
    <3>2. \E next \in {"check", "creating"} : pc' = [pc EXCEPT ![r] = next]
      BY <2>1 DEF Start, Goto
    <3> QED  BY <1>0, <2>1, <3>1, <3>2, RunnerMoves DEF Start, MigrateTypeOK, FaultsTypeOK
  <2>2. CASE CreateVersionTable(r)
    BY <1>0, <2>2, RunnerMoves
    DEF CreateVersionTable, Goto, MigrateInv, EarlierApplied, Running, FaultsTypeOK
  <2>3. CASE CreateRaces(r) \/ ObjectsExist(r)
    BY <1>0, <2>3, RunnerMoves
    DEF CreateRaces, ObjectsExist, Fail, Goto, MigrateTypeOK, FaultsTypeOK
  <2>4. CASE AlreadyApplied(r)
    <3> DEFINE f == file[r] + 1
    <3>1. f \in 1 .. Last + 1 /\ 1 .. (f - 1) \subseteq schema
      BY <1>0, <2>4
      DEF AlreadyApplied, MigrateInv, MigrateTypeOK, EarlierApplied, RecordedIffApplied, Running
    <3>2. pc' = [pc EXCEPT ![r] = "check"] /\ file' = [file EXCEPT ![r] = f]
      BY <1>0, <2>4 DEF AlreadyApplied, MigrateTypeOK
    <3> HIDE DEF f
    <3> QED  BY <1>0, <2>4, <3>1, <3>2, RunnerMoves DEF AlreadyApplied, MigrateTypeOK, FaultsTypeOK
  <2>5. CASE NotYetApplied(r)
    BY <1>0, <2>5, RunnerMoves
    DEF NotYetApplied, Goto, MigrateInv, MigrateTypeOK, EarlierApplied, Running, FaultsTypeOK
  <2>6. CASE AllApplied(r)
    <3>1. schema = Files
      <4>1. 1 .. (file[r] - 1) \subseteq schema
        BY <2>6 DEF AllApplied, MigrateInv, EarlierApplied, Running
      <4>2. file[r] - 1 = Last
        BY <1>0, <2>6 DEF AllApplied
      <4> QED  BY <1>0, <4>1, <4>2 DEF MigrateTypeOK
    <3> QED  BY <1>0, <2>6, <3>1, RunnerMoves DEF AllApplied, Goto, MigrateTypeOK, FaultsTypeOK
  <2>7. CASE ApplyFile(r)
    BY <1>0, <2>7, RunnerMoves
    DEF ApplyFile, Blocked, Goto, MigrateInv, MigrateTypeOK, EarlierApplied, Running, FaultsTypeOK
  <2>8. CASE Record(r)
    <3>1. file[r] \in Files /\ 1 .. (file[r] - 1) \subseteq schema
      BY <1>0, <2>8 DEF Record, MigrateInv, MigrateTypeOK, EarlierApplied, Running
    <3>2. /\ file[r] \notin schema
          /\ \A s \in Runners \ {r} : InTransaction(s) => file[s] # file[r]
      BY <2>8 DEF Record, MigrateInv, ObjectsHeldOnce, InTransaction
    <3> QED  BY <1>0, <2>8, <3>1, <3>2, RunnerMoves
             DEF Record, Fail, Goto, MigrateTypeOK, FaultsTypeOK
  <2>9. CASE Commit(r)
    BY <1>0, <2>9, CommitLemma DEF Commit, Goto, FaultsTypeOK
  <2>10. CASE CommitUnknown(r)
    BY <2>0, <2>10, CommitLemma DEF CommitUnknown, Fail, Goto
  <2>11. CASE StatementFails(r) \/ Killed(r)
    BY <1>0, <2>0, <2>11, RunnerMoves DEF StatementFails, Killed, Fail, Goto, MigrateTypeOK
  <2> QED
    BY <1>2, <2>1, <2>2, <2>3, <2>4, <2>5, <2>6, <2>7, <2>8, <2>9, <2>10, <2>11 DEF Statement
<1> QED  BY <1>1, <1>2 DEF MigrateNext

LEMMA MigrateInvariant == MigrateSpec => []MigrateInv
  BY MigrateInitInv, MigrateNextInv, PTL DEF MigrateSpec

-----------------------------------------------------------------------------
(***************************************************************************)
(* The schema and its record agree, grow in order, and are complete when a *)
(* runner says so, however many runners race and whenever they are killed. *)
(***************************************************************************)
THEOREM RecordIsTrue == MigrateSpec => []RecordedIffApplied
<1>1. MigrateInv => RecordedIffApplied
  BY DEF MigrateInv
<1> QED  BY <1>1, MigrateInvariant, PTL

\* No file takes effect before all earlier ones have.
THEOREM AppliedInOrder == MigrateSpec => []InOrder
<1>1. MigrateInv => InOrder
  BY DEF MigrateInv
<1> QED  BY <1>1, MigrateInvariant, PTL

\* A runner that reports success leaves no file unapplied, whoever applied it.
THEOREM SuccessIsComplete == MigrateSpec => []CompletedMeansAll
<1>1. MigrateInv => CompletedMeansAll
  BY DEF MigrateInv
<1> QED  BY <1>1, MigrateInvariant, PTL

\* The files, their record and the runners keep to their types.
THEOREM MigrateTypeCorrect == MigrateSpec => []MigrateTypeOK
<1>1. MigrateInv => MigrateTypeOK
  BY DEF MigrateInv
<1> QED  BY <1>1, MigrateInvariant, PTL

=============================================================================
