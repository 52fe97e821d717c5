-------------------------- MODULE CollectorProofs --------------------------
(***************************************************************************)
(* Proofs about the two collectors in the import service, for every set of *)
(* requests, games, months and seconds and every number of failures: no    *)
(* game is stored twice or cut off, the counts a run saves are real and    *)
(* complete, the persisted cursor never leaves an acceptable game behind,  *)
(* and the service implements the abstract GameLibrary.                    *)
(***************************************************************************)
EXTENDS ChessComSync, LichessSync, FiniteSetTheorems, TLAPS

(***************************************************************************)
(* The steps both collectors share: they keep the types of the ingest and  *)
(* service variables, and the storage invariant below.                     *)
(***************************************************************************)
Jobs == [pc : JobPC, kind : {"sync", "upload"}, cursor : Nat, imported : Nat,
         duplicates : Nat, failed : BOOLEAN, seen : BOOLEAN]

\* The types of the variables of ImportService and GameIngest.
BaseTypeOK == IngestTypeOK /\ ServiceTypeOK

(***************************************************************************)
(* What the table and the calls in flight agree on: a game has at most one *)
(* row, a stored game is in the history, and a call that is past its check *)
(* holds a real game that validated.                                       *)
(***************************************************************************)
StorageOK ==
  /\ NoDuplicateRows
  /\ \A g \in Games : rows[g] > 0 => g \in ever
  /\ \A a \in Actors : call[a].pc \in {"check", "insert", "new", "dup"} => call[a].game \in Games
  /\ \A a \in Actors : call[a].pc \in {"insert", "new"} => call[a].game \notin Bad
  /\ \A a \in Actors : call[a].pc \in {"new", "dup"} => call[a].game \in ever

\* The initial state has the types.
LEMMA BaseInit ==
  ASSUME GamesAssumption, ServiceAssumption, IngestInit, ServiceInit
  PROVE  BaseTypeOK /\ StorageOK
<1>1. IngestTypeOK
  BY GamesAssumption DEF IngestInit, IngestTypeOK, NoCall, NoReport, CallPC
<1>2. ServiceTypeOK
  BY ServiceAssumption DEF ServiceInit, ServiceTypeOK, NoJob, JobPC
<1>3. StorageOK
  BY DEF IngestInit, StorageOK, NoDuplicateRows, NoCall
<1> QED  BY <1>1, <1>2, <1>3 DEF BaseTypeOK

\* Beginning an ingest call of a game keeps the types.
LEMMA BeginIngestType ==
  ASSUME IngestTypeOK, NEW a \in Actors, NEW g \in Games, BeginIngest(a, g)
  PROVE  call' \in [Actors -> [pc : CallPC, game : Games \cup {NoGame}]]
BY DEF BeginIngest, IngestTypeOK, CallPC

\* Every step of an ingest call keeps the types of the ingest variables.
LEMMA CallStepType ==
  ASSUME GamesAssumption, IngestTypeOK, NEW a \in Actors,
         call[a].pc = "insert" => call[a].game \in Games,
         \/ CheckGame(a) \/ StoreGame(a) \/ StoreConflict(a)
         \/ NextOfBlob(a) \/ RecordInReport(a) \/ IngestDbError(a)
  PROVE  IngestTypeOK'
<1> USE DEF IngestTypeOK
<1>1. CASE CheckGame(a)  BY <1>1 DEF CheckGame, CallPC
<1>2. CASE StoreGame(a)
  <2>1. (call \in [Actors -> [pc : CallPC, game : Games \cup {NoGame}]])'
    BY <1>2 DEF StoreGame, CallPC
  <2>2. call[a].game \in Games
    BY <1>2 DEF StoreGame
  <2>3. (rows \in [Games -> Nat])'
    BY <1>2, <2>2 DEF StoreGame
  <2>4. (ever \in SUBSET Games)'
    BY <1>2, <2>2 DEF StoreGame
  <2>5. (inserted \in [Actors -> SUBSET Games])'
    BY <1>2, <2>2 DEF StoreGame
  <2> QED  BY <2>1, <2>3, <2>4, <2>5, <1>2 DEF StoreGame
<1>3. CASE StoreConflict(a)  BY <1>3 DEF StoreConflict, CallPC
<1>4. CASE NextOfBlob(a)
  <2>1. PICK g \in report[a].todo : BeginIngest(a, g)
                                    /\ report' = [report EXCEPT ![a].todo = @ \ {g}]
    BY <1>4 DEF NextOfBlob
  <2>2. g \in Games  BY <2>1
  <2>3. (call \in [Actors -> [pc : CallPC, game : Games \cup {NoGame}]])'
    BY <2>1, <2>2, BeginIngestType
  <2>4. (report \in [Actors -> [todo : SUBSET Games, imported : Nat,
                                duplicates : Nat, errors : Nat]])'
    BY <2>1
  <2> QED  BY <2>3, <2>4, <1>4 DEF NextOfBlob
<1>5. CASE RecordInReport(a)
  <2>1. (call \in [Actors -> [pc : CallPC, game : Games \cup {NoGame}]])'
    BY <1>5 DEF RecordInReport, NoCall, CallPC
  <2>2. (report \in [Actors -> [todo : SUBSET Games, imported : Nat,
                                duplicates : Nat, errors : Nat]])'
    <3> DEFINE r == report[a]
    <3>1. CASE call[a].pc = "new"
      <4>1. report' = [report EXCEPT ![a].imported = r.imported + 1]
        BY <1>5, <3>1 DEF RecordInReport
      <4> QED  BY <4>1
    <3>2. CASE call[a].pc = "dup"
      <4>1. report' = [report EXCEPT ![a].duplicates = r.duplicates + 1]
        BY <1>5, <3>2 DEF RecordInReport
      <4> QED  BY <4>1
    <3>3. CASE call[a].pc = "bad"
      <4>1. report' = [report EXCEPT ![a].errors = r.errors + 1]
        BY <1>5, <3>3 DEF RecordInReport
      <4> QED  BY <4>1
    <3> QED  BY <1>5, <3>1, <3>2, <3>3 DEF RecordInReport
  <2> QED  BY <2>1, <2>2, <1>5 DEF RecordInReport
<1>6. CASE IngestDbError(a)  BY <1>6 DEF IngestDbError, CallPC
<1> QED  BY <1>1, <1>2, <1>3, <1>4, <1>5, <1>6

\* So do the steps that end a request or a collector.
LEMMA ForgetType ==
  ASSUME BaseTypeOK, NEW a \in Actors, Forget(a), UNCHANGED <<rows, ever>>
  PROVE  IngestTypeOK'
         /\ (job \in [Actors -> [pc : JobPC, kind : {"sync", "upload"}, cursor : Nat,
                         imported : Nat, duplicates : Nat,
                         failed : BOOLEAN, seen : BOOLEAN]])'
<1>1. IngestTypeOK'
  BY DEF BaseTypeOK, IngestTypeOK, Forget, NoCall, NoReport, CallPC
<1> QED  BY <1>1 DEF BaseTypeOK, ServiceTypeOK, Forget, NoJob, JobPC

\* A collector that returns keeps the types of all of them.
LEMMA EndCollectorType ==
  ASSUME BaseTypeOK, NEW a \in Actors, NEW failed \in BOOLEAN, EndCollector(a, failed),
         faults' \in 0 .. MaxFaults
  PROVE  BaseTypeOK'
<1>1. IngestTypeOK'
  BY DEF BaseTypeOK, IngestTypeOK, EndCollector, NoCall, NoReport, CallPC
<1>2. ServiceTypeOK'
  BY DEF BaseTypeOK, ServiceTypeOK, EndCollector, Returned, JobPC
<1> QED  BY <1>1, <1>2 DEF BaseTypeOK

\* What a call in flight knows survives each step of any request's call: two
\* requests may be between check and insert with the same game.
LEMMA CallStepStorage ==
  ASSUME GamesAssumption, IngestTypeOK, StorageOK, NEW a \in Actors,
         \/ CheckGame(a) \/ StoreGame(a) \/ StoreConflict(a)
         \/ NextOfBlob(a) \/ RecordInReport(a) \/ IngestDbError(a)
  PROVE  StorageOK'
<1> USE DEF IngestTypeOK, StorageOK, NoDuplicateRows
<1>1. CASE CheckGame(a)
  <2>1. CASE GameExists(call[a].game) /\ call' = [call EXCEPT ![a].pc = "dup"]
    BY <1>1, <2>1 DEF CheckGame, GameExists
  <2>2. CASE call' = [call EXCEPT ![a].pc = "bad"]
    BY <1>1, <2>2 DEF CheckGame
  <2>3. CASE call[a].game \notin Bad /\ call' = [call EXCEPT ![a].pc = "insert"]
    BY <1>1, <2>3 DEF CheckGame
  <2> QED  BY <1>1, <2>1, <2>2, <2>3 DEF CheckGame
<1>2. CASE StoreGame(a)
  <2>1. call[a].game \in Games  BY <1>2 DEF StoreGame
  <2>2. rows' = [rows EXCEPT ![call[a].game] = 1]
    BY <1>2, <2>1 DEF StoreGame, UniqueIndexAllows
  <2> QED  BY <1>2, <2>1, <2>2 DEF StoreGame
<1>3. CASE StoreConflict(a)  BY <1>3 DEF StoreConflict
<1>4. CASE NextOfBlob(a)
  <2>1. PICK g \in report[a].todo : BeginIngest(a, g)
    BY <1>4 DEF NextOfBlob
  <2> QED  BY <1>4, <2>1 DEF NextOfBlob, BeginIngest
<1>5. CASE RecordInReport(a)  BY <1>5 DEF RecordInReport, NoCall
<1>6. CASE IngestDbError(a)  BY <1>6 DEF IngestDbError
<1> QED  BY <1>1, <1>2, <1>3, <1>4, <1>5, <1>6

\* A step that only ends calls leaves the storage invariant alone.
LEMMA EndedCallStorage ==
  ASSUME IngestTypeOK, StorageOK, UNCHANGED <<rows, ever>>, NEW a \in Actors,
         call' = [call EXCEPT ![a] = NoCall]
  PROVE  StorageOK'
BY DEF IngestTypeOK, StorageOK, NoDuplicateRows, NoCall

\* Every step of the service itself keeps types and the storage invariant.
LEMMA ServiceStep ==
  ASSUME GamesAssumption, ServiceAssumption, BaseTypeOK, StorageOK, NEW a \in Actors,
         \/ IngestStep(a) \/ IngestFault(a) \/ FinishUpload(a)
         \/ FindCursor(a) \/ WriteCursor(a) \/ LoseRequest(a)
         \/ \E full \in BOOLEAN : StartSync(a, full)
         \/ \E gs \in Uploads : StartUpload(a, gs)
  PROVE  BaseTypeOK' /\ StorageOK'
<1>0. IngestTypeOK /\ (call[a].pc = "insert" => call[a].game \in Games)
  BY DEF BaseTypeOK, StorageOK
<1>1. CASE IngestStep(a)
  <2>1. IngestTypeOK'  BY <1>0, <1>1, CallStepType DEF IngestStep
  <2>2. ServiceTypeOK'
    BY <1>1 DEF IngestStep, serviceVars, BaseTypeOK, ServiceTypeOK
  <2>3. StorageOK'  BY <1>0, <1>1, CallStepStorage DEF IngestStep
  <2> QED  BY <2>1, <2>2, <2>3 DEF BaseTypeOK
<1>2. CASE IngestFault(a)
  <2>1. IngestTypeOK'  BY <1>0, <1>2, CallStepType DEF IngestFault
  <2>2. ServiceTypeOK'
    BY <1>2, ServiceAssumption DEF IngestFault, Fault, BaseTypeOK, ServiceTypeOK
  <2>3. StorageOK'  BY <1>0, <1>2, CallStepStorage DEF IngestFault
  <2> QED  BY <2>1, <2>2, <2>3 DEF BaseTypeOK
<1>3. CASE FinishUpload(a) \/ LoseRequest(a) \/ WriteCursor(a)
  <2>1. Forget(a) /\ UNCHANGED <<rows, ever>>
    BY <1>3 DEF FinishUpload, LoseRequest, WriteCursor
  <2>2. (cursorRow \in [present : BOOLEAN, at : Nat])'
    <3>1. CASE UNCHANGED cursorRow
      BY <3>1 DEF BaseTypeOK, ServiceTypeOK
    <3>2. CASE cursorRow' = [present |-> TRUE, at |-> job[a].cursor]
      BY <3>2 DEF BaseTypeOK, ServiceTypeOK
    <3> QED  BY <1>3, <3>1, <3>2 DEF FinishUpload, LoseRequest, WriteCursor
  <2>3. (faults \in 0 .. MaxFaults)'
    BY <1>3, ServiceAssumption
    DEF FinishUpload, LoseRequest, WriteCursor, Fault, BaseTypeOK, ServiceTypeOK
  <2>4. StorageOK'
    BY <1>0, <2>1, EndedCallStorage DEF Forget
  <2> QED  BY <2>1, <2>2, <2>3, <2>4, ForgetType DEF BaseTypeOK, ServiceTypeOK
<1>4. CASE FindCursor(a)
  <2>1. IngestTypeOK'
    BY <1>0, <1>4 DEF FindCursor, ingestVars, IngestTypeOK
  <2>2. ServiceTypeOK'
    <3>1. PICK s \in BOOLEAN : s = cursorRow.present
      BY DEF BaseTypeOK, ServiceTypeOK
    <3>2. job' = [job EXCEPT ![a].pc = "write", ![a].seen = s]
      BY <1>4, <3>1 DEF FindCursor
    <3>a. job[a] \in Jobs
      BY DEF BaseTypeOK, ServiceTypeOK, Jobs
    <3>b. job' = [job EXCEPT ![a] = [job[a] EXCEPT !.pc = "write", !.seen = s]]
      BY <3>2
    <3>c. [job[a] EXCEPT !.pc = "write", !.seen = s] \in Jobs
      BY <3>a DEF Jobs, JobPC
    <3>3. (job \in [Actors -> Jobs])'
      BY <3>b, <3>c DEF BaseTypeOK, ServiceTypeOK, Jobs
    <3> QED  BY <1>4, <3>3 DEF FindCursor, BaseTypeOK, ServiceTypeOK, Jobs
  <2>3. StorageOK'
    BY <1>4 DEF FindCursor, ingestVars, StorageOK, NoDuplicateRows
  <2> QED  BY <2>1, <2>2, <2>3 DEF BaseTypeOK
<1>5. CASE \E full \in BOOLEAN : StartSync(a, full)
  <2>1. IngestTypeOK'
    BY <1>0, <1>5 DEF StartSync, ingestVars, IngestTypeOK
  <2>2. ServiceTypeOK'
    <3>1. \E c \in Nat : job' = [job EXCEPT ![a] =
                              [NoJob EXCEPT !.pc = "fetch", !.cursor = c]]
      BY <1>5 DEF StartSync, BaseTypeOK, ServiceTypeOK
    <3>2. PICK c \in Nat : job' = [job EXCEPT ![a] =
                              [NoJob EXCEPT !.pc = "fetch", !.cursor = c]]
      BY <3>1
    <3>3. [NoJob EXCEPT !.pc = "fetch", !.cursor = c] \in Jobs
      BY DEF NoJob, Jobs, JobPC
    <3>4. (job \in [Actors -> Jobs])'
      BY <3>2, <3>3 DEF BaseTypeOK, ServiceTypeOK, Jobs
    <3> QED  BY <1>5, <3>4 DEF StartSync, BaseTypeOK, ServiceTypeOK, Jobs
  <2>3. StorageOK'
    BY <1>5 DEF StartSync, ingestVars, StorageOK, NoDuplicateRows
  <2> QED  BY <2>1, <2>2, <2>3 DEF BaseTypeOK
<1>6. CASE \E gs \in Uploads : StartUpload(a, gs)
  <2>1. PICK gs \in Uploads : StartUpload(a, gs)  BY <1>6
  <2>2. IngestTypeOK'
    BY <1>0, <2>1, ServiceAssumption DEF StartUpload, IngestTypeOK, NoReport
  <2>3. ServiceTypeOK'
    BY <2>1 DEF StartUpload, BaseTypeOK, ServiceTypeOK, JobPC, NoJob
  <2>4. StorageOK'
    BY <2>1 DEF StartUpload, StorageOK, NoDuplicateRows
  <2> QED  BY <2>2, <2>3, <2>4 DEF BaseTypeOK
<1> QED  BY <1>1, <1>2, <1>3, <1>4, <1>5, <1>6

\* Deleting a stored game does too: the game stays in the history.
LEMMA RemoveStep ==
  ASSUME BaseTypeOK, StorageOK, NEW g \in Games, RemoveGame(g)
  PROVE  BaseTypeOK' /\ StorageOK'
<1> USE DEF RemoveGame, DeleteGame, serviceVars, BaseTypeOK, IngestTypeOK
<1>1. IngestTypeOK'  OBVIOUS
<1>2. ServiceTypeOK'  BY DEF ServiceTypeOK
<1>3. StorageOK'  BY DEF StorageOK, NoDuplicateRows
<1> QED  BY <1>1, <1>2, <1>3

\* Neither does a collector that returns disturb it.
LEMMA EndCollectorStep ==
  ASSUME BaseTypeOK, StorageOK, NEW a \in Actors, NEW failed \in BOOLEAN,
         EndCollector(a, failed), faults' \in 0 .. MaxFaults
  PROVE  BaseTypeOK' /\ StorageOK'
<1>1. StorageOK'
  BY EndedCallStorage DEF EndCollector, BaseTypeOK
<1> QED  BY <1>1, EndCollectorType

(***************************************************************************)
(* Chess.com's inductive invariant.  A cursor is safe when everything filed *)
(* before it was stored and, so that Chess.com cannot file a new game there, *)
(* when some month at or after it has been opened.                         *)
(***************************************************************************)
ChessComCovers(c) == \A g \in filed \ Bad : Month[g] < c => g \in ever
ChessComOpened(c) == c = 0 \/ \E h \in filed : Month[h] >= c

ChessComCursorsSafe ==
  /\ ChessComCovers(cursorRow.at) /\ ChessComOpened(cursorRow.at)
  /\ \A a \in Actors : ChessComCovers(job[a].cursor) /\ ChessComOpened(job[a].cursor)

\* Every month a run has left exists, and a game in a month before one of
\* them is stored or its month is one of them too.
MonthsOK ==
  \A a \in Actors : \A m \in archive[a].months :
    /\ \E h \in filed : Month[h] = m
    /\ \A g \in filed \ Bad :
         Month[g] < m => g \in ever \/ Month[g] \in archive[a].months

InBatch(a) == job[a].pc = "batch" /\ job[a].kind = "sync"

\* The month being ingested is the oldest one left.
OldestFirst ==
  \A a \in Actors : InBatch(a) =>
    /\ archive[a].month \in archive[a].months
    /\ \A n \in archive[a].months : archive[a].month <= n

ChessComAtCall(a, g) == call[a].pc \in {"check", "insert", "db"} /\ call[a].game = g

\* A game of the month being ingested, when that month is closed, is stored
\* or still ahead of the run.
BatchCovers ==
  \A a \in Actors : InBatch(a) =>
    \A n \in archive[a].months : \A g \in filed \ Bad :
      archive[a].month < n /\ Month[g] = archive[a].month
        => g \in ever \/ g \in report[a].todo \/ ChessComAtCall(a, g)

ArchiveRec == [listed : BOOLEAN, months : SUBSET (Nat \ {0}),
               month : Nat, attempt : 0 .. ChessComRetries]

CollectorOK == ChessComCursorsSafe /\ MonthsOK /\ OldestFirst /\ BatchCovers

ChessComIInv == BaseTypeOK /\ ArchiveTypeOK /\ StorageOK /\ CollectorOK

-----------------------------------------------------------------------------

\* Oldest picks the first of the months left: what sorting the archive list
\* by its "YYYY/MM" key gives.
LEMMA OldestIsLeast ==
  ASSUME NEW S \in SUBSET Nat, S # {}
  PROVE  Oldest(S) \in S /\ \A n \in S : Oldest(S) <= n
<1>1. PICK m \in S : \A n \in S : ~(<<n, m>> \in OpToRel(<, Nat))
  BY NatLessThanWellFounded, WFMin
<1>2. ASSUME NEW n \in S PROVE m <= n
  <2>1. <<n, m>> \in Nat \X Nat  OBVIOUS
  <2>2. ~(<<n, m>> \in OpToRel(<, Nat))  BY <1>1
  <2>3. ~(n < m)  BY <2>1, <2>2 DEF OpToRel
  <2> QED  BY <2>3
<1> QED  BY <1>2 DEF Oldest

\* A step that changes nothing but one request's ingest call, and may store
\* a game, keeps the collectors' invariant.
LEMMA CallStepCollector ==
  ASSUME BaseTypeOK, ArchiveTypeOK, StorageOK, CollectorOK, NEW a \in Actors,
         \/ CheckGame(a) \/ StoreGame(a) \/ StoreConflict(a)
         \/ NextOfBlob(a) \/ RecordInReport(a) \/ IngestDbError(a),
         UNCHANGED <<cursorRow, job, archive, filed>>
  PROVE  CollectorOK'
<1> USE DEF BaseTypeOK, IngestTypeOK
<1>1. ever \subseteq ever'
  BY DEF CheckGame, StoreGame, StoreConflict, NextOfBlob, RecordInReport, IngestDbError
<1>2. ChessComCursorsSafe'
  BY <1>1 DEF CollectorOK, ChessComCursorsSafe, ChessComCovers, ChessComOpened
<1>3. MonthsOK'
  BY <1>1 DEF CollectorOK, MonthsOK
<1>4. OldestFirst'
  BY DEF CollectorOK, OldestFirst, InBatch
<1>5. BatchCovers'
  <2> SUFFICES ASSUME NEW b \in Actors, InBatch(b), NEW n \in archive[b].months,
                      NEW g \in filed \ Bad, archive[b].month < n,
                      Month[g] = archive[b].month, g \notin ever'
               PROVE  (g \in report[b].todo \/ ChessComAtCall(b, g))'
    BY DEF BatchCovers, InBatch
  <2>1. g \in report[b].todo \/ ChessComAtCall(b, g)
    BY <1>1 DEF CollectorOK, BatchCovers
  <2>2. CASE b # a
    BY <2>1, <2>2
    DEF ChessComAtCall, CheckGame, StoreGame, StoreConflict, NextOfBlob, RecordInReport,
        IngestDbError, BeginIngest
  <2>3. CASE b = a
    <3>1. CASE CheckGame(a)
      <4>1. UNCHANGED report  BY <3>1 DEF CheckGame
      <4>2. CASE ChessComAtCall(a, g)
        <5>1. rows[g] = 0
          BY <1>1, ArchiveTypeOK DEF StorageOK, ArchiveTypeOK
        <5>2. call' = [call EXCEPT ![a].pc = "insert"]
          BY <3>1, <4>2, <5>1 DEF CheckGame, GameExists, ChessComAtCall
        <5> QED  BY <2>3, <4>2, <5>2 DEF ChessComAtCall
      <4> QED  BY <2>1, <2>3, <4>1, <4>2
    <3>2. CASE StoreGame(a)
      BY <2>1, <2>3, <3>2 DEF StoreGame, ChessComAtCall
    <3>3. CASE StoreConflict(a)
      BY <2>1, <2>3, <3>3 DEF StoreConflict, ChessComAtCall
    <3>4. CASE NextOfBlob(a)
      <4>1. PICK h \in report[a].todo :
              /\ BeginIngest(a, h)
              /\ report' = [report EXCEPT ![a].todo = @ \ {h}]
        BY <3>4 DEF NextOfBlob
      <4>2. CASE g = h
        BY <2>3, <4>1, <4>2 DEF ChessComAtCall, BeginIngest
      <4>3. CASE g # h
        BY <2>1, <2>3, <4>1, <4>3 DEF ChessComAtCall, BeginIngest
      <4> QED  BY <4>2, <4>3
    <3>5. CASE RecordInReport(a)
      BY <2>1, <2>3, <3>5 DEF RecordInReport, ChessComAtCall
    <3>6. CASE IngestDbError(a)
      BY <2>1, <2>3, <3>6 DEF IngestDbError, ChessComAtCall
    <3> QED  BY <3>1, <3>2, <3>3, <3>4, <3>5, <3>6
  <2> QED  BY <2>2, <2>3
<1> QED  BY <1>2, <1>3, <1>4, <1>5 DEF CollectorOK

\* A step after which a's request is in no batch of a sync, that leaves the
\* other requests alone and a's months no larger, keeps it too.
LEMMA OutOfBatch ==
  ASSUME CollectorOK, BaseTypeOK, ArchiveTypeOK, ArchiveTypeOK', NEW a \in Actors,
         UNCHANGED <<filed, ever>>,
         ChessComCursorsSafe', ~InBatch(a)',
         \A b \in Actors \ {a} : /\ job'[b] = job[b] /\ archive'[b] = archive[b]
                                 /\ report'[b] = report[b] /\ call'[b] = call[b],
         archive'[a].months \in {archive[a].months, {}}
  PROVE  CollectorOK'
<1>1. MonthsOK'
  <2> SUFFICES ASSUME NEW b \in Actors, NEW m \in archive'[b].months
               PROVE  /\ \E h \in filed : Month[h] = m
                      /\ \A g \in filed \ Bad :
                           Month[g] < m => g \in ever \/ Month[g] \in archive'[b].months
    BY DEF MonthsOK
  <2>1. archive'[b].months = archive[b].months
    BY DEF ArchiveTypeOK
  <2> QED  BY <2>1 DEF CollectorOK, MonthsOK
<1>2. OldestFirst'
  BY DEF CollectorOK, OldestFirst, InBatch
<1>3. BatchCovers'
  <2> SUFFICES ASSUME NEW b \in Actors, InBatch(b)' PROVE
        (\A n \in archive[b].months : \A g \in filed \ Bad :
          archive[b].month < n /\ Month[g] = archive[b].month
            => g \in ever \/ g \in report[b].todo \/ ChessComAtCall(b, g))'
    BY DEF BatchCovers
  <2>1. b \in Actors \ {a}  OBVIOUS
  <2>2. InBatch(b)  BY <2>1 DEF InBatch
  <2> QED  BY <2>1, <2>2 DEF CollectorOK, BatchCovers, ChessComAtCall
<1> QED  BY <1>1, <1>2, <1>3 DEF CollectorOK

\* What a step that leaves a's request outside a batch preserves of the
\* other requests.
LEMMA OthersKeep ==
  ASSUME OldestFirst, BatchCovers, NEW a \in Actors, ~InBatch(a)',
         UNCHANGED <<filed, ever, call>>,
         \A b \in Actors \ {a} : /\ job'[b] = job[b] /\ archive'[b] = archive[b]
                                 /\ report'[b] = report[b]
  PROVE  OldestFirst' /\ BatchCovers'
<1>1. ASSUME NEW b \in Actors, InBatch(b)'
      PROVE  /\ b \in Actors \ {a} /\ InBatch(b)
             /\ archive'[b] = archive[b] /\ report'[b] = report[b]
  BY <1>1 DEF InBatch
<1>2. OldestFirst'
  BY <1>1 DEF OldestFirst
<1>3. BatchCovers'
  BY <1>1 DEF BatchCovers, ChessComAtCall
<1> QED  BY <1>2, <1>3

\* A request that is over, or has just begun, has a safe cursor.
LEMMA ZeroIsSafe == ChessComAssumption /\ ArchiveTypeOK => ChessComCovers(0) /\ ChessComOpened(0)
BY DEF ChessComAssumption, ArchiveTypeOK, ChessComCovers, ChessComOpened

\* The steps of the service around the collector keep its invariant.
LEMMA ServiceCollector ==
  ASSUME ChessComAssumption, BaseTypeOK, ArchiveTypeOK, ArchiveTypeOK', CollectorOK,
         NEW a \in Actors,
         \/ FinishUpload(a) \/ FindCursor(a) \/ WriteCursor(a) \/ LoseRequest(a)
         \/ \E full \in BOOLEAN : StartSync(a, full)
         \/ \E gs \in Uploads : StartUpload(a, gs),
         archive' \in {archive, [archive EXCEPT ![a] = NoArchive]},
         UNCHANGED filed
  PROVE  CollectorOK'
<1> USE DEF BaseTypeOK, IngestTypeOK, ServiceTypeOK
<1>0. ChessComCovers(0) /\ ChessComOpened(0)  BY ZeroIsSafe
<1>1. UNCHANGED ever
  BY DEF FinishUpload, FindCursor, WriteCursor, LoseRequest, StartSync, StartUpload, ingestVars
<1>2. /\ ~InBatch(a)'
      /\ \A b \in Actors \ {a} : /\ job'[b] = job[b]
                                 /\ report'[b] = report[b] /\ call'[b] = call[b]
  <2>1. CASE FinishUpload(a) \/ WriteCursor(a) \/ LoseRequest(a)
    BY <2>1 DEF FinishUpload, WriteCursor, LoseRequest, Forget, InBatch, NoJob
  <2>2. CASE FindCursor(a)
    BY <2>2 DEF FindCursor, InBatch, ingestVars
  <2>3. CASE \E full \in BOOLEAN : StartSync(a, full)
    <3>1. PICK full \in BOOLEAN : StartSync(a, full)  BY <2>3
    <3>2. \E c : job' = [job EXCEPT ![a] = [NoJob EXCEPT !.pc = "fetch", !.cursor = c]]
      BY <3>1 DEF StartSync
    <3> QED  BY <3>1, <3>2 DEF StartSync, InBatch, ingestVars, NoJob
  <2>4. CASE \E gs \in Uploads : StartUpload(a, gs)
    BY <2>4 DEF StartUpload, InBatch, NoJob
  <2> QED  BY <2>1, <2>2, <2>3, <2>4
<1>3. ChessComCursorsSafe'
  <2>1. cursorRow'.at \in {cursorRow.at, job[a].cursor}
    <3>1. CASE WriteCursor(a)
      BY <3>1 DEF WriteCursor
    <3>2. CASE ~WriteCursor(a)
      BY <3>2 DEF FinishUpload, FindCursor, LoseRequest, StartSync, StartUpload
    <3> QED  BY <3>1, <3>2
  <2>2. job'[a].cursor \in {0, cursorRow.at, job[a].cursor}
    <3>1. CASE FinishUpload(a) \/ WriteCursor(a) \/ LoseRequest(a)
      BY <3>1 DEF FinishUpload, WriteCursor, LoseRequest, Forget, NoJob
    <3>2. CASE FindCursor(a)
      BY <3>2 DEF FindCursor
    <3>3. CASE \E full \in BOOLEAN : StartSync(a, full)
      <4>1. PICK full \in BOOLEAN : StartSync(a, full)  BY <3>3
      <4>2. PICK c \in {0, cursorRow.at} :
              job' = [job EXCEPT ![a] = [NoJob EXCEPT !.pc = "fetch", !.cursor = c]]
        BY <4>1 DEF StartSync
      <4> QED  BY <4>2 DEF NoJob
    <3>4. CASE \E gs \in Uploads : StartUpload(a, gs)
      BY <3>4 DEF StartUpload, NoJob
    <3> QED  BY <3>1, <3>2, <3>3, <3>4
  <2> QED  BY <1>0, <1>1, <1>2, <2>1, <2>2 DEF CollectorOK, ChessComCursorsSafe, ChessComCovers, ChessComOpened
<1>4. archive'[a].months \in {archive[a].months, {}}
      /\ \A b \in Actors \ {a} : archive'[b] = archive[b]
  BY DEF ArchiveTypeOK, NoArchive
<1> QED  BY <1>1, <1>2, <1>3, <1>4, OutOfBatch

\* A step that drops what a's collector had in hand.
DropArchive(a) == archive' = [archive EXCEPT ![a] = NoArchive]

\* A collector that returns keeps it.
LEMMA ReturnCollector ==
  ASSUME BaseTypeOK, ArchiveTypeOK, ArchiveTypeOK', CollectorOK, NEW a \in Actors,
         NEW failed \in BOOLEAN, EndCollector(a, failed), DropArchive(a), UNCHANGED filed
  PROVE  CollectorOK'
<1> USE DEF BaseTypeOK, IngestTypeOK, ServiceTypeOK
<1>1. /\ ~InBatch(a)' /\ job'[a].cursor = job[a].cursor
      /\ \A b \in Actors \ {a} : /\ job'[b] = job[b]
                                 /\ report'[b] = report[b] /\ call'[b] = call[b]
  BY DEF EndCollector, Returned, InBatch
<1>2. UNCHANGED <<ever, cursorRow>>
  BY DEF EndCollector
<1>3. ChessComCursorsSafe'
  BY <1>1, <1>2 DEF CollectorOK, ChessComCursorsSafe, ChessComCovers, ChessComOpened
<1>4. archive'[a].months = {} /\ \A b \in Actors \ {a} : archive'[b] = archive[b]
  BY DEF DropArchive, ArchiveTypeOK, NoArchive
<1> QED  BY <1>1, <1>2, <1>3, <1>4, OutOfBatch

\* Listing keeps the months at or after a safe cursor: those before it need
\* no visit.
LEMMA ListCollector ==
  ASSUME ChessComAssumption, BaseTypeOK, ArchiveTypeOK, CollectorOK, NEW a \in Actors,
         ListArchives(a)
  PROVE  CollectorOK' /\ ArchiveTypeOK'
<1> USE DEF BaseTypeOK, IngestTypeOK, ServiceTypeOK
<1>1. UNCHANGED <<ever, filed, cursorRow, job, report, call>>
  BY DEF ListArchives, ingestVars, serviceVars
<1>2. ChessComCursorsSafe'
  BY <1>1 DEF CollectorOK, ChessComCursorsSafe, ChessComCovers, ChessComOpened
<1> DEFINE ms == MonthsToSync(Archives, job[a].cursor)
<1>3. archive'[a].months = ms /\ \A b \in Actors \ {a} : archive'[b] = archive[b]
  BY DEF ListArchives, ArchiveTypeOK, NoArchive
<1>4. \A m \in ms : m \in Nat \ {0} /\ \E h \in filed : Month[h] = m
  BY DEF MonthsToSync, Archives, ArchiveTypeOK, ChessComAssumption
<1>5. \A m \in ms, g \in filed \ Bad : Month[g] < m => g \in ever \/ Month[g] \in ms
  BY DEF MonthsToSync, Archives, ArchiveTypeOK, ChessComAssumption,
         CollectorOK, ChessComCursorsSafe, ChessComCovers
<1>6. MonthsOK'
  BY <1>1, <1>3, <1>4, <1>5 DEF CollectorOK, MonthsOK
<1>7. ~InBatch(a)
  BY DEF ListArchives, InBatch
<1>8. OldestFirst' /\ BatchCovers'
  <2>1. ~InBatch(a)'  BY <1>1, <1>7 DEF InBatch
  <2> QED  BY <1>1, <1>3, <2>1, OthersKeep DEF CollectorOK
<1>9. ArchiveTypeOK'
  <2>1. ms \in SUBSET (Nat \ {0})  BY <1>4
  <2>2. archive' = [archive EXCEPT ![a] =
          [NoArchive EXCEPT !.listed = TRUE, !.months = ms]]
    BY DEF ListArchives
  <2> HIDE DEF ms
  <2>3. [NoArchive EXCEPT !.listed = TRUE, !.months = ms] \in ArchiveRec
    <3>1. 0 \in 0 .. ChessComRetries  BY DEF ChessComAssumption
    <3>2. NoArchive \in ArchiveRec
      BY <3>1 DEF NoArchive, ArchiveRec
    <3> QED  BY <2>1, <3>2 DEF ArchiveRec
  <2> QED  BY <1>1, <2>2, <2>3 DEF ArchiveTypeOK, ArchiveRec
<1> QED  BY <1>2, <1>6, <1>8, <1>9 DEF CollectorOK

\* A request that begins to ingest a month keeps the types of the service.
LEMMA JobEntersBatch ==
  ASSUME ServiceTypeOK, NEW a \in Actors,
         job' = [job EXCEPT ![a].pc = "batch"], UNCHANGED <<cursorRow, faults>>
  PROVE  ServiceTypeOK'
BY SMTT(30) DEF ServiceTypeOK, JobPC

\* Fetching takes the oldest month left, with all its games ahead.
LEMMA FetchCollector ==
  ASSUME ChessComAssumption, BaseTypeOK, ArchiveTypeOK, CollectorOK, NEW a \in Actors,
         FetchMonth(a)
  PROVE  CollectorOK' /\ ArchiveTypeOK' /\ BaseTypeOK'
<1> USE DEF BaseTypeOK, IngestTypeOK, ServiceTypeOK
<1> DEFINE m == Oldest(archive[a].months)
<1>1. m \in archive[a].months /\ m \in Nat /\ \A n \in archive[a].months : m <= n
  <2>1. archive[a].months \in SUBSET Nat /\ archive[a].months # {}
    BY DEF FetchMonth, ArchiveTypeOK
  <2> QED  BY <2>1, OldestIsLeast
<1>2. /\ UNCHANGED <<rows, ever, call, inserted, cursorRow, faults, filed>>
      /\ archive' = [archive EXCEPT ![a].month = m, ![a].attempt = 0]
      /\ report' = [report EXCEPT ![a] = [NoReport EXCEPT !.todo = InArchive(m)]]
      /\ job' = [job EXCEPT ![a].pc = "batch"]
  BY DEF FetchMonth
<1> HIDE DEF m
<1>3. ChessComCursorsSafe'
  BY <1>2 DEF CollectorOK, ChessComCursorsSafe, ChessComCovers, ChessComOpened
<1>4. /\ archive'[a].months = archive[a].months /\ archive'[a].month = m
      /\ \A b \in Actors \ {a} : archive'[b] = archive[b]
  BY <1>2 DEF ArchiveTypeOK
<1>5. MonthsOK'
  BY <1>2, <1>4 DEF CollectorOK, MonthsOK
<1>6. OldestFirst'
  <2> SUFFICES ASSUME NEW b \in Actors, InBatch(b)'
               PROVE  /\ archive'[b].month \in archive'[b].months
                      /\ \A n \in archive'[b].months : archive'[b].month <= n
    BY DEF OldestFirst
  <2>1. CASE b = a  BY <1>1, <1>4, <2>1
  <2>2. CASE b # a
    <3>1. InBatch(b)  BY <1>2, <2>2 DEF InBatch
    <3> QED  BY <1>4, <2>2, <3>1 DEF CollectorOK, OldestFirst
  <2> QED  BY <2>1, <2>2
<1>7. BatchCovers'
  <2>1. report'[a].todo = {g \in filed : Month[g] = m}
    BY <1>2 DEF InArchive, NoReport
  <2> SUFFICES ASSUME NEW b \in Actors, InBatch(b)', NEW n \in archive'[b].months,
                      NEW g \in filed \ Bad, archive'[b].month < n,
                      Month[g] = archive'[b].month
               PROVE  (g \in ever \/ g \in report[b].todo \/ ChessComAtCall(b, g))'
    BY <1>2 DEF BatchCovers
  <2>2. CASE b = a  BY <1>4, <2>1, <2>2
  <2>3. CASE b # a
    <3>1. InBatch(b)  BY <1>2, <2>3 DEF InBatch
    <3>2. /\ archive'[b] = archive[b] /\ report'[b] = report[b] /\ call' = call
          /\ ever' = ever
      BY <1>2, <1>4, <2>3
    <3>3. g \in ever \/ g \in report[b].todo \/ ChessComAtCall(b, g)
      BY <3>1, <3>2 DEF CollectorOK, BatchCovers
    <3> QED  BY <3>2, <3>3 DEF ChessComAtCall
  <2> QED  BY <2>2, <2>3
<1>8. ArchiveTypeOK'
  <2>1. archive[a] \in ArchiveRec
    BY DEF ArchiveTypeOK, ArchiveRec
  <2>2. [archive[a] EXCEPT !.month = m, !.attempt = 0] \in ArchiveRec
    <3>1. 0 \in 0 .. ChessComRetries  BY DEF ChessComAssumption
    <3> QED  BY <1>1, <2>1, <3>1 DEF ArchiveRec
  <2>3. archive' = [archive EXCEPT ![a] = [archive[a] EXCEPT !.month = m, !.attempt = 0]]
    BY <1>2
  <2> QED  BY <1>2, <2>2, <2>3 DEF ArchiveTypeOK, ArchiveRec
<1>9. IngestTypeOK'
  <2>1. InArchive(m) \in SUBSET Games
    BY DEF InArchive, ArchiveTypeOK
  <2> QED  BY <1>2, <2>1 DEF NoReport
<1>10. ServiceTypeOK'
  <2> HIDE DEF IngestTypeOK, ServiceTypeOK
  <2> QED  BY <1>2, JobEntersBatch DEF BaseTypeOK
<1> QED  BY <1>3, <1>5, <1>6, <1>7, <1>8, <1>9, <1>10 DEF CollectorOK

\* Finishing the oldest month left makes it a safe cursor.
LEMMA MonthCollector ==
  ASSUME ChessComAssumption, BaseTypeOK, ArchiveTypeOK, CollectorOK, NEW a \in Actors,
         MonthDone(a)
  PROVE  CollectorOK' /\ ArchiveTypeOK' /\ BaseTypeOK'
<1> USE DEF BaseTypeOK, IngestTypeOK, ServiceTypeOK
<1> DEFINE m == archive[a].month
<1>1. m \in archive[a].months /\ m \in Nat /\ \A n \in archive[a].months : m <= n
  BY DEF MonthDone, CollectorOK, OldestFirst, InBatch, ArchiveTypeOK
<1>2. InBatch(a) /\ report[a].todo = {} /\ \A g \in Games : ~ChessComAtCall(a, g)
  BY DEF MonthDone, BlobDone, InBatch, ChessComAtCall
<1>3. \A g \in filed \ Bad, n \in archive[a].months :
         m < n /\ Month[g] = m => g \in ever
  BY <1>2 DEF CollectorOK, BatchCovers, ArchiveTypeOK
<1>4. ChessComCovers(m) /\ ChessComOpened(m)
  BY <1>1, ChessComAssumption
  DEF ChessComCovers, ChessComOpened, CollectorOK, MonthsOK, ArchiveTypeOK, ChessComAssumption
<1>5. UNCHANGED <<rows, ever, call, inserted, cursorRow, faults, filed>>
  BY DEF MonthDone
<1>6. /\ job'[a].cursor = m /\ ~InBatch(a)'
      /\ \A b \in Actors \ {a} : job'[b] = job[b] /\ report'[b] = report[b]
  BY DEF MonthDone, InBatch
<1>7. ChessComCursorsSafe'
  BY <1>4, <1>5, <1>6 DEF CollectorOK, ChessComCursorsSafe, ChessComCovers, ChessComOpened
<1>8. /\ archive'[a].months = archive[a].months \ {m}
      /\ \A b \in Actors \ {a} : archive'[b] = archive[b]
  BY DEF MonthDone, ArchiveTypeOK
<1>9. MonthsOK'
  <2> SUFFICES ASSUME NEW b \in Actors, NEW n \in archive'[b].months
               PROVE  /\ \E h \in filed : Month[h] = n
                      /\ \A g \in filed \ Bad :
                           Month[g] < n => g \in ever \/ Month[g] \in archive'[b].months
    BY <1>5 DEF MonthsOK
  <2>1. CASE b # a
    BY <1>8, <2>1 DEF CollectorOK, MonthsOK
  <2>2. CASE b = a
    <3>1. n \in archive[a].months /\ n # m /\ m < n
      <4>1. n \in archive[a].months /\ n # m
        BY <1>8, <2>2
      <4>2. n \in Nat  BY <4>1 DEF ArchiveTypeOK
      <4> HIDE DEF m
      <4> QED  BY <1>1, <4>1, <4>2
    <3> HIDE DEF m
    <3> QED  BY <1>3, <1>8, <2>2, <3>1 DEF CollectorOK, MonthsOK
  <2> QED  BY <2>1, <2>2
<1>10. OldestFirst' /\ BatchCovers'
  BY <1>5, <1>6, <1>8, OthersKeep DEF CollectorOK
<1>11. ArchiveTypeOK'
  <2>1. archive[a] \in ArchiveRec
    BY DEF ArchiveTypeOK, ArchiveRec
  <2>2. archive' = [archive EXCEPT ![a] =
          [archive[a] EXCEPT !.months = archive[a].months \ {m}, !.month = 0]]
    BY DEF MonthDone
  <2> HIDE DEF m
  <2>3. [archive[a] EXCEPT !.months = archive[a].months \ {m}, !.month = 0] \in ArchiveRec
    BY <2>1 DEF ArchiveRec
  <2> QED  BY <1>5, <2>2, <2>3 DEF ArchiveTypeOK, ArchiveRec
<1>12. IngestTypeOK'
  BY <1>5 DEF MonthDone, NoReport
<1>13. ServiceTypeOK'
  <2>1. job[a].imported + report[a].imported \in Nat
        /\ job[a].duplicates + report[a].duplicates \in Nat
    OBVIOUS
  <2>2. PICK i \in Nat, d \in Nat :
          job' = [job EXCEPT ![a].pc = "fetch", ![a].cursor = m,
                             ![a].imported = i, ![a].duplicates = d]
    BY <2>1 DEF MonthDone
  <2> HIDE DEF m
  <2>3. [job[a] EXCEPT !.pc = "fetch", !.cursor = m,
                       !.imported = i, !.duplicates = d] \in Jobs
    <3>1. job[a] \in Jobs  BY DEF Jobs
    <3> QED  BY <1>1, <3>1 DEF Jobs, JobPC
  <2>4. job' = [job EXCEPT ![a] = [job[a] EXCEPT !.pc = "fetch", !.cursor = m,
                                                 !.imported = i, !.duplicates = d]]
    BY <2>2
  <2> QED  BY <1>5, <2>3, <2>4 DEF Jobs
<1> QED  BY <1>7, <1>9, <1>10, <1>11, <1>12, <1>13 DEF CollectorOK

\* Chess.com files a new game in the last open month or a later one, which
\* no safe cursor and no closed month lies beyond.
LEMMA PublishCollector ==
  ASSUME ChessComAssumption, BaseTypeOK, ArchiveTypeOK, CollectorOK, NEW g \in Games,
         ChessComPublish(g)
  PROVE  CollectorOK' /\ ArchiveTypeOK' /\ BaseTypeOK' /\ (StorageOK => StorageOK')
<1>1. /\ UNCHANGED <<rows, ever, call, report, inserted, cursorRow, job, faults, archive>>
      /\ filed' = filed \cup {g}
      /\ \A h \in filed : Month[h] <= Month[g]
  BY DEF ChessComPublish, ingestVars, serviceVars
<1>2. /\ Month[g] \in Nat /\ \A h \in filed : Month[h] \in Nat
      /\ \A a \in Actors : /\ job[a].cursor \in Nat /\ archive[a].month \in Nat
                           /\ archive[a].months \in SUBSET Nat
      /\ cursorRow.at \in Nat
  BY DEF ChessComAssumption, ArchiveTypeOK, BaseTypeOK, ServiceTypeOK
<1>3. ASSUME NEW c \in Nat, ChessComCovers(c), ChessComOpened(c)
      PROVE  /\ \A h \in filed' \ Bad : Month[h] < c => h \in ever
             /\ c = 0 \/ \E h \in filed' : Month[h] >= c
  BY <1>1, <1>2, <1>3 DEF ChessComCovers, ChessComOpened
<1>4. ChessComCursorsSafe'
  BY <1>1, <1>2, <1>3 DEF CollectorOK, ChessComCursorsSafe, ChessComCovers, ChessComOpened
<1>5. \A a \in Actors : \A n \in archive[a].months : n <= Month[g]
  <2> SUFFICES ASSUME NEW a \in Actors, NEW n \in archive[a].months PROVE n <= Month[g]
    OBVIOUS
  <2>1. PICK h \in filed : Month[h] = n
    BY DEF CollectorOK, MonthsOK
  <2> QED  BY <1>1, <2>1
<1>6. \A a \in Actors : \A n \in archive[a].months : ~(Month[g] < n)
  BY <1>2, <1>5
<1>7. MonthsOK'
  BY <1>1, <1>6 DEF CollectorOK, MonthsOK
<1>8. OldestFirst'
  BY <1>1 DEF CollectorOK, OldestFirst, InBatch
<1>9. BatchCovers'
  BY <1>1, <1>2, <1>6 DEF CollectorOK, BatchCovers, InBatch, ChessComAtCall
<1>10. ArchiveTypeOK'
  BY <1>1 DEF ArchiveTypeOK
<1>11. BaseTypeOK' /\ (StorageOK => StorageOK')
  BY <1>1 DEF BaseTypeOK, IngestTypeOK, ServiceTypeOK, StorageOK, NoDuplicateRows
<1> QED  BY <1>4, <1>7, <1>8, <1>9, <1>10, <1>11 DEF CollectorOK

-----------------------------------------------------------------------------

\* The inductive invariant holds initially ...
LEMMA ChessComInitIInv == ChessComInit => ChessComIInv
<1> SUFFICES ASSUME ChessComInit PROVE ChessComIInv
  OBVIOUS
<1> USE GamesAssumption, ServiceAssumption, ChessComAssumption
<1>1. BaseTypeOK /\ StorageOK
  BY BaseInit DEF ChessComInit
<1>2. ArchiveTypeOK
  <2>1. NoArchive \in ArchiveRec
    BY DEF NoArchive, ArchiveRec, ChessComAssumption
  <2> QED  BY <2>1 DEF ChessComInit, ArchiveTypeOK, ArchiveRec
<1>3. CollectorOK
  BY DEF ChessComInit, ServiceInit, NoJob, NoArchive, CollectorOK, ChessComCursorsSafe, ChessComCovers, ChessComOpened,
         MonthsOK, OldestFirst, BatchCovers, InBatch
<1> QED  BY <1>1, <1>2, <1>3 DEF ChessComIInv

\* ... and every step keeps it.
LEMMA ChessComNextIInv == ChessComIInv /\ [ChessComNext]_chesscomVars => ChessComIInv'
<1> SUFFICES ASSUME ChessComIInv, [ChessComNext]_chesscomVars PROVE ChessComIInv'
  OBVIOUS
<1> USE GamesAssumption, ServiceAssumption, ChessComAssumption
<1> USE DEF ChessComIInv
<1>0. NoArchive \in ArchiveRec
  BY DEF NoArchive, ArchiveRec, ChessComAssumption
<1>1. ASSUME NEW a \in Actors, archive' \in {archive, [archive EXCEPT ![a] = NoArchive]},
             UNCHANGED filed
      PROVE  ArchiveTypeOK'
  BY <1>0, <1>1 DEF ArchiveTypeOK, ArchiveRec
<1>2. ASSUME NEW a \in Actors, ChessComService(a) PROVE ChessComIInv'
  <2>1. UNCHANGED <<filed, archive>>  BY <1>2 DEF ChessComService
  <2>2. ArchiveTypeOK'  BY <1>1, <2>1
  <2>3. BaseTypeOK' /\ StorageOK'  BY <1>2, ServiceStep DEF ChessComService
  <2>4. CASE IngestStep(a)
    <3>1. CollectorOK'
      BY <2>1, <2>4, CallStepCollector DEF IngestStep, serviceVars
    <3> QED  BY <2>2, <2>3, <3>1
  <2>5. CASE ~IngestStep(a)
    <3>1. CollectorOK'
      BY <1>2, <2>1, <2>2, <2>5, ServiceCollector DEF ChessComService
    <3> QED  BY <2>2, <2>3, <3>1
  <2> QED  BY <2>4, <2>5
<1>3. ASSUME NEW a \in Actors, ChessComRequest(a) PROVE ChessComIInv'
  <2>1. UNCHANGED <<filed, archive>>  BY <1>3 DEF ChessComRequest
  <2>2. ArchiveTypeOK'  BY <1>1, <2>1
  <2>3. BaseTypeOK' /\ StorageOK'  BY <1>3, ServiceStep DEF ChessComRequest
  <2>4. CASE IngestFault(a)
    <3>1. CollectorOK'
      BY <2>1, <2>4, CallStepCollector DEF IngestFault
    <3> QED  BY <2>2, <2>3, <3>1
  <2>5. CASE ~IngestFault(a)
    <3>1. CollectorOK'
      BY <1>3, <2>1, <2>2, <2>5, ServiceCollector DEF ChessComRequest
    <3> QED  BY <2>2, <2>3, <3>1
  <2> QED  BY <2>4, <2>5
<1>4. ASSUME NEW a \in Actors, NEW failed \in BOOLEAN, EndCollector(a, failed),
             faults' \in 0 .. MaxFaults,
             archive' = [archive EXCEPT ![a] = NoArchive], UNCHANGED filed
      PROVE  ChessComIInv'
  <2>1. ArchiveTypeOK'  BY <1>1, <1>4
  <2>2. BaseTypeOK' /\ StorageOK'  BY <1>4, EndCollectorStep
  <2>3. DropArchive(a)  BY <1>4 DEF DropArchive
  <2>4. CollectorOK'  BY <1>4, <2>1, <2>3, ReturnCollector
  <2> QED  BY <2>1, <2>2, <2>4
<1>5. ASSUME NEW a \in Actors, ChessComCollect(a) PROVE ChessComIInv'
  <2>1. CASE ListArchives(a)
    <3>1. BaseTypeOK' /\ StorageOK'
      BY <2>1 DEF ListArchives, ingestVars, serviceVars, BaseTypeOK, IngestTypeOK,
                  ServiceTypeOK, StorageOK, NoDuplicateRows
    <3> QED  BY <2>1, <3>1, ListCollector
  <2>2. CASE FetchMonth(a)
    <3>1. StorageOK'
      BY <2>2 DEF FetchMonth, StorageOK, NoDuplicateRows
    <3> QED  BY <2>2, <3>1, FetchCollector
  <2>3. CASE MonthDone(a)
    <3>1. StorageOK'
      BY <2>3 DEF MonthDone, StorageOK, NoDuplicateRows
    <3> QED  BY <2>3, <3>1, MonthCollector
  <2>4. CASE MonthFails(a)
    BY <1>4, <2>4 DEF MonthFails, BaseTypeOK, ServiceTypeOK
  <2>5. CASE ChessComSyncDone(a)
    BY <1>4, <2>5 DEF ChessComSyncDone, BaseTypeOK, ServiceTypeOK
  <2> QED  BY <1>5, <2>1, <2>2, <2>3, <2>4, <2>5 DEF ChessComCollect
<1>6. ASSUME NEW a \in Actors, ChessComRateLimited(a) PROVE ChessComIInv'
  <2>1. /\ UNCHANGED <<rows, ever, call, report, inserted, cursorRow, job, filed>>
        /\ faults' \in 0 .. MaxFaults
    BY <1>6 DEF ChessComRateLimited, ingestVars, Fault, BaseTypeOK, ServiceTypeOK, ServiceAssumption
  <2>2. BaseTypeOK' /\ StorageOK'
    BY <2>1 DEF BaseTypeOK, IngestTypeOK, ServiceTypeOK, StorageOK, NoDuplicateRows
  <2>3. ArchiveTypeOK'
    <3>1. archive[a].attempt + 1 \in 0 .. ChessComRetries
      BY <1>6 DEF ChessComRateLimited, ArchiveTypeOK, ChessComAssumption
    <3>2. archive[a] \in ArchiveRec
      BY DEF ArchiveTypeOK, ArchiveRec
    <3>3. PICK k \in 0 .. ChessComRetries :
            archive' = [archive EXCEPT ![a] = [archive[a] EXCEPT !.attempt = k]]
      BY <1>6, <3>1 DEF ChessComRateLimited
    <3>4. [archive[a] EXCEPT !.attempt = k] \in ArchiveRec
      BY <3>2 DEF ArchiveRec
    <3> QED  BY <2>1, <3>3, <3>4 DEF ArchiveTypeOK, ArchiveRec
  <2>4. \A b \in Actors : archive'[b].months = archive[b].months
    BY <1>6 DEF ChessComRateLimited, ArchiveTypeOK
  <2>5. ~InBatch(a)'
    BY <1>6, <2>1 DEF ChessComRateLimited, InBatch
  <2>6. ChessComCursorsSafe'
    BY <2>1 DEF CollectorOK, ChessComCursorsSafe, ChessComCovers, ChessComOpened
  <2>7. MonthsOK'
    BY <2>1, <2>4 DEF CollectorOK, MonthsOK
  <2>8. \A b \in Actors \ {a} : archive'[b] = archive[b]
    BY <1>6 DEF ChessComRateLimited, ArchiveTypeOK
  <2>9. OldestFirst' /\ BatchCovers'
    BY <2>1, <2>5, <2>8, OthersKeep DEF CollectorOK
  <2> QED  BY <2>2, <2>3, <2>6, <2>7, <2>9 DEF CollectorOK
<1>7. ASSUME NEW a \in Actors, ChessComFetchFails(a) PROVE ChessComIInv'
  <2>1. faults' \in 0 .. MaxFaults
    BY <1>7 DEF ChessComFetchFails, Fault, BaseTypeOK, ServiceTypeOK, ServiceAssumption
  <2> QED  BY <1>4, <1>7, <2>1 DEF ChessComFetchFails
<1>8. ASSUME NEW a \in Actors, ChessComLose(a) PROVE ChessComIInv'
  <2>1. ArchiveTypeOK'  BY <1>1, <1>8 DEF ChessComLose
  <2>2. BaseTypeOK' /\ StorageOK'  BY <1>8, ServiceStep DEF ChessComLose
  <2>3. CollectorOK'  BY <1>8, <2>1, ServiceCollector DEF ChessComLose
  <2> QED  BY <2>1, <2>2, <2>3
<1>9. ASSUME NEW g \in Games, ChessComPublish(g) PROVE ChessComIInv'
  BY <1>9, PublishCollector
<1>10. ASSUME NEW g \in Games, ChessComRemove(g) PROVE ChessComIInv'
  <2>1. UNCHANGED <<ever, call, report, cursorRow, job, filed, archive>>
    BY <1>10 DEF ChessComRemove, RemoveGame, DeleteGame, serviceVars
  <2>2. BaseTypeOK' /\ StorageOK'  BY <1>10, RemoveStep DEF ChessComRemove
  <2>3. CollectorOK'
    BY <2>1 DEF CollectorOK, ChessComCursorsSafe, ChessComCovers, ChessComOpened, MonthsOK, OldestFirst,
                BatchCovers, InBatch, ChessComAtCall
  <2>4. ArchiveTypeOK'  BY <2>1 DEF ArchiveTypeOK
  <2> QED  BY <2>2, <2>3, <2>4
<1>11. CASE UNCHANGED chesscomVars
  BY <1>11 DEF chesscomVars, BaseTypeOK, IngestTypeOK, ServiceTypeOK, ArchiveTypeOK, StorageOK,
       NoDuplicateRows, CollectorOK, ChessComCursorsSafe, ChessComCovers, ChessComOpened, MonthsOK, OldestFirst,
       BatchCovers, InBatch, ChessComAtCall
<1> QED
  BY <1>2, <1>3, <1>5, <1>6, <1>7, <1>8, <1>9, <1>10, <1>11 DEF ChessComNext

\* The invariant the theorems below are read from.
THEOREM ChessComInductive == ChessComSpec => []ChessComIInv
BY ChessComInitIInv, ChessComNextIInv, PTL DEF ChessComSpec

\* Every variable keeps its type, whatever interleaving of requests, faults,
\* uploads and deletions the service meets.
THEOREM ChessComTypeCorrect == ChessComSpec => []ChessComTypeOK
<1>1. ChessComIInv => ChessComTypeOK
  BY DEF ChessComIInv, BaseTypeOK, ChessComTypeOK
<1> QED  BY <1>1, ChessComInductive, PTL

\* No game is stored twice: the unique index closes the gap between the
\* existence check of ingest_pgn and its insert, for any number of requests.
THEOREM ChessComStoredOnce == ChessComSpec => []NoDuplicateRows
<1>1. ChessComIInv => NoDuplicateRows
  BY DEF ChessComIInv, StorageOK
<1> QED  BY <1>1, ChessComInductive, PTL

\* The cursor an incremental sync will start from never leaves an acceptable
\* game behind, for any months, requests, failures and lost clients.
THEOREM ChessComNothingSkipped == ChessComSpec => []ChessComCoversHistory
<1>1. ChessComIInv => ChessComCoversHistory
  BY DEF ChessComIInv, CollectorOK, ChessComCursorsSafe, ChessComCovers, ChessComCoversHistory
<1> QED  BY <1>1, ChessComInductive, PTL

\* Every step of the service is a step of the abstract library or changes
\* nothing a user can see of it.
LEMMA ChessComLibraryStep ==
  ASSUME ChessComIInv, ChessComIInv', ChessComNext
  PROVE  ChessComLibrary!LibraryNext \/ UNCHANGED <<filed, ever, cursorRow.at>>
<1> USE DEF ChessComIInv, ChessComLibrary!LibraryNext
<1>1. ASSUME NEW a \in Actors, IngestStep(a), UNCHANGED <<filed, archive>>
      PROVE  ChessComLibrary!LibraryNext \/ UNCHANGED <<filed, ever, cursorRow.at>>
  <2>1. CASE StoreGame(a)
    <3> DEFINE g == call[a].game
    <3>1. g \in Games /\ g \notin Bad
      BY <2>1 DEF StoreGame, StorageOK
    <3>2. CASE g \in ever
      <4>1. ever' = ever  BY <2>1, <3>2 DEF StoreGame
      <4> QED  BY <1>1, <4>1 DEF IngestStep, serviceVars
    <3>3. CASE g \notin ever
      <4>1. ChessComLibrary!AddGame(g)
        BY <1>1, <2>1, <3>1, <3>3 DEF StoreGame, IngestStep, serviceVars, ChessComLibrary!AddGame
      <4> QED  BY <3>1, <4>1
    <3> QED  BY <3>2, <3>3
  <2>2. CASE ~StoreGame(a)
    BY <1>1, <2>2 DEF IngestStep, serviceVars, CheckGame, StoreConflict, NextOfBlob, RecordInReport
  <2> QED  BY <2>1, <2>2
<1>2. ASSUME NEW a \in Actors, WriteCursor(a), UNCHANGED <<filed, archive>>
      PROVE  ChessComLibrary!LibraryNext
  <2>1. cursorRow'.at \in Nat
    BY DEF BaseTypeOK, ServiceTypeOK
  <2>2. UNCHANGED ever
    BY <1>2 DEF WriteCursor
  <2>3. \A h \in filed \ Bad : Month[h] < cursorRow'.at => h \in ever
    BY <1>2, <2>2 DEF CollectorOK, ChessComCursorsSafe, ChessComCovers
  <2>4. ChessComLibrary!MoveHorizon
    BY <1>2, <2>1, <2>2, <2>3 DEF ChessComLibrary!MoveHorizon, ChessComLibrary!Covered
  <2> QED  BY <2>4
<1>3. ASSUME NEW a \in Actors, ChessComService(a)
      PROVE  ChessComLibrary!LibraryNext \/ UNCHANGED <<filed, ever, cursorRow.at>>
  BY <1>1, <1>2, <1>3 DEF ChessComService, FinishUpload, FindCursor, ingestVars
<1>4. ASSUME NEW a \in Actors, ChessComRequest(a)
      PROVE  UNCHANGED <<filed, ever, cursorRow.at>>
  BY <1>4 DEF ChessComRequest, StartSync, StartUpload, IngestFault, IngestDbError, ingestVars
<1>5. ASSUME NEW a \in Actors, ChessComCollect(a)
      PROVE  UNCHANGED <<filed, ever, cursorRow.at>>
  BY <1>5 DEF ChessComCollect, ListArchives, FetchMonth, MonthDone, MonthFails, ChessComSyncDone,
              EndCollector, ingestVars, serviceVars
<1>6. ASSUME NEW a \in Actors, ChessComRateLimited(a) \/ ChessComFetchFails(a) \/ ChessComLose(a)
      PROVE  UNCHANGED <<filed, ever, cursorRow.at>>
  BY <1>6 DEF ChessComRateLimited, ChessComFetchFails, ChessComLose, LoseRequest, EndCollector, ingestVars
<1>7. ASSUME NEW g \in Games, ChessComPublish(g)
      PROVE  ChessComLibrary!LibraryNext
  <2>1. ChessComLibrary!PublishGame(g)
    BY <1>7 DEF ChessComPublish, ChessComLibrary!PublishGame, ingestVars, serviceVars
  <2> QED  BY <2>1
<1>8. ASSUME NEW g \in Games, ChessComRemove(g)
      PROVE  UNCHANGED <<filed, ever, cursorRow.at>>
  BY <1>8 DEF ChessComRemove, RemoveGame, DeleteGame, serviceVars
<1> QED  BY <1>3, <1>4, <1>5, <1>6, <1>7, <1>8 DEF ChessComNext

\* Incremental sync, with all its requests, streams and failures, implements
\* the library it promises the user.
THEOREM ChessComRefinesLibrary == ChessComSpec => ChessComImplementsLibrary
<1>1. ChessComInit => ChessComLibrary!LibraryInit
  BY DEF ChessComInit, IngestInit, ServiceInit, ChessComLibrary!LibraryInit
<1>2. ChessComIInv /\ ChessComIInv' /\ [ChessComNext]_chesscomVars
        => [ChessComLibrary!LibraryNext]_<<filed, ever, cursorRow.at>>
  BY ChessComLibraryStep DEF chesscomVars
<1> QED
  BY <1>1, <1>2, ChessComInductive, PTL DEF ChessComSpec, ChessComImplementsLibrary, ChessComLibrary!LibrarySpec

(***************************************************************************)
(* Lichess's inductive invariant.  The games of a response are split into  *)
(* those still waiting (not yet arriving, in the buffer, in the ingest     *)
(* call) and those accounted for.                                          *)
(***************************************************************************)
LichessAtCall(a) == IF call[a].pc = "none" THEN {} ELSE {call[a].game}
Waiting(a) == stream[a].todo \cup ({stream[a].tail} \ {NoGame}) \cup LichessAtCall(a)
Accounted(a) == stream[a].offered \ Waiting(a)

\* A game of the response waits in one place at most.
Partitioned(a) ==
  LET s == stream[a] IN
  /\ s.offered \subseteq published
  /\ s.todo \subseteq s.offered
  /\ s.tail \in s.offered \cup {NoGame}
  /\ s.tail \notin s.todo
  /\ LichessAtCall(a) \subseteq s.offered \ (s.todo \cup {s.tail})

\* What a streaming run has counted is what it accounted for; what it
\* stored is that and the game whose call just stored it.
Counted(a) ==
  /\ Accounted(a) \subseteq ever
  /\ job[a].imported + job[a].duplicates = Cardinality(Accounted(a))
  /\ inserted[a] \subseteq Accounted(a) \cup LichessAtCall(a)
  /\ (LichessAtCall(a) \subseteq inserted[a]) <=> call[a].pc \in {"none", "new"}
  /\ job[a].imported = Cardinality(inserted[a] \ LichessAtCall(a))

\* Over an orderly export games wait oldest first, and no game is missing
\* that is older than one of the response.
Ordered(a) ==
  LET s == stream[a] IN
  orderly =>
    /\ \A h \in published \ Bad :
         h \in ever \/ h \in Waiting(a) \/ \A x \in s.offered : Second[x] <= Second[h]
    /\ \A x \in LichessAtCall(a), h \in s.todo \cup ({s.tail} \ {NoGame}) : Second[x] <= Second[h]
    /\ s.tail # NoGame => \A h \in s.todo : Second[s.tail] <= Second[h]

\* A run that returned carries the counts of what it stored and met.
Returning(a) ==
  /\ job[a].imported = Cardinality(inserted[a])
  /\ ~job[a].failed =>
       /\ stream[a].offered \subseteq ever
       /\ job[a].imported + job[a].duplicates = Cardinality(stream[a].offered)

RunOK(a) ==
  /\ job[a].pc \notin {"stream", "batch"} => call[a].pc = "none"
  /\ job[a].pc = "batch" => job[a].kind = "upload"
  /\ job[a].pc \in {"idle", "fetch"} =>
       inserted[a] = {} /\ job[a].imported = 0 /\ job[a].duplicates = 0
  /\ job[a].pc = "stream" => Partitioned(a) /\ Counted(a) /\ Ordered(a)
  /\ job[a].pc \in {"find", "write"} => Returning(a)

RunsOK == \A a \in Actors : RunOK(a)

\* A cursor is safe when everything older was stored and, so that an orderly
\* Lichess cannot publish an older game, when some game is as new as it.
LichessCovers(c) == orderly => \A g \in published \ Bad : Second[g] < c => g \in ever
LichessOpened(c) == c = 0 \/ \E h \in published : Second[h] >= c

LichessCursorsSafe ==
  /\ LichessCovers(cursorRow.at) /\ LichessOpened(cursorRow.at)
  /\ \A a \in Actors : LichessCovers(job[a].cursor) /\ LichessOpened(job[a].cursor)

StreamRec == [offered : SUBSET Games, todo : SUBSET Games,
              tail : Games \cup {NoGame}, attempt : 0 .. LichessRetries,
              whole : SUBSET Games]

TypesOK == BaseTypeOK /\ StreamTypeOK

LichessIInv == TypesOK /\ StorageOK /\ RunsOK /\ LichessCursorsSafe

-----------------------------------------------------------------------------
(***************************************************************************)
(* What a step of one request leaves of the others.                        *)
(***************************************************************************)

\* A run whose own state did not change stays sound while the history grows.
LEMMA Untouched ==
  ASSUME NEW a \in Actors, RunOK(a), ever \subseteq ever', UNCHANGED <<published, orderly>>,
         job'[a] = job[a], call'[a] = call[a], stream'[a] = stream[a],
         inserted'[a] = inserted[a]
  PROVE  RunOK(a)'
<1>1. UNCHANGED <<LichessAtCall(a), Waiting(a), Accounted(a)>>
  BY DEF LichessAtCall, Waiting, Accounted
<1>2. Partitioned(a) => Partitioned(a)'
  BY <1>1 DEF Partitioned
<1>3. Counted(a) => Counted(a)'
  BY <1>1 DEF Counted
<1>4. Ordered(a) => Ordered(a)'
  BY <1>1 DEF Ordered
<1>5. Returning(a) => Returning(a)'
  BY DEF Returning
<1> QED  BY <1>2, <1>3, <1>4, <1>5 DEF RunOK

\* So a step of request a keeps all runs sound when it keeps a's.
LEMMA OnlyThisRun ==
  ASSUME RunsOK, NEW a \in Actors, ever \subseteq ever', UNCHANGED <<published, orderly>>,
         \A b \in Actors \ {a} : /\ job'[b] = job[b] /\ call'[b] = call[b]
                                 /\ stream'[b] = stream[b] /\ inserted'[b] = inserted[b],
         RunOK(a)'
  PROVE  RunsOK'
<1> SUFFICES ASSUME NEW b \in Actors PROVE RunOK(b)'
  BY DEF RunsOK
<1>1. CASE b = a  BY <1>1
<1>2. CASE b # a
  BY <1>2, Untouched DEF RunsOK
<1> QED  BY <1>1, <1>2

\* Cursors that come from safe ones are safe.
LEMMA SafeFromSafe ==
  ASSUME LichessCursorsSafe, NEW a \in Actors, ever \subseteq ever', UNCHANGED <<published, orderly>>,
         LichessAssumption, TypesOK,
         cursorRow'.at \in {cursorRow.at, job[a].cursor},
         \A b \in Actors : job'[b].cursor \in {0, cursorRow.at, job[b].cursor}
  PROVE  LichessCursorsSafe'
<1>1. LichessCovers(0) /\ LichessOpened(0)
  BY DEF LichessCovers, LichessOpened, LichessAssumption, TypesOK, StreamTypeOK
<1>2. ASSUME NEW c, LichessCovers(c), LichessOpened(c)
      PROVE  /\ orderly' => \A g \in published' \ Bad : Second[g] < c => g \in ever'
             /\ c = 0 \/ \E h \in published' : Second[h] >= c
  BY <1>2 DEF LichessCovers, LichessOpened
<1>3. LichessCovers(cursorRow.at)' /\ LichessOpened(cursorRow.at)'
  BY <1>2 DEF LichessCursorsSafe, LichessCovers, LichessOpened
<1>4. ASSUME NEW b \in Actors PROVE LichessCovers(job[b].cursor)' /\ LichessOpened(job[b].cursor)'
  BY <1>1, <1>2 DEF LichessCursorsSafe, LichessCovers, LichessOpened
<1> QED  BY <1>3, <1>4 DEF LichessCursorsSafe

\* The games of a run are finitely many.
LEMMA FiniteGames == ASSUME GamesAssumption, NEW S \in SUBSET Games PROVE IsFiniteSet(S)
BY FS_Subset DEF GamesAssumption

-----------------------------------------------------------------------------
(***************************************************************************)
(* The steps of an ingest call.                                            *)
(***************************************************************************)

\* A step of a call keeps its game, and only a store adds it to what the
\* run inserted.
LEMMA CallStepRun ==
  ASSUME TypesOK, StorageOK, RunsOK, NEW a \in Actors,
         CheckGame(a) \/ StoreGame(a) \/ StoreConflict(a) \/ IngestDbError(a),
         UNCHANGED <<job, stream, published, orderly>>
  PROVE  RunsOK'
<1> USE DEF TypesOK, BaseTypeOK, IngestTypeOK
<1> DEFINE g == call[a].game
<1>1. ever \subseteq ever'
      /\ \A b \in Actors \ {a} : call'[b] = call[b] /\ inserted'[b] = inserted[b]
  BY DEF CheckGame, StoreGame, StoreConflict, IngestDbError
<1>2. call[a].pc \in {"check", "insert"} /\ call'[a].game = g /\ call'[a].pc # "none"
  BY DEF CheckGame, StoreGame, StoreConflict, IngestDbError
<1>3. UNCHANGED <<LichessAtCall(a), Waiting(a), Accounted(a)>>
  BY <1>2 DEF LichessAtCall, Waiting, Accounted
<1>4. \/ inserted'[a] = inserted[a] /\ call'[a].pc # "new"
      \/ inserted'[a] = inserted[a] \cup {g} /\ call'[a].pc = "new"
  BY DEF CheckGame, StoreGame, StoreConflict, IngestDbError
<1>5. LichessAtCall(a) = {g}
  BY <1>2 DEF LichessAtCall
<1>6. Partitioned(a) => Partitioned(a)'
  BY <1>3 DEF Partitioned
<1>7. Ordered(a) => Ordered(a)'
  BY <1>1, <1>3 DEF Ordered
<1>8. Counted(a) => Counted(a)'
  <2> SUFFICES ASSUME Counted(a) PROVE Counted(a)'
    OBVIOUS
  <2>1. inserted'[a] \ {g} = inserted[a] \ {g}
    BY <1>4
  <2>2. inserted'[a] \ LichessAtCall(a)' = inserted[a] \ LichessAtCall(a)
    BY <1>3, <1>5, <2>1
  <2>3. (LichessAtCall(a)' \subseteq inserted'[a]) <=> call'[a].pc \in {"none", "new"}
    <3>1. g \notin inserted[a]
      BY <1>2, <1>5 DEF Counted
    <3> QED  BY <1>2, <1>3, <1>4, <1>5, <3>1
  <2>4. inserted'[a] \subseteq Accounted(a)' \cup LichessAtCall(a)'
    BY <1>3, <1>4, <1>5 DEF Counted
  <2>5. Accounted(a)' \subseteq ever'
    BY <1>1, <1>3 DEF Counted
  <2> QED  BY <1>3, <2>2, <2>3, <2>4, <2>5 DEF Counted
<1>9. job[a].pc \in {"stream", "batch"}
  BY <1>2 DEF RunsOK, RunOK
<1>10. RunOK(a)'
  BY <1>6, <1>7, <1>8, <1>9 DEF RunsOK, RunOK
<1> QED  BY <1>1, <1>10, OnlyThisRun

\* The loop of ingest_pgn_all runs for uploads only here.
LEMMA BlobStepRun ==
  ASSUME TypesOK, RunsOK, NEW a \in Actors, job[a].pc = "batch",
         NextOfBlob(a) \/ RecordInReport(a),
         UNCHANGED <<job, stream, published, orderly>>
  PROVE  RunsOK'
<1> USE DEF TypesOK, BaseTypeOK, IngestTypeOK
<1>1. UNCHANGED <<ever, inserted>> /\ \A b \in Actors \ {a} : call'[b] = call[b]
  BY DEF NextOfBlob, RecordInReport, BeginIngest
<1>2. RunOK(a)'
  BY DEF RunsOK, RunOK
<1> QED  BY <1>1, <1>2, OnlyThisRun

-----------------------------------------------------------------------------
(***************************************************************************)
(* The steps of the service around the collector.                          *)
(***************************************************************************)

\* A request that ends leaves an idle one; a new one starts with nothing.
LEMMA ServiceRun ==
  ASSUME TypesOK, RunsOK, NEW a \in Actors,
         \/ FinishUpload(a) \/ WriteCursor(a) \/ LoseRequest(a)
         \/ \E full \in BOOLEAN : StartSync(a, full)
         \/ \E gs \in Uploads : StartUpload(a, gs),
         \A b \in Actors \ {a} : stream'[b] = stream[b],
         UNCHANGED <<published, orderly>>
  PROVE  RunsOK'
<1> USE DEF TypesOK, BaseTypeOK, IngestTypeOK, ServiceTypeOK
<1>1. CASE FinishUpload(a) \/ WriteCursor(a) \/ LoseRequest(a)
  <2>1. Forget(a) /\ UNCHANGED ever
    BY <1>1 DEF FinishUpload, WriteCursor, LoseRequest
  <2>2. RunOK(a)'
    BY <2>1 DEF Forget, NoJob, NoCall, RunOK
  <2>3. \A b \in Actors \ {a} : /\ job'[b] = job[b] /\ call'[b] = call[b]
                                /\ inserted'[b] = inserted[b]
    BY <2>1 DEF Forget
  <2> QED  BY <2>1, <2>2, <2>3, OnlyThisRun
<1>2. CASE \E full \in BOOLEAN : StartSync(a, full)
  <2>1. PICK full \in BOOLEAN : StartSync(a, full)  BY <1>2
  <2>2. /\ UNCHANGED <<ever, call, inserted>> /\ job[a].pc = "idle"
        /\ \E c : job' = [job EXCEPT ![a] = [NoJob EXCEPT !.pc = "fetch", !.cursor = c]]
    BY <2>1 DEF StartSync, ingestVars
  <2>3. RunOK(a)'
    BY <2>2 DEF NoJob, RunsOK, RunOK
  <2>4. \A b \in Actors \ {a} : job'[b] = job[b]
    BY <2>2
  <2> QED  BY <2>2, <2>3, <2>4, OnlyThisRun
<1>3. CASE \E gs \in Uploads : StartUpload(a, gs)
  <2>1. /\ UNCHANGED <<ever, call, inserted>> /\ job[a].pc = "idle"
        /\ job' = [job EXCEPT ![a] = [NoJob EXCEPT !.pc = "batch", !.kind = "upload"]]
    BY <1>3 DEF StartUpload
  <2>2. RunOK(a)'
    BY <2>1 DEF NoJob, RunsOK, RunOK
  <2> QED  BY <2>1, <2>2, OnlyThisRun
<1> QED  BY <1>1, <1>2, <1>3

\* The find of cursor::save changes nothing a run has counted.
LEMMA FindRun ==
  ASSUME TypesOK, RunsOK, NEW a \in Actors, FindCursor(a), UNCHANGED <<lichess, stream>>
  PROVE  RunsOK'
<1> USE DEF TypesOK, BaseTypeOK, ServiceTypeOK
<1>1. /\ UNCHANGED <<ever, call, inserted, published, orderly, stream>> /\ job[a].pc = "find"
      /\ job' = [job EXCEPT ![a].pc = "write", ![a].seen = cursorRow.present]
  BY DEF FindCursor, ingestVars, lichess
<1>2. /\ job'[a].pc = "write" /\ job'[a].imported = job[a].imported
      /\ job'[a].duplicates = job[a].duplicates /\ job'[a].failed = job[a].failed
      /\ \A b \in Actors \ {a} : job'[b] = job[b]
  BY <1>1
<1>3. RunOK(a)'
  BY <1>1, <1>2 DEF RunsOK, RunOK, Returning
<1> QED  BY <1>1, <1>2, <1>3, OnlyThisRun

\* Neither starting, ending nor saving makes an unsafe cursor.
LEMMA ServiceCursors ==
  ASSUME LichessAssumption, TypesOK, LichessCursorsSafe, NEW a \in Actors,
         \/ FinishUpload(a) \/ FindCursor(a) \/ WriteCursor(a) \/ LoseRequest(a)
         \/ \E full \in BOOLEAN : StartSync(a, full)
         \/ \E gs \in Uploads : StartUpload(a, gs),
         UNCHANGED <<published, orderly>>
  PROVE  LichessCursorsSafe'
<1> USE DEF TypesOK, BaseTypeOK, ServiceTypeOK
<1>1. UNCHANGED ever
  BY DEF FinishUpload, FindCursor, WriteCursor, LoseRequest, StartSync, StartUpload, ingestVars
<1>2. cursorRow'.at \in {cursorRow.at, job[a].cursor}
  <2>1. CASE WriteCursor(a)
    BY <2>1 DEF WriteCursor
  <2>2. CASE ~WriteCursor(a)
    BY <2>2 DEF FinishUpload, FindCursor, LoseRequest, StartSync, StartUpload
  <2> QED  BY <2>1, <2>2
<1>3. \A b \in Actors : job'[b].cursor \in {0, cursorRow.at, job[b].cursor}
  <2>1. CASE FinishUpload(a) \/ WriteCursor(a) \/ LoseRequest(a)
    BY <2>1 DEF FinishUpload, WriteCursor, LoseRequest, Forget, NoJob
  <2>2. CASE FindCursor(a)
    BY <2>2 DEF FindCursor
  <2>3. CASE \E full \in BOOLEAN : StartSync(a, full)
    <3>1. PICK full \in BOOLEAN : StartSync(a, full)  BY <2>3
    <3>2. PICK c \in {0, cursorRow.at} :
            job' = [job EXCEPT ![a] = [NoJob EXCEPT !.pc = "fetch", !.cursor = c]]
      BY <3>1 DEF StartSync
    <3> QED  BY <3>2 DEF NoJob
  <2>4. CASE \E gs \in Uploads : StartUpload(a, gs)
    BY <2>4 DEF StartUpload, NoJob
  <2> QED  BY <2>1, <2>2, <2>3, <2>4
<1> QED  BY <1>1, <1>2, <1>3, SafeFromSafe

-----------------------------------------------------------------------------
(***************************************************************************)
(* The steps of the collector.                                             *)
(***************************************************************************)

\* A collector that returns hands on its counts: whatever it failed with, no
\* game it stored is left uncounted, and without a failure no game waits.
LEMMA ReturnRun ==
  ASSUME TypesOK, RunsOK, NEW a \in Actors, NEW failed \in BOOLEAN,
         EndCollector(a, failed),
         \/ job[a].pc = "fetch" /\ failed
         \/ job[a].pc = "stream" /\ call[a].pc \in {"none", "bad", "db"} /\ failed
         \/ job[a].pc = "stream" /\ Waiting(a) = {},
         \A b \in Actors \ {a} : stream'[b] = stream[b],
         ~failed => UNCHANGED stream,
         UNCHANGED <<published, orderly>>
  PROVE  RunsOK'
<1> USE DEF TypesOK, BaseTypeOK, IngestTypeOK, ServiceTypeOK
<1>1. /\ UNCHANGED <<ever, inserted>> /\ call'[a].pc = "none"
      /\ job'[a].pc = "find" /\ job'[a].failed = failed
      /\ job'[a].imported = job[a].imported /\ job'[a].duplicates = job[a].duplicates
      /\ \A b \in Actors \ {a} : job'[b] = job[b] /\ call'[b] = call[b]
  BY DEF EndCollector, Returned, NoCall
<1>2. job[a].imported = Cardinality(inserted[a])
  <2>1. CASE job[a].pc = "fetch"
    <3>1. Cardinality({}) = 0  BY FS_EmptySet
    <3> QED  BY <2>1, <3>1 DEF RunsOK, RunOK
  <2>2. CASE job[a].pc = "stream"
    <3>1. Counted(a)  BY <2>2 DEF RunsOK, RunOK
    <3>2. LichessAtCall(a) = {} \/ call[a].pc \in {"bad", "db"}
      BY <2>2 DEF Waiting, LichessAtCall
    <3>3. inserted[a] \ LichessAtCall(a) = inserted[a]
      <4>1. CASE LichessAtCall(a) = {}  BY <4>1
      <4>2. CASE call[a].pc \in {"bad", "db"}
        BY <3>1, <4>2 DEF Counted, LichessAtCall
      <4> QED  BY <3>2, <4>1, <4>2
    <3> QED  BY <3>1, <3>3 DEF Counted
  <2> QED  BY <2>1, <2>2
<1>3. ASSUME ~failed
      PROVE  /\ stream[a].offered \subseteq ever
             /\ job[a].imported + job[a].duplicates = Cardinality(stream[a].offered)
  <2>1. Counted(a) /\ Waiting(a) = {}
    BY <1>3 DEF RunsOK, RunOK
  <2>2. Accounted(a) = stream[a].offered
    BY <2>1 DEF Accounted
  <2> QED  BY <2>1, <2>2 DEF Counted
<1>4. Returning(a)'
  BY <1>1, <1>2, <1>3 DEF Returning
<1>5. RunOK(a)'
  BY <1>1, <1>4 DEF RunOK
<1> QED  BY <1>1, <1>5, OnlyThisRun

\* Nor does it move a cursor.
LEMMA ReturnCursors ==
  ASSUME LichessAssumption, TypesOK, LichessCursorsSafe, NEW a \in Actors, NEW failed \in BOOLEAN,
         EndCollector(a, failed), UNCHANGED <<published, orderly>>
  PROVE  LichessCursorsSafe'
<1> USE DEF TypesOK, BaseTypeOK, ServiceTypeOK
<1>1. UNCHANGED <<ever, cursorRow>> /\ \A b \in Actors : job'[b].cursor = job[b].cursor
  BY DEF EndCollector, Returned
<1> QED  BY <1>1, SafeFromSafe

\* A response offers what the cursor's own second and later hold; what is
\* older is stored already, if the cursor is safe.
LEMMA RespondRun ==
  ASSUME LichessAssumption, TypesOK, RunsOK, LichessCursorsSafe, NEW a \in Actors, Respond(a)
  PROVE  RunsOK'
<1> USE DEF TypesOK, BaseTypeOK, IngestTypeOK, ServiceTypeOK, StreamTypeOK
<1> DEFINE games == ExportSince(job[a].cursor)
<1>1. /\ job[a].pc = "fetch" /\ job' = [job EXCEPT ![a].pc = "stream"]
      /\ stream' = [stream EXCEPT ![a] = [NoStream EXCEPT !.offered = games, !.todo = games]]
      /\ UNCHANGED <<ever, call, inserted, published, orderly>>
  BY DEF Respond, ingestVars, lichess
<1>2. games = {g \in published : Second[g] >= job[a].cursor}
  BY DEF ExportSince
<1>2a. \A g \in published : Second[g] \in Nat
  BY DEF LichessAssumption
<1> HIDE DEF games
<1>3. /\ stream'[a].offered = games /\ stream'[a].todo = games /\ stream'[a].tail = NoGame
      /\ job'[a].pc = "stream" /\ job'[a].imported = 0 /\ job'[a].duplicates = 0
      /\ inserted'[a] = {} /\ call'[a].pc = "none"
  BY <1>1 DEF NoStream, RunsOK, RunOK
<1>4. LichessAtCall(a)' = {} /\ Waiting(a)' = games /\ Accounted(a)' = {}
  BY <1>3 DEF LichessAtCall, Waiting, Accounted
<1>5. Partitioned(a)'
  <2>1. NoGame \notin games
    BY <1>2, GamesAssumption DEF GamesAssumption
  <2> QED  BY <1>1, <1>2, <1>3, <1>4, <2>1 DEF Partitioned
<1>6. Counted(a)'
  <2>1. Cardinality({}) = 0  BY FS_EmptySet
  <2> QED  BY <1>3, <1>4, <2>1 DEF Counted
<1>7. Ordered(a)'
  <2> SUFFICES ASSUME orderly, NEW h \in published \ Bad, h \notin ever
               PROVE  h \in games
    BY <1>1, <1>3, <1>4 DEF Ordered
  <2>1. ~(Second[h] < job[a].cursor)
    BY DEF LichessCursorsSafe, LichessCovers
  <2>2. Second[h] \in Nat /\ job[a].cursor \in Nat
    BY <1>2a
  <2> QED  BY <1>2, <2>1, <2>2
<1>8. RunOK(a)'
  BY <1>3, <1>5, <1>6, <1>7 DEF RunOK
<1> QED  BY <1>1, <1>8, OnlyThisRun

\* A game that moves on to its ingest call is not counted yet.
LEMMA MovedOnCounted ==
  ASSUME TypesOK, NEW a \in Actors, Counted(a), call[a].pc = "none",
         call'[a].pc = "none" \/ (call'[a].pc = "check" /\ call'[a].game \in Waiting(a)),
         Waiting(a)' = Waiting(a), stream'[a].offered = stream[a].offered,
         UNCHANGED <<ever, job, inserted>>
  PROVE  Counted(a)'
<1>1. Accounted(a)' = Accounted(a)
  BY DEF Accounted
<1>2. LichessAtCall(a) = {}
  BY DEF LichessAtCall
<1>3. inserted[a] \subseteq Accounted(a)
  BY <1>2 DEF Counted
<1>4. CASE call'[a].pc = "none"
  <2>1. LichessAtCall(a)' = {}  BY <1>4 DEF LichessAtCall
  <2> QED  BY <1>1, <1>2, <1>3, <1>4, <2>1 DEF Counted
<1>5. CASE call'[a].pc = "check" /\ call'[a].game \in Waiting(a)
  <2>1. LichessAtCall(a)' = {call'[a].game}  BY <1>5 DEF LichessAtCall
  <2>2. call'[a].game \notin inserted[a]
    BY <1>3, <1>5 DEF Accounted
  <2>3. inserted[a] \ LichessAtCall(a)' = inserted[a] \ LichessAtCall(a)
    BY <1>2, <2>1, <2>2
  <2> QED  BY <1>1, <1>3, <1>5, <2>1, <2>2, <2>3 DEF Counted
<1> QED  BY <1>4, <1>5

\* Between two calls, a game begins to arrive: it takes the buffer, and the
\* one before it, whole now, goes to its call.
LEMMA ChunkRun ==
  ASSUME LichessAssumption, TypesOK, RunsOK, NEW a \in Actors, Chunk(a)
  PROVE  RunsOK'
<1> USE DEF TypesOK, BaseTypeOK, IngestTypeOK, StreamTypeOK
<1> DEFINE s == stream[a]
<1>1. PICK g \in Arriving(s.todo) :
        stream' = [stream EXCEPT ![a].todo = @ \ {g}, ![a].tail = g,
                                 ![a].whole = @ \cup ({stream[a].tail} \ {NoGame})]
  BY DEF Chunk
<1>2. /\ UNCHANGED <<ever, inserted, job, published, orderly>>
      /\ job[a].pc = "stream" /\ call[a].pc = "none"
      /\ g \in s.todo /\ (orderly => \A h \in s.todo : Second[g] <= Second[h])
  BY DEF Chunk, Polling, serviceVars, lichess, Arriving
<1>3. Partitioned(a) /\ Counted(a) /\ Ordered(a) /\ LichessAtCall(a) = {}
  BY <1>2 DEF RunsOK, RunOK, LichessAtCall
<1>4. /\ stream'[a].offered = s.offered /\ stream'[a].todo = s.todo \ {g} /\ stream'[a].tail = g
      /\ \A b \in Actors \ {a} : stream'[b] = stream[b]
  BY <1>1
<1>5. g # NoGame
  BY <1>2, GamesAssumption DEF GamesAssumption
<1>6. /\ \A b \in Actors \ {a} : call'[b] = call[b]
      /\ \/ s.tail = NoGame /\ call'[a].pc = "none"
         \/ s.tail # NoGame /\ call'[a].pc = "check" /\ call'[a].game = s.tail
  BY <1>2 DEF Chunk, BeginIngest
<1>7. LichessAtCall(a)' = {s.tail} \ {NoGame}
  BY <1>6 DEF LichessAtCall
<1>8. Waiting(a)' = Waiting(a)
  BY <1>2, <1>3, <1>4, <1>5, <1>7 DEF Waiting
<1>9. Partitioned(a)'
  BY <1>2, <1>3, <1>4, <1>5, <1>7 DEF Partitioned
<1>10. Counted(a)'
  <2>1. s.tail # NoGame => s.tail \in Waiting(a)
    BY DEF Waiting
  <2> QED  BY <1>2, <1>3, <1>4, <1>6, <1>8, <2>1, MovedOnCounted
<1>11. Ordered(a)'
  <2> SUFFICES ASSUME orderly PROVE Ordered(a)'
    BY <1>2 DEF Ordered
  <2>1. \A h \in published \ Bad :
          h \in ever \/ h \in Waiting(a) \/ \A x \in s.offered : Second[x] <= Second[h]
    BY <1>3 DEF Ordered
  <2>2. \A x \in LichessAtCall(a)' : \A h \in (s.todo \ {g}) \cup ({g} \ {NoGame}) : Second[x] <= Second[h]
    BY <1>2, <1>3, <1>7 DEF Ordered
  <2>3. \A h \in s.todo \ {g} : Second[g] <= Second[h]
    BY <1>2
  <2> QED  BY <1>2, <1>4, <1>8, <2>1, <2>2, <2>3 DEF Ordered
<1>12. RunOK(a)'
  BY <1>2, <1>9, <1>10, <1>11 DEF RunOK
<1> QED  BY <1>2, <1>4, <1>6, <1>12, OnlyThisRun

\* At the end of the stream the buffer's game is whole too.
LEMMA FlushRun ==
  ASSUME LichessAssumption, TypesOK, RunsOK, NEW a \in Actors, FlushTail(a)
  PROVE  RunsOK'
<1> USE DEF TypesOK, BaseTypeOK, IngestTypeOK, StreamTypeOK
<1> DEFINE s == stream[a]
<1>1. /\ UNCHANGED <<ever, inserted, job, published, orderly>>
      /\ job[a].pc = "stream" /\ call[a].pc = "none"
      /\ s.todo = {} /\ s.tail # NoGame
      /\ stream' = [stream EXCEPT ![a].tail = NoGame, ![a].whole = @ \cup {s.tail}]
      /\ call' = [call EXCEPT ![a] = [pc |-> "check", game |-> s.tail]]
  BY DEF FlushTail, Polling, BeginIngest, serviceVars, lichess
<1>2. Partitioned(a) /\ Counted(a) /\ Ordered(a) /\ LichessAtCall(a) = {}
  BY <1>1 DEF RunsOK, RunOK, LichessAtCall
<1>3. /\ stream'[a].offered = s.offered /\ stream'[a].todo = {} /\ stream'[a].tail = NoGame
      /\ call'[a].pc = "check" /\ call'[a].game = s.tail
      /\ \A b \in Actors \ {a} : stream'[b] = stream[b] /\ call'[b] = call[b]
  BY <1>1
<1>4. LichessAtCall(a)' = {s.tail}
  BY <1>3 DEF LichessAtCall
<1>5. Waiting(a) = {s.tail} /\ Waiting(a)' = {s.tail}
  BY <1>1, <1>2, <1>3, <1>4 DEF Waiting
<1>6. Partitioned(a)'
  BY <1>1, <1>2, <1>3, <1>4 DEF Partitioned
<1>7. Counted(a)'
  BY <1>1, <1>2, <1>3, <1>5, MovedOnCounted
<1>8. Ordered(a)'
  BY <1>1, <1>2, <1>3, <1>4, <1>5 DEF Ordered
<1>9. RunOK(a)'
  BY <1>1, <1>6, <1>7, <1>8 DEF RunOK
<1> QED  BY <1>1, <1>3, <1>9, OnlyThisRun

\* A call that returned is counted by its result, once, and gives its game up.
LEMMA AccountRun ==
  ASSUME LichessAssumption, TypesOK, StorageOK, RunsOK, NEW a \in Actors, Account(a)
  PROVE  RunsOK'
<1> USE DEF TypesOK, BaseTypeOK, IngestTypeOK, ServiceTypeOK, StreamTypeOK
<1> DEFINE g == call[a].game
           c == Advance(job[a].cursor, GameSecond(g))
           i == IF call[a].pc = "new" THEN job[a].imported + 1 ELSE job[a].imported
           d == IF call[a].pc = "dup" THEN job[a].duplicates + 1 ELSE job[a].duplicates
<1>1. /\ UNCHANGED <<ever, inserted, stream, published, orderly>>
      /\ job[a].pc = "stream" /\ call[a].pc \in {"new", "dup"}
      /\ call' = [call EXCEPT ![a] = NoCall]
  BY DEF Account, lichess
<1>2. /\ job'[a].imported = i /\ job'[a].duplicates = d /\ job'[a].pc = "stream"
      /\ \A b \in Actors \ {a} : job'[b] = job[b] /\ call'[b] = call[b]
  BY <1>1 DEF Account
<1>3. Partitioned(a) /\ Counted(a) /\ Ordered(a) /\ LichessAtCall(a) = {g} /\ LichessAtCall(a)' = {}
      /\ call'[a].pc = "none"
  BY <1>1 DEF RunsOK, RunOK, LichessAtCall, NoCall
<1>4. g \in ever /\ g \in stream[a].offered \ (stream[a].todo \cup {stream[a].tail})
  BY <1>1, <1>3 DEF StorageOK, Partitioned
<1>5. Waiting(a)' = Waiting(a) \ {g} /\ Accounted(a)' = Accounted(a) \cup {g}
      /\ g \notin Accounted(a) /\ g \in Waiting(a)
  BY <1>1, <1>3, <1>4 DEF Waiting, Accounted
<1>6. Partitioned(a)'
  BY <1>1, <1>3 DEF Partitioned
<1>7. Counted(a)'
  <2>1. /\ IsFiniteSet(Accounted(a)) /\ IsFiniteSet(inserted[a])
        /\ IsFiniteSet(inserted[a] \ LichessAtCall(a))
    BY FiniteGames, GamesAssumption DEF Accounted
  <2>2. Cardinality(Accounted(a)') = Cardinality(Accounted(a)) + 1
    BY <1>5, <2>1, FS_AddElement
  <2>3. job[a].imported \in Nat /\ job[a].duplicates \in Nat
    OBVIOUS
  <2>4. i + d = job[a].imported + job[a].duplicates + 1
    <3>1. CASE call[a].pc = "new"
      BY <2>3, <3>1
    <3>2. CASE call[a].pc = "dup"
      BY <2>3, <3>2
    <3> QED  BY <1>1, <3>1, <3>2
  <2>5. job'[a].imported + job'[a].duplicates = Cardinality(Accounted(a)')
    BY <1>2, <1>3, <2>2, <2>4 DEF Counted
  <2>6. job'[a].imported = Cardinality(inserted[a])
    <3>1. CASE call[a].pc = "new"
      <4>1. g \in inserted[a]
        BY <1>3, <3>1 DEF Counted
      <4>2. inserted[a] = (inserted[a] \ {g}) \cup {g} /\ g \notin inserted[a] \ {g}
        BY <4>1
      <4>3. Cardinality(inserted[a]) = Cardinality(inserted[a] \ {g}) + 1
        BY <1>3, <2>1, <4>2, FS_AddElement
      <4> QED  BY <1>2, <1>3, <3>1, <4>3 DEF Counted
    <3>2. CASE call[a].pc = "dup"
      <4>1. g \notin inserted[a]
        BY <1>3, <3>2 DEF Counted
      <4>2. inserted[a] \ LichessAtCall(a) = inserted[a]
        BY <1>3, <4>1
      <4> QED  BY <1>2, <1>3, <3>2, <4>2 DEF Counted
    <3> QED  BY <1>1, <3>1, <3>2
  <2>7. inserted[a] \ LichessAtCall(a)' = inserted[a]
    BY <1>3
  <2>8. inserted[a] \subseteq Accounted(a)' /\ Accounted(a)' \subseteq ever
    BY <1>3, <1>4, <1>5 DEF Counted
  <2>9. LichessAtCall(a)' \subseteq inserted[a]
    BY <1>3
  <2> QED  BY <1>1, <1>3, <2>5, <2>6, <2>7, <2>8, <2>9 DEF Counted
<1>8. Ordered(a)'
  BY <1>1, <1>3, <1>4, <1>5 DEF Ordered
<1>9. RunOK(a)'
  BY <1>1, <1>2, <1>3, <1>6, <1>7, <1>8 DEF RunOK
<1> QED  BY <1>1, <1>2, <1>9, OnlyThisRun

\* The cursor may follow a game that was stored or found: over an orderly
\* export every older acceptable game was in the response before it.
LEMMA AccountCursors ==
  ASSUME LichessAssumption, TypesOK, StorageOK, RunsOK, LichessCursorsSafe, NEW a \in Actors, Account(a)
  PROVE  LichessCursorsSafe'
<1> USE DEF TypesOK, BaseTypeOK, IngestTypeOK, ServiceTypeOK, StreamTypeOK
<1> DEFINE g == call[a].game
<1>1. /\ UNCHANGED <<ever, cursorRow, published, orderly>>
      /\ job[a].pc = "stream" /\ call[a].pc \in {"new", "dup"}
      /\ job'[a].cursor = Advance(job[a].cursor, GameSecond(g))
      /\ \A b \in Actors \ {a} : job'[b].cursor = job[b].cursor
  BY DEF Account, lichess
<1>2. Partitioned(a) /\ Ordered(a) /\ LichessAtCall(a) = {g} /\ g \in published /\ g \in stream[a].offered
  BY <1>1 DEF RunsOK, RunOK, LichessAtCall, Partitioned
<1>3. g \in ever
  BY <1>1 DEF StorageOK
<1>4. \A h \in published : Second[h] \in Nat
  BY DEF LichessAssumption
<1>5. orderly => \A h \in published \ Bad : Second[h] < Second[g] => h \in ever
  <2> SUFFICES ASSUME orderly, NEW h \in published \ Bad, Second[h] < Second[g], h \notin ever
               PROVE  FALSE
    OBVIOUS
  <2>1. ~(Second[g] <= Second[h])
    BY <1>2, <1>4
  <2>2. h \in Waiting(a)
    BY <1>2, <2>1 DEF Ordered
  <2>3. h \in stream[a].todo \cup ({stream[a].tail} \ {NoGame})
    BY <1>2, <1>3, <2>2 DEF Waiting
  <2> QED  BY <1>2, <2>1, <2>3 DEF Ordered
<1>6. \/ job'[a].cursor = job[a].cursor
      \/ job'[a].cursor = Second[g]
  <2>1. GameSecond(g) \in {0, Second[g]} /\ job[a].cursor \in Nat
    BY DEF GameSecond
  <2> QED  BY <1>1, <2>1 DEF Advance
<1>7. ASSUME NEW b \in Actors PROVE LichessCovers(job[b].cursor)' /\ LichessOpened(job[b].cursor)'
  <2>1. CASE job'[b].cursor = job[b].cursor
    BY <1>1, <2>1 DEF LichessCursorsSafe, LichessCovers, LichessOpened
  <2>2. CASE job'[b].cursor = Second[g]
    BY <1>1, <1>2, <1>4, <1>5, <2>2 DEF LichessCovers, LichessOpened
  <2> QED  BY <1>1, <1>6, <2>1, <2>2
<1>8. LichessCovers(cursorRow.at)' /\ LichessOpened(cursorRow.at)'
  BY <1>1 DEF LichessCursorsSafe, LichessCovers, LichessOpened
<1> QED  BY <1>7, <1>8 DEF LichessCursorsSafe

\* An orderly Lichess publishes games that are as new as any before; another
\* one promises nothing and nothing is claimed of its cursors.
LEMMA PublishRun ==
  ASSUME LichessAssumption, TypesOK, RunsOK, LichessCursorsSafe, NEW g \in Games, LichessPublish(g)
  PROVE  RunsOK' /\ LichessCursorsSafe'
<1> USE DEF TypesOK, BaseTypeOK, IngestTypeOK, ServiceTypeOK, StreamTypeOK
<1>1. /\ UNCHANGED <<ever, call, inserted, cursorRow, job, orderly, stream>>
      /\ published' = published \cup {g}
      /\ orderly => \A h \in published : Second[h] <= Second[g]
  BY DEF LichessPublish, ingestVars, serviceVars
<1>2. Second[g] \in Nat /\ \A h \in published : Second[h] \in Nat
  BY DEF LichessAssumption
<1>3. ASSUME NEW a \in Actors PROVE RunOK(a)'
  <2>1. UNCHANGED <<LichessAtCall(a), Waiting(a), Accounted(a)>>
    BY <1>1 DEF LichessAtCall, Waiting, Accounted
  <2>2. Partitioned(a) => Partitioned(a)'
    BY <1>1, <2>1 DEF Partitioned
  <2>3. Counted(a) => Counted(a)'
    BY <1>1, <2>1 DEF Counted
  <2>4. Partitioned(a) /\ Ordered(a) => Ordered(a)'
    <3> SUFFICES ASSUME Partitioned(a), Ordered(a), orderly PROVE Ordered(a)'
      BY <1>1 DEF Ordered
    <3>1. \A x \in stream[a].offered : Second[x] <= Second[g]
      BY <1>1 DEF Partitioned
    <3> QED  BY <1>1, <2>1, <3>1 DEF Ordered
  <2>5. Returning(a) => Returning(a)'
    BY <1>1 DEF Returning
  <2> QED  BY <1>1, <2>2, <2>3, <2>4, <2>5 DEF RunsOK, RunOK
<1>4. ASSUME NEW c \in Nat, LichessCovers(c), LichessOpened(c)
      PROVE  /\ orderly' => \A h \in published' \ Bad : Second[h] < c => h \in ever'
             /\ c = 0 \/ \E h \in published' : Second[h] >= c
  BY <1>1, <1>2, <1>4 DEF LichessCovers, LichessOpened
<1>5. LichessCursorsSafe'
  <2>1. cursorRow.at \in Nat /\ \A a \in Actors : job[a].cursor \in Nat
    OBVIOUS
  <2> QED  BY <1>1, <1>4, <2>1 DEF LichessCursorsSafe, LichessCovers, LichessOpened
<1> QED  BY <1>3, <1>5 DEF RunsOK

\* Deleting a stored game forgets nothing that was counted.
LEMMA RemoveRun ==
  ASSUME RunsOK, LichessCursorsSafe, NEW g \in Games, LichessRemove(g)
  PROVE  RunsOK' /\ LichessCursorsSafe'
<1>1. UNCHANGED <<ever, call, inserted, cursorRow, job, published, orderly, stream>>
  BY DEF LichessRemove, RemoveGame, DeleteGame, serviceVars, lichess
<1>2. RunsOK'
  BY <1>1, Untouched DEF RunsOK
<1>3. LichessCursorsSafe'
  BY <1>1 DEF LichessCursorsSafe, LichessCovers, LichessOpened
<1> QED  BY <1>2, <1>3

-----------------------------------------------------------------------------
(***************************************************************************)
(* Types.                                                                  *)
(***************************************************************************)

\* The reader of a response keeps its type whatever its next fields are.
LEMMA StreamStepType ==
  ASSUME LichessAssumption, StreamTypeOK, NEW a \in Actors, NEW s \in StreamRec,
         stream' = [stream EXCEPT ![a] = s], UNCHANGED lichess
  PROVE  StreamTypeOK'
BY DEF StreamTypeOK, StreamRec, lichess

LEMMA NoStreamType == ASSUME LichessAssumption PROVE NoStream \in StreamRec
<1>1. 0 \in 0 .. LichessRetries  BY DEF LichessAssumption
<1> QED  BY <1>1 DEF NoStream, StreamRec

\* The collector's steps within a response keep every type, and none of them
\* touches the table.
LEMMA CollectTypes ==
  ASSUME LichessAssumption, TypesOK, StorageOK, NEW a \in Actors,
         Respond(a) \/ Chunk(a) \/ FlushTail(a) \/ Account(a)
  PROVE  TypesOK' /\ StorageOK'
<1> USE DEF TypesOK, BaseTypeOK
<1>0. stream[a] \in StreamRec
  BY DEF StreamTypeOK, StreamRec
<1>1. CASE Respond(a)
  <2> DEFINE games == ExportSince(job[a].cursor)
  <2>1. games \in SUBSET Games
    BY DEF ExportSince, StreamTypeOK
  <2>2. stream' = [stream EXCEPT ![a] = [NoStream EXCEPT !.offered = games, !.todo = games]]
    BY <1>1 DEF Respond
  <2> HIDE DEF games
  <2>3. [NoStream EXCEPT !.offered = games, !.todo = games] \in StreamRec
    BY <2>1, NoStreamType DEF StreamRec
  <2>4. StreamTypeOK'
    BY <1>1, <2>2, <2>3, StreamStepType DEF Respond
  <2>5. IngestTypeOK' /\ StorageOK'
    BY <1>1 DEF Respond, ingestVars, IngestTypeOK, StorageOK, NoDuplicateRows
  <2>6. ServiceTypeOK'
    <3>1. job' = [job EXCEPT ![a].pc = "stream"] /\ UNCHANGED <<cursorRow, faults>>
      BY <1>1 DEF Respond
    <3> QED  BY <3>1, SMTT(30) DEF ServiceTypeOK, JobPC
  <2> QED  BY <2>4, <2>5, <2>6
<1>2. CASE Chunk(a)
  <2> DEFINE w == stream[a].whole \cup ({stream[a].tail} \ {NoGame})
  <2>1. PICK g \in Arriving(stream[a].todo) :
          stream' = [stream EXCEPT ![a].todo = @ \ {g}, ![a].tail = g, ![a].whole = w]
    BY <1>2 DEF Chunk
  <2>2. g \in Games
    BY DEF Arriving, StreamTypeOK
  <2>3. [stream[a] EXCEPT !.todo = @ \ {g}, !.tail = g, !.whole = w] \in StreamRec
    BY <1>0, <2>2 DEF StreamRec
  <2>4. stream' = [stream EXCEPT ![a] = [stream[a] EXCEPT !.todo = @ \ {g}, !.tail = g, !.whole = w]]
    BY <2>1
  <2>5. StreamTypeOK'
    BY <1>2, <2>3, <2>4, StreamStepType DEF Chunk
  <2>6. ServiceTypeOK' /\ UNCHANGED <<rows, ever, report, inserted>>
    BY <1>2 DEF Chunk, serviceVars, ServiceTypeOK
  <2>7. IngestTypeOK' /\ StorageOK'
    <3>1. CASE UNCHANGED call
      BY <2>6, <3>1 DEF IngestTypeOK, StorageOK, NoDuplicateRows
    <3>2. CASE stream[a].tail # NoGame /\ BeginIngest(a, stream[a].tail)
      <4>1. stream[a].tail \in Games
        BY <3>2 DEF StreamTypeOK
      <4>2. (call \in [Actors -> [pc : CallPC, game : Games \cup {NoGame}]])'
        BY <3>2, <4>1, BeginIngestType
      <4>3. StorageOK'
        BY <2>6, <3>2, <4>1 DEF BeginIngest, IngestTypeOK, StorageOK, NoDuplicateRows
      <4> QED  BY <2>6, <4>2, <4>3 DEF IngestTypeOK
    <3> QED  BY <1>2, <3>1, <3>2 DEF Chunk
  <2> QED  BY <2>5, <2>6, <2>7
<1>3. CASE FlushTail(a)
  <2>1. stream[a].tail \in Games /\ BeginIngest(a, stream[a].tail)
    BY <1>3 DEF FlushTail, StreamTypeOK
  <2> DEFINE w == stream[a].whole \cup {stream[a].tail}
  <2>2. [stream[a] EXCEPT !.tail = NoGame, !.whole = w] \in StreamRec
    BY <1>0, <2>1 DEF StreamRec
  <2>3. stream' = [stream EXCEPT ![a] = [stream[a] EXCEPT !.tail = NoGame, !.whole = w]]
    BY <1>3 DEF FlushTail
  <2>4. StreamTypeOK'
    BY <1>3, <2>2, <2>3, StreamStepType DEF FlushTail
  <2>5. ServiceTypeOK' /\ UNCHANGED <<rows, ever, report, inserted>>
    BY <1>3 DEF FlushTail, serviceVars, ServiceTypeOK
  <2>6. (call \in [Actors -> [pc : CallPC, game : Games \cup {NoGame}]])'
    BY <2>1, BeginIngestType
  <2>7. StorageOK'
    BY <2>1, <2>5 DEF BeginIngest, IngestTypeOK, StorageOK, NoDuplicateRows
  <2> QED  BY <2>4, <2>5, <2>6, <2>7 DEF IngestTypeOK
<1>4. CASE Account(a)
  <2> DEFINE c == Advance(job[a].cursor, GameSecond(call[a].game))
             i == IF call[a].pc = "new" THEN job[a].imported + 1 ELSE job[a].imported
             d == IF call[a].pc = "dup" THEN job[a].duplicates + 1 ELSE job[a].duplicates
  <2>1. call[a].game \in Games /\ job[a] \in Jobs
    BY <1>4 DEF Account, StorageOK, ServiceTypeOK, Jobs
  <2>2. c \in Nat /\ i \in Nat /\ d \in Nat
    BY <2>1 DEF Advance, GameSecond, LichessAssumption, Jobs
  <2>3. job' = [job EXCEPT ![a] = [job[a] EXCEPT !.cursor = c, !.imported = i, !.duplicates = d]]
    BY <1>4 DEF Account
  <2> HIDE DEF c, i, d
  <2>4. [job[a] EXCEPT !.cursor = c, !.imported = i, !.duplicates = d] \in Jobs
    BY <2>1, <2>2 DEF Jobs
  <2>5. ServiceTypeOK'
    BY <1>4, <2>3, <2>4 DEF Account, ServiceTypeOK, Jobs
  <2>6. StreamTypeOK'
    BY <1>4 DEF Account, lichess, StreamTypeOK
  <2>7. call' = [call EXCEPT ![a] = NoCall] /\ UNCHANGED <<rows, ever, report, inserted>>
    BY <1>4 DEF Account
  <2>8. IngestTypeOK'
    BY <2>7 DEF IngestTypeOK, NoCall, CallPC
  <2>9. StorageOK'
    BY <2>7, EndedCallStorage
  <2> QED  BY <2>5, <2>6, <2>8, <2>9
<1> QED  BY <1>1, <1>2, <1>3, <1>4

-----------------------------------------------------------------------------

\* The inductive invariant holds initially ...
LEMMA LichessInitIInv == LichessInit => LichessIInv
<1> SUFFICES ASSUME LichessInit PROVE LichessIInv
  OBVIOUS
<1> USE GamesAssumption, ServiceAssumption, LichessAssumption
<1>1. BaseTypeOK /\ StorageOK
  BY BaseInit DEF LichessInit
<1>2. StreamTypeOK
  BY NoStreamType DEF LichessInit, StreamTypeOK, StreamRec
<1>3. RunsOK
  BY DEF LichessInit, IngestInit, ServiceInit, NoJob, NoCall, RunsOK, RunOK
<1>4. LichessCursorsSafe
  BY DEF LichessInit, ServiceInit, NoJob, LichessCursorsSafe, LichessCovers, LichessOpened
<1> QED  BY <1>1, <1>2, <1>3, <1>4 DEF LichessIInv, TypesOK

\* ... and every step keeps it.
LEMMA LichessNextIInv == LichessIInv /\ [LichessNext]_lichessVars => LichessIInv'
<1> SUFFICES ASSUME LichessIInv, [LichessNext]_lichessVars PROVE LichessIInv'
  OBVIOUS
<1> USE GamesAssumption, ServiceAssumption, LichessAssumption
<1> USE DEF LichessIInv
<1>0. ASSUME NEW a \in Actors, UNCHANGED lichess,
             stream' \in {stream, [stream EXCEPT ![a] = NoStream]}
      PROVE  StreamTypeOK'
  <2>1. CASE UNCHANGED stream
    BY <1>0, <2>1 DEF TypesOK, StreamTypeOK, lichess
  <2>2. CASE stream' = [stream EXCEPT ![a] = NoStream]
    BY <1>0, <2>2, NoStreamType, StreamStepType DEF TypesOK
  <2> QED  BY <1>0, <2>1, <2>2
<1>1. ASSUME NEW a \in Actors, IngestStep(a) \/ IngestFault(a), UNCHANGED <<lichess, stream>>
      PROVE  LichessIInv'
  <2>1. UNCHANGED <<cursorRow, job, published, orderly>>
    BY <1>1 DEF IngestStep, IngestFault, serviceVars, lichess
  <2>2. BaseTypeOK' /\ StorageOK'
    BY <1>1, ServiceStep DEF TypesOK
  <2>3. ever \subseteq ever'
    BY <1>1 DEF IngestStep, IngestFault, IngestDbError, CheckGame, StoreGame, StoreConflict,
                NextOfBlob, RecordInReport
  <2>4. LichessCursorsSafe'
    BY <2>1, <2>3, SafeFromSafe
  <2>5. RunsOK'
    <3>1. CASE job[a].pc = "batch" /\ (NextOfBlob(a) \/ RecordInReport(a))
      BY <1>1, <2>1, <3>1, BlobStepRun
    <3>2. CASE CheckGame(a) \/ StoreGame(a) \/ StoreConflict(a) \/ IngestDbError(a)
      BY <1>1, <2>1, <3>2, CallStepRun
    <3> QED  BY <1>1, <3>1, <3>2 DEF IngestStep, IngestFault
  <2>6. StreamTypeOK'  BY <1>0, <1>1
  <2> QED  BY <2>2, <2>4, <2>5, <2>6 DEF TypesOK
<1>2. ASSUME NEW a \in Actors,
             \/ FinishUpload(a) \/ WriteCursor(a) \/ LoseRequest(a)
             \/ \E full \in BOOLEAN : StartSync(a, full)
             \/ \E gs \in Uploads : StartUpload(a, gs),
             UNCHANGED lichess, stream' \in {stream, [stream EXCEPT ![a] = NoStream]}
      PROVE  LichessIInv'
  <2>1. UNCHANGED <<published, orderly>> /\ \A b \in Actors \ {a} : stream'[b] = stream[b]
    BY <1>2 DEF lichess, TypesOK, StreamTypeOK
  <2>2. BaseTypeOK' /\ StorageOK'
    BY <1>2, ServiceStep DEF TypesOK
  <2>3. RunsOK'  BY <1>2, <2>1, ServiceRun
  <2>4. LichessCursorsSafe'  BY <1>2, <2>1, ServiceCursors
  <2>5. StreamTypeOK'  BY <1>0, <1>2
  <2> QED  BY <2>2, <2>3, <2>4, <2>5 DEF TypesOK
<1>3. ASSUME NEW a \in Actors, FindCursor(a), UNCHANGED <<lichess, stream>> PROVE LichessIInv'
  <2>1. BaseTypeOK' /\ StorageOK'
    BY <1>3, ServiceStep DEF TypesOK
  <2>2. RunsOK'  BY <1>3, FindRun
  <2>3. LichessCursorsSafe'  BY <1>3, ServiceCursors DEF lichess
  <2>4. StreamTypeOK'  BY <1>0, <1>3
  <2> QED  BY <2>1, <2>2, <2>3, <2>4 DEF TypesOK
<1>4. ASSUME NEW a \in Actors, NEW failed \in BOOLEAN, EndCollector(a, failed),
             \/ job[a].pc = "fetch" /\ failed
             \/ job[a].pc = "stream" /\ call[a].pc \in {"none", "bad", "db"} /\ failed
             \/ job[a].pc = "stream" /\ Waiting(a) = {},
             faults' \in 0 .. MaxFaults, UNCHANGED lichess,
             stream' \in {stream, [stream EXCEPT ![a] = NoStream]},
             ~failed => UNCHANGED stream
      PROVE  LichessIInv'
  <2>1. UNCHANGED <<published, orderly>> /\ \A b \in Actors \ {a} : stream'[b] = stream[b]
    BY <1>4 DEF lichess, TypesOK, StreamTypeOK
  <2>2. BaseTypeOK' /\ StorageOK'
    BY <1>4, EndCollectorStep DEF TypesOK
  <2>3. RunsOK'  BY <1>4, <2>1, ReturnRun
  <2>4. LichessCursorsSafe'  BY <1>4, <2>1, ReturnCursors
  <2>5. StreamTypeOK'  BY <1>0, <1>4
  <2> QED  BY <2>2, <2>3, <2>4, <2>5 DEF TypesOK
<1>5. ASSUME Fault PROVE faults' \in 0 .. MaxFaults
  BY <1>5 DEF Fault, TypesOK, BaseTypeOK, ServiceTypeOK, ServiceAssumption
<1>6. faults \in 0 .. MaxFaults
  BY DEF TypesOK, BaseTypeOK, ServiceTypeOK
<1>7. ASSUME NEW a \in Actors, LichessCollect(a) PROVE LichessIInv'
  <2>1. CASE Respond(a)
    <3>1. UNCHANGED <<ever, cursorRow, published, orderly>>
          /\ \A b \in Actors : job'[b].cursor = job[b].cursor
      BY <2>1 DEF Respond, ingestVars, lichess, TypesOK, BaseTypeOK, ServiceTypeOK
    <3>2. LichessCursorsSafe'  BY <3>1, SafeFromSafe
    <3> QED  BY <2>1, <3>2, RespondRun, CollectTypes
  <2>2. CASE Chunk(a) \/ FlushTail(a)
    <3>1. UNCHANGED <<ever, cursorRow, job, published, orderly>>
      BY <2>2 DEF Chunk, FlushTail, serviceVars, lichess
    <3>2. LichessCursorsSafe'  BY <3>1, SafeFromSafe
    <3> QED  BY <2>2, <3>2, ChunkRun, FlushRun, CollectTypes
  <2>3. CASE Account(a)
    BY <2>3, AccountRun, AccountCursors, CollectTypes
  <2>4. CASE LichessSyncDone(a)
    <3>1. job[a].pc = "stream" /\ Waiting(a) = {}
      BY <2>4 DEF LichessSyncDone, Polling, Waiting, LichessAtCall
    <3> QED  BY <1>4, <1>6, <2>4, <3>1 DEF LichessSyncDone
  <2>5. CASE IngestFails(a)
    BY <1>4, <1>6, <2>5 DEF IngestFails
  <2> QED  BY <1>7, <2>1, <2>2, <2>3, <2>4, <2>5 DEF LichessCollect
<1>8. ASSUME NEW a \in Actors, LichessRateLimited(a) PROVE LichessIInv'
  <2>1. /\ UNCHANGED <<rows, ever, call, report, inserted, cursorRow, job, published, orderly>>
        /\ faults' \in 0 .. MaxFaults /\ job[a].pc = "fetch"
        /\ stream' = [stream EXCEPT ![a].attempt = @ + 1]
    BY <1>5, <1>8 DEF LichessRateLimited, ingestVars, lichess
  <2>2. BaseTypeOK' /\ StorageOK'
    BY <2>1 DEF TypesOK, BaseTypeOK, IngestTypeOK, ServiceTypeOK, StorageOK, NoDuplicateRows
  <2>3. StreamTypeOK'
    <3>1. stream[a] \in StreamRec /\ stream[a].attempt + 1 \in 0 .. LichessRetries
      BY <1>8 DEF LichessRateLimited, TypesOK, StreamTypeOK, StreamRec, LichessAssumption
    <3>2. PICK k \in 0 .. LichessRetries : stream' = [stream EXCEPT ![a] = [stream[a] EXCEPT !.attempt = k]]
      BY <2>1, <3>1
    <3>3. [stream[a] EXCEPT !.attempt = k] \in StreamRec
      BY <3>1 DEF StreamRec
    <3> QED  BY <2>1, <3>2, <3>3, StreamStepType DEF lichess, TypesOK
  <2>4. RunsOK'
    <3>1. RunOK(a)'
      BY <2>1 DEF RunsOK, RunOK
    <3>2. \A b \in Actors \ {a} : stream'[b] = stream[b]
      BY <2>1 DEF TypesOK, StreamTypeOK
    <3> QED  BY <2>1, <3>1, <3>2, OnlyThisRun
  <2>5. LichessCursorsSafe'
    BY <2>1, SafeFromSafe
  <2> QED  BY <2>2, <2>3, <2>4, <2>5 DEF TypesOK
<1>9. ASSUME NEW a \in Actors, LichessFetchFails(a) \/ Dropped(a) PROVE LichessIInv'
  <2>1. CASE LichessFetchFails(a)
    BY <1>4, <1>5, <2>1 DEF LichessFetchFails
  <2>2. CASE Dropped(a)
    BY <1>4, <1>5, <2>2 DEF Dropped, Polling
  <2> QED  BY <1>9, <2>1, <2>2
<1>10. ASSUME NEW a \in Actors, LichessService(a) \/ Save(a) \/ LichessRequest(a) \/ LichessLose(a) PROVE LichessIInv'
  BY <1>1, <1>2, <1>3, <1>10 DEF LichessService, Save, LichessRequest, LichessLose
<1>11. ASSUME NEW g \in Games, LichessPublish(g) PROVE LichessIInv'
  <2>1. UNCHANGED <<rows, ever, call, report, inserted, cursorRow, job, faults, orderly, stream>>
        /\ published' = published \cup {g}
    BY <1>11 DEF LichessPublish, ingestVars, serviceVars
  <2>2. TypesOK' /\ StorageOK'
    BY <2>1 DEF TypesOK, BaseTypeOK, IngestTypeOK, ServiceTypeOK, StreamTypeOK,
                StorageOK, NoDuplicateRows
  <2> QED  BY <1>11, <2>2, PublishRun
<1>12. ASSUME NEW g \in Games, LichessRemove(g) PROVE LichessIInv'
  <2>1. BaseTypeOK' /\ StorageOK'  BY <1>12, RemoveStep DEF LichessRemove, TypesOK
  <2>2. StreamTypeOK'
    BY <1>12 DEF LichessRemove, lichess, TypesOK, StreamTypeOK
  <2> QED  BY <1>12, <2>1, <2>2, RemoveRun DEF TypesOK
<1>13. CASE UNCHANGED lichessVars
  <2>1. RunsOK'
    BY <1>13, Untouched DEF lichessVars, RunsOK
  <2> QED  BY <1>13, <2>1 DEF lichessVars, TypesOK, BaseTypeOK, IngestTypeOK, ServiceTypeOK, StreamTypeOK,
                StorageOK, NoDuplicateRows, LichessCursorsSafe, LichessCovers, LichessOpened
<1> QED
  BY <1>7, <1>8, <1>9, <1>10, <1>11, <1>12, <1>13 DEF LichessNext

\* The invariant the theorems below are read from.
THEOREM LichessInductive == LichessSpec => []LichessIInv
BY LichessInitIInv, LichessNextIInv, PTL DEF LichessSpec

\* Every variable keeps its type, whatever interleaving of requests, broken
\* connections, uploads and deletions the service meets.
THEOREM LichessTypeCorrect == LichessSpec => []LichessTypeOK
<1>1. LichessIInv => LichessTypeOK
  BY DEF LichessIInv, TypesOK, BaseTypeOK, LichessTypeOK
<1> QED  BY <1>1, LichessInductive, PTL

\* No game is stored twice, however many syncs and uploads meet between the
\* existence check of ingest_pgn and its insert.
THEOREM LichessStoredOnce == LichessSpec => []NoDuplicateRows
<1>1. LichessIInv => NoDuplicateRows
  BY DEF LichessIInv, StorageOK
<1> QED  BY <1>1, LichessInductive, PTL

\* The count of imported games a run saves is the number of games that very
\* run stored, whatever other runs store, and users delete, at the same time.
THEOREM CountsReal == LichessSpec => []ImportedCountIsReal
<1>1. LichessIInv => ImportedCountIsReal
  BY DEF LichessIInv, RunsOK, RunOK, Returning, ImportedCountIsReal
<1> QED  BY <1>1, LichessInductive, PTL

-----------------------------------------------------------------------------
(***************************************************************************)
(* What a run ingests had wholly arrived.                                  *)
(***************************************************************************)

\* What run a stored, and the call it is in, lie within the whole games.
RunWhole(a) ==
  job[a].pc \in {"stream", "find", "write"} =>
    /\ call[a].pc # "none" => call[a].game \in stream[a].whole
    /\ inserted[a] \subseteq stream[a].whole

LEMMA WholeIsRunWhole == IngestsWholeGames <=> \A a \in Actors : RunWhole(a)
BY DEF IngestsWholeGames, RunWhole

\* A run none of whose variables changed keeps it.
LEMMA RunWholeKept ==
  ASSUME NEW b \in Actors, RunWhole(b),
         job'[b] = job[b], call'[b] = call[b], stream'[b] = stream[b], inserted'[b] = inserted[b]
  PROVE  RunWhole(b)'
BY DEF RunWhole

\* A run that is not within a response, or has just gone, has nothing to keep.
LEMMA RunWholeOutside ==
  ASSUME NEW b \in Actors, job'[b].pc \in {"idle", "fetch", "batch"}
  PROVE  RunWhole(b)'
BY DEF RunWhole

\* Each step of the service and of the collector keeps it.
LEMMA LichessNextWhole ==
  ASSUME LichessIInv, \A a \in Actors : RunWhole(a), [LichessNext]_lichessVars
  PROVE  \A a \in Actors : RunWhole(a)'
<1> USE DEF LichessIInv, TypesOK, BaseTypeOK, IngestTypeOK, ServiceTypeOK, StreamTypeOK
<1> SUFFICES ASSUME NEW b \in Actors  PROVE RunWhole(b)'
  OBVIOUS
<1>0. RunWhole(b)  OBVIOUS
<1>1. ASSUME NEW a \in Actors, LichessService(a)  PROVE RunWhole(b)'
  <2>1. UNCHANGED stream  BY <1>1 DEF LichessService
  <2>2. CASE IngestStep(a)
    <3>1. UNCHANGED job  BY <2>2 DEF IngestStep, serviceVars
    <3>2. CASE a # b
      <4>1. call'[b] = call[b] /\ inserted'[b] = inserted[b]
        BY <2>2, <3>2 DEF IngestStep, CheckGame, StoreGame, StoreConflict, NextOfBlob, RecordInReport, BeginIngest
      <4> QED  BY <1>0, <2>1, <3>1, <4>1, RunWholeKept
    <3>3. CASE a = b /\ job[b].pc \in {"stream", "find", "write"}
      <4>1. CASE CheckGame(b) \/ StoreConflict(b)
        BY <1>0, <2>1, <3>1, <3>3, <4>1 DEF CheckGame, StoreConflict, RunWhole
      <4>2. CASE StoreGame(b)
        BY <1>0, <2>1, <3>1, <3>3, <4>2 DEF StoreGame, RunWhole
      <4> QED  BY <2>2, <3>3, <4>1, <4>2 DEF IngestStep
    <3>4. CASE job[b].pc \notin {"stream", "find", "write"}
      BY <3>1, <3>4 DEF RunWhole
    <3> QED  BY <3>2, <3>3, <3>4
  <2>3. CASE FinishUpload(a)
    BY <1>0, <2>1, <2>3 DEF FinishUpload, Forget, RunWhole, NoJob
  <2>4. CASE FindCursor(a)
    BY <1>0, <2>1, <2>4 DEF FindCursor, ingestVars, RunWhole
  <2> QED  BY <1>1, <2>2, <2>3, <2>4 DEF LichessService
<1>2. ASSUME NEW a \in Actors, Save(a) \/ LichessLose(a)  PROVE RunWhole(b)'
  <2>1. /\ job' = [job EXCEPT ![a] = NoJob] /\ call' = [call EXCEPT ![a] = NoCall]
        /\ inserted' = [inserted EXCEPT ![a] = {}] /\ stream' = [stream EXCEPT ![a] = NoStream]
    BY <1>2 DEF Save, WriteCursor, LichessLose, LoseRequest, Forget
  <2>2. CASE a = b
    BY <2>1, <2>2, RunWholeOutside DEF NoJob
  <2>3. CASE a # b
    <3>1. job'[b] = job[b] /\ call'[b] = call[b] /\ inserted'[b] = inserted[b] /\ stream'[b] = stream[b]
      BY <2>1, <2>3
    <3> QED  BY <1>0, <3>1, RunWholeKept
  <2> QED  BY <2>2, <2>3
<1>3. ASSUME NEW a \in Actors, LichessRequest(a)  PROVE RunWhole(b)'
  <2>1. CASE IngestFault(a)
    BY <1>0, <1>3, <2>1 DEF LichessRequest, IngestFault, IngestDbError, RunWhole
  <2>2. CASE (\E full \in BOOLEAN : StartSync(a, full)) \/ \E gs \in Uploads : StartUpload(a, gs)
    <3>1. /\ UNCHANGED <<call, inserted, stream>> /\ \A c \in Actors \ {a} : job'[c] = job[c]
          /\ job'[a].pc \in {"fetch", "batch"}
      <4>1. CASE \E full \in BOOLEAN : StartSync(a, full)
        <5>1. PICK full \in BOOLEAN : StartSync(a, full)
          BY <4>1
        <5>2. UNCHANGED <<call, inserted, stream>>
          BY <1>3, <5>1 DEF LichessRequest, StartSync, ingestVars
        <5>3. PICK c : job' = [job EXCEPT ![a] = [NoJob EXCEPT !.pc = "fetch", !.cursor = c]]
          BY <5>1 DEF StartSync
        <5> QED  BY <5>2, <5>3 DEF NoJob
      <4>2. CASE \E gs \in Uploads : StartUpload(a, gs)
        BY <1>3, <4>2 DEF LichessRequest, StartUpload, NoJob
      <4> QED  BY <2>2, <4>1, <4>2
    <3>2. CASE a = b
      BY <3>1, <3>2, RunWholeOutside
    <3>3. CASE a # b
      BY <1>0, <3>1, <3>3, RunWholeKept
    <3> QED  BY <3>2, <3>3
  <2> QED  BY <1>3, <2>1, <2>2 DEF LichessRequest
<1>4. ASSUME NEW a \in Actors, Respond(a)  PROVE RunWhole(b)'
  <2>1. RunOK(a)  BY DEF RunsOK
  <2> QED  BY <1>0, <1>4, <2>1 DEF Respond, ingestVars, RunWhole, RunOK, NoStream
<1>5. ASSUME NEW a \in Actors, Chunk(a)  PROVE RunWhole(b)'
  BY <1>0, <1>5 DEF Chunk, Polling, BeginIngest, serviceVars, RunWhole
<1>6. ASSUME NEW a \in Actors, FlushTail(a)  PROVE RunWhole(b)'
  BY <1>0, <1>6 DEF FlushTail, Polling, BeginIngest, serviceVars, RunWhole
<1>7. ASSUME NEW a \in Actors, Account(a)  PROVE RunWhole(b)'
  BY <1>0, <1>7 DEF Account, NoCall, RunWhole
<1>8. ASSUME NEW a \in Actors, LichessSyncDone(a) \/ IngestFails(a) \/ Dropped(a)  PROVE RunWhole(b)'
  BY <1>0, <1>8 DEF LichessSyncDone, IngestFails, Dropped, Polling, EndCollector, Returned, NoCall, RunWhole
<1>9. ASSUME NEW a \in Actors, LichessFetchFails(a)  PROVE RunWhole(b)'
  <2>1. RunOK(a)  BY DEF RunsOK
  <2> QED  BY <1>0, <1>9, <2>1 DEF LichessFetchFails, EndCollector, Returned, NoCall, RunWhole, RunOK
<1>10. ASSUME NEW a \in Actors, LichessRateLimited(a)  PROVE RunWhole(b)'
  BY <1>0, <1>10 DEF LichessRateLimited, ingestVars, RunWhole
<1>11. ASSUME NEW g \in Games, LichessPublish(g) \/ LichessRemove(g)  PROVE RunWhole(b)'
  <2>1. UNCHANGED <<job, call, stream, inserted>>
    BY <1>11 DEF LichessPublish, LichessRemove, RemoveGame, DeleteGame, ingestVars, serviceVars
  <2> QED  BY <1>0, <2>1, RunWholeKept
<1>12. CASE UNCHANGED lichessVars
  BY <1>0, <1>12, RunWholeKept DEF lichessVars
<1> QED
  BY <1>1, <1>2, <1>3, <1>4, <1>5, <1>6, <1>7, <1>8, <1>9, <1>10, <1>11, <1>12
     DEF LichessNext, LichessCollect

\* Whatever breaks, and wherever a response is cut into chunks, what a run
\* ingests, and what it stored when it returns, had wholly arrived
\* (SplitGames, take_complete): the buffer is flushed after a complete
\* response only.
THEOREM WholeGames == LichessSpec => []IngestsWholeGames
<1>1. LichessInit => \A a \in Actors : RunWhole(a)
  BY DEF LichessInit, ServiceInit, NoJob, RunWhole
<1>2. LichessIInv /\ (\A a \in Actors : RunWhole(a)) /\ [LichessNext]_lichessVars
        => (\A a \in Actors : RunWhole(a))'
  BY LichessNextWhole
<1> QED  BY <1>1, <1>2, WholeIsRunWhole, LichessInductive, PTL DEF LichessSpec

\* A sync that reports success has every game of its response in the library,
\* and its two counts add up to the response.
THEOREM CompleteSuccess == LichessSpec => []SuccessIsComplete
<1>1. LichessIInv => SuccessIsComplete
  BY DEF LichessIInv, RunsOK, RunOK, Returning, SuccessIsComplete
<1> QED  BY <1>1, LichessInductive, PTL

\* Over an orderly export the next incremental sync skips no acceptable game:
\* the order games_url does not ask for is all that is missing.
THEOREM LichessNothingSkipped == LichessSpec => [](orderly => LichessCoversHistory)
<1>1. LichessIInv => (orderly => LichessCoversHistory)
  BY DEF LichessIInv, LichessCursorsSafe, LichessCovers, LichessCoversHistory
<1> QED  BY <1>1, LichessInductive, PTL

\* What the abstract library sees of a state.
Seen == <<IF orderly THEN published ELSE {}, ever, IF orderly THEN cursorRow.at ELSE 0>>

\* Every step of the service is a step of the abstract library or changes
\* nothing a user can see of it.
LEMMA LichessLibraryStep ==
  ASSUME LichessIInv, LichessIInv', LichessNext
  PROVE  LichessLibrary!LibraryNext \/ UNCHANGED Seen
<1> USE DEF LichessIInv, LichessLibrary!LibraryNext, Seen
<1>1. ASSUME NEW a \in Actors, IngestStep(a), UNCHANGED lichess
      PROVE  LichessLibrary!LibraryNext \/ UNCHANGED Seen
  <2>1. CASE StoreGame(a)
    <3> DEFINE g == call[a].game
    <3>1. g \in Games /\ g \notin Bad
      BY <2>1 DEF StoreGame, StorageOK
    <3>2. CASE g \in ever
      <4>1. ever' = ever  BY <2>1, <3>2 DEF StoreGame
      <4> QED  BY <1>1, <4>1 DEF IngestStep, serviceVars, lichess
    <3>3. CASE g \notin ever
      <4>1. LichessLibrary!AddGame(g)
        BY <1>1, <2>1, <3>1, <3>3
        DEF StoreGame, IngestStep, serviceVars, lichess, LichessLibrary!AddGame
      <4> QED  BY <3>1, <4>1
    <3> QED  BY <3>2, <3>3
  <2>2. CASE ~StoreGame(a)
    BY <1>1, <2>2 DEF IngestStep, serviceVars, lichess, CheckGame, StoreConflict, NextOfBlob,
                      RecordInReport
  <2> QED  BY <2>1, <2>2
<1>2. ASSUME NEW a \in Actors, WriteCursor(a), UNCHANGED lichess
      PROVE  LichessLibrary!LibraryNext \/ UNCHANGED Seen
  <2>1. UNCHANGED <<ever, published, orderly>> /\ cursorRow'.at \in Nat
    BY <1>2 DEF WriteCursor, lichess, TypesOK, BaseTypeOK, ServiceTypeOK
  <2>2. CASE ~orderly
    BY <2>1, <2>2
  <2>3. CASE orderly
    <3>1. \A h \in published \ Bad : Second[h] < cursorRow'.at => h \in ever
      BY <2>1, <2>3 DEF LichessCursorsSafe, LichessCovers
    <3>2. LichessLibrary!MoveHorizon
      BY <2>1, <2>3, <3>1 DEF LichessLibrary!MoveHorizon, LichessLibrary!Covered
    <3> QED  BY <3>2
  <2> QED  BY <2>2, <2>3
<1>3. ASSUME NEW a \in Actors, LichessService(a) \/ Save(a)
      PROVE  LichessLibrary!LibraryNext \/ UNCHANGED Seen
  <2>1. CASE FinishUpload(a) \/ FindCursor(a)
    BY <1>3, <2>1 DEF LichessService, Save, FinishUpload, FindCursor, WriteCursor, ingestVars, lichess
  <2>2. CASE ~(FinishUpload(a) \/ FindCursor(a))
    BY <1>1, <1>2, <1>3, <2>2 DEF LichessService, Save
  <2> QED  BY <2>1, <2>2
<1>4. ASSUME NEW a \in Actors, LichessRequest(a)
      PROVE  UNCHANGED Seen
  BY <1>4 DEF LichessRequest, StartSync, StartUpload, IngestFault, IngestDbError, ingestVars, lichess
<1>5. ASSUME NEW a \in Actors, LichessCollect(a)
      PROVE  UNCHANGED Seen
  <2>1. UNCHANGED lichess
    BY <1>5 DEF LichessCollect, Respond, Chunk, FlushTail, LichessSyncDone, Account, IngestFails
  <2>2. UNCHANGED <<ever, cursorRow>>
    <3>1. CASE Respond(a) \/ Chunk(a) \/ FlushTail(a) \/ Account(a)
      BY <3>1 DEF Respond, Chunk, FlushTail, Account, ingestVars, serviceVars
    <3>2. CASE LichessSyncDone(a) \/ IngestFails(a)
      BY <3>2 DEF LichessSyncDone, IngestFails, EndCollector
    <3> QED  BY <1>5, <3>1, <3>2 DEF LichessCollect
  <2> QED  BY <2>1, <2>2 DEF lichess
<1>6. ASSUME NEW a \in Actors, LichessRateLimited(a) \/ LichessFetchFails(a) \/ Dropped(a) \/ LichessLose(a)
      PROVE  UNCHANGED Seen
  <2>1. UNCHANGED lichess
    BY <1>6 DEF LichessRateLimited, LichessFetchFails, Dropped, LichessLose
  <2>2. UNCHANGED <<ever, cursorRow>>
    <3>1. CASE LichessRateLimited(a)
      BY <3>1 DEF LichessRateLimited, ingestVars
    <3>2. CASE LichessFetchFails(a) \/ Dropped(a)
      BY <3>2 DEF LichessFetchFails, Dropped, EndCollector
    <3>3. CASE LichessLose(a)
      BY <3>3 DEF LichessLose, LoseRequest
    <3> QED  BY <1>6, <3>1, <3>2, <3>3
  <2> QED  BY <2>1, <2>2 DEF lichess
<1>7. ASSUME NEW g \in Games, LichessPublish(g)
      PROVE  LichessLibrary!LibraryNext \/ UNCHANGED Seen
  <2>1. UNCHANGED <<ever, cursorRow, orderly>> /\ published' = published \cup {g}
        /\ g \notin published /\ (orderly => \A h \in published : Second[h] <= Second[g])
    BY <1>7 DEF LichessPublish, ingestVars, serviceVars
  <2>2. CASE ~orderly
    BY <2>1, <2>2
  <2>3. CASE orderly
    <3>1. LichessLibrary!PublishGame(g)
      BY <2>1, <2>3 DEF LichessLibrary!PublishGame
    <3> QED  BY <3>1
  <2> QED  BY <2>2, <2>3
<1>8. ASSUME NEW g \in Games, LichessRemove(g)
      PROVE  UNCHANGED Seen
  BY <1>8 DEF LichessRemove, RemoveGame, DeleteGame, serviceVars, lichess
<1> QED  BY <1>3, <1>4, <1>5, <1>6, <1>7, <1>8 DEF LichessNext

\* Streaming sync implements the library it promises the user: over an
\* orderly export all of it, over another that games enter once, if
\* acceptable.
THEOREM LichessRefinesLibrary == LichessSpec => LichessImplementsLibrary
<1>1. LichessInit => LichessLibrary!LibraryInit
  BY DEF LichessInit, IngestInit, ServiceInit, LichessLibrary!LibraryInit
<1>2. LichessIInv /\ LichessIInv' /\ [LichessNext]_lichessVars
        => [LichessLibrary!LibraryNext]_<<IF orderly THEN published ELSE {}, ever,
                                   IF orderly THEN cursorRow.at ELSE 0>>
  BY LichessLibraryStep DEF lichessVars, Seen
<1> QED
  BY <1>1, <1>2, LichessInductive, PTL DEF LichessSpec, LichessImplementsLibrary, LichessLibrary!LibrarySpec
============================================================================
