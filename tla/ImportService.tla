---------------------------- MODULE ImportService ----------------------------
(***************************************************************************)
(* ImportService (src/src/imports/mod.rs) and the persisted sync cursor    *)
(* (src/src/imports/cursor.rs), up to the collector a sync dispatches to:  *)
(* LichessSync and ChessComSync extend this module with theirs.            *)
(*                                                                         *)
(* A cursor is a number; 0 is Option::None, below every month or second,   *)
(* so that "no cursor" admits every game and loses every comparison.       *)
(***************************************************************************)
EXTENDS GameIngest

CONSTANTS
  AllowFull,   \* whether requests may ask for full = true
  Uploads,     \* the blobs users upload, each one a set of games
  Removable,   \* the games users delete
  MaxFaults    \* bound on injected failures (network, storage, lost client)

ASSUME ServiceAssumption ==
  /\ AllowFull \in BOOLEAN
  /\ Uploads \subseteq SUBSET Games
  /\ Removable \subseteq Games
  /\ MaxFaults \in Nat

VARIABLES
  cursorRow,   \* the sync_cursors row of (database, source, username)
  job,         \* job[a]: the request a serves
  faults       \* failures injected so far

serviceVars == <<cursorRow, job, faults>>

(***************************************************************************)
(* "fetch", "stream" and "batch" are inside the collector ("batch" is      *)
(* ingest_pgn_all, which an upload runs too); "find" and "write" are the   *)
(* two statements of cursor::save, whose find result is job[a].seen.       *)
(***************************************************************************)
JobPC == {"idle", "fetch", "stream", "batch", "find", "write"}
NoJob == [pc |-> "idle", kind |-> "sync", cursor |-> 0, imported |-> 0,
          duplicates |-> 0, failed |-> FALSE, seen |-> FALSE]

ServiceTypeOK ==
  /\ cursorRow \in [present : BOOLEAN, at : Nat]
  /\ job \in [Actors -> [pc : JobPC, kind : {"sync", "upload"}, cursor : Nat,
                         imported : Nat, duplicates : Nat,
                         failed : BOOLEAN, seen : BOOLEAN]]
  /\ faults \in 0 .. MaxFaults

ServiceInit ==
  /\ cursorRow = [present |-> FALSE, at |-> 0]
  /\ job = [a \in Actors |-> NoJob]
  /\ faults = 0

\* Request a is over: nothing of it stays in memory.
Forget(a) ==
  /\ job' = [job EXCEPT ![a] = NoJob]
  /\ call' = [call EXCEPT ![a] = NoCall]
  /\ report' = [report EXCEPT ![a] = NoReport]
  /\ inserted' = [inserted EXCEPT ![a] = {}]

Fault == faults < MaxFaults /\ faults' = faults + 1

\* sync: load the cursor, or start from scratch, and enter the collector.
StartSync(a, full) ==
  /\ job[a].pc = "idle"
  /\ full => AllowFull
  /\ job' = [job EXCEPT ![a] =
       [NoJob EXCEPT !.pc = "fetch", !.cursor = IF full THEN 0 ELSE cursorRow.at]]
  /\ UNCHANGED <<ingestVars, cursorRow, faults>>

\* import_pgn: an upload of the games gs.
StartUpload(a, gs) ==
  /\ job[a].pc = "idle"
  /\ job' = [job EXCEPT ![a] = [NoJob EXCEPT !.pc = "batch", !.kind = "upload"]]
  /\ report' = [report EXCEPT ![a] = [NoReport EXCEPT !.todo = gs]]
  /\ UNCHANGED <<rows, ever, call, inserted, cursorRow, faults>>

\* An upload returns its summary, or the storage error that stopped it.
FinishUpload(a) ==
  /\ job[a].pc = "batch" /\ job[a].kind = "upload"
  /\ BlobDone(a) \/ call[a].pc = "db"
  /\ Forget(a)
  /\ UNCHANGED <<rows, ever, cursorRow, faults>>

\* One step of the ingest calls that requests are in.
IngestStep(a) ==
  /\ \/ CheckGame(a)
     \/ StoreGame(a)
     \/ StoreConflict(a)
     \/ job[a].pc = "batch" /\ NextOfBlob(a)
     \/ job[a].pc = "batch" /\ RecordInReport(a)
  /\ UNCHANGED serviceVars

IngestFault(a) ==
  /\ IngestDbError(a)
  /\ Fault
  /\ UNCHANGED <<cursorRow, job>>

(***************************************************************************)
(* The collector returns SyncOutcome or SyncFailure: both carry the cursor *)
(* and the counts, and sync saves them in both cases.  (The state of a     *)
(* failed collector is dropped with it.)                                   *)
(***************************************************************************)
Returned(a, failed) == [job[a] EXCEPT !.pc = "find", !.failed = failed]

EndCollector(a, failed) ==
  /\ job' = [job EXCEPT ![a] = Returned(a, failed)]
  /\ call' = [call EXCEPT ![a] = NoCall]
  /\ report' = [report EXCEPT ![a] = NoReport]
  /\ UNCHANGED <<rows, ever, inserted, cursorRow>>

\* cursor::save, first statement: is there a row for the triple?
FindCursor(a) ==
  /\ job[a].pc = "find"
  /\ job' = [job EXCEPT ![a].pc = "write", ![a].seen = cursorRow.present]
  /\ UNCHANGED <<ingestVars, cursorRow, faults>>

\* cursor::save, second statement: update that row or insert a first one.
\* The insert violates the unique index when another request was faster.
WriteCursor(a) ==
  /\ job[a].pc = "write"
  /\ cursorRow' = IF ~job[a].seen /\ cursorRow.present
                    THEN cursorRow
                    ELSE [present |-> TRUE, at |-> job[a].cursor]
  /\ Forget(a)
  /\ UNCHANGED <<rows, ever, faults>>

\* A storage failure in cursor::save, or the handler's future dropped at an
\* await (the client went away, the process stopped): the request is gone.
LoseRequest(a) ==
  /\ job[a].pc # "idle"
  /\ Fault
  /\ Forget(a)
  /\ UNCHANGED <<rows, ever, cursorRow>>

RemoveGame(g) ==
  /\ g \in Removable
  /\ DeleteGame(g)
  /\ UNCHANGED serviceVars

(***************************************************************************)
(* Properties of the service, whichever collector it runs.                 *)
(***************************************************************************)

\* No game is stored twice in a database, however many syncs and uploads of
\* overlapping games run at once (ingest.rs: check and insert are separate).
NoDuplicateRows == \A g \in Games : rows[g] <= 1

\* The counts a finished run persists are real: the number of games this
\* very run stored, not what another run stored between its check and insert.
ImportedCountIsReal ==
  \A a \in Actors :
    job[a].pc \in {"find", "write"} => job[a].imported = Cardinality(inserted[a])

\* The persisted cursor never moves back.
CursorNeverRetreats == [][cursorRow'.at >= cursorRow.at]_cursorRow
=============================================================================
