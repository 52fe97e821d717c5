---------------------------- MODULE ChessComSync ----------------------------
(***************************************************************************)
(* The Chess.com collector (src/src/collectors/chesscom.rs) inside the     *)
(* import service.  A run lists the monthly archives, and for every month  *)
(* at or after its cursor, oldest first, fetches the archive, ingests all  *)
(* its games and moves the cursor to that month.                           *)
(*                                                                         *)
(* Chess.com itself is external: it files a game under the month it ended  *)
(* in, so a month no longer gains games once a later month has one.        *)
(***************************************************************************)
EXTENDS ImportService

CONSTANTS
  Month,            \* Month[g]: the archive game g is filed under, 1 the oldest
  ChessComRetries   \* MAX_RETRIES of fetch_text

ASSUME ChessComAssumption ==
  /\ Month \in [Games -> Nat \ {0}]
  /\ ChessComRetries \in Nat

VARIABLES
  filed,     \* games in Chess.com's archives
  archive    \* archive[a]: what a's run of sync_with has in hand

chesscomVars == <<rows, ever, call, report, inserted, cursorRow, job, faults, filed, archive>>

(***************************************************************************)
(* listed: the archive list has arrived; months: the archives not yet      *)
(* finished; month: the one being ingested, 0 between two; attempt: the    *)
(* 429 answers to the request being made.                                  *)
(***************************************************************************)
NoArchive == [listed |-> FALSE, months |-> {}, month |-> 0, attempt |-> 0]

ArchiveTypeOK ==
  /\ filed \in SUBSET Games
  /\ archive \in [Actors -> [listed : BOOLEAN, months : SUBSET (Nat \ {0}),
                             month : Nat, attempt : 0 .. ChessComRetries]]

ChessComTypeOK == IngestTypeOK /\ ServiceTypeOK /\ ArchiveTypeOK

ChessComInit ==
  /\ IngestInit
  /\ ServiceInit
  /\ filed = {}
  /\ archive = [a \in Actors |-> NoArchive]

\* External: a game ends and is added to its month's archive.
ChessComPublish(g) ==
  /\ g \notin filed
  /\ \A h \in filed : Month[h] <= Month[g]
  /\ filed' = filed \cup {g}
  /\ UNCHANGED <<ingestVars, serviceVars, archive>>

Archives == {Month[g] : g \in filed}
InArchive(m) == {g \in filed : Month[g] = m}

\* Mutant: the cursor month counts as finished.
MonthsToSync_After(all, last) == {m \in all : m > last}

\* The cursor month itself is synced again.
MonthsToSync(all, last) == {m \in all : m >= last}

\* Mutant: the months are left newest first.
Oldest_Unsorted(months) == CHOOSE m \in months : \A n \in months : m >= n

Oldest(months) == CHOOSE m \in months : \A n \in months : m <= n

\* fetch_text is answered 429 and will ask again.
ChessComRateLimited(a) ==
  /\ job[a].pc = "fetch"
  /\ archive[a].attempt < ChessComRetries
  /\ Fault
  /\ archive' = [archive EXCEPT ![a].attempt = @ + 1]
  /\ UNCHANGED <<ingestVars, cursorRow, job, filed>>

\* fetch_text gives up, or the request fails for another reason.
ChessComFetchFails(a) ==
  /\ job[a].pc = "fetch"
  /\ Fault
  /\ EndCollector(a, TRUE)
  /\ archive' = [archive EXCEPT ![a] = NoArchive]
  /\ UNCHANGED filed

ListArchives(a) ==
  /\ job[a].pc = "fetch"
  /\ ~archive[a].listed
  /\ archive' = [archive EXCEPT ![a] =
       [NoArchive EXCEPT !.listed = TRUE,
                         !.months = MonthsToSync(Archives, job[a].cursor)]]
  /\ UNCHANGED <<ingestVars, serviceVars, filed>>

FetchMonth(a) ==
  LET m == Oldest(archive[a].months)
  IN  /\ job[a].pc = "fetch"
      /\ archive[a].listed
      /\ archive[a].months # {}
      /\ archive' = [archive EXCEPT ![a].month = m, ![a].attempt = 0]
      /\ report' = [report EXCEPT ![a] = [NoReport EXCEPT !.todo = InArchive(m)]]
      /\ job' = [job EXCEPT ![a].pc = "batch"]
      /\ UNCHANGED <<rows, ever, call, inserted, cursorRow, faults, filed>>

\* Mutant: the counts of the months before are overwritten.
MonthDone_LastOnly(a) ==
  /\ job[a].pc = "batch" /\ job[a].kind = "sync"
  /\ BlobDone(a)
  /\ job' = [job EXCEPT ![a].pc = "fetch",
                        ![a].cursor = archive[a].month,
                        ![a].imported = report[a].imported,
                        ![a].duplicates = report[a].duplicates]
  /\ archive' = [archive EXCEPT ![a].months = @ \ {archive[a].month}, ![a].month = 0]
  /\ report' = [report EXCEPT ![a] = NoReport]
  /\ UNCHANGED <<rows, ever, call, inserted, cursorRow, faults, filed>>

\* The whole archive went in: only now do its counts and its month count.
MonthDone(a) ==
  /\ job[a].pc = "batch" /\ job[a].kind = "sync"
  /\ BlobDone(a)
  /\ job' = [job EXCEPT ![a].pc = "fetch",
                        ![a].cursor = archive[a].month,
                        ![a].imported = @ + report[a].imported,
                        ![a].duplicates = @ + report[a].duplicates]
  /\ archive' = [archive EXCEPT ![a].months = @ \ {archive[a].month}, ![a].month = 0]
  /\ report' = [report EXCEPT ![a] = NoReport]
  /\ UNCHANGED <<rows, ever, call, inserted, cursorRow, faults, filed>>

\* ingest_pgn_all stopped at a storage failure: its report is lost.
MonthFails(a) ==
  /\ job[a].pc = "batch" /\ job[a].kind = "sync"
  /\ call[a].pc = "db"
  /\ EndCollector(a, TRUE)
  /\ archive' = [archive EXCEPT ![a] = NoArchive]
  /\ UNCHANGED <<faults, filed>>

ChessComSyncDone(a) ==
  /\ job[a].pc = "fetch"
  /\ archive[a].listed
  /\ archive[a].months = {}
  /\ EndCollector(a, FALSE)
  /\ archive' = [archive EXCEPT ![a] = NoArchive]
  /\ UNCHANGED <<faults, filed>>

ChessComLose(a) ==
  /\ LoseRequest(a)
  /\ archive' = [archive EXCEPT ![a] = NoArchive]
  /\ UNCHANGED filed

ChessComService(a) ==
  /\ \/ IngestStep(a)
     \/ FinishUpload(a)
     \/ FindCursor(a)
     \/ WriteCursor(a)
  /\ UNCHANGED <<filed, archive>>

\* What users start and what goes wrong in the service, neither ever due.
ChessComRequest(a) ==
  /\ \/ \E full \in BOOLEAN : StartSync(a, full)
     \/ \E gs \in Uploads : StartUpload(a, gs)
     \/ IngestFault(a)
  /\ UNCHANGED <<filed, archive>>

ChessComRemove(g) == RemoveGame(g) /\ UNCHANGED <<filed, archive>>

ChessComCollect(a) ==
  ListArchives(a) \/ FetchMonth(a) \/ MonthDone(a) \/ MonthFails(a) \/ ChessComSyncDone(a)

ChessComNext ==
  \/ \E a \in Actors : \/ ChessComService(a) \/ ChessComRequest(a) \/ ChessComCollect(a)
                       \/ ChessComRateLimited(a) \/ ChessComFetchFails(a) \/ ChessComLose(a)
  \/ \E g \in Games : ChessComPublish(g) \/ ChessComRemove(g)

ChessComSpec == ChessComInit /\ [][ChessComNext]_chesscomVars

(***************************************************************************)
(* The code's tasks run when they can; that the user keeps asking for a    *)
(* sync is the hypothesis under which a retry can complete the library.    *)
(***************************************************************************)
ChessComStartIncremental(a) == StartSync(a, FALSE) /\ UNCHANGED <<filed, archive>>

ChessComFairness ==
  \A a \in Actors :
    /\ WF_chesscomVars(ChessComService(a) \/ ChessComCollect(a))
    /\ SF_chesscomVars(ChessComStartIncremental(a))

ChessComFairSpec == ChessComSpec /\ ChessComFairness

(***************************************************************************)
(* Properties.                                                             *)
(***************************************************************************)

\* Every acceptable game filed before the cursor's month has been stored:
\* the next incremental sync, which never looks there again, skips nothing.
\* This survives every failure, lost request, concurrent or full sync.
ChessComCoversHistory ==
  \A g \in filed \ Bad : Month[g] < cursorRow.at => g \in ever

\* The count a run saves is the number of games it stored, unless a storage
\* failure broke a month off: the games it had stored of that one month are
\* not counted (chesscom.rs drops their report), every month before it is,
\* and the cursor saved with the count has the month looked at again.
ChessComCountsMonths ==
  \A a \in Actors :
    job[a].pc \in {"find", "write"} =>
      \/ job[a].imported = Cardinality(inserted[a])
      \/ /\ job[a].failed
         /\ \E m \in {Month[g] : g \in inserted[a]} :
              /\ job[a].imported = Cardinality({g \in inserted[a] : Month[g] # m})
              /\ job[a].cursor <= m

\* As long as the user keeps syncing and failures are finitely many, every
\* acceptable published game is stored in the end.
ChessComEveryGameArrives == \A g \in Games \ Bad : g \in filed ~> g \in ever

\* The service implements the abstract library.
ChessComLibrary == INSTANCE GameLibrary WITH
  When <- Month, published <- filed, library <- ever, horizon <- cursorRow.at
ChessComImplementsLibrary == ChessComLibrary!LibrarySpec
=============================================================================
