----------------------------- MODULE GameIngest -----------------------------
(***************************************************************************)
(* The shared ingest path of src/src/ingest.rs: ingest_pgn, which checks   *)
(* for a stored game with the same source_ref, validates the game and      *)
(* writes it with its index rows in one transaction, and ingest_pgn_all,   *)
(* which does so for every game of a blob under skip-and-continue.         *)
(*                                                                         *)
(* A game stands for its source_ref (permalink or content hash) together   *)
(* with its text.  The module looks at one target database; the dedup key  *)
(* and the sync cursor are both scoped to it.  The actions below are       *)
(* fragments: the callers (ImportService and the two collectors) add the   *)
(* guard on their own control state and what they leave unchanged.         *)
(***************************************************************************)
EXTENDS Naturals, FiniteSets

CONSTANTS
  Actors,   \* concurrent requests: syncs and PGN uploads into the database
  Games,    \* games, each one a distinct (database_id, source_ref)
  Bad,      \* the games parse_pgn or prepare_game rejects
  NoGame    \* "no game": Option::None

ASSUME GamesAssumption ==
  /\ IsFiniteSet(Games)
  /\ Bad \subseteq Games
  /\ NoGame \notin Games

VARIABLES
  rows,      \* rows[g]: how many rows of table games hold g
  ever,      \* history: the games whose insert ever committed
  call,      \* call[a]: the ingest_pgn call request a is in, and its result
  report,    \* report[a]: the IngestReport of a's ingest_pgn_all, and its rest
  inserted   \* history: the games a's current request itself stored

ingestVars == <<rows, ever, call, report, inserted>>

(***************************************************************************)
(* A call of ingest_pgn is before its existence check, between the check   *)
(* and the insert, or has returned: Ok(Some) "new", Ok(None) "dup",        *)
(* BadGame "bad", Db "db".                                                 *)
(***************************************************************************)
CallPC == {"none", "check", "insert", "new", "dup", "bad", "db"}
NoCall == [pc |-> "none", game |-> NoGame]
NoReport == [todo |-> {}, imported |-> 0, duplicates |-> 0, errors |-> 0]

IngestTypeOK ==
  /\ rows \in [Games -> Nat]
  /\ ever \in SUBSET Games
  /\ call \in [Actors -> [pc : CallPC, game : Games \cup {NoGame}]]
  /\ report \in [Actors -> [todo : SUBSET Games, imported : Nat,
                            duplicates : Nat, errors : Nat]]
  /\ inserted \in [Actors -> SUBSET Games]

IngestInit ==
  /\ rows = [g \in Games |-> 0]
  /\ ever = {}
  /\ call = [a \in Actors |-> NoCall]
  /\ report = [a \in Actors |-> NoReport]
  /\ inserted = [a \in Actors |-> {}]

GameExists(g) == rows[g] > 0

\* Mutant: no unique index backs the existence check.
UniqueIndexAllows_Missing(g) == TRUE

\* The unique index on games (database_id, source_ref).
UniqueIndexAllows(g) == rows[g] = 0

BeginIngest(a, g) ==
  /\ call[a].pc = "none"
  /\ call' = [call EXCEPT ![a] = [pc |-> "check", game |-> g]]

\* Everything ingest_pgn does before its transaction: dedup, then validation.
CheckGame(a) ==
  LET g == call[a].game
  IN  /\ call[a].pc = "check"
      /\ \/ GameExists(g) /\ call' = [call EXCEPT ![a].pc = "dup"]
         \/ ~GameExists(g) /\ g \in Bad /\ call' = [call EXCEPT ![a].pc = "bad"]
         \/ ~GameExists(g) /\ g \notin Bad /\ call' = [call EXCEPT ![a].pc = "insert"]
      /\ UNCHANGED <<rows, ever, report, inserted>>

\* The transaction: the game row with its index rows, or a unique violation.
StoreGame(a) ==
  LET g == call[a].game
  IN  /\ call[a].pc = "insert"
      /\ UniqueIndexAllows(g)
      /\ rows' = [rows EXCEPT ![g] = @ + 1]
      /\ ever' = ever \cup {g}
      /\ inserted' = [inserted EXCEPT ![a] = @ \cup {g}]
      /\ call' = [call EXCEPT ![a].pc = "new"]
      /\ UNCHANGED report

StoreConflict(a) ==
  /\ call[a].pc = "insert"
  /\ ~UniqueIndexAllows(call[a].game)
  /\ call' = [call EXCEPT ![a].pc = "db"]
  /\ UNCHANGED <<rows, ever, report, inserted>>

\* A storage failure of one of its queries; the transaction rolls back.
IngestDbError(a) ==
  /\ call[a].pc \in {"check", "insert"}
  /\ call' = [call EXCEPT ![a].pc = "db"]
  /\ UNCHANGED <<rows, ever, report, inserted>>

\* ingest_pgn_all takes the next game of the blob ...
NextOfBlob(a) ==
  /\ \E g \in report[a].todo :
        /\ BeginIngest(a, g)
        /\ report' = [report EXCEPT ![a].todo = @ \ {g}]
  /\ UNCHANGED <<rows, ever, inserted>>

\* ... and records its outcome: only a storage failure stops the loop.
RecordInReport(a) ==
  /\ call[a].pc \in {"new", "dup", "bad"}
  /\ report' = [report EXCEPT
       ![a].imported   = IF call[a].pc = "new" THEN @ + 1 ELSE @,
       ![a].duplicates = IF call[a].pc = "dup" THEN @ + 1 ELSE @,
       ![a].errors     = IF call[a].pc = "bad" THEN @ + 1 ELSE @]
  /\ call' = [call EXCEPT ![a] = NoCall]
  /\ UNCHANGED <<rows, ever, inserted>>

BlobDone(a) == report[a].todo = {} /\ call[a].pc = "none"

\* GameService::delete of one stored game.
DeleteGame(g) ==
  /\ rows[g] > 0
  /\ rows' = [rows EXCEPT ![g] = @ - 1]
  /\ UNCHANGED <<ever, call, report, inserted>>
=============================================================================
