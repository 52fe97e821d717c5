----------------------------- MODULE LichessSync -----------------------------
(***************************************************************************)
(* The Lichess collector (src/src/collectors/lichess.rs) inside the import *)
(* service.  A run asks for the games played since its cursor and ingests  *)
(* them one by one while the export is still arriving: a game is complete  *)
(* once the next one has begun to arrive or the stream has ended.  The     *)
(* cursor follows the newest game seen.                                    *)
(*                                                                         *)
(* Lichess is external.  games_url asks for no order of the export: an     *)
(* orderly Lichess sends it oldest first and publishes games in the order  *)
(* they began (their Second), another one need do neither.                 *)
(***************************************************************************)
EXTENDS ImportService

CONSTANTS
  Second,         \* Second[g]: when game g began
  Undated,        \* games whose UTCDate/UTCTime tags do not parse
  Orders,         \* which Lichess is looked at: orderly (TRUE) or not
  LateFinishers,  \* games a disorderly one may publish after later-begun ones
  LichessRetries  \* MAX_RETRIES of fetch_with_backoff

ASSUME LichessAssumption ==
  /\ Second \in [Games -> Nat \ {0}]
  /\ Undated \subseteq Games
  /\ Orders \subseteq BOOLEAN
  /\ LateFinishers \subseteq Games
  /\ LichessRetries \in Nat

VARIABLES
  published,   \* the user's games that the export offers
  orderly,     \* whether the export is oldest first; it never changes
  stream       \* stream[a]: the export response a's run is reading

lichess == <<published, orderly>>
lichessVars == <<rows, ever, call, report, inserted, cursorRow, job, faults, published, orderly, stream>>

(***************************************************************************)
(* offered: the games of the response; todo: those not yet arriving; tail: *)
(* the trailing, possibly incomplete game in the buffer; attempt: the 429  *)
(* answers so far; whole: history, the games whose last byte is known to   *)
(* have come, for the next game came after it or the response ended well.  *)
(***************************************************************************)
NoStream == [offered |-> {}, todo |-> {}, tail |-> NoGame, attempt |-> 0, whole |-> {}]

StreamTypeOK ==
  /\ published \in SUBSET Games
  /\ orderly \in Orders
  /\ stream \in [Actors -> [offered : SUBSET Games, todo : SUBSET Games,
                            tail : Games \cup {NoGame}, attempt : 0 .. LichessRetries,
                            whole : SUBSET Games]]

LichessTypeOK == IngestTypeOK /\ ServiceTypeOK /\ StreamTypeOK

LichessInit ==
  /\ IngestInit
  /\ ServiceInit
  /\ published = {}
  /\ orderly \in Orders
  /\ stream = [a \in Actors |-> NoStream]

\* External: a game is over and joins the export.
LichessPublish(g) ==
  /\ g \notin published
  /\ (~orderly /\ g \in LateFinishers) \/ \A h \in published : Second[h] <= Second[g]
  /\ published' = published \cup {g}
  /\ UNCHANGED <<ingestVars, serviceVars, orderly, stream>>

\* game_epoch_ms, and advance_ms: the newer of the cursor and a candidate.
GameSecond(g) == IF g \in Undated THEN 0 ELSE Second[g]
Advance(current, candidate) == IF candidate > current THEN candidate ELSE current

\* Mutant: since is nudged past the boundary second.
ExportSince_Nudged(since) == {g \in published : since > 0 => Second[g] > since}

\* The response to since = cursor; the boundary second is asked for again.
ExportSince(since) == {g \in published : Second[g] >= since}

\* The games that can arrive next of the rest of a response.
Arriving(todo) ==
  {g \in todo : orderly => \A h \in todo : Second[g] <= Second[h]}

LichessRateLimited(a) ==
  /\ job[a].pc = "fetch"
  /\ stream[a].attempt < LichessRetries
  /\ Fault
  /\ stream' = [stream EXCEPT ![a].attempt = @ + 1]
  /\ UNCHANGED <<ingestVars, cursorRow, job, lichess>>

\* fetch_with_backoff gives up, or the request fails for another reason.
LichessFetchFails(a) ==
  /\ job[a].pc = "fetch"
  /\ Fault
  /\ EndCollector(a, TRUE)
  /\ stream' = [stream EXCEPT ![a] = NoStream]
  /\ UNCHANGED lichess

Respond(a) ==
  LET games == ExportSince(job[a].cursor)
  IN  /\ job[a].pc = "fetch"
      /\ job' = [job EXCEPT ![a].pc = "stream"]
      /\ stream' = [stream EXCEPT ![a] =
           [NoStream EXCEPT !.offered = games, !.todo = games]]
      /\ UNCHANGED <<ingestVars, cursorRow, faults, lichess>>

\* The stream is polled only between two ingest calls.
Polling(a) == job[a].pc = "stream" /\ call[a].pc = "none"

\* The next game begins to arrive, which completes the one before.
Chunk(a) ==
  /\ Polling(a)
  /\ \E g \in Arriving(stream[a].todo) :
        stream' = [stream EXCEPT ![a].todo = @ \ {g}, ![a].tail = g,
                                 ![a].whole = @ \cup ({stream[a].tail} \ {NoGame})]
  /\ IF stream[a].tail = NoGame THEN UNCHANGED call
                                ELSE BeginIngest(a, stream[a].tail)
  /\ UNCHANGED <<rows, ever, report, inserted, serviceVars, lichess>>

\* The stream ended: the game left in the buffer is complete.
FlushTail(a) ==
  /\ Polling(a)
  /\ stream[a].todo = {} /\ stream[a].tail # NoGame
  /\ BeginIngest(a, stream[a].tail)
  /\ stream' = [stream EXCEPT ![a].tail = NoGame, ![a].whole = @ \cup {stream[a].tail}]
  /\ UNCHANGED <<rows, ever, report, inserted, serviceVars, lichess>>

\* Mutant: the run ends with a game left in the buffer.
LichessSyncDone_NoFlush(a) ==
  /\ Polling(a)
  /\ stream[a].todo = {}
  /\ EndCollector(a, FALSE)
  /\ UNCHANGED <<faults, lichess, stream>>

LichessSyncDone(a) ==
  /\ Polling(a)
  /\ stream[a].todo = {} /\ stream[a].tail = NoGame
  /\ EndCollector(a, FALSE)
  /\ UNCHANGED <<faults, lichess, stream>>

\* Mutant: a broken connection ends the stream like a complete one, and the
\* buffer is flushed.
Dropped_Flushes(a) ==
  /\ Polling(a)
  /\ Fault
  /\ stream[a].tail # NoGame
  /\ BeginIngest(a, stream[a].tail)
  /\ stream' = [stream EXCEPT ![a].todo = {}, ![a].tail = NoGame]
  /\ UNCHANGED <<rows, ever, report, inserted, cursorRow, job, lichess>>

\* The connection breaks: what is left in the buffer is dropped.
Dropped(a) ==
  /\ Polling(a)
  /\ Fault
  /\ EndCollector(a, TRUE)
  /\ UNCHANGED <<lichess, stream>>

\* Mutant: a duplicate counts as imported.
Account_CountsAll(a) ==
  /\ job[a].pc = "stream"
  /\ call[a].pc \in {"new", "dup"}
  /\ job' = [job EXCEPT ![a].cursor = Advance(@, GameSecond(call[a].game)),
                        ![a].imported = @ + 1]
  /\ call' = [call EXCEPT ![a] = NoCall]
  /\ UNCHANGED <<rows, ever, report, inserted, cursorRow, faults, lichess, stream>>

\* ingest_blob after a stored or a duplicate game.
Account(a) ==
  /\ job[a].pc = "stream"
  /\ call[a].pc \in {"new", "dup"}
  /\ job' = [job EXCEPT
       ![a].cursor     = Advance(@, GameSecond(call[a].game)),
       ![a].imported   = IF call[a].pc = "new" THEN @ + 1 ELSE @,
       ![a].duplicates = IF call[a].pc = "dup" THEN @ + 1 ELSE @]
  /\ call' = [call EXCEPT ![a] = NoCall]
  /\ UNCHANGED <<rows, ever, report, inserted, cursorRow, faults, lichess, stream>>

\* Mutant: a storage failure is skipped like a bad game.
IngestFails_Skips(a) ==
  /\ job[a].pc = "stream"
  /\ call[a].pc \in {"bad", "db"}
  /\ call' = [call EXCEPT ![a] = NoCall]
  /\ UNCHANGED <<rows, ever, report, inserted, serviceVars, lichess, stream>>

\* ingest_blob gives up on any error, that of a bad game included.
IngestFails(a) ==
  /\ job[a].pc = "stream"
  /\ call[a].pc \in {"bad", "db"}
  /\ EndCollector(a, TRUE)
  /\ UNCHANGED <<faults, lichess, stream>>

LichessLose(a) == LoseRequest(a) /\ stream' = [stream EXCEPT ![a] = NoStream] /\ UNCHANGED lichess

LichessService(a) ==
  /\ \/ IngestStep(a)
     \/ FinishUpload(a)
     \/ FindCursor(a)
  /\ UNCHANGED <<lichess, stream>>

Save(a) ==
  /\ WriteCursor(a)
  /\ stream' = [stream EXCEPT ![a] = NoStream]
  /\ UNCHANGED lichess

LichessRequest(a) ==
  /\ \/ \E full \in BOOLEAN : StartSync(a, full)
     \/ \E gs \in Uploads : StartUpload(a, gs)
     \/ IngestFault(a)
  /\ UNCHANGED <<lichess, stream>>

LichessRemove(g) == RemoveGame(g) /\ UNCHANGED <<lichess, stream>>

LichessCollect(a) ==
  \/ Respond(a) \/ Chunk(a) \/ FlushTail(a) \/ LichessSyncDone(a) \/ Account(a) \/ IngestFails(a)

LichessNext ==
  \/ \E a \in Actors : \/ LichessService(a) \/ Save(a) \/ LichessRequest(a) \/ LichessCollect(a)
                       \/ LichessRateLimited(a) \/ LichessFetchFails(a) \/ Dropped(a) \/ LichessLose(a)
  \/ \E g \in Games : LichessPublish(g) \/ LichessRemove(g)

LichessSpec == LichessInit /\ [][LichessNext]_lichessVars

(***************************************************************************)
(* As in ChessComSync: ready tasks run, and the user keeps syncing.        *)
(***************************************************************************)
LichessStartIncremental(a) == StartSync(a, FALSE) /\ UNCHANGED <<lichess, stream>>

LichessFairness ==
  \A a \in Actors :
    /\ WF_lichessVars(LichessService(a) \/ Save(a) \/ LichessCollect(a))
    /\ SF_lichessVars(LichessStartIncremental(a))

LichessFairSpec == LichessSpec /\ LichessFairness

(***************************************************************************)
(* Properties.                                                             *)
(***************************************************************************)

\* What was begun to ingest, and what was stored, is a game whose whole text
\* had arrived: nothing the end of a chunk or a broken connection cut off.
\* It would be stored under the game's key, and the whole game refused as
\* its duplicate for ever.
IngestsWholeGames ==
  \A a \in Actors :
    job[a].pc \in {"stream", "find", "write"} =>
      /\ call[a].pc # "none" => call[a].game \in stream[a].whole
      /\ inserted[a] \subseteq stream[a].whole

\* A sync that reports success has stored, or found stored, every game of
\* the response it read; the counts it saves add up to that response.
SuccessIsComplete ==
  \A a \in Actors :
    job[a].pc \in {"find", "write"} /\ ~job[a].failed =>
      /\ stream[a].offered \subseteq ever
      /\ job[a].imported + job[a].duplicates = Cardinality(stream[a].offered)

\* Every acceptable game begun before the cursor has been stored: the next
\* sync, which asks for nothing older, skips no game.
LichessCoversHistory ==
  \A g \in published \ Bad : Second[g] < cursorRow.at => g \in ever

\* As long as the user keeps syncing and failures are finitely many, every
\* acceptable published game is stored in the end.
LichessEveryGameArrives == \A g \in Games \ Bad : g \in published ~> g \in ever

\* The service implements the abstract library; over a disorderly Lichess,
\* only the part of it that a game enters once and only if acceptable.
LichessLibrary == INSTANCE GameLibrary WITH
  When <- Second, library <- ever,
  published <- IF orderly THEN published ELSE {},
  horizon <- IF orderly THEN cursorRow.at ELSE 0
LichessImplementsLibrary == LichessLibrary!LibrarySpec
=============================================================================
