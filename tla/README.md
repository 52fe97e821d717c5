# Formal models of chess-base

TLA+ models of the parts of chess-base where order, failure and concurrency
decide whether the program is right, the TLC configurations that check them on
small instances, and proofs, checked by TLAPS, of the properties that matter
most for every value of the constants. Paths below are relative to the
repository; modules are named after the code they model.

## 1. The system and its parts

chess-base is one Rust process (axum, SeaORM over SQLite or Postgres) and a Vue
client. Handlers are async tasks: every `await` is a point where another task
runs, where the handler's future can be dropped because the client went away,
or where the process stops. What survives is in the database; what is shared in
memory is the engine pool, the explorer cache, the assistant's session maps.

| Component (source) | State | Operations | What is hard | What makes it correct |
|---|---|---|---|---|
| **Ingest** `ingest.rs` | `games`, `positions` rows; unique index on (database, source_ref) | `ingest_pgn`, `ingest_pgn_all` | check and insert are separate statements; skip-and-continue over a blob; a storage error in the middle | no game twice; counts are real |
| **Imports** `imports/` | `sync_cursors` row per (database, source, account) | `sync`, `import_pgn`, `cursor::{load,save}` | two syncs of one account; a failed run saves its progress; full sync; client lost | the cursor never leaves an acceptable game behind; retries converge |
| **Collectors** `collectors/{lichess,chesscom}.rs` | a run's cursor, buffer, months, counts | stream of games (Lichess), monthly archives (Chess.com), 429 retry | games cut by chunk boundaries, dropped streams, growing months, order of the export | only whole games stored; success means complete |
| **Bulk importer** `collectors/bulk.rs` | a batch in a transaction | flush, `find_or_create_master` | failure inside a batch; two first imports | as ingest, per batch |
| **Engine pool** `engine/{service,manager,budget}.rs` | semaphore, idle processes, a UCI process each | `analyse`, `analyse_multi`, job budgets | processes die or hang; deadlines; futures dropped in mid-search; options left set | permits conserved, no stale answer, every call returns |
| **Engine jobs** `review/service.rs`, `study_gen/`, `studies/` | the tree or list of evaluations being built, a job budget | review, generate, analyse study, shapes | the budget ends between two searches of one decision | a truncated result is still consistent; progress across retries |
| **Live analysis** `server/engine_ws.rs` | one engine per socket, `analysing` flag, watchdog | start / stop analysis, drain, limits | a new position during a search; a failed start | every line shown belongs to the current position |
| **Engine registry** `engine/registry.rs` | one JSON setting, default key | upsert, remove, set default, seed | read-modify-write of one row; two keys | the default names an entry |
| **Engine download** `engine/download.rs` | files on disk | ensure, verify, write | crash while writing | a file that is used has the pinned digest |
| **Studies** `studies/`, `pgn_tree.rs` | a move tree as JSON per study | add move, annotate, edit tree, analyse | whole-tree read-modify-write; node ids renumbered by a delete | edits go to the node meant; none lost |
| **Folders** `folders/mod.rs` | parent links | create, rename, reparent, delete | checks read before the write | the links stay a forest; nothing filed in a deleted folder |
| **Assistant** `ai/agent/` | sessions, event log, grants | open, delete, append, approve | queue that sheds, lagging subscriber, deletes | the log is a gapless prefix; live flag right |
| **LLM providers** `ai/providers.rs`, `ai/agent/provider_store.rs` | rows with a default flag, cached resolver | upsert, delete, rebuild | two defaults; an older snapshot cached | the cache converges to the table |
| **Assistant socket** `server/assistant_ws.rs` | per-socket subscription | open, prompt, replay | replay against live events | no event twice or lost |
| **Accounts**, **OAuth**, **service tokens** `auth/`, `server/routes/oauth.rs`, `service_tokens/` | users, token families | register, login, exchange, refresh | count before insert; single use of codes, rotation | a code is exchanged once; the first user is the admin |
| **Explorer** `explorer/mod.rs` | cache with TTL, back-off until | report, get | 429 back-off, stale entries, the cap | no call inside the back-off |
| **Search**, **position**, **openings**, **features**, **plans** | none | pure queries and functions | equal and missing sort keys in keyset pages | pages neither skip nor repeat |
| **Databases**, **games**, **settings**, **MCP tools**, **schema**, **frontend**, **binary** | rows, stores | CRUD, rendering, wiring | little of their own | |

Interactions: a sync handler calls a collector, which calls ingest game by game
and hands its cursor back to the import service. Everything that analyses
(review, study generation, MCP tools, the study editor) calls the engine pool,
most of it under a job budget. The study editor, the generator and merges all
write the same study row. Sockets stand between the client's stores and the
live engine or the assistant's broadcast bus.

## 2. Plan

The order follows what would hurt most: games silently missing from a database,
then analysis that stalls or answers for another position, then edits lost in a
study, then what an account or a conversation may do. Every model keeps its
recursion in functions or folds, so that it can be proved about; one action
stands for one operation, handler or statement between two awaits.

| Step | Modules | Composes | State |
|---|---|---|---|
| 1 | `GameIngest`, `ImportService`, `ChessComSync`, `LichessSync`; abstract `GameLibrary` | the collectors extend the service, which extends the ingest path | checked and proved |
| 2 | `EnginePool`; abstract `AnalysisCalls` | pool, UCI processes and job budgets | checked and proved |
| 3 | `AnalysisSocket`, `LiveAnalysis` | the server's task and the browser's store over one socket | checked; safety proved |
| 4 | `MoveTree`, `GameMerge`, `Movetext`, `StudyStore`, `StudyProperties` | the store over the pure tree, merge and PGN modules | checked; ids and the user's work proved |
| 5 | `Folders`, `Library`, `GameSearch`, `Listing`, `MastersExplorer`, `Schema`; `Collections` | `Collections` states what two of them promise of one listing; `MCCollections` runs them one at a time | checked; proved but for `Schema` |
| 6 | `Identity`, `Accounts`, `EngineRegistry`, `Providers`, `Assistant` | `MCAccess`, one at a time | checked and proved |
| 7 | `ToolPrograms`, `ToolCalls` | the calls over the programs of all tools | checked and proved |
| 8 | `Folding`; `CollectorProofs`, `EnginePoolProofs`, `LiveAnalysisProofs`, `StudyTreeProofs`, `StudyProofs`, `CollectionsProofs`, `AccessProofs` | the proofs, each over the modules of one step; `Folding` is what they all need of folds and recursion | proved |

Left for later: that a merge adds the legal prefixes of its games and no other line (the
part of `LinesAsPromised` that `StudyTreeProofs` comes closest to), and a conversation as its
browser shows it (log, replay and live events).

## 3. The models and the code

Module comments name the source file; `PROJECT.json` maps every definition to
its lines. What follows says how state and actions correspond.

### Imports: `GameIngest`, `ImportService`, `ChessComSync`, `LichessSync`

One target database. A game stands for its `source_ref` and its text, and `Bad`
are the texts that do not replay. Requests (`Actors`) are syncs and uploads.

* `rows` is the `games` table, `ever` the history of games that were committed
  (a game a user deletes does not come back); `call[a]` is the `ingest_pgn` call
  a request is in: *check* (before the existence query), *insert* (before the
  transaction), or its result. `report[a]` is `ingest_pgn_all`'s report.
  `CheckGame`, `StoreGame` and `StoreConflict` are the two statements, and the
  violation of the unique index when another request came between.
* `cursorRow` is the row of `sync_cursors`; `job[a]` the request with its cursor
  and counts. `FindCursor` and `WriteCursor` are the two statements of
  `cursor::save`, which runs after success and failure alike. `LoseRequest` is
  the handler's future dropped at an await, or the process stopped: everything in
  memory goes, what was committed stays.
* `ChessComSync`: `ListArchives`, `FetchMonth`, `MonthDone`, `MonthFails`,
  `SyncDone` are the steps of `sync_with`; `RateLimited` and `FetchFails` those of
  `fetch_text`. Months at or after the cursor are synced again, oldest first, and
  `Publish` (external) lets the newest month grow at any time.
* `LichessSync`: `stream[a]` is the export still to come, the games complete in
  the buffer and the cut-off tail; a chunk may end inside a game and the stream
  may break anywhere. Its `whole` is history: the games whose last byte is known to have
  come, since the next game came after it or the response ended well. `orderly` says whether the
  export comes oldest first: the code asks for no order, so it is drawn from `Orders` and not a
  fact; `LateFinishers` are games the provider publishes after newer ones.
* What the provider has to offer is `filed` at Chess.com and `published` at Lichess. The two
  collectors are separate modules over the same service; their operators are prefixed with
  the provider's name where both have one of the kind, so that one module can prove about both.
* A cursor is a number and 0 is `None`: the code compares and replaces cursors,
  it never computes with them. Times are ranks, for the same reason.

`GameLibrary` is what sync promises: games enter once, and the horizon may only
be moved to a point below which nothing acceptable is missing.

### Engine pool: `EnginePool`, `AnalysisCalls`

`permits` and `waiting` are the fair semaphore, `idle` the vector of idle
processes (popped from the end), `proc[e]` a UCI process: alive, its MultiPV
option, its search, its unread output. `task[c].pc` is the caller's place in
`analyse_multi`: *queue*, *checkout*, *spawn*, *options*, *ready*, *go*, *search*,
*giveback*, *quit*. `Fails` is every error and the deadline at any of these
points, `CutOff` the job budget that ends (`budget::bounded`, which drops the
future and answers the empty fallback), `Dropped` the caller's request that goes
away. `DropFuture` is what Rust's drop does in both: the permit returns and
`kill_on_drop` kills the process. `AnalysisCalls` is the service without pool or
processes; the refinement maps a call to what it asked (`Asked`) and what it
returned (`Answered`).

### Live analysis: `AnalysisSocket`, `LiveAnalysis`

`session[s]` is the task of `engine_ws.rs`: *spawn*, the select *loop*, *drain*
and *ready* (the two waits inside `start_analysis`, in which no message of the
client is read), *quit*, *over*; with `analysing`, `current_fen` and the
watchdog. `engine[s]` is its process with command and output queues: it takes
commands in order, answers `isready` at any time, ends a search on `stop`, or
by itself, or never, and may exit. `c2s[s]` and `s2c[s]` are the frames in flight.
An `info` frame carries two positions, the one searched and the one its planline
is traced from. `late` is a history variable: some wait of the session has run
out of time.

`store` is the Pinia store of the browser, `panel` the mounted `EnginePanel`,
`link[s]` the socket's readyState. `Mount` is `connect()`, `Unmount` is `stop()`
and `disconnect()`, `Open`, `Message` and `Closed` the socket's callbacks. As in
the code, `_send` uses the store's socket and the callbacks run for whichever
socket fires them. A closing socket delivers nothing more but its close event.

### Studies: `MoveTree`, `GameMerge`, `Movetext`, `StudyStore`, `StudyProperties`

`MoveTree` is the arena of `pgn_tree.rs`: node ids are indices, the first child is
the main continuation, a deletion renumbers. What a move does to a position is the
parameter `Plays`. What recurses along the arena (the preorder, the line to a node, the
nodes below one) is a function whose body asks only for nodes it can reach. `GameMerge` folds games into a repertoire tree with its
statistics, and pins transposition notes; `Movetext` is the PGN writer and the
reader with its stack of open variations. All three are operators and functions
of a tree.

A comment is the text on a move with the note that a transposition puts behind it, or
nothing. The code knows its own texts by how they begin and by nothing else, so a text
has a kind: *stats* and *note* are the code's, *user* a user's, *userstats* and *usernote* a
user's that begin as those two do; `ReadsAsStats` and `Base` cannot tell them apart. In an
export a text is written between braces as it is. `Inside` is what a reader finds up to the
first closing brace, `After` the tokens that the rest reads as, and `Parsed` what `shapes::parse` and
`eval::parse` make of the words inside: drawings and evaluations that the words themselves hold
are taken out of them, white space is collapsed. A comment is `Plain` if none of this changes it.

In `StudyStore`, `studies` is the table, `studyReq[c]` the request a
client has in flight: the row as it was loaded, the tree as edited, and *persist*
still to come. An edit loads, changes, and writes back, without a version check,
so two requests interleave between the load and the write. `views[c]` is what the
client has on its screen, and edits name nodes by the ids seen there. `promised`
is a history variable: the lines that edits which did not overlap have put into a
study. The engine's verdicts (`Verdict`), the arrows of a position (`Arrows`) and
the danger tree (`Dangers`) are parameters; names and filing are in `Folders`.

### Collections: `Folders`, `Library`, `GameSearch`, `Listing`, `MastersExplorer`, `Schema`

* `Folders`: `folders` and the `folder_id` of each study; every request reads,
  checks and writes in statements of its own, so `folderReq[c]` holds what it has
  read. `cascades` says whether the database fires the foreign key of a parent.
  A walk along parents or children is the least set closed under it, and a request
  whose walk would never end stays in *walking*.
* `Library`: databases, games with their index rows, the default database, and the
  bulk importer with its chunks, its batch and its find-or-create of the target.
  A PGN file is a sequence of tokens that chunks cut anywhere.
* `GameSearch`: a shelf of games that come and go while a client walks the pages
  of a header search, or asks for a report, which is three queries. `Listing` is what `ORDER BY`
  makes of a finite set of rows: `Library` lists by page number with it, `GameSearch` from a
  key on. `Collections` puts side by side what the two promise (`ListingsServeOnce`).
* `MastersExplorer`: `cache` with the time each entry was stored, `backoff` and the
  calls in flight; `clock` counts the time to live and the pause.
* `Schema`: the migrations as lists of statements over columns and unique indexes,
  run up by a server of any release and down by hand; a statement fails if the
  rows forbid it. `transactional` tells Postgres from SQLite.

### Access: `Identity`, `Accounts`, `EngineRegistry`, `Providers`, `Assistant`

* `Identity` is the caller and the two rules of `server/identity.rs` (`InScope`,
  `CanWrite`), which `Folders`, `Library`, `GameSearch`, `StudyStore` and the rest
  apply.
* `Accounts`: users, sessions, OAuth clients, consent requests, codes, token
  families, service tokens; a handler runs one statement a step. Expiry is an
  action of its own. A service token carries the label and the expiry its admin asks
  for, "local" among the labels: by that label alone a local start finds its token. `epoch`
  counts the passwords a user has had; `since` of a session or token is the epoch at
  which it was asked for, `approved` of a token the one at which the code it
  goes back to was. Both are history. A handler under way is a record of one shape for all requests,
  with what its next statements use: the user, the row, what it has read, and in
  `on` what it works on, by which `clashes` tells that two overlapped.
* `EngineRegistry`: the three settings rows, edits as read-modify-write, and what
  `serve` does when it starts: seed, extract, download to `.partial`, verify,
  rename, record. The list is the set of names in it, since nothing asks for its
  order. `disk` is the engines directory; a server may crash anywhere.
* `Providers`: the table, the cached catalogs and their rebuild, the resolution of
  a model, and the queue that hands a model to a new conversation. A rebuild reads
  the table in one step (`read`) and swaps in what it makes of it in another.
  `AbandonProvider` is a statement that fails or the handler dropped at an await; a
  rebuild that fails is only logged. What keeps the cache from following the table, two
  rebuilds that overlap or a handler that ended between its change and its rebuild, is
  in `providerRaces` until a rebuild has the table to itself again.
* `Assistant`: the broadcast `stream` of the engine, its bounded channel to the log
  writer (`backlog`), the `log`, a set of rows with their numbers for each
  conversation, the `index` rows and the `live` set that a subscriber keeps. `WriterDrops` is
  the writer's error path: a query fails or a record does not serialize, and the record
  is gone without a trace. `excused` is the history of what was lost so, shed by a full queue, cut off by a
  crash or deleted. The engine itself is a library: `EngineTakes` and `EngineIdles`
  say what the code relies on.

### Tools: `ToolPrograms`, `ToolCalls`

`ToolPrograms` gives every tool of the MCP registry as the steps of its handler, in
order: arguments it insists on, engine work, reads, writes. `ToolCalls` is the two
ways to them: `/mcp`, which admits a caller by token, scope and allowlist, and the
assistant, whose policy asks the user about gated tools and remembers the answer.

## 4. Runs

All runs finish with no state left; every bound is a constant of the `.cfg` or of
the MC module it names.

| Run | Instance | Shows |
|---|---|---|
| `ChessCom` | 2 requests, 3 games in 2 months, 1 bad game, uploads, a deletion, 1 failure at any point, 1 retry; incremental and full syncs | the cursor leaves no game behind (`ChessComCoversHistory`), the count is the games stored but for those of a month that a storage error broke off, which the cursor has looked at again (`ChessComCountsMonths`), each step is one of `GameLibrary` (`ChessComImplementsLibrary`) |
| `Lichess` | 2 requests, 3 games (two in one second), exports in order and in any order, an undated and a late game, a bad game, uploads, a deletion, 1 failure | no game twice (`NoDuplicateRows`), `ImportedCountIsReal`, only games that had wholly arrived are ingested (`IngestsWholeGames`), a run that reports success has taken all it was offered (`SuccessIsComplete`), and for an orderly export each step is one of `GameLibrary` (`LichessImplementsLibrary`) |
| `ImportLive` | 1 user who keeps syncing from either provider, 4 games, 2 failures; one bad game on Chess.com | every game arrives (`EveryGameArrives`) |
| `Pool` | a pool of 1, as the server runs it, 2 process identities; 3 callers, one in a job, and 2 positions, or 2 callers with 1 and 2 lines, a good and a malformed position | `PermitsConserved`, each answer is the one asked for (`ImplementsCalls`), every call returns (`EveryCallReturns`) |
| `Live` | 1 page and socket, 2 positions and a malformed one, 2 user actions after the first search, 1 info line a search | `PlansAreTracedFromTheirSearch`, `QuietWhenNotAnalysing`, `AnalysingIsTrue`, `EverySearchEnds`, `EngineIsFreed` |
| `Studies` | 1 client with 2 of all edits, or 2 clients with 3 of create, add, delete, analyse and share; trees of up to 4 moves, games that transpose | ids name the moves their client saw (`IdsNameTheirMoves`), a sound tree with the lines its edits put there (`LinesAsPromised`), passes leave the user's moves, drawings, glyphs and words alone, words that begin as a pass's own do apart (`PassesKeepUserWork`), exports whose comments are plain read back (`ExportsRoundTrip`), `PassesAreIdempotent` |
| `Collections` | folders: 2 requests at a time, 3 folders, 4 writes; library: 1 client beside 2 bulk imports of one file; explorer: 2 callers, 3 positions, a cap of 2; schema: releases 7, 9 and 11; search: up to 3 games, pages of 1 and 2 | `ForestUnlessMovesRace`; owners, sibling names and parents agree (`FoldersStayConsistent`); imports come to the same whatever interrupts them (`ImportsConverge`); `IndexFollowsGames`; pages neither skip nor repeat (`ListingsServeOnce`); `ReportIsTrue`; no release and no rows keep a server from starting (`MigrationsServe`); the pause after a 429 is kept (`QuietAfterLimit`) |
| `Access` | accounts: 2 handlers, 2 users; engines: 2 admins and 2 servers; providers: 2 callers; chats: 2 handlers on one conversation, a channel of 2, 1 crash; tools: 2 MCP callers and 2 sessions | one founder, and a local start seeds one token at a time (`FirstsAreOnce`); `ReplacedPasswordSignsOut`; `GrantsAreSpentOnce`; `RevocationsAreFinal`; list, default and files of the engines (`EnginesSettle`); `ModelsAreAsChosen`; the log is in order, and what a lagging tap lost is marked (`LogIsFaithful`; section 7 says what is not); `LiveIsHeld`; `ApprovalsStayInScope`; `BadArgumentsAreHarmless` |
| `LiveNextPage` | 2 pages one after the other | **violation** of `StoreOwnsItsSocket` (finding 1) |
| `LichessAnyOrder` | 1 request, 1 failure, any order | **violation** of `LichessCoversHistory` (finding 2) |
| `FolderWalks` | 2 requests, 3 folders, 6 writes | **violation** of `WalksEnd` (finding 3) |
| `StaleGrants` | as `Access` | **violation** of `ReplacedPasswordLeavesNoGrant` (finding 4) |

`Collections` and `Access` hold several components each and explore one at a time:
`focus` is chosen at the start and never changes. The components of one run share
no variable, so nothing is lost but the product of their state spaces. `Studies`
has two scenes for the same reason of size, one client with everything and two
clients with the edits whose interleaving can hurt.

Why these bounds are enough. The races of ingest and of the cursor row are
between two statements of two requests, so two requests, a game both want and
one that only one wants show them; three months or seconds let a cursor have a
game before, at and after it; two games in one month or second let a cursor rest
on one that still gains a game, and a later game lets it move past. One failure
can hit every step, and the liveness run takes two so that a retry can fail as
well. The pool needs more callers than processes and one more identity than the
pool holds, and two positions or two MultiPV values let a stale answer or option
be seen; pools of two are covered by the theorems of section 6. On the live socket a stale line needs a second position
while the first is searched. Read-modify-write and check-then-write take two
requests; a cycle of folders takes two moves, the walk into it a third folder and
a third request. Ids that shift take one deletion under one stale view. The
masters cache is at its cap with two entries and over it with a third. A page
walk needs a tie, a missing key and a game that comes between two pages; pages by number
are taken of one and of two rows. A log
loses an event when three are written to a channel of two.

`CHECK_DEADLOCK FALSE` is said of the runs whose components stop at their bounds or
whose page is closed.

## 5. Fairness

* Imports: the tasks of a request run when they can (`WF` of service and
  collector steps), and the user asks for an incremental sync again and again
  (`SF`: the request must be possible infinitely often, since it is refused while
  one runs). Failures are bounded by `MaxFaults`. Nothing is fair about full
  syncs, uploads, deletions or the provider.
* Pool: `WF` of each caller's own steps and of `Acquire`, because tokio's semaphore
  is first come, first served. A step that waits for an engine is joined with its
  failure (`Work \/ Fails`): the deadline of the code ends the wait, so nothing
  is assumed of an engine.
* Live analysis: `WF` of each branch of `select!` apart, because tokio polls the
  branches in random order and none that stays ready is put off for ever; `WF` of
  the waits, which have time limits. Neither the engine nor the user nor the
  network owes anything.
* The other models state safety only: their handlers are short sequences of
  statements, and nothing in them waits for another.

## 6. Proofs

All theorems are checked by TLAPS, for every value of the constants that the
named assumptions allow. The assumptions say that constants have their types; that
the set of games and the set of callers are finite; that the pool, a batch, a chunk, a
cache and a channel have room for one, and that 1 is a number of lines; that sockets
are numbered; that "none", "no handler" and the like are not what they stand beside
(`NoHandler`, `NoChatCall`, `NoProviderCall`, `NoEngine` and `NoTask` are no handler's
record, no user's id is NULL, "unstarted" is no provider's name); that the people who
edit engines are not the servers that start; that the moves of a game and the
files of a catalog are sequences; that every event of a file to import has its two tokens
and a date (`FileAssumption`); that ratings and dates are numbers and a page has room for one
(`SearchAssumption`); that the assistant's tools are among the registry's
(`AgentToolsAssumption`); and that what comes into a study from outside, drawings, tokens,
games and danger trees, has the shape its Rust type gives it (`StudyAssumption`; a danger tree is
built by `add_move`, so each of its nodes is newer than its parent).

Recursion and folds. The library states its induction theorems for an operator
parameter, which the provers cannot instantiate. `Folding` gets around that: it declares one
step of a fold, or the body of a recursion, as the CONSTANT `Op`, and what a step is to
preserve as the CONSTANT `Inv`, and proves by a least counterexample that the fold preserves it
(`Preserved`; `Followed` where the place in the sequence matters; `Appended`, `Alike`) and that a
recursive function whose body asks only for arguments of a lower rank satisfies its own
equation (`Recursion`). A module that folds instantiates it once per fold, with the
model's own step for `Op`.

The properties that runs list speak of rows and answers and are not inductive as
they stand: a handler in flight will write what it found some statements ago. Each
invariant below adds what is still true of that handler, up to the race, named in a
history variable, that may falsify it.

`CollectorProofs` begins with what both collectors share (types and storage), and proves for
`ChessComSync`:

* `ChessComTypeCorrect`, `ChessComStoredOnce` (`NoDuplicateRows`), `ChessComNothingSkipped`
  (`ChessComCoversHistory`) and `ChessComRefinesLibrary` (`ChessComImplementsLibrary`), from
* `ChessComInductive`: types and storage with `ChessComCursorsSafe`, `MonthsOK`,
  `OldestFirst` and `BatchCovers`. `ChessComCoversHistory` alone is not inductive: a
  run in flight will write its own cursor, so every run's cursor must be safe
  too; a safe cursor must stay safe when Chess.com files a new game, so some
  month at or after it has been opened; and while a month is being ingested, the
  games of that month not yet stored are still ahead of the run, because the
  months left are taken oldest first.

For `LichessSync` it proves `LichessTypeCorrect`, `LichessStoredOnce`
(`NoDuplicateRows`), `CountsReal` (`ImportedCountIsReal`), `WholeGames`
(`IngestsWholeGames`), `CompleteSuccess` (`SuccessIsComplete`), `LichessRefinesLibrary`
(`LichessImplementsLibrary`) and `LichessNothingSkipped`: `LichessCoversHistory` in every
history whose exports come oldest first. `LichessInductive` splits the games of a response into
those that wait, in the export, the buffer or the call, and those accounted for:
a game waits in one place (`Partitioned`), the counts of a run are the number of
games it accounted for (`Counted`), a run that returns carries the counts of what it
stored (`Returning`), and over an orderly export nothing older than a game of the
response is missing unless it waits (`Ordered`). Finding 2 is what the last part
says where the order is not given.

`EnginePoolProofs` proves for `EnginePool`: `TypeCorrect`, `PermitsKept`,
`PoolBounded`, `QuietPool`, `OwnAnswers` and `RefinesCalls`, from `Inductive`. Its
invariant has three parts: `Types`; `Places` (who holds a permit or a process:
counting permits needs the waiting callers apart from those inside, and
`ProcessesBounded` needs that every idle process was given back by somebody who
then lost his permit); and `Protocol` (what a process is doing at each point of
the call that owns it: before *go* it is quiet, while searching its search and its
output are of the call's position, and its MultiPV is at least what was set).

It proves for `EngineRegistry`, for any number of editors, starting servers and
crashes, `EnginesSettled` (`EnginesSettle`) from `EnginesInductive`, which has two halves.
In the registry, a request about to save holds the list that is there with its edit
made (`ListsCurrent`), one past its save knows whether its engine is listed, and a
selector that names nothing has a removal under way that will clear it
(`SelectorSound`); a starting server only adds (`ServersUpsert`), so that its crash leaves
no removal half done. In the directory, who writes a file writes it alone and nothing
half written has its final name (`FilesSound`), and each file of the catalog is whole or
still to do (`PlanProgress`).

`LiveAnalysisProofs` proves for `LiveAnalysis`: `TypeCorrect`, `PlansTraced`
(`PlansAreTracedFromTheirSearch`) and `QuietSession` (`QuietWhenNotAnalysing`),
from `Inductive`, and `AnalysingTrue` (`AnalysingIsTrue`), for any number of sockets and
positions and whatever the browser does. Neither of the first two is inductive: that a line read in the loop is of the
position analysed needs to know what the engine has still to read. The invariant
therefore says, for each place a session can be in, what its engine's two queues
hold: while it does not analyse, stray stops at most (`Quiet`); in a search, either
the *go* of `current_fen` is the first command left or the engine is in that
search, with its best move, if it was printed, last (`Running`); in the handshake,
*isready* is the last command and nothing else can answer it (`Configured`). A
wait that times out breaks this for good, which is why both properties exempt a
session that is `late`. `AnalysingTrue` relates both ends of the socket: while the store
claims to analyse, its socket is open (`OpenWhileAnalysing`), and either its last request
is on its way, in the frames or in the session's hands, to the search that the loop
relays, or the news that there is none, an error or a best move, is on its way back
(`Truthful`). This half exempts nobody.

`StudyTreeProofs` and `StudyProofs` are about the studies, for any chess, any trees and games,
any number of clients and of edits under way. They prove

* `IdsHold` (`IdsNameTheirMoves`): an id in a good view, one whose study nobody has
  renumbered since, names the move its client saw, and `add_move` answers with the id of its
  own move;
* `WorkIsKept` (`PassesKeepUserWork`): no pass of the program drops a move, a positional
  glyph or a drawing of the user, nor any of the user's words that do not begin as a pass's own
  do; section 7 says what becomes of the others. It has two hypotheses about the parameters, which the
  code satisfies: a verdict's glyph is one of the quality glyphs or none (`GlyphVerdicts`,
  `review/classify.rs:61`), and the arrows the shapes pass draws have generated brushes
  (`ArrowsAreGenerated`, `study_gen/plan_shapes.rs:56`). The definitions of `MCStudies` for the
  two satisfy them too;
* both from `StudiesStaySound`. `StudyInv` says three things that the properties do not. Every
  tree stored, shown, read or about to be written is an `Arena`: its ids are dense, a rank
  rises from each parent to its child, and the nodes that hang from the root know their
  parents. The rank is what makes the recursive functions of `MoveTree` well defined; it
  cannot be the id, since a compaction numbers in preorder and a later move may put an
  older node behind a newer one. What a request will write extends what it read (`Extends`: the
  same ids, the same line to each), unless it is a deletion, and if it is a pass it leaves the
  user's work (`Work`). And a good view, like a request that has written and is to
  answer, is extended by the row as it is now: every write that is not the one
  of a racing or deleting request extends the row it replaces (`Onward`), and the ones
  that do not are those that take the view's `good` and the request's `intact` away.

The lemmas of `StudyTreeProofs` are what each algorithm does to a tree, and the only place
where folds are opened: `Preorder` lists the nodes that hang from the root, each
once; `Compact`, which ends a deletion, gives an arena again; `AddMove` adds one node or
none; `Graft`, the merge of games, the ordering of branches and the transposition notes
change a tree only by moves behind and comments; the PGN reader returns an arena for any
token list, with unbalanced variations too.

`CollectionsProofs` proves for `Folders`: `ForestKept` (`ForestUnlessMovesRace`) and
`Consistent` (`FoldersStayConsistent`), from `Inductive`, for any number of requests,
users, folders and studies, and for a database that cascades or not. `IInv` adds what
is still true of each request: no id
it names is yet to be dealt (`Keys`), the owners it compared are as they were
(`Owned`), the name it found free is free (`Named`), the rows it found exist and a
subtree it read is whole (`Held`), and the ancestors of the parent it moves a folder
to do not hold that folder (`Forest`). The last three of these end, as the
properties do, with a race of the kind that `raced` records; owners need no such
exemption. A walk is the least set closed under "parent of", so that a folder keeps
out of its own ancestry is shown by a closed set without it: for the row that moves
(`MovedRow`), the old ancestry joined with that of the new parent.

For `Library` it proves `RowsFollowGames` (`IndexFollowsGames`) and `MasterIsOne`
(`OneMaster`). Ids of games
are dealt once, a batch brings games and index rows at once, and a deletion that has
taken the rows still has the game to delete (`LInv`); whoever is about to create the
master database is alone and found none (`MInv`). `ImportsSettle` is all of `ImportsConverge`:
for any file, chunks and batches, what a run has stored, what waits in its batch and what it
has still to cut off the file are together the games of the file, whatever a chunk's end falls
upon, and its counts add up to those behind it. `PagesOnce` (`PagesPartition`): a row's
place in a page is the number of rows before it, so that a strict total order deals each
place once. For `MastersExplorer` it proves
`QuietPause` (`QuietAfterLimit`; the pause always runs from the last 429) and
`CacheBounded`, that no more positions are kept than the cap. For `GameSearch` it proves
`ReportsAreTrue` (`ReportIsTrue`): a game has all of its index rows or none and an id is
never dealt twice (`Shelves`, `WholeGames`), so the rows a report read of a game are true
of it for as long as one of them is left: the ply at which a game arrives (`Arrived`) and
the line that leads there (`Lined`, by counting the rows before that ply). What a move
does to a position is any function. `SearchServesOnce` (`PagesRepeatNothing` and
`PagesMissNothing`): what a walk has served lies at or before its key in the order of the
query, ties broken by id and missing keys at their end, and what matched throughout
and lies before the key has been served; `ListingsOnce` (`ListingsServeOnce`) is this
and `PagesOnce` together.

`AccessProofs` proves for `Accounts`: `FirstsOnce` (`FirstsAreOnce`), `ReplacedSignsOut`
(`ReplacedPasswordSignsOut`), `SpentOnce` (`GrantsAreSpentOnce`) and `RevokedForGood`
(`RevocationsAreFinal`, an action property), from `Inductive`, for any number of handlers,
users and requests. Its invariant is what each handler has found and relies on
(`Promise`): no code yet for its consent request, no token yet for its code, no other
live token in the family it rotates, no user yet when it is the founder; and what the
tables agree on (`RowsOK`). `ReplacedSignsOut` speaks of when a session or token was asked
for, and not of the consent behind it, of which finding 4 shows that it may be older. Two handlers
that work on the same thing at a time are always in `clashes` (`Overlaps`), which is why a handler's
finding holds outside of `clashes`.

For `ToolCalls` it proves `ApprovedInScope` (`ApprovalsStayInScope`), from the
fact that every grant, in memory, on its way or stored, goes back to an answer of its
user (`GrantsInductive`), and `RefusalsAreHarmless` (`BadArgumentsAreHarmless`): in the program of each
tool, whichever optional arguments it is given and with or without an engine, nothing that
writes or asks the engine comes before an argument that may be refused. For `Assistant` it proves `FaithfulLog` (`LogIsFaithful`) and `HeldIsLive`
(`LiveIsHeld`). The log: what waits for the writer is in order and after what is written (`Queued`),
rows have numbers of their own that follow the events (`Numbered`), and every event heard is in the
log, in the queue, under a gap in either, or one that the full queue or the failing writer let go
(`Told`). The live set: the last news of a conversation is how it is (`NewsIsTrue`),
without news what is listed is what the engine holds or will hold once it has its messages
(`Listed`), and only a deletion puts a listed conversation away (`HandlerSound`,
`HibernatesAreDeletes`); all but the first hold until a race is recorded. For `Providers` it proves
`ModelsChosen` (`ModelsAreAsChosen`): a handler that is to write a default has the others of its
owner before it or behind it (`DefaultsCleared`), a cache that differs from the table has a handler
that is still to read or to swap, until a rebuild overlaps another or a handler ends before its own
(`CacheBehind`), and what is pending for a user is what its one conversation yet to start has chosen
(`PinsPending`).

`TypeCorrect` of `EnginePool` and `LiveAnalysis`, `ChessComTypeCorrect`, `LichessTypeCorrect`,
`PoolBounded`, `QuietPool`, `OwnAnswers`, `MasterIsOne`, `CacheBounded`, `PagesOnce`,
`SearchServesOnce` and `LichessNothingSkipped` state properties that no run lists as they stand,
most of them parts of one that a run does list; a wrong answer of the pool would show in
`ImplementsCalls`.

Only model-checked:

* all liveness (`EveryGameArrives`, `EveryCallReturns`, `EverySearchEnds`,
  `EngineIsFreed`), which the prover does not do, and `WalksEnd`, which is false
  (finding 3);
* what an algorithm on trees computes, as against what it keeps: that a study holds exactly the
  lines its edits put there (`LinesAsPromised`), that an export reads back (`ExportsRoundTrip`)
  and that passes are idempotent (`PassesAreIdempotent`). Each compares two recursions over the
  whole tree, a writer with a reader or a merge with its own result, and needs an
  induction of its own for every pair of their cases;
* the migrations (`MigrationsServe`), a computation over the concrete tables of three releases.

## 7. Findings

1. **The next page loses its socket** (`LiveNextPage`). `onclose` of the page the
   user left sets the store's `socket` to null after the next page has connected;
   that page then shows no evaluation.
2. **Lichess cursor may skip games** (`LichessAnyOrder`). The collector requests no
   order, moves its cursor to the newest game seen and saves it after a failure:
   with an export that is not oldest first, games it never reached lie before
   the saved cursor. The run `Lichess` and the theorem
   `LichessNothingSkipped` show that the order is all that is missing;
   `ChessComNothingSkipped` shows that the Chess.com collector, which sorts its months, does
   not have the problem.
3. **A folder walk without an end** (`FolderWalks`). Two moves at once can close a
   cycle of parents; `is_descendant` keeps no set of what it has seen, so a third
   move under one of the two walks for ever on a runtime thread.
4. **A grant that outlives the password** (`StaleGrants`). Replacing a password drops sessions and
   revokes tokens, but leaves codes and consent requests; a code issued before is
   exchanged after it for tokens that work, against ADR-0055.

Seen while modelling, in no run of their own:

* imports: one Lichess game that does not replay ends its sync, and every retry
  stops there (`lichess.rs:233`, where `ingest.rs:32` continues); a storage error in a
  Chess.com month loses the counts of the games of that month already stored
  (`chesscom.rs:149`; `ChessComCountsMonths` says that no more is lost); a full Lichess sync that
  fails early replaces an advanced cursor by none (it re-reads the account, nothing is lost);
* studies: `analyse_study` writes back the tree it loaded before the engine pass and
  so takes along every edit made meanwhile (`studies/mod.rs:563`); a merge knows its own
  comments by a number and " game" (`merge.rs:200`), the transposition pass its own by
  their first words, and a user's words that begin so ("12 games I lost here") are
  overwritten, where `merge.rs:160` says that they are left alone; a comment is exported
  between braces as it is (`pgn.rs:309`), and a "}" in it ends it early, so that an import reads the
  rest as moves; drawings and evaluations
  that a user types into a comment become the move's own on an import, and an export
  keeps neither the drawings, the glyphs nor the evaluation of the start position; the exported text
  with evaluations ignores a start position; transposition notes go stale when the tree is
  edited after;
* search: a game deleted between two queries of a report leaves an empty line;
* accounts: a local start finds its token by the label "local" alone (`server/auth.rs:160`), which an
  admin may give to a token for anybody, read-only or expiring: that one is printed, and none is
  seeded, where `auth.rs:156` says that the token is the local admin's, with full rights;
* providers: of two rebuilds of the cache that overlap the slower may hold the older rows, and
  they stay (`provider_store.rs:178`); a rebuild that fails is only logged (`routes/providers.rs:41`);
  in both cases the change was answered as a success, and the next rebuild makes up for it;
* the log: a record that the full queue refuses (`persistence.rs:58`), or that the writer fails to
  store (`persistence.rs:110`), leaves no tombstone, and its number goes to the next record,
  where `persistence.rs:8` says that loss is still detected;
* approvals: the assistant's policy asks about the tools in `GATED_TOOLS` (`agent/mod.rs:33`), and
  `opening_tree` and `danger_map`, which store a study when they are given `save_as`, are not
  among them, where ADR-0025 says that every write is approved;
* tools: `db_read_game`, on the anonymous allowlist, searches when asked for
  `annotated`, where `mcp/mod.rs:64` says no engine is reached;
* live analysis: an info line in flight when a new search starts is folded into
  the new lines; after a drain that timed out, `start_analysis` treats a busy
  engine as idle (`late` in the model: the two properties of the session hold until
  then and not after); an engine that dies while the session is not analysing is
  noticed only at the next request, which fails.

Properties such as `FoldersStayConsistent` are conjunctions of named parts, and each
part has a mutant of its own in `PROJECT.json`. A part whose name says *Unless* holds as long as the requests it names did
not overlap. The models record in history variables which requests did; the
code has no lock or version check that would forbid it.

## 8. Not modelled

`PROJECT.json` lists every component with its reason. Chess rules, openings,
features and plans are pure functions of a position, most of them the shakmaty
library's. Study generation and the game review are sequential pipelines that
build a value in memory out of engine calls: what can go wrong around them is in
`EnginePool`, `StudyStore` and `ToolPrograms`, the arithmetic on evaluations is not. The
wire clients of language models translate one call to HTTP. The replay of a
conversation to a socket, the assistant's store, the explorer view and the play
mode of the analysis panel are not modelled yet. In the modelled parts, PGN
text, UCI text, HTTP, SQL and JSON are left out except for what fails or
reorders; `shutdown` of the pool is called by tests only.
