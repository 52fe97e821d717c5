---------------------------- MODULE GameSearch -----------------------------
(***************************************************************************)
(* Searching games while games come and go: the header search with its     *)
(* keyset pages (search/headers.rs), the opening tree of the position      *)
(* index (search/position.rs) and the report over it (search/report.rs).   *)
(*                                                                         *)
(* A page is one query.  A report is three: the tree, the games that reach *)
(* the position, and their moves.  A game is added with its index rows in  *)
(* one transaction (ingest.rs) and deleted in two statements, rows first   *)
(* (games/mod.rs).                                                         *)
(***************************************************************************)
EXTENDS Integers, Sequences, FiniteSets, SequencesExt, Identity, Listing

CONSTANTS
  SearchClients,
  SearchUser,      \* who searches
  DatabaseOwner,   \* the owner of each database
  Shelf,           \* the games that may be added, as records
  SearchQueries,   \* the header queries asked
  After,           \* the position a move leads to: [<<position, move>> -> position]
  Asked,           \* the position reports are asked for
  MaxShelved,      \* bounds the games added
  MaxElo           \* above every sum of two ratings

ASSUME SearchAssumption ==
  /\ MaxElo \in Nat
  /\ \A game \in Shelf : /\ game.moves \in Seq(ToSet(game.moves))
                         /\ game.date \in Nat /\ game.white_elo \in Nat /\ game.black_elo \in Nat
  /\ \A q \in SearchQueries : q.sort \in {"id", "date", "elo"} /\ q.limit \in Nat \ {0}

Null == 0          \* a date or a rating the game does not have

VARIABLES
  shelved,         \* the games table: [id -> game]
  rows,            \* position_index
  added,           \* ids handed out
  scan,            \* each client's walk through the pages
  report           \* each client's position report

svars == <<shelved, rows, added, scan, report>>

-----------------------------------------------------------------------------
(* Ingest and deletion, as the search sees them.                           *)

PositionAfter(start, moves) == FoldLeft(LAMBDA p, m : After[<<p, m>>], start, moves)

\* The position before move i of a game; move 1 is played at ply 0.
PositionAt(game, i) == PositionAfter(game.start, SubSeq(game.moves, 1, i - 1))

\* ingest.rs: one row per move, under the position it was played from.  The
\* final position has no row.
IndexRows(id, game) ==
  {[game |-> id, ply |-> i - 1, zobrist |-> PositionAt(game, i),
    move |-> game.moves[i], database |-> game.database] :
     i \in DOMAIN game.moves}

AddGame(game) ==
  /\ added < MaxShelved
  /\ added' = added + 1
  /\ shelved' = [id \in DOMAIN shelved \cup {added + 1} |->
                   IF id = added + 1 THEN game ELSE shelved[id]]
  /\ rows' = rows \cup IndexRows(added + 1, game)
  /\ UNCHANGED <<scan, report>>

\* GameService::delete, its first and its second statement
DropRows(id) ==
  /\ \E r \in rows : r.game = id
  /\ rows' = {r \in rows : r.game # id}
  /\ UNCHANGED <<shelved, added, scan, report>>

DropShelved(id) ==
  /\ ~\E r \in rows : r.game = id
  /\ shelved' = [i \in DOMAIN shelved \ {id} |-> shelved[i]]
  /\ scan' = [c \in SearchClients |-> [scan[c] EXCEPT !.steady = @ \ {id}]]
  /\ UNCHANGED <<rows, added, report>>

-----------------------------------------------------------------------------
(* Header search.                                                          *)

\* visible_database_ids
visible_database_ids ==
  {d \in DOMAIN DatabaseOwner : InScope(DatabaseOwner[d], SearchUser)}

\* HeaderQuery::try_from, where it refuses: only the range can be wrong here.
Acceptable(q) == q.elo_min # Null /\ q.elo_max # Null => q.elo_min <= q.elo_max

Within(value, low, high) ==
  /\ low # Null => value # Null /\ value >= low
  /\ high # Null => value # Null /\ value <= high

\* The player filter of both searches: a color alone means nothing.
Plays(g, player, color) ==
  player # "" =>
    \/ color # "black" /\ g.white = player
    \/ color # "white" /\ g.black = player

\* search, its WHERE clause without the cursor
Matches(q, g) ==
  /\ g.database \in visible_database_ids
  /\ q.database # "" => g.database = q.database
  /\ Within(g.white_elo, q.elo_min, q.elo_max)
  /\ Within(g.black_elo, q.elo_min, q.elo_max)
  /\ Plays(g, q.player, q.color)
  /\ Within(g.date, q.date_from, q.date_to)

\* elo_missing_key: past every rated game, whichever way the page runs.
elo_missing_key(dir) == IF dir = "asc" THEN MaxElo ELSE -MaxElo

\* date_key, elo_key: the primary key; sorting by id has none.
SortKey(q, g) ==
  CASE q.sort = "id" -> 0
    [] q.sort = "date" -> g.date
    [] q.sort = "elo" ->
         IF g.white_elo # Null /\ g.black_elo # Null
         THEN g.white_elo + g.black_elo ELSE elo_missing_key(q.dir)

\* Mutant: the row the cursor names is served again.
Past_Inclusive(dir, a, b) ==
  IF dir = "asc" THEN b.key > a.key \/ (b.key = a.key /\ b.id >= a.id)
  ELSE b.key < a.key \/ (b.key = a.key /\ b.id <= a.id)

\* keyset: does b come after a
Past(dir, a, b) ==
  IF dir = "asc" THEN b.key > a.key \/ (b.key = a.key /\ b.id > a.id)
  ELSE b.key < a.key \/ (b.key = a.key /\ b.id < a.id)

\* What the client's cursor says was served last; it may be nothing.
NoCursor == [key |-> 0, id |-> 0]

\* cursor_for
cursor_for(q, id) == [key |-> SortKey(q, shelved[id]), id |-> id]

Eligible(q, cursor) ==
  {id \in DOMAIN shelved :
     /\ Matches(q, shelved[id])
     /\ cursor # NoCursor => Past(q.dir, cursor, cursor_for(q, id))}

InOrder(q, ids) ==
  InOrderOf(ids, LAMBDA a, b : Past(q.dir, cursor_for(q, a), cursor_for(q, b)))

\* Mutant: the cursor names the extra row that was fetched to look ahead.
LastServed_Extra(q, found, page) ==
  IF Len(found) > Len(page) THEN cursor_for(q, found[Len(page) + 1])
  ELSE NoCursor

\* search: next_cursor, of the last row of a page that is not the last
LastServed(q, found, page) ==
  IF Len(found) > Len(page) THEN cursor_for(q, Last(page)) ELSE NoCursor

\* The pages asked so far; a query is asked from its start once the last page
\* came without a cursor.
NoScan == [query |-> CHOOSE q \in SearchQueries : TRUE, cursor |-> NoCursor,
           served |-> <<>>, steady |-> {}, state |-> "idle"]

\* HeaderSearchService::search.  A client walks one query's pages or asks for
\* one report (a bound).
SearchPage(c, q) ==
  LET cursor == IF scan[c].state = "open" THEN scan[c].cursor ELSE NoCursor
      found == InOrder(q, Eligible(q, cursor))
      page == SubSeq(found, 1, IF Len(found) < q.limit THEN Len(found) ELSE q.limit)
      next == LastServed(q, found, page)
      before == IF scan[c].state = "open" THEN scan[c].served ELSE <<>>
  IN  /\ scan[c].state = "open" => q = scan[c].query
      /\ scan[c].state # "done" /\ report[c].stage = "idle"
      /\ Acceptable(q)
      /\ scan' = [scan EXCEPT ![c] =
           [query |-> q, cursor |-> next,
            served |-> before \o [i \in DOMAIN page |-> cursor_for(q, page[i])],
            steady |-> IF scan[c].state = "open" THEN @.steady
                       ELSE Eligible(q, NoCursor),
            state |-> IF next = NoCursor THEN "done" ELSE "open"]]
      /\ UNCHANGED <<shelved, rows, added, report>>

-----------------------------------------------------------------------------
(* The position report.                                                    *)

Here == {r \in rows : r.zobrist = Asked /\ r.database \in visible_database_ids}

\* Mutant: every visit of the position counts.
GamesPlaying_EveryVisit(move) == {r \in Here : r.move = move}

\* opening_tree: the distinct games that played a move from the position
GamesPlaying(move) == {r.game : r \in {x \in Here : x.move = move}}

\* opening_tree
OpeningTree == [m \in {r.move : r \in Here} |-> Cardinality(GamesPlaying(m))]

SetMin(S) == CHOOSE x \in S : \A y \in S : x <= y

NoPositionReport == [stage |-> "idle", tree |-> <<>>, arrival |-> <<>>, lines |-> {},
             of |-> 0]

\* position_report, its first query
AskReport(c) ==
  /\ report[c].stage = "idle" /\ scan[c].state = "idle"
  /\ report' = [report EXCEPT ![c] =
                  [NoPositionReport EXCEPT !.stage = "tree", !.tree = OpeningTree,
                                   !.of = Cardinality(DOMAIN shelved)]]
  /\ UNCHANGED <<shelved, rows, added, scan>>

\* transpositions, its first query: the ply at which each game first arrives
Arrivals(c) ==
  /\ report[c].stage = "tree"
  /\ report' = [report EXCEPT ![c].stage = "arrivals", ![c].arrival =
                  [g \in {r.game : r \in Here} |->
                     SetMin({r.ply : r \in {x \in Here : x.game = g}})]]
  /\ UNCHANGED <<shelved, rows, added, scan>>

\* Mutant: the move played from the position belongs to the line, too.
MovesBefore_OneMore(g, ply) ==
  LET mine == {r \in rows : r.game = g /\ r.ply <= ply}
  IN  [i \in 1..Cardinality(mine) |-> (CHOOSE r \in mine : r.ply = i - 1).move]

\* transpositions: the moves of a game below its arrival
MovesBefore(g, ply) ==
  LET mine == {r \in rows : r.game = g /\ r.ply < ply}
  IN  [i \in 1..Cardinality(mine) |-> (CHOOSE r \in mine : r.ply = i - 1).move]

\* transpositions, its second query.  It joins the games that have a row at the
\* position now; one that lost its rows since contributes the empty line.
Lines(c) ==
  /\ report[c].stage = "arrivals"
  /\ report' = [report EXCEPT ![c].stage = "done", ![c].lines =
                  {[game |-> g, line |-> MovesBefore(g, report[c].arrival[g])] :
                     g \in DOMAIN report[c].arrival}]
  /\ UNCHANGED <<shelved, rows, added, scan>>

-----------------------------------------------------------------------------
SearchInit ==
  /\ shelved = <<>> /\ rows = {} /\ added = 0
  /\ scan = [c \in SearchClients |-> NoScan]
  /\ report = [c \in SearchClients |-> NoPositionReport]

SearchNext ==
  \/ \E game \in Shelf : AddGame(game)
  \/ \E id \in DOMAIN shelved : DropRows(id) \/ DropShelved(id)
  \/ \E c \in SearchClients :
       \/ \E q \in SearchQueries : SearchPage(c, q)
       \/ AskReport(c) \/ Arrivals(c) \/ Lines(c)

SearchSpec == SearchInit /\ [][SearchNext]_svars

-----------------------------------------------------------------------------
\* Walking the pages serves no game twice, whatever is added or deleted between
\* two pages and however many games tie on the key, have no date or no rating.
PagesRepeatNothing ==
  \A c \in SearchClients : \A i, j \in DOMAIN scan[c].served :
    scan[c].served[i].id = scan[c].served[j].id => i = j

\* A walk that came to its last page has served every matching game that was
\* there from the first page to the last.  (headers.rs: page N+1 starts at the
\* key of the last row served, not at a count of rows.)
PagesMissNothing ==
  \A c \in SearchClients : scan[c].state = "done" =>
    \A id \in scan[c].steady : \E i \in DOMAIN scan[c].served :
      scan[c].served[i].id = id

\* A game counts once for a move it plays from the position, however often it
\* comes back to it.
GamesCountOnce ==
  \A c \in SearchClients : \A m \in DOMAIN report[c].tree :
    report[c].tree[m] <= report[c].of

\* Every line of a report, played from its game's start, reaches the position
\* asked for, as long as the game was there until the end of the report.
LinesReachThePosition ==
  \A c \in SearchClients : \A t \in report[c].lines :
    t.game \in DOMAIN shelved /\ (\E r \in rows : r.game = t.game) =>
      PositionAfter(shelved[t.game].start, t.line) = Asked

\* The tree and the lines of a report tell of the position that was asked for.
ReportIsTrue == GamesCountOnce /\ LinesReachThePosition
=============================================================================
