------------------------------ MODULE Library ------------------------------
(***************************************************************************)
(* Collections and their games: databases/mod.rs, games/mod.rs, the bulk   *)
(* importer of master games (collectors/bulk.rs) and the one setting that  *)
(* names a database (settings/mod.rs).  Each statement stands alone except *)
(* a bulk batch, which is one transaction.  Foreign keys are enforced: a   *)
(* database that games refer to cannot be deleted.  A rejected request     *)
(* changes nothing and is left out.                                        *)
(***************************************************************************)
EXTENDS Identity, Listing, Naturals, FiniteSets, Sequences, SequencesExt, TLC

CONSTANTS LibraryClients, LibraryUsers, Importers,
          PgnFile,              \* the imported file: a sequence of tokens
          Unreadable, Illegal,  \* games that parse_pgn, prepare_game refuse
          DateOf,               \* game -> its Date, 0 when it has none
          ChunkSize, BatchSize, \* tokens of one read, games of one transaction
          MAX_LIMIT,            \* games of the longest page
          MaxDatabases, MaxLibraryWrites, NoTask

\* What the deletion of a game has left to do.
Deletions == [op : {"unindex", "deletegame"}, id : Nat, to : {0}, by : LibraryUsers]

ASSUME LibraryAssumption ==
  /\ ChunkSize \in Nat \ {0} /\ BatchSize \in Nat \ {0} /\ MAX_LIMIT \in Nat
  /\ NoTask \notin Deletions
  /\ PgnFile \in Seq(ToSet(PgnFile))
  /\ \A key \in DOMAIN DateOf : DateOf[key] \in Nat

VARIABLES databases,  \* id -> [owner, name]
          nextDatabase,
          games,      \* id -> [db, key, public]; key is source_ref
          nextGame,
          indexed,    \* the games that have their position_index rows
          defaults,   \* user -> default_database_id, 0 for none
          libReq, bulk, libWrites, libRace, dropped
libraryVars == <<databases, nextDatabase, games, nextGame, indexed, defaults,
                 libReq, bulk, libWrites, libRace, dropped>>
tables == <<databases, nextDatabase, games, nextGame, indexed, defaults>>

NoReport == [imported |-> 0, duplicates |-> 0, errors |-> 0]
NoRun == [pc |-> "idle", db |-> 0, at |-> 0, buf |-> <<>>, todo |-> <<>>,
          seen |-> {}, batch |-> <<>>, report |-> NoReport]

LibraryInit ==
  /\ databases = <<>> /\ nextDatabase = 1
  /\ games = <<>> /\ nextGame = 1
  /\ indexed = {} /\ dropped = {} /\ libRace = {}
  /\ defaults = [u \in {v.id : v \in LibraryUsers} |-> 0]
  /\ libReq = [c \in LibraryClients |-> NoTask]
  /\ bulk = [b \in Importers |-> NoRun]
  /\ libWrites = 0

Visible(d, user)    == d \in DOMAIN databases /\ InScope(databases[d].owner, user)
MayChange(d, user)  == d \in DOMAIN databases /\ CanWrite(databases[d].owner, user)
GamesOf(d)          == {g \in DOMAIN games : games[g].db = d}
GameKeys(d)         == {games[g].key : g \in GamesOf(d)}

\* GameService::get: a shared game is read past the ownership of its database.
Readable(g, user) == g \in DOMAIN games /\ (games[g].public \/ Visible(games[g].db, user))

(***************************************************************************)
(* GameService::list: a page of the games in the chosen order, the id      *)
(* breaking ties in the same direction.                                    *)
(***************************************************************************)
Before(dir, g, h) ==
  LET before(i, j) == LET a == DateOf[games[i].key] b == DateOf[games[j].key]
                      IN a < b \/ (a = b /\ i < j)
  IN IF dir = "asc" THEN before(g, h) ELSE before(h, g)
Ordered(d, dir) == InOrderOf(GamesOf(d), LAMBDA g, h : Before(dir, g, h))

\* Mutant: pages are counted from one.
Page_FromOne(d, dir, page, limit) ==
  LET n == Cardinality(GamesOf(d)) IN
  SubSeq(Ordered(d, dir), (page - 1) * limit + 1, IF page * limit < n THEN page * limit ELSE n)

Page(d, dir, page, limit) ==
  LET n == Cardinality(GamesOf(d)) IN
  SubSeq(Ordered(d, dir), page * limit + 1, IF page * limit + limit < n THEN page * limit + limit ELSE n)

(***************************************************************************)
(* Requests.                                                               *)
(***************************************************************************)
Task(c, task) ==
  /\ libReq[c] = NoTask
  /\ libWrites < MaxLibraryWrites
  /\ libWrites' = libWrites + 1
  /\ libReq' = [libReq EXCEPT ![c] = task]
  /\ UNCHANGED <<tables, bulk, libRace, dropped>>

\* A table with one row more; the games with those of a batch.
WithRow(t, id, row) == [i \in DOMAIN t \cup {id} |-> IF i = id THEN row ELSE t[i]]
WithBatch(d, batch) ==
  LET ids == nextGame .. nextGame + Len(batch) - 1 IN
  [g \in DOMAIN games \cup ids |->
     IF g \in ids THEN [db |-> d, key |-> batch[g - nextGame + 1], public |-> FALSE] ELSE games[g]]

\* A namesake made or unmade between an importer's lookup and its insert.
Namesake(owner) ==
  libRace' = libRace \cup (IF owner = Global THEN {"lookup"} ELSE {})

CreateDatabase(user, name, global) ==
  LET owner == IF global THEN Global ELSE user.id IN
  /\ global => MayAdminister(user)
  /\ libWrites < MaxLibraryWrites /\ libWrites' = libWrites + 1
  /\ nextDatabase <= MaxDatabases /\ nextDatabase' = nextDatabase + 1
  /\ databases' = WithRow(databases, nextDatabase, [owner |-> owner, name |-> name])
  /\ Namesake(owner)
  /\ UNCHANGED <<games, nextGame, indexed, defaults, libReq, bulk, dropped>>

\* load_writable; what follows writes only its own columns.
RenameDatabase(c, user, d, name) ==
  MayChange(d, user) /\ Task(c, [op |-> "rename", id |-> d, to |-> name, by |-> user])
DeleteDatabase(c, user, d) ==
  MayChange(d, user) /\ Task(c, [op |-> "deletedb", id |-> d, to |-> 0, by |-> user])

\* Mutant: the index rows are left to the foreign key.
DeleteGame_KeepsIndex(c, user, g) ==
  /\ g \in DOMAIN games /\ Visible(games[g].db, user) /\ MayChange(games[g].db, user)
  /\ Task(c, [op |-> "deletegame", id |-> g, to |-> 0, by |-> user])

\* GameService::delete and set_public look up the game and its database.
DeleteGame(c, user, g) ==
  /\ g \in DOMAIN games /\ Visible(games[g].db, user) /\ MayChange(games[g].db, user)
  /\ Task(c, [op |-> "unindex", id |-> g, to |-> 0, by |-> user])
SetGamePublic(c, user, g, flag) ==
  /\ g \in DOMAIN games /\ Visible(games[g].db, user) /\ MayChange(games[g].db, user)
  /\ Task(c, [op |-> "share", id |-> g, to |-> flag, by |-> user])

\* SettingsService::validate
PutDefault(c, user, d) ==
  /\ d # 0 => Visible(d, user)
  /\ Task(c, [op |-> "default", id |-> d, to |-> 0, by |-> user])

Written(c) == libReq' = [libReq EXCEPT ![c] = NoTask] /\ UNCHANGED <<nextDatabase, nextGame, bulk, libWrites>>
Has(c, op) == libReq[c] # NoTask /\ libReq[c].op = op

WriteRename(c) ==
  LET r == libReq[c] IN
  /\ Has(c, "rename")
  /\ databases' = IF r.id \in DOMAIN databases THEN [databases EXCEPT ![r.id].name = r.to] ELSE databases
  /\ Namesake(IF r.id \in DOMAIN databases THEN databases[r.id].owner ELSE r.by.id)
  /\ Written(c)
  /\ UNCHANGED <<games, indexed, defaults, dropped>>

WriteDeleteDatabase(c) ==
  LET r == libReq[c] IN
  /\ Has(c, "deletedb")
  /\ databases' = IF GamesOf(r.id) = {} THEN [d \in DOMAIN databases \ {r.id} |-> databases[d]] ELSE databases
  /\ Written(c)
  /\ UNCHANGED <<games, indexed, defaults, libRace, dropped>>

DropIndexRows(c) ==
  /\ Has(c, "unindex")
  /\ indexed' = indexed \ {libReq[c].id}
  /\ libReq' = [libReq EXCEPT ![c].op = "deletegame"]
  /\ UNCHANGED <<databases, nextDatabase, games, nextGame, defaults, bulk, libWrites, libRace, dropped>>

DropGame(c) ==
  LET g == libReq[c].id IN
  /\ Has(c, "deletegame")
  /\ games' = [h \in DOMAIN games \ {g} |-> games[h]]
  /\ dropped' = dropped \cup (IF g \in DOMAIN games THEN {games[g].key} ELSE {})
  /\ Written(c)
  /\ UNCHANGED <<databases, indexed, defaults, libRace>>

WriteShare(c) ==
  LET r == libReq[c] IN
  /\ Has(c, "share")
  /\ games' = IF r.id \in DOMAIN games THEN [games EXCEPT ![r.id].public = r.to] ELSE games
  /\ Written(c)
  /\ UNCHANGED <<databases, indexed, defaults, libRace, dropped>>

WriteDefault(c) ==
  LET r == libReq[c] IN
  /\ Has(c, "default")
  /\ defaults' = [defaults EXCEPT ![r.by.id] = r.id]
  /\ Written(c)
  /\ UNCHANGED <<databases, games, indexed, libRace, dropped>>

\* The client goes away: the handler's future is dropped where it awaits.
DropRequest(c) ==
  /\ libReq[c] # NoTask
  /\ libRace' = libRace \cup (IF Has(c, "deletegame") THEN {"cut"} ELSE {})
  /\ Written(c)
  /\ UNCHANGED <<databases, games, indexed, defaults, dropped>>

(***************************************************************************)
(* The bulk importer.  event_offsets finds the marker, here the two tokens *)
(* "[" "Event", at the start of a line; the offsets are from 1.            *)
(***************************************************************************)
EventOffsets(buf) ==
  {i \in 1 .. Len(buf) - 1 : /\ i = 1 \/ buf[i - 1] = "nl"
                             /\ buf[i] = "[" /\ buf[i + 1] = "Event"}

\* split_games, each game named by its third token.
SplitGames(blob) ==
  LET starts == InOrderOf(EventOffsets(blob), LAMBDA a, b : a < b) IN
  [i \in 1 .. Cardinality(EventOffsets(blob)) |-> blob[starts[i] + 2]]

\* A marker is the beginning of a game, and its games are what DateOf describes.
ASSUME FileAssumption ==
  \A i \in EventOffsets(PgnFile) : i + 2 <= Len(PgnFile) /\ PgnFile[i + 2] \in DOMAIN DateOf

Running(b, pc) == bulk[b].pc = pc
Run(b, run) == bulk' = [bulk EXCEPT ![b] = run]
MasterName == "Master Database"

\* Mutant: the lookup compares the owner with NULL, which is never true.
FindMaster_EqNull(b) ==
  /\ Running(b, "idle")
  /\ libWrites < MaxLibraryWrites /\ libWrites' = libWrites + 1
  /\ Run(b, [NoRun EXCEPT !.pc = "create"])
  /\ libRace' = libRace \cup (IF \E o \in Importers \ {b} : Running(o, "create") THEN {"lookup"} ELSE {})
  /\ UNCHANGED <<tables, libReq, dropped>>

\* find_or_create_master: the lookup, and the insert when it found nothing.
FindMaster(b) ==
  LET named == {d \in DOMAIN databases : databases[d] = [owner |-> Global, name |-> MasterName]} IN
  /\ Running(b, "idle")
  /\ libWrites < MaxLibraryWrites /\ libWrites' = libWrites + 1
  /\ IF named = {} THEN Run(b, [NoRun EXCEPT !.pc = "create"])
     ELSE \E d \in named : Run(b, [NoRun EXCEPT !.pc = "read", !.db = d])
  /\ libRace' = libRace \cup (IF \E o \in Importers \ {b} : Running(o, "create") THEN {"lookup"} ELSE {})
  /\ UNCHANGED <<tables, libReq, dropped>>

CreateMaster(b) ==
  /\ Running(b, "create")
  /\ nextDatabase <= MaxDatabases /\ nextDatabase' = nextDatabase + 1
  /\ databases' = WithRow(databases, nextDatabase, [owner |-> Global, name |-> MasterName])
  /\ Run(b, [bulk[b] EXCEPT !.pc = "read", !.db = nextDatabase])
  /\ UNCHANGED <<games, nextGame, indexed, defaults, libReq, libWrites, libRace, dropped>>

\* Mutant: what follows the last marker is dropped with the games before it.
ReadChunk_DropsRest(b) ==
  LET r    == bulk[b]
      rest == Len(PgnFile) - r.at
      n    == IF rest < ChunkSize THEN rest ELSE ChunkSize
      buf  == r.buf \o SubSeq(PgnFile, r.at + 1, r.at + n)
      offs == EventOffsets(buf)
      last == CHOOSE i \in offs : \A j \in offs : j <= i
  IN /\ Running(b, "read") /\ r.todo = <<>>
     /\ Run(b, IF n = 0 THEN [r EXCEPT !.pc = "tail", !.todo = SplitGames(buf), !.buf = <<>>]
               ELSE IF Cardinality(offs) >= 2
               THEN [r EXCEPT !.at = r.at + n, !.todo = SplitGames(SubSeq(buf, 1, last - 1)), !.buf = <<>>]
               ELSE [r EXCEPT !.at = r.at + n, !.buf = buf])
     /\ UNCHANGED <<tables, libReq, libWrites, libRace, dropped>>

\* One read.  Everything before the last marker is whole; the rest waits.
ReadChunk(b) ==
  LET r    == bulk[b]
      rest == Len(PgnFile) - r.at
      n    == IF rest < ChunkSize THEN rest ELSE ChunkSize
      buf  == r.buf \o SubSeq(PgnFile, r.at + 1, r.at + n)
      offs == EventOffsets(buf)
      last == CHOOSE i \in offs : \A j \in offs : j <= i
  IN /\ Running(b, "read") /\ r.todo = <<>>
     /\ Run(b, IF n = 0 THEN [r EXCEPT !.pc = "tail", !.todo = SplitGames(buf), !.buf = <<>>]
               ELSE IF Cardinality(offs) >= 2
               THEN [r EXCEPT !.at = r.at + n, !.todo = SplitGames(SubSeq(buf, 1, last - 1)),
                              !.buf = SubSeq(buf, last, Len(buf))]
               ELSE [r EXCEPT !.at = r.at + n, !.buf = buf])
     /\ UNCHANGED <<tables, libReq, libWrites, libRace, dropped>>

\* process_blob, one game.
ProcessGame(b) ==
  LET r   == bulk[b]
      key == Head(r.todo)
      on  == [r EXCEPT !.todo = Tail(r.todo)]
      marked == [on EXCEPT !.seen = r.seen \cup {key}]
  IN /\ r.pc \in {"read", "tail"} /\ r.todo # <<>> /\ Len(r.batch) < BatchSize
     /\ Run(b, IF key \in Unreadable THEN [on EXCEPT !.report.errors = r.report.errors + 1]
               ELSE IF key \in r.seen \cup GameKeys(r.db)
               THEN [marked EXCEPT !.report.duplicates = r.report.duplicates + 1]
               ELSE IF key \in Illegal THEN [marked EXCEPT !.report.errors = r.report.errors + 1]
               ELSE [marked EXCEPT !.batch = Append(r.batch, key)])
     /\ UNCHANGED <<tables, libReq, libWrites, libRace, dropped>>

\* Mutant: a batch that the unique index refuses is passed over.
Flush_SkipsConflict(b) ==
  LET r    == bulk[b]
      ids  == nextGame .. nextGame + Len(r.batch) - 1
      full == Len(r.batch) >= BatchSize
      kept == [r EXCEPT !.batch = <<>>, !.report.imported = r.report.imported + Len(r.batch)]
  IN /\ r.pc \in {"read", "tail"}
     /\ full \/ (r.pc = "tail" /\ r.todo = <<>>)
     /\ Run(b, IF full THEN kept ELSE [kept EXCEPT !.pc = "done"])
     /\ IF r.db \notin DOMAIN databases \/ ToSet(r.batch) \cap GameKeys(r.db) # {}
        THEN UNCHANGED <<games, nextGame, indexed>>
        ELSE /\ games' = WithBatch(r.db, r.batch)
             /\ nextGame' = nextGame + Len(r.batch)
             /\ indexed' = indexed \cup ids
     /\ UNCHANGED <<databases, nextDatabase, defaults, libReq, libWrites, libRace, dropped>>

\* flush: one transaction, which the unique index on (database, source_ref)
\* or the missing database aborts, and the run with it.
Flush(b) ==
  LET r    == bulk[b]
      ids  == nextGame .. nextGame + Len(r.batch) - 1
      full == Len(r.batch) >= BatchSize
      kept == [r EXCEPT !.batch = <<>>, !.report.imported = r.report.imported + Len(r.batch)]
  IN /\ r.pc \in {"read", "tail"}
     /\ full \/ (r.pc = "tail" /\ r.todo = <<>>)
     /\ IF r.batch # <<>> /\ (r.db \notin DOMAIN databases \/ ToSet(r.batch) \cap GameKeys(r.db) # {})
        THEN Run(b, [r EXCEPT !.pc = "failed"]) /\ UNCHANGED <<games, nextGame, indexed>>
        ELSE /\ games' = WithBatch(r.db, r.batch)
             /\ nextGame' = nextGame + Len(r.batch)
             /\ indexed' = indexed \cup ids
             /\ Run(b, IF full THEN kept ELSE [kept EXCEPT !.pc = "done"])
     /\ UNCHANGED <<databases, nextDatabase, defaults, libReq, libWrites, libRace, dropped>>

\* The process ends, or dies at any point; what was committed stays.
EndImport(b) ==
  /\ ~Running(b, "idle")
  /\ Run(b, NoRun)
  /\ UNCHANGED <<tables, libReq, libWrites, libRace, dropped>>

LibraryRequest(c, user) ==
  \/ \E d \in DOMAIN databases : \/ RenameDatabase(c, user, d, MasterName)
                                 \/ DeleteDatabase(c, user, d)
                                 \/ PutDefault(c, user, d)
  \/ \E g \in DOMAIN games : DeleteGame(c, user, g) \/ \E p \in BOOLEAN : SetGamePublic(c, user, g, p)

LibraryWrite(c) ==
  \/ WriteRename(c) \/ WriteDeleteDatabase(c) \/ DropIndexRows(c) \/ DropGame(c)
  \/ WriteShare(c) \/ WriteDefault(c) \/ DropRequest(c)

LibraryNext ==
  \/ \E u \in LibraryUsers, g \in BOOLEAN : CreateDatabase(u, "Games", g)
  \/ \E c \in LibraryClients : LibraryWrite(c) \/ \E u \in LibraryUsers : LibraryRequest(c, u)
  \/ \E b \in Importers :
       \/ FindMaster(b) \/ CreateMaster(b) \/ ReadChunk(b) \/ ProcessGame(b) \/ Flush(b) \/ EndImport(b)
LibrarySpec == LibraryInit /\ [][LibraryNext]_libraryVars

(***************************************************************************)
(* Properties.                                                             *)
(***************************************************************************)

\* An import that reports success has taken the file apart as if it had been
\* read in one piece, wherever the chunks fell, and accounts for each game once.
ReportAddsUp ==
  \A b \in Importers : Running(b, "done") =>
    LET r == bulk[b].report IN r.imported + r.duplicates + r.errors = Len(SplitGames(PgnFile))

\* ... and has left every good game of the file in the database, whatever
\* earlier runs, crashes and concurrent runs did, unless somebody deleted one.
FinishedImportIsComplete ==
  \A b \in Importers : Running(b, "done") =>
    (ToSet(SplitGames(PgnFile)) \ (Unreadable \cup Illegal)) \ dropped \subseteq GameKeys(bulk[b].db)

\* Runs under one name fill one database, unless two lookups overlapped or an
\* admin made or renamed a global database meanwhile.
OneMaster ==
  "lookup" \notin libRace =>
    Cardinality({d \in DOMAIN databases : databases[d].name = MasterName /\ databases[d].owner = Global}) <= 1

\* Index rows never outlive their game, and a game is without them only while,
\* or because, its deletion got no further.
IndexFollowsGames ==
  /\ indexed \subseteq DOMAIN games
  /\ "cut" \notin libRace =>
       \A g \in DOMAIN games \ indexed : \E c \in LibraryClients : Has(c, "deletegame") /\ libReq[c].id = g

\* With nothing written in between, the pages of a database follow each other
\* in the chosen order and hold each of its games once, whatever the dates.
PagesPartition ==
  \A d \in DOMAIN databases, dir \in {"asc", "desc"}, limit \in 1 .. MAX_LIMIT :
    LET pages == [p \in 0 .. Cardinality(GamesOf(d)) |-> Page(d, dir, p, limit)] IN
    /\ GamesOf(d) = UNION {ToSet(pages[p]) : p \in DOMAIN pages}
    /\ \A p, q \in DOMAIN pages : \A i \in DOMAIN pages[p], j \in DOMAIN pages[q] :
         p < q \/ (p = q /\ i < j) => Before(dir, pages[p][i], pages[q][j])

\* However often it is interrupted, run again or run twice at once, the import
\* of a file comes to the same: all of it, counted, in one database.
ImportsConverge == ReportAddsUp /\ FinishedImportIsComplete /\ OneMaster
=============================================================================
