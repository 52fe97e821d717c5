------------------------------- MODULE Schema -------------------------------
(***************************************************************************)
(* The database schema: the migrations of db/migrator, statement by        *)
(* statement, run by Migrator::up when a server connects (db/mod.rs), and  *)
(* the entities that read the tables they leave.  Postgres runs all of it  *)
(* in one transaction, SQLite runs each statement by itself, so a crash or *)
(* a failing statement leaves what was done so far.                        *)
(***************************************************************************)
EXTENDS Integers, FiniteSets, SequencesExt

CONSTANTS Releases,       \* the schema versions that releases of the program migrate to
          MaxMigrations   \* bound: runs of the migrator, up and down

\* A column is nullable or not; the rest of its type is left out.
Cols(required, optional) == [c \in required \cup optional |-> c \in optional]

\* Statements.  keys are the unique columns of a table, fks the tables it refers to.
CreateTable(t, cols, keys, fks) == [do |-> "create table", t |-> t, cols |-> cols, keys |-> keys, fks |-> fks]
DropTable(t)             == [do |-> "drop table", t |-> t]
AddColumn(t, c)          == [do |-> "add column", t |-> t, c |-> c, optional |-> TRUE]
AddDefaulted(t, c)       == [do |-> "add column", t |-> t, c |-> c, optional |-> FALSE]
DropColumn(t, c)         == [do |-> "drop column", t |-> t, c |-> c]
CreateIndex(n, t, cols)  == [do |-> "create index", name |-> n, t |-> t, cols |-> cols, unique |-> FALSE]
UniqueIndex(n, t, cols)  == [CreateIndex(n, t, cols) EXCEPT !.unique = TRUE]
DropIndex(n)             == [do |-> "drop index", name |-> n]
Backfill(t, c)           == [do |-> "backfill", t |-> t, c |-> c]

(***************************************************************************)
(* The migrations: what each does, and undoes.                             *)
(***************************************************************************)
Init1 == <<CreateTable("settings", Cols({"key", "value"}, {}), {{"key"}}, {}),
           CreateTable("databases", Cols({"id", "name", "kind"}, {"owner_id"}), {{"id"}}, {})>>
UndoInit1 == <<DropTable("databases"), DropTable("settings")>>

GamesTable == CreateTable("games", Cols({"id", "database_id", "variant"},
  {"white_player_id", "black_player_id", "event_id", "site", "round", "date", "result", "eco", "white_elo",
   "black_elo", "start_fen", "ply_count", "pgn"}), {{"id"}}, {"databases", "players", "events"})
PositionTable == CreateTable("position_index", Cols({"id", "zobrist", "game_id", "ply", "move", "database_id"}, {}), {{"id"}},
  {"games", "databases"})
StudiesTable == CreateTable("studies", Cols({"id", "database_id", "name", "tree_json", "created_at"}, {"owner_id"}), {{"id"}},
  {"databases"})
CoreIndexes == <<CreateIndex("idx_position_index_zobrist", "position_index", {"zobrist"}),
  CreateIndex("idx_position_index_game", "position_index", {"game_id"}),
  CreateIndex("idx_position_index_database", "position_index", {"database_id"}),
  CreateIndex("idx_games_database", "games", {"database_id"}),
  CreateIndex("idx_games_white_player", "games", {"white_player_id"}),
  CreateIndex("idx_games_black_player", "games", {"black_player_id"}),
  CreateIndex("idx_games_event", "games", {"event_id"}), CreateIndex("idx_games_date", "games", {"date"}),
  CreateIndex("idx_games_eco", "games", {"eco"}), CreateIndex("idx_games_result", "games", {"result"}),
  CreateIndex("idx_studies_database", "studies", {"database_id"}),
  CreateIndex("idx_studies_owner", "studies", {"owner_id"})>>
CoreSchema == <<AddColumn("databases", "index_depth"),
  CreateTable("players", Cols({"id", "name"}, {}), {{"id"}, {"name"}}, {}),
  CreateTable("events", Cols({"id", "name"}, {}), {{"id"}, {"name"}}, {}),
  GamesTable,
  PositionTable, StudiesTable>> \o CoreIndexes
UndoCoreSchema == <<DropTable("position_index"), DropTable("studies"), DropTable("games"), DropTable("events"),
                    DropTable("players"), DropColumn("databases", "index_depth")>>

Auth == <<CreateTable("users", Cols({"id", "username", "password_hash", "is_admin", "created_at"}, {}),
                      {{"id"}, {"username"}}, {}),
          CreateTable("sessions", Cols({"token", "user_id", "created_at", "expires_at"}, {}), {{"token"}}, {"users"}),
          CreateIndex("idx_sessions_user", "sessions", {"user_id"})>>
UndoAuth == <<DropTable("sessions"), DropTable("users")>>

Oauth == <<CreateTable("service_tokens", Cols({"token", "owner_id", "is_admin", "label", "created_at"},
                                              {"expires_at"}), {{"token"}}, {}),
           CreateTable("oauth_clients", Cols({"client_id", "client_name", "redirect_uris", "created_at"}, {}),
                       {{"client_id"}}, {}),
           CreateTable("oauth_codes", Cols({"code", "client_id", "user_id", "redirect_uri", "code_challenge",
                       "code_challenge_method", "scope", "expires_at", "used"}, {}), {{"code"}}, {}),
           CreateTable("oauth_tokens", Cols({"access_token", "refresh_token", "client_id", "user_id", "scope",
                       "created_at", "expires_at"}, {}), {{"access_token"}, {"refresh_token"}}, {})>>
UndoOauth == <<DropTable("oauth_tokens"), DropTable("oauth_codes"), DropTable("oauth_clients"),
               DropTable("service_tokens")>>

CursorKey == UniqueIndex("idx_sync_cursors_database_source", "sync_cursors", {"database_id", "source"})
SyncDedup == <<AddColumn("games", "source_ref"),
  UniqueIndex("idx_games_database_source_ref", "games", {"database_id", "source_ref"}),
  CreateTable("sync_cursors", Cols({"id", "database_id", "source"}, {"last_month", "last_game_ms"}), {{"id"}},
              {"databases"}), CursorKey>>
UndoSyncDedup == <<DropTable("sync_cursors"), DropIndex("idx_games_database_source_ref"),
                   DropColumn("games", "source_ref")>>

AssistantTables == <<
  CreateTable("assistant_sessions", Cols({"id", "owner_id", "title", "model", "created_at", "updated_at"}, {}),
              {{"id"}}, {}),
  CreateTable("assistant_messages", Cols({"id", "session_id", "seq", "role", "content_json", "created_at"}, {}),
              {{"id"}}, {"assistant_sessions"})>>
AssistantIndexes == <<CreateIndex("idx_assistant_sessions_owner", "assistant_sessions", {"owner_id"}),
                      CreateIndex("idx_assistant_messages_session", "assistant_messages", {"session_id", "seq"})>>
ProviderKey == UniqueIndex("idx_llm_providers_name", "llm_providers", {"name"})
Assistant == AssistantTables
  \o <<CreateTable("llm_providers", Cols({"id", "name", "model", "api_key", "is_default", "created_at"}, {}),
                   {{"id"}}, {})>> \o AssistantIndexes \o <<ProviderKey>>
UndoAssistant == <<DropTable("assistant_messages"), DropTable("assistant_sessions"), DropTable("llm_providers")>>

FoldersUp == <<
  CreateTable("folders", Cols({"id", "name", "created_at"}, {"owner_id", "parent_id"}), {{"id"}}, {"folders"}),
  UniqueIndex("idx_folders_owner_parent_name", "folders", {"owner_id", "parent_id", "name"}),
  CreateIndex("idx_folders_parent", "folders", {"parent_id"}), CreateIndex("idx_folders_owner", "folders", {"owner_id"}),
  AddColumn("studies", "folder_id"), AddColumn("studies", "origin_game_id"),
  CreateIndex("idx_studies_folder", "studies", {"folder_id"}),
  CreateIndex("idx_studies_origin_game", "studies", {"origin_game_id"})>>
\* Mutant: the columns go before the indexes on them.
UndoFolders_ColumnsFirst == <<DropColumn("studies", "origin_game_id"), DropColumn("studies", "folder_id"),
  DropIndex("idx_studies_origin_game"), DropIndex("idx_studies_folder"), DropTable("folders")>>
UndoFolders == <<DropIndex("idx_studies_origin_game"), DropIndex("idx_studies_folder"),
  DropColumn("studies", "origin_game_id"), DropColumn("studies", "folder_id"), DropTable("folders")>>

AgentTables == <<
  CreateTable("agent_grants", Cols({"id", "user_id", "tool", "scope", "created_at"}, {"arg"}), {{"id"}}, {}),
  CreateTable("agent_events", Cols({"id", "root_session_id", "user_id", "ord", "ts", "session_id", "direction",
              "payload"}, {}), {{"id"}}, {}),
  CreateTable("agent_sessions", Cols({"root_session_id", "user_id", "agent", "created_at", "last_active"}, {"name"}),
              {{"root_session_id"}}, {}),
  UniqueIndex("idx_agent_grants_user_tool_arg", "agent_grants", {"user_id", "tool", "arg"}),
  UniqueIndex("idx_agent_events_root_ord", "agent_events", {"root_session_id", "ord"}),
  CreateIndex("idx_agent_events_user", "agent_events", {"user_id"}),
  CreateIndex("idx_agent_sessions_user_active", "agent_sessions", {"user_id", "last_active"})>>
AgentEngine == <<DropTable("assistant_messages"), DropTable("assistant_sessions"),
  AddColumn("llm_providers", "owner_id"), AddDefaulted("llm_providers", "wire"), AddColumn("llm_providers", "base_url"),
  DropIndex("idx_llm_providers_name"),
  UniqueIndex("idx_llm_providers_owner_name", "llm_providers", {"owner_id", "name"})>> \o AgentTables
UndoAgentEngine == <<DropTable("agent_sessions"), DropTable("agent_events"), DropTable("agent_grants"),
  DropIndex("idx_llm_providers_owner_name"), DropColumn("llm_providers", "base_url"),
  DropColumn("llm_providers", "wire"), DropColumn("llm_providers", "owner_id"), ProviderKey>>
  \o AssistantTables \o AssistantIndexes

CursorLifecycle == <<AddColumn("sync_cursors", "username"), AddColumn("sync_cursors", "last_synced_at"),
  AddColumn("sync_cursors", "last_imported"), AddColumn("sync_cursors", "last_duplicates"),
  DropIndex("idx_sync_cursors_database_source"),
  UniqueIndex("idx_sync_cursors_database_source_username", "sync_cursors", {"database_id", "source", "username"})>>
\* Mutant: the older key is not put back.
UndoCursorLifecycle_NoKey == <<DropIndex("idx_sync_cursors_database_source_username"),
  DropColumn("sync_cursors", "last_duplicates"), DropColumn("sync_cursors", "last_imported"),
  DropColumn("sync_cursors", "last_synced_at"), DropColumn("sync_cursors", "username")>>
UndoCursorLifecycle == <<DropIndex("idx_sync_cursors_database_source_username"), CursorKey,
  DropColumn("sync_cursors", "last_duplicates"), DropColumn("sync_cursors", "last_imported"),
  DropColumn("sync_cursors", "last_synced_at"), DropColumn("sync_cursors", "username")>>

ConsentTables == <<
  CreateTable("oauth_consents", Cols({"user_id", "client_id", "created_at"}, {}), {{"user_id", "client_id"}}, {}),
  CreateTable("oauth_consent_requests", Cols({"csrf_token", "user_id", "client_id", "redirect_uri", "code_challenge",
              "code_challenge_method", "scope", "expires_at"}, {"state"}), {{"csrf_token"}}, {})>>
\* Mutant: the tokens there are keep the default id.
OauthHardening_NoBackfill == <<AddDefaulted("service_tokens", "scope"), AddDefaulted("service_tokens", "id"),
  UniqueIndex("idx_service_tokens_id", "service_tokens", {"id"}),
  AddDefaulted("oauth_tokens", "family_id"), AddDefaulted("oauth_tokens", "revoked"),
  Backfill("oauth_tokens", "family_id"), CreateIndex("idx_oauth_tokens_family", "oauth_tokens", {"family_id"})>>
  \o ConsentTables
OauthHardening == <<AddDefaulted("service_tokens", "scope"), AddDefaulted("service_tokens", "id"),
  Backfill("service_tokens", "id"), UniqueIndex("idx_service_tokens_id", "service_tokens", {"id"}),
  AddDefaulted("oauth_tokens", "family_id"), AddDefaulted("oauth_tokens", "revoked"),
  Backfill("oauth_tokens", "family_id"), CreateIndex("idx_oauth_tokens_family", "oauth_tokens", {"family_id"})>>
  \o ConsentTables
UndoOauthHardening == <<DropTable("oauth_consent_requests"), DropTable("oauth_consents"),
  DropIndex("idx_oauth_tokens_family"), DropColumn("oauth_tokens", "revoked"), DropColumn("oauth_tokens", "family_id"),
  DropIndex("idx_service_tokens_id"), DropColumn("service_tokens", "id"), DropColumn("service_tokens", "scope")>>

\* Mutant: the flag of a study is nullable.
Sharing_Nullable == <<AddDefaulted("games", "public"), AddColumn("studies", "public")>>
Sharing     == <<AddDefaulted("games", "public"), AddDefaulted("studies", "public")>>
UndoSharing == <<DropColumn("studies", "public"), DropColumn("games", "public")>>

Migrations == <<Init1, CoreSchema, Auth, Oauth, SyncDedup, Assistant, FoldersUp, AgentEngine, CursorLifecycle,
                OauthHardening, Sharing>>
Reversals  == <<UndoInit1, UndoCoreSchema, UndoAuth, UndoOauth, UndoSyncDedup, UndoAssistant, UndoFolders,
                UndoAgentEngine, UndoCursorLifecycle, UndoOauthHardening, UndoSharing>>
Latest     == Len(Migrations)

(***************************************************************************)
(* What each entity reads: an Option is a nullable column.                 *)
(***************************************************************************)
SettingEntity  == [settings  |-> Cols({"key", "value"}, {})]
DatabaseEntity == [databases |-> Cols({"id", "name", "kind"}, {"owner_id", "index_depth"})]
PlayerEntity   == [players   |-> Cols({"id", "name"}, {})]
EventNameEntity == [events   |-> Cols({"id", "name"}, {})]
PositionEntity == [position_index |-> Cols({"id", "zobrist", "game_id", "ply", "move", "database_id"}, {})]
GameEntity == [games |-> Cols({"id", "database_id", "variant", "public"},
   {"white_player_id", "black_player_id", "event_id", "site", "round", "date", "result", "eco", "white_elo",
    "black_elo", "start_fen", "ply_count", "pgn", "source_ref"})]
StudyEntity == [studies |-> Cols({"id", "database_id", "name", "tree_json", "created_at", "public"},
   {"owner_id", "folder_id", "origin_game_id"})]
FolderEntity == [folders |-> Cols({"id", "name", "created_at"}, {"owner_id", "parent_id"})]
CursorEntity == [sync_cursors |-> Cols({"id", "database_id", "source"},
   {"username", "last_month", "last_game_ms", "last_synced_at", "last_imported", "last_duplicates"})]
UserEntity    == [users |-> Cols({"id", "username", "password_hash", "is_admin", "created_at"}, {})]
SessionEntity == [sessions |-> Cols({"token", "user_id", "created_at", "expires_at"}, {})]
ServiceTokenEntity == [service_tokens |->
   Cols({"token", "id", "owner_id", "is_admin", "scope", "label", "created_at"}, {"expires_at"})]
ClientEntity  == [oauth_clients |-> Cols({"client_id", "client_name", "redirect_uris", "created_at"}, {})]
CodeEntity    == [oauth_codes |-> Cols({"code", "client_id", "user_id", "redirect_uri", "code_challenge",
   "code_challenge_method", "scope", "expires_at", "used"}, {})]
TokenEntity   == [oauth_tokens |-> Cols({"access_token", "refresh_token", "client_id", "user_id", "scope", "family_id",
   "revoked", "created_at", "expires_at"}, {})]
ConsentEntity == [oauth_consents |-> Cols({"user_id", "client_id", "created_at"}, {})]
RequestEntity == [oauth_consent_requests |-> Cols({"csrf_token", "user_id", "client_id", "redirect_uri",
   "code_challenge", "code_challenge_method", "scope", "expires_at"}, {"state"})]
ProviderEntity == [llm_providers |->
   Cols({"id", "name", "model", "api_key", "is_default", "created_at", "wire"}, {"owner_id", "base_url"})]
GrantEntity   == [agent_grants |-> Cols({"id", "user_id", "tool", "scope", "created_at"}, {"arg"})]
EventEntity   == [agent_events |-> Cols({"id", "root_session_id", "user_id", "ord", "ts", "session_id", "direction",
   "payload"}, {})]
AgentSessionEntity == [agent_sessions |->
   Cols({"root_session_id", "user_id", "agent", "created_at", "last_active"}, {"name"})]
Entities ==
  SettingEntity @@ DatabaseEntity @@ PlayerEntity @@ EventNameEntity @@ PositionEntity @@ GameEntity @@ StudyEntity @@ FolderEntity @@ CursorEntity @@ UserEntity @@ SessionEntity
  @@ ServiceTokenEntity @@ ClientEntity @@ CodeEntity @@ TokenEntity @@ ConsentEntity @@ RequestEntity
  @@ ProviderEntity @@ GrantEntity @@ EventEntity @@ AgentSessionEntity

(***************************************************************************)
(* A database: its tables, its indexes, how many migrations it records,    *)
(* and alike: <<t, K>> when two rows of t agree on the columns K, which    *)
(* NULLs never do.                                                         *)
(***************************************************************************)
VARIABLES transactional, \* Postgres
          schema,        \* [tables, indexes, alike, applied]
          committed,     \* what a rollback returns to
          migrator,      \* [phase, to, at]: at is the next statement
          migrations,    \* how often the migrator ran
          torn,          \* history: statements ran that no record tells of
          refused        \* history: "up" or "down", a statement failed
schemaVars == <<transactional, schema, committed, migrator, migrations, torn, refused>>

Shape(s) == [tables |-> s.tables, indexes |-> s.indexes]
Empty    == [tables |-> <<>>, indexes |-> <<>>, alike |-> {}, applied |-> 0]

SchemaInit ==
  /\ transactional \in BOOLEAN
  /\ schema = Empty /\ committed = Empty
  /\ migrator = [phase |-> "idle", to |-> 0, at |-> 1]
  /\ migrations = 0
  /\ torn = FALSE /\ refused = {}

HasColumn(s, t, c)   == t \in DOMAIN s.tables /\ c \in DOMAIN s.tables[t].cols
Indexing(s, t) == {n \in DOMAIN s.indexes : s.indexes[n].t = t}
Without(f, S)  == [x \in DOMAIN f \ S |-> f[x]]

\* Whether the statement goes through.  Only CREATE TABLE says IF NOT EXISTS.
Allowed(s, q) ==
  CASE q.do = "create table" -> TRUE
    [] q.do = "drop table"   -> /\ q.t \in DOMAIN s.tables
                                /\ \A t \in DOMAIN s.tables \ {q.t} : q.t \notin s.tables[t].fks
    [] q.do = "add column"   -> q.t \in DOMAIN s.tables /\ ~HasColumn(s, q.t, q.c)
    [] q.do = "drop column"  -> HasColumn(s, q.t, q.c) /\ \A n \in Indexing(s, q.t) : q.c \notin s.indexes[n].cols
    [] q.do = "create index" -> /\ \A c \in q.cols : HasColumn(s, q.t, c)
                                /\ q.name \notin DOMAIN s.indexes
                                /\ q.unique => \A a \in s.alike : ~(a[1] = q.t /\ q.cols \subseteq a[2])
    [] q.do = "drop index"   -> q.name \in DOMAIN s.indexes
    [] q.do = "backfill"     -> HasColumn(s, q.t, q.c)

\* Rows that agree keep agreeing on a new default, and differ once backfilled.
Regroup(s, t, K(_)) == {IF a[1] = t THEN <<t, K(a[2])>> ELSE a : a \in s.alike}

Ran(s, q) ==
  CASE q.do = "create table" -> IF q.t \in DOMAIN s.tables THEN s
                                ELSE [s EXCEPT !.tables = @ @@ (q.t :> [cols |-> q.cols, keys |-> q.keys, fks |-> q.fks])]
    [] q.do = "drop table"   -> [s EXCEPT !.tables = Without(@, {q.t}), !.indexes = Without(@, Indexing(s, q.t)),
                                          !.alike = {a \in @ : a[1] # q.t}]
    [] q.do = "add column"   -> [s EXCEPT !.tables[q.t].cols = @ @@ (q.c :> q.optional),
                                          !.alike = IF q.optional THEN @ ELSE Regroup(s, q.t, LAMBDA K : K \cup {q.c})]
    [] q.do = "drop column"  -> [s EXCEPT !.tables[q.t].cols = Without(@, {q.c}),
                                          !.alike = Regroup(s, q.t, LAMBDA K : K \ {q.c})]
    [] q.do = "create index" -> [s EXCEPT !.indexes = @ @@ (q.name :> [t |-> q.t, cols |-> q.cols, unique |-> q.unique])]
    [] q.do = "drop index"   -> [s EXCEPT !.indexes = Without(@, {q.name})]
    [] q.do = "backfill"     -> [s EXCEPT !.alike = Regroup(s, q.t, LAMBDA K : K \ {q.c})]

(***************************************************************************)
(* Migrator::up(None) of a release, and Migrator::down.                    *)
(***************************************************************************)
Phase(p) == migrator.phase = p
Migrate(phase, to) ==
  /\ Phase("idle") /\ migrations < MaxMigrations
  /\ migrations' = migrations + 1
  /\ migrator' = [phase |-> phase, to |-> to, at |-> 1]
  /\ committed' = schema
  /\ UNCHANGED <<transactional, schema, torn, refused>>
Connect == \E v \in Releases : schema.applied <= v /\ Migrate("up", v)
Revert == \E v \in 0..schema.applied - 1 : Migrate("down", v)

Current    == IF Phase("up") THEN Migrations[schema.applied + 1] ELSE Reversals[schema.applied]
Unfinished == schema.applied # migrator.to

\* A statement of the migration runs, or fails and ends the run.
RunStatement ==
  /\ Phase("up") \/ Phase("down")
  /\ Unfinished /\ migrator.at <= Len(Current)
  /\ LET q == Current[migrator.at] IN
     IF Allowed(schema, q)
     THEN /\ schema' = Ran(schema, q)
          /\ migrator' = [migrator EXCEPT !.at = @ + 1]
          /\ UNCHANGED <<torn, refused>>
     ELSE /\ schema' = IF transactional THEN committed ELSE schema
          /\ migrator' = [migrator EXCEPT !.phase = "idle"]
          /\ torn' = (torn \/ (~transactional /\ migrator.at > 1))
          /\ refused' = refused \cup {migrator.phase}
  /\ UNCHANGED <<transactional, committed, migrations>>

\* After the last statement, the record in seaql_migrations.
RecordMigration ==
  /\ Phase("up") \/ Phase("down")
  /\ Unfinished /\ migrator.at > Len(Current)
  /\ schema' = [schema EXCEPT !.applied = IF Phase("up") THEN @ + 1 ELSE @ - 1]
  /\ migrator' = [migrator EXCEPT !.at = 1]
  /\ UNCHANGED <<transactional, committed, migrations, torn, refused>>

Migrated ==
  /\ Phase("up") \/ Phase("down")
  /\ ~Unfinished
  /\ migrator' = [migrator EXCEPT !.phase = IF Phase("up") THEN "serving" ELSE "idle"]
  /\ committed' = schema
  /\ UNCHANGED <<transactional, schema, migrations, torn, refused>>

\* The process dies: a transaction rolls back, single statements stay.
CrashMigrator ==
  /\ ~Phase("idle")
  /\ migrator' = [migrator EXCEPT !.phase = "idle"]
  /\ schema' = IF transactional THEN committed ELSE schema
  /\ torn' = (torn \/ (~transactional /\ ~Phase("serving") /\ migrator.at > 1))
  /\ UNCHANGED <<transactional, committed, migrations, refused>>

\* While it serves, the program stores rows that agree where they may: two
\* tokens, two owners' providers of one name, two users' cursors of one source.
RowPairs == {<<"service_tokens", {}>>, <<"llm_providers", {"name"}>>, <<"sync_cursors", {"database_id", "source"}>>}
StoreRows ==
  /\ Phase("serving")
  /\ \E a \in RowPairs :
       /\ a[1] \in DOMAIN schema.tables
       /\ \A b \in schema.alike : b[1] # a[1]
       /\ \A n \in Indexing(schema, a[1]) : ~(schema.indexes[n].unique /\ schema.indexes[n].cols \subseteq a[2])
       /\ schema' = [schema EXCEPT !.alike = @ \cup {a}]
  /\ committed' = schema'
  /\ UNCHANGED <<transactional, migrator, migrations, torn, refused>>

SchemaNext == Connect \/ Revert \/ RunStatement \/ RecordMigration \/ Migrated \/ CrashMigrator \/ StoreRows
SchemaSpec == SchemaInit /\ [][SchemaNext]_schemaVars

(***************************************************************************)
(* Properties.                                                             *)
(***************************************************************************)
\* A server that serves at the latest version finds every column its entities
\* read, nullable exactly where the entity has an Option (db/entities).
EntitiesFitTables ==
  Phase("serving") /\ schema.applied = Latest /\ ~torn =>
    \A t \in DOMAIN Entities : t \in DOMAIN schema.tables /\ schema.tables[t].cols = Entities[t]

\* Whatever releases a database went through and whatever it holds, connect
\* migrates it, and a crash on the way is made good at the next start, unless it
\* cut a migration in two on SQLite (connect, the backfills of m0010).
ConnectNeverRefused == "up" \in refused => torn

\* Every down undoes its up: however a database came to a version, its schema
\* is that of a fresh one ("must reverse and re-apply cleanly", migrator/mod.rs).
FreshShape == [v \in 0..Latest |-> Shape(FoldLeft(Ran, Empty, FlattenSeq(SubSeq(Migrations, 1, v))))]
SchemaFollowsVersion ==
  ~torn /\ (Phase("serving") \/ Phase("idle")) => Shape(schema) = FreshShape[schema.applied]

\* A reversal is refused only when rows came in that the older key forbids (the
\* down of m0008 and of m0009 puts the narrower unique index back).
ReversalsNeedRoom ==
  "down" \in refused => torn \/ \E a \in schema.alike : a[1] \in {"llm_providers", "sync_cursors"}

\* A database of any release, with any rows, reaches the tables the entities
\* read, and stays at the version it records on the way up and down.
MigrationsServe ==
  EntitiesFitTables /\ ConnectNeverRefused /\ SchemaFollowsVersion /\ ReversalsNeedRoom
=============================================================================
