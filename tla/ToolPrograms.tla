--------------------------- MODULE ToolPrograms ----------------------------
(***************************************************************************)
(* The tools of the MCP registry (server/routes/mcp/), each as the steps   *)
(* its handler takes, in the handler's order: the arguments it insists on  *)
(* or refuses when malformed, the engine it needs, what it searches, reads *)
(* and writes.  A step that names a `when` is taken only if that optional  *)
(* argument was given.                                                     *)
(***************************************************************************)
EXTENDS Naturals, Sequences

Step(kind, of, when) == [kind |-> kind, of |-> of, when |-> when]
Always == "always"

Need(arg)   == Step("need", arg, Always)      \* missing: an error outcome
Check(arg)  == Step("check", arg, Always)     \* optional, malformed: an error
Engine      == Step("engine", "pool", Always) \* no engine service: an error
Search      == Step("search", "pool", Always) \* the pooled engine is asked
Reads(of)   == Step("read", of, Always)
Writes(of)  == Step("write", of, Always)
If(arg, step) == [step EXCEPT !.when = arg]

\* require_position, position_or_start: fen and moves, or an error that names
\* the move.
Position == Need("position")
PositionOrStart == Check("position")

-----------------------------------------------------------------------------
\* study_tools
study_list == <<Reads("studies")>>
study_create == <<Need("database_id"), Need("name"), Writes("study")>>
study_get == <<Need("study_id"), Reads("study"), Reads("tree")>>
study_import_pgn ==
  <<Need("database_id"), Need("name"), Need("pgn"), Writes("study")>>
\* Mutant: the note is written before the move it belongs to is accepted.
study_add_move_NoteFirst ==
  <<Need("study_id"), Need("from_node_id"), If("note", Writes("note")),
    Need("san_or_uci"), Writes("move")>>
study_add_move ==
  <<Need("study_id"), Need("from_node_id"), Need("san_or_uci"),
    Writes("move"), If("note", Writes("note"))>>
study_annotate == <<Need("study_id"), Need("node_id"), Writes("note")>>
study_export == <<Need("study_id"), Check("format"), Reads("study")>>

\* study_node_tools
study_set_folder == <<Need("study_id"), Writes("study")>>
study_set_shapes ==
  <<Need("study_id"), Need("node_id"), Need("shapes"), Check("shapes"),
    Writes("tree")>>
study_promote_node == <<Need("study_id"), Need("node_id"), Writes("tree")>>
study_reorder_node ==
  <<Need("study_id"), Need("node_id"), Need("index"), Writes("tree")>>

\* study_repertoire_tools
study_merge_games == <<Need("game_ids"), Check("game_ids"), Writes("study")>>
study_merge_danger ==
  <<Need("study_id"), Need("tree"), Check("tree"), Writes("tree")>>
study_analyse ==
  <<Need("study_id"), Check("depth"), Check("plan_lines"), Check("threats"),
    Engine, Search, Writes("tree"), If("shapes", Search),
    If("shapes", Writes("shapes"))>>
study_clear_shapes == <<Need("study_id"), Need("scope"), Writes("tree")>>

\* db_tools, db_export_tools
list_databases == <<Reads("databases")>>
db_list_games == <<Need("database_id"), Check("limit"), Reads("games")>>
db_read_game ==
  <<Need("game_id"), Reads("game"), If("annotated", Engine), Check("depth"),
    If("annotated", Reads("moves")), If("annotated", Search)>>
db_position_report == <<Position, Reads("positions")>>
db_reference_games == <<Position, Check("limit"), Reads("positions")>>
db_export_games ==
  <<Need("game_ids"), Check("game_ids"), Reads("games"), Reads("pgn")>>

\* game_tools
game_save_as_study ==
  <<Need("game_id"), Need("name"), Check("depth"), If("analyse", Engine),
    Reads("game"), If("analyse", Search), Writes("study")>>
game_studies == <<Need("game_id"), Reads("studies")>>
game_tree == <<Need("game_id"), Reads("game"), Reads("moves")>>
game_delete == <<Need("game_id"), Writes("game")>>

\* analysis: analyse_position goes on without an engine and says so.
analyse_position ==
  <<Position, Reads("features"), Reads("positions"), If("engine", Search)>>
analyse_game ==
  <<Engine, Need("pgn"), Check("depth"), Reads("moves"), Search>>

\* preprocess
\* Mutant: save_as is read when the tree is ready to be saved.
opening_tree_SaveLate ==
  <<Engine, PositionOrStart, Check("tree"), Check("engine_depth"),
    Check("plan_lines"), Check("color"), Search, If("shapes", Search),
    Check("save_as"), If("save_as", Writes("study"))>>
opening_tree ==
  <<Engine, PositionOrStart, Check("tree"), Check("engine_depth"),
    Check("save_as"), Check("plan_lines"), Check("color"), Search,
    If("shapes", Search), If("save_as", Writes("study"))>>
danger_map ==
  <<Need("spine_pgn"), Engine, PositionOrStart, Check("spine_pgn"),
    Check("spine"), Check("movetime_ms"), Check("multipv"), Check("save_as"),
    Search, If("save_as", Writes("study"))>>
position_concepts == <<Position, Reads("features")>>

\* folder_tools: a rename and a move are two calls of the folder service.  With
\* neither the handler comes to its end and refuses, having done nothing.
folder_list == <<Reads("folders")>>
folder_create == <<Need("name"), Writes("folder")>>
folder_update ==
  <<Need("folder_id"), Need("name_or_reparent"), If("name", Writes("folder")),
    If("reparent", Writes("folder"))>>
folder_delete == <<Need("folder_id"), Writes("folder")>>

\* search_tools, explorer_tools, import_tools, tools
search_headers == <<Check("query"), Reads("games")>>
position_threats == <<Position, Reads("features")>>
masters_position_report == <<Reads("client"), Position, Reads("masters")>>
import_pgn == <<Need("database_id"), Need("pgn"), Writes("games")>>
import_lichess_game == <<Need("database_id"), Need("game"), Writes("games")>>
import_sync ==
  <<Need("database_id"), Need("source"), Check("source"), Need("username"),
    Writes("games")>>
echo == <<>>
engine_analyse == <<Engine, Position, Check("limits"), Search>>

-----------------------------------------------------------------------------
\* default_registry
default_registry ==
  [echo |-> echo, engine_analyse |-> engine_analyse,
   study_list |-> study_list, study_create |-> study_create,
   study_get |-> study_get, study_import_pgn |-> study_import_pgn,
   study_add_move |-> study_add_move, study_annotate |-> study_annotate,
   study_export |-> study_export, study_set_folder |-> study_set_folder,
   study_set_shapes |-> study_set_shapes,
   study_promote_node |-> study_promote_node,
   study_reorder_node |-> study_reorder_node,
   study_merge_games |-> study_merge_games,
   study_merge_danger |-> study_merge_danger, study_analyse |-> study_analyse,
   study_clear_shapes |-> study_clear_shapes,
   list_databases |-> list_databases, db_list_games |-> db_list_games,
   db_read_game |-> db_read_game, db_position_report |-> db_position_report,
   db_reference_games |-> db_reference_games,
   db_export_games |-> db_export_games,
   game_save_as_study |-> game_save_as_study, game_studies |-> game_studies,
   game_tree |-> game_tree, game_delete |-> game_delete,
   analyse_position |-> analyse_position, analyse_game |-> analyse_game,
   opening_tree |-> opening_tree, danger_map |-> danger_map,
   position_concepts |-> position_concepts, folder_list |-> folder_list,
   folder_create |-> folder_create, folder_update |-> folder_update,
   folder_delete |-> folder_delete, search_headers |-> search_headers,
   position_threats |-> position_threats, import_pgn |-> import_pgn,
   import_lichess_game |-> import_lichess_game, import_sync |-> import_sync,
   masters_position_report |-> masters_position_report]

ToolNames == DOMAIN default_registry

\* ANONYMOUS_ALLOWLIST
ANONYMOUS_ALLOWLIST ==
  {"echo", "list_databases", "db_list_games", "db_read_game",
   "db_position_report", "db_reference_games", "db_export_games",
   "search_headers"}

\* GATED_TOOLS
GATED_TOOLS ==
  {"study_create", "study_import_pgn", "study_add_move", "study_annotate",
   "study_set_folder", "study_set_shapes", "study_promote_node",
   "study_reorder_node", "study_merge_games", "study_merge_danger",
   "study_analyse", "study_clear_shapes", "game_save_as_study",
   "game_delete", "folder_create", "folder_update", "folder_delete",
   "import_pgn", "import_sync", "import_lichess_game"}

requires_approval(name) == name \in GATED_TOOLS

-----------------------------------------------------------------------------
\* The steps, by their place, of a call that gives the optional arguments
\* `given`.
Taken(name, given) ==
  {i \in DOMAIN default_registry[name] :
     default_registry[name][i].when \in given \cup {Always}}

Optional(name) ==
  {default_registry[name][i].when : i \in DOMAIN default_registry[name]}
    \ {Always}

(***************************************************************************)
(* What a call can come to: it runs to the end, or stops at a step that    *)
(* fails.  Without an engine service the first Engine step is as far as it *)
(* gets, with one that step never fails.                                   *)
(***************************************************************************)
Ends(name, given, hasEngine) ==
  LET step == default_registry[name]
      taken == Taken(name, given)
      stops == {i \in taken : step[i].kind = "engine"}
      far == IF hasEngine THEN taken \ stops
             ELSE {i \in taken : \A k \in stops : i <= k}
  IN  {[outcome |-> IF step[i].kind \in {"need", "check"}
                    THEN "bad_arguments" ELSE "failed",
        did |-> {step[k] : k \in {j \in taken : j < i}}] : i \in far}
      \cup (IF hasEngine \/ stops = {}
            THEN {[outcome |-> "ok", did |-> {step[k] : k \in taken}]}
            ELSE {})
=============================================================================
