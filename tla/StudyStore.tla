----------------------------- MODULE StudyStore -----------------------------
(***************************************************************************)
(* The studies table and the requests that edit it (studies/).  An edit    *)
(* reads the row, changes the tree in memory and writes the tree column    *)
(* back; there is no version check and no transaction, so requests         *)
(* interleave between the read and the write.  A rejected edit changes     *)
(* nothing and is left out.  Names, folders and databases of studies are   *)
(* left out too: filing is in module Folders.                              *)
(***************************************************************************)
EXTENDS GameMerge, Movetext, Identity

CONSTANTS
  StudyClients,     \* requests that may be in flight at once
  StudyCallers,     \* client -> the user it acts for
  MaxStudies,       \* bound: studies ever created
  MaxStudyWrites,   \* bound: requests admitted
  MaxTree,          \* bound: nodes of a tree
  StudyEdits,       \* the edits that clients use
  Sans, Words, Drawings,   \* moves, comments and shapes a client sends
  NoWords,          \* a request without a comment
  Imports,          \* PGNs, as token sequences
  GameRows,         \* games: [sans, label, score, standard, owner]
  MergeLists,       \* the games of a merge request, in order
  MergeCap,         \* max_plies
  Dangers,          \* danger trees: [tree, tags], a tag [role, eval] per node
  Verdict(_),       \* line -> [eval, nag] by the engine
  Arrows(_),        \* position -> plan and threat arrows
  GeneratedBrushes, \* generated_brush
  NoStudy

\* A tree as add_move leaves it: each node is newer than its parent.
BuiltUp(t) ==
  /\ IsTree(t) /\ IsFiniteSet(NodeIds(t)) /\ NodeIds(t) = 0 .. Size(t) - 1 /\ 0 \in NodeIds(t)
  /\ \A n \in NodeIds(t) :
       /\ IsNode(t.nodes[n]) /\ t.nodes[n].children \in Seq(NodeIds(t))
       /\ IF n = 0 THEN t.nodes[n].parent = NoNode ELSE t.nodes[n].parent \in 0 .. n - 1
       /\ \A k \in DOMAIN t.nodes[n].children : t.nodes[t.nodes[n].children[k]].parent = n

\* What the tokenizer hands the reader.
IsToken(tok) ==
  /\ tok.is \in {"move", "nag", "comment", "open", "close", "fen"}
  /\ tok.is = "comment" =>
       /\ IsList(tok.comment.shapes)
       /\ \A told \in BOOLEAN : IsList(Parsed(tok.comment.text, told).shapes)

ASSUME StudyAssumption ==
  /\ MaxStudies \in Nat /\ MaxStudyWrites \in Nat /\ MaxTree \in Nat /\ MergeCap \in Nat
  /\ "none" \notin StudyEdits /\ NoStudy \notin Nat
  /\ \A pgn \in Imports : IsList(pgn) /\ \A tok \in ToSet(pgn) : IsToken(tok)
  /\ \A game \in GameRows : IsList(game.sans)
  /\ \A games \in MergeLists : IsList(games) /\ \A game \in ToSet(games) : IsList(game.sans)
  /\ \A danger \in Dangers : BuiltUp(danger.tree)
  /\ \A words \in Words : IsList(words.shapes)
  /\ \A shapes \in Drawings : IsList(shapes)

VARIABLES studies,    \* id -> [owner, public, tree]
          nextStudy,  \* the autoincrement key
          studyReq,   \* what each request in flight has read and will write
          views,      \* the tree each client was last shown
          promised,   \* history: study -> the lines its acknowledged edits left
          misaddressed, \* history: an id in a good view named another move
          studyWrites

studyVars == <<studies, nextStudy, studyReq, views, promised, misaddressed, studyWrites>>

Stored == DOMAIN studies
Idle   == [op |-> "none"]
NoView == [study |-> NoStudy]
StudyBusy(c) == studyReq[c] # Idle

StudyInit ==
  /\ studies = <<>>
  /\ nextStudy = 1
  /\ studyReq = [c \in StudyClients |-> Idle]
  /\ views = [c \in StudyClients |-> NoView]
  /\ promised = <<>>
  /\ misaddressed = FALSE
  /\ studyWrites = 0

\* The lines of a tree, check and mate markers apart.
Unmarked(lines) == {[k \in DOMAIN l |-> Core(l[k])] : l \in lines}
Held(t) == Unmarked(Lines(t))

\* read_scope: the anonymous caller sees what is shared and nothing else.
Readable(row, user) == row.public \/ (~user.public /\ InScope(row.owner, user))

\* StudyView: what a client is shown; good while no id in it has moved.
ViewOf(s) == [study |-> s, tree |-> studies[s].tree, good |-> TRUE]

(***************************************************************************)
(* Studies come and go.                                                    *)
(***************************************************************************)
\* insert
InsertStudy(c, global, tree) ==
  /\ ~StudyBusy(c)
  /\ global => MayAdminister(StudyCallers[c])
  /\ nextStudy <= MaxStudies
  /\ LET row == [owner |-> IF global THEN Global ELSE StudyCallers[c].id,
                 public |-> FALSE, tree |-> tree]
     IN studies' = [s \in Stored \cup {nextStudy} |-> IF s = nextStudy THEN row ELSE studies[s]]
  /\ promised' = [s \in DOMAIN studies' |-> IF s = nextStudy THEN Held(tree) ELSE promised[s]]
  /\ views' = [views EXCEPT ![c] = [study |-> nextStudy, tree |-> tree, good |-> TRUE]]
  /\ nextStudy' = nextStudy + 1
  /\ UNCHANGED <<studyReq, misaddressed, studyWrites>>

\* create
CreateStudy(c, global) == "create" \in StudyEdits /\ InsertStudy(c, global, NewTree)

\* import_pgn: nothing is stored unless every move is legal.
ImportPgn(c, pgn) ==
  LET read == FromPgn(pgn)
  IN "import" \in StudyEdits /\ read.ok /\ InsertStudy(c, FALSE, read.tree)

\* create_from_game, without a review.
CreateFromGame(c, game) ==
  /\ "from_game" \in StudyEdits
  /\ InScope(game.owner, StudyCallers[c])
  /\ InsertStudy(c, FALSE, [LinearTree(game.sans) EXCEPT
                              !.start = IF game.standard THEN StartPos ELSE game.start])

\* rename, set_public: the row is loaded, and only its own column written.
LoadForFlag(c, s, public) ==
  /\ "share" \in StudyEdits /\ ~StudyBusy(c) /\ s \in Stored
  /\ CanWrite(studies[s].owner, StudyCallers[c])
  /\ studyWrites < MaxStudyWrites /\ studyWrites' = studyWrites + 1
  /\ studyReq' = [studyReq EXCEPT ![c] = [op |-> "share", study |-> s, public |-> public]]
  /\ UNCHANGED <<studies, nextStudy, views, promised, misaddressed>>
SetPublic(c) ==
  LET r == studyReq[c] IN
  /\ r.op = "share"
  /\ studies' = IF r.study \in Stored THEN [studies EXCEPT ![r.study].public = r.public] ELSE studies
  /\ studyReq' = [studyReq EXCEPT ![c] = Idle]
  /\ UNCHANGED <<nextStudy, views, promised, misaddressed, studyWrites>>

\* StudyService::delete
DeleteStudy(c, s) ==
  /\ "drop" \in StudyEdits /\ ~StudyBusy(c) /\ s \in Stored
  /\ CanWrite(studies[s].owner, StudyCallers[c])
  /\ studies' = [x \in Stored \ {s} |-> studies[x]]
  /\ promised' = [x \in Stored \ {s} |-> promised[x]]
  /\ UNCHANGED <<nextStudy, studyReq, views, misaddressed, studyWrites>>

\* get_one and the exports
OpenStudy(c, s) ==
  /\ ~StudyBusy(c) /\ s \in Stored
  /\ Readable(studies[s], StudyCallers[c])
  /\ views' = [views EXCEPT ![c] = ViewOf(s)]
  /\ UNCHANGED <<studies, nextStudy, studyReq, promised, misaddressed, studyWrites>>

(***************************************************************************)
(* Editing a tree.  The client names a node by the id in its view; the id  *)
(* is looked up in the tree that the request loads.                        *)
(***************************************************************************)
HasTwins(t) == Cardinality(Held(t)) < Size(t)

\* load_writable and the edit in memory.  lines is what the study is to hold
\* once the edit is acknowledged; a pass is an edit the program makes by itself.
LoadAndEdit(c, op, n, tree, lines, pass, input) ==
  LET v == views[c]
      t == studies[v.study].tree
  IN /\ op \in StudyEdits /\ ~StudyBusy(c) /\ v # NoView /\ v.study \in Stored
     /\ CanWrite(studies[v.study].owner, StudyCallers[c])
     /\ studyWrites < MaxStudyWrites /\ studyWrites' = studyWrites + 1
     /\ n \in NodeIds(t) /\ (Size(tree) > Size(t) => Size(tree) <= MaxTree)
     /\ studyReq' = [studyReq EXCEPT ![c] =
          [op |-> op, study |-> v.study, loaded |-> studies[v.study], tree |-> tree, lines |-> lines,
           pass |-> pass, input |-> input, at |-> "persist", new |-> 0, intact |-> TRUE]]
     /\ misaddressed' = (misaddressed \/ (v.good /\ LineTo(v.tree, n) # LineTo(t, n)))
     /\ UNCHANGED <<studies, nextStudy, views, promised>>

Seen(c)   == IF views[c] = NoView THEN {} ELSE NodeIds(views[c].tree)
Loaded(c) == studies[views[c].study].tree
CanLoad(c) == ~StudyBusy(c) /\ views[c] # NoView /\ views[c].study \in Stored
Kept0(c)  == promised[views[c].study]

\* add_move_detailed: no look at the children that are there; the legal move
\* is stored without a marker.
AddMoveEdit(c, n, san) ==
  /\ CanLoad(c) /\ n \in NodeIds(Loaded(c))
  /\ Plays(PositionAt(Loaded(c), n), san) # Illegal
  /\ LoadAndEdit(c, "add", n, AddMove(Loaded(c), n, Core(san)),
                 Kept0(c) \cup Unmarked({Append(LineTo(Loaded(c), n), san)}), FALSE, <<>>)

\* annotate: words may carry shapes; both parts of the body are optional.
AnnotateEdit(c, n, words, nag) ==
  /\ CanLoad(c) /\ n \in NodeIds(Loaded(c))
  /\ LET t0 == Loaded(c)
         t1 == IF words = NoWords THEN t0 ELSE SetComment(t0, n, words.text)
         t2 == IF words = NoWords \/ words.shapes = <<>> THEN t1 ELSE SetShapes(t1, n, words.shapes)
         t3 == IF nag = 0 THEN t2 ELSE ToggleNag(t2, n, nag)
     IN LoadAndEdit(c, "annotate", n, t3, Kept0(c), FALSE, <<>>)

\* set_shapes
ShapesEdit(c, n, shapes) ==
  /\ CanLoad(c) /\ n \in NodeIds(Loaded(c))
  /\ LoadAndEdit(c, "shapes", n, SetShapes(Loaded(c), n, shapes), Kept0(c), FALSE, <<>>)

\* edit_tree with promote, reorder and delete; the root has no place to move.
ReorderEdit(c, n, index) ==
  /\ CanLoad(c) /\ Movable(Loaded(c), n)
  /\ LoadAndEdit(c, "reorder", n, Reorder(Loaded(c), n, index), Kept0(c), FALSE, <<>>)
PromoteEdit(c, n) ==
  /\ CanLoad(c) /\ Movable(Loaded(c), n)
  /\ LoadAndEdit(c, "promote", n, Promote(Loaded(c), n), Kept0(c), FALSE, <<>>)
DeleteEdit(c, n) ==
  /\ CanLoad(c) /\ HasParent(Loaded(c), n)
  /\ LET cut  == [k \in DOMAIN LineTo(Loaded(c), n) |-> Core(LineTo(Loaded(c), n)[k])]
         left == DeleteNode(Loaded(c), n)
     IN LoadAndEdit(c, "delete", n, left,
          IF HasTwins(Loaded(c)) THEN Held(left) ELSE {l \in Kept0(c) : ~IsPrefix(cut, l)}, FALSE, <<>>)

\* The lines a list of moves adds from a node on: up to its first illegal one.
LegalPrefixes(t, n, sans) ==
  {LineTo(t, n) \o SubSeq(sans, 1, k) :
     k \in {j \in 0 .. Len(sans) : Replay(PositionAt(t, n), SubSeq(sans, 1, j)) # Illegal}}

\* add_line into a study: all of it, or an error.
AddLineEdit(c, sans, words) ==
  /\ CanLoad(c) /\ sans # <<>> /\ Loaded(c).start = StartPos
  /\ LET grown == Graft(Loaded(c), 0, LinearTree(sans)).tree
         leaf  == ResolveLine(grown, 0, sans)
     IN /\ leaf # NoNode
        /\ LoadAndEdit(c, "add_line", 0,
                       IF words = NoWords THEN grown ELSE SetComment(grown, leaf, words.text),
                       Kept0(c) \cup Unmarked(LegalPrefixes(Loaded(c), 0, sans)), FALSE, <<>>)

\* merge_games: games that do not replay from the start are skipped.
Mergeable(games) == Only(games, {g \in ToSet(games) : g.standard /\ g.sans # <<>>})
MergeEdit(c, games) ==
  /\ CanLoad(c) /\ Loaded(c).start = StartPos
  /\ \A k \in DOMAIN games : InScope(games[k].owner, StudyCallers[c])
  /\ Mergeable(games) # <<>>
  /\ LoadAndEdit(c, "merge", 0, MergeGames(Loaded(c), Mergeable(games), MergeCap),
       Kept0(c) \cup UNION {Unmarked(LegalPrefixes(Loaded(c), 0, Opening(Mergeable(games)[k].sans, MergeCap))) :
                              k \in DOMAIN Mergeable(games)}, TRUE, Mergeable(games))

\* StudyService::mark_transpositions
MarkEdit(c) ==
  CanLoad(c) /\ LoadAndEdit(c, "mark", 0, MarkTranspositions(Loaded(c)).tree, Kept0(c), TRUE, <<>>)

\* merge_danger: only nodes that the graft creates are annotated.
WeaponNag == 1
CautionNag == 6
AnnotateGrafted(t, n, tag) ==
  LET told == SetComment(IF tag.eval = NoEval THEN t ELSE SetEval(t, n, tag.eval), n, tag.comment)
  IN CASE tag.role = "weapon"  -> AddNag(told, n, WeaponNag)
       [] tag.role = "caution" -> AddNag(told, n, CautionNag)
       [] OTHER -> told
AnnotateAdded(danger, acc, pair) ==
  IF pair[1] \in DOMAIN danger.tags THEN AnnotateGrafted(acc, pair[2], danger.tags[pair[1]]) ELSE acc
MergeDangerEdit(c, n, danger) ==
  /\ CanLoad(c) /\ n \in NodeIds(Loaded(c))
  /\ LET t == Loaded(c)
         g == Graft(t, n, danger.tree)
     IN LoadAndEdit(c, "danger", n,
          FoldLeft(LAMBDA acc, pair : AnnotateAdded(danger, acc, pair), g.tree, g.added),
          Kept0(c) \cup UNION {Unmarked(LegalPrefixes(t, n, l)) : l \in Lines(danger.tree)}, TRUE, <<>>)

\* merge_shapes: what a pass drew is replaced, what the user drew stays.
MergeShapes(old, generated) ==
  Only(old, {s \in ToSet(old) : s.brush \notin GeneratedBrushes}) \o generated

\* clear_shapes
ClearShapesEdit(c, all) ==
  /\ CanLoad(c)
  /\ LET t == Loaded(c) IN
     LoadAndEdit(c, "clear", 0,
       [t EXCEPT !.nodes = [n \in NodeIds(t) |-> [t.nodes[n] EXCEPT
          !.shapes = IF all THEN <<>> ELSE MergeShapes(t.nodes[n].shapes, <<>>)]]],
       Kept0(c), ~all, <<>>)

\* regenerate_shapes: nodes in order of their ids, until the budget runs out.
RegenerateEdit(c, layers, reached) ==
  /\ CanLoad(c)
  /\ LET t == Loaded(c)
         drawn(n) == IF layers THEN Arrows(PositionAt(t, n)) ELSE <<>>
     IN LoadAndEdit(c, "regenerate", 0,
          [t EXCEPT !.nodes = [n \in NodeIds(t) |-> IF n < reached
             THEN [t.nodes[n] EXCEPT !.shapes = MergeShapes(t.nodes[n].shapes, drawn(n))]
             ELSE t.nodes[n]]], Kept0(c), TRUE, <<>>)

\* Mutant: the pass leaves the ids tidied.
AnalyseEdit_Compacts(c, reached) ==
  CanLoad(c) /\ LoadAndEdit(c, "analyse", 0, Compact(Loaded(c)), Kept0(c), TRUE, <<>>)

\* analyse_study: every node after the root, until the budget runs out; the
\* nodes not reached keep what they had.  One write at the end of the pass.
Judge(t, n) ==
  LET v == Verdict(LineTo(t, n)) IN SetQualityNag(SetEval(t, n, v.eval), n, v.nag)
AnalyseEdit(c, reached) ==
  /\ CanLoad(c)
  /\ LoadAndEdit(c, "analyse", 0,
       FoldLeft(Judge, Loaded(c), [k \in 1 .. reached - 1 |-> k]), Kept0(c), TRUE, <<>>)

\* The one column that persist sets.
WithTree(row, r) == [row EXCEPT !.tree = r.tree]

\* persist: the tree column, on the row as it now is; an error if it is gone.
Persist(c) ==
  LET r == studyReq[c]
      lost == studies[r.study].tree # r.loaded.tree
      renumbers == r.op = "delete" \/ lost
  IN /\ r.op \in StudyEdits \ {"share"} /\ r.at = "persist"
     /\ IF r.study \notin Stored
        THEN /\ studyReq' = [studyReq EXCEPT ![c] = Idle]
             /\ UNCHANGED <<studies, views, promised>>
        ELSE /\ studies' = [studies EXCEPT ![r.study] = WithTree(studies[r.study], r)]
             /\ promised' = [promised EXCEPT ![r.study] = IF lost THEN Held(r.tree) ELSE r.lines]
             /\ views' = [d \in StudyClients |->
                  IF renumbers /\ views[d].study = r.study THEN [views[d] EXCEPT !.good = FALSE] ELSE views[d]]
             /\ studyReq' = [d \in StudyClients |->
                  IF d = c THEN [r EXCEPT !.at = "refresh", !.new = Size(r.tree) - 1]
                  ELSE IF renumbers /\ StudyBusy(d) /\ studyReq[d].study = r.study /\ studyReq[d].op # "share"
                       THEN [studyReq[d] EXCEPT !.intact = FALSE] ELSE studyReq[d]]
     /\ UNCHANGED <<nextStudy, misaddressed, studyWrites>>

\* refreshed: the study is read again for the answer; add_move also answers
\* with the id of its node.
Refreshed(c) ==
  LET r == studyReq[c]
      named == r.op = "add" /\ r.intact /\ r.study \in Stored
  IN /\ r.op \in StudyEdits \ {"share"} /\ r.at = "refresh"
     /\ studyReq' = [studyReq EXCEPT ![c] = Idle]
     /\ views' = [views EXCEPT ![c] =
          IF r.study \in Stored /\ Readable(studies[r.study], StudyCallers[c]) THEN ViewOf(r.study) ELSE NoView]
     /\ misaddressed' = (misaddressed \/
          (named /\ (r.new \notin NodeIds(studies[r.study].tree)
                     \/ LineTo(studies[r.study].tree, r.new) # LineTo(r.tree, r.new))))
     /\ UNCHANGED <<studies, nextStudy, promised, studyWrites>>

StudyEdit(c) ==
  \/ \E n \in Seen(c), san \in Sans : AddMoveEdit(c, n, san)
  \/ \E n \in Seen(c), w \in Words \cup {NoWords}, nag \in {0, 1, 2} : AnnotateEdit(c, n, w, nag)
  \/ \E n \in Seen(c), d \in Drawings : ShapesEdit(c, n, d)
  \/ \E n \in Seen(c), k \in 0 .. MaxTree : ReorderEdit(c, n, k)
  \/ \E n \in Seen(c) : PromoteEdit(c, n) \/ DeleteEdit(c, n)
  \/ \E g \in GameRows, w \in Words \cup {NoWords} : AddLineEdit(c, g.sans, w)
  \/ \E games \in MergeLists : MergeEdit(c, games)
  \/ MarkEdit(c)
  \/ \E n \in Seen(c), d \in Dangers : MergeDangerEdit(c, n, d)
  \/ \E all \in BOOLEAN : ClearShapesEdit(c, all)
  \/ \E layers \in BOOLEAN, k \in 0 .. MaxTree : RegenerateEdit(c, layers, k)
  \/ \E k \in 1 .. MaxTree : CanLoad(c) /\ k <= Size(Loaded(c)) /\ AnalyseEdit(c, k)

StudyNext ==
  \E c \in StudyClients :
    \/ \E global \in BOOLEAN : CreateStudy(c, global)
    \/ \E pgn \in Imports : ImportPgn(c, pgn)
    \/ \E game \in GameRows : CreateFromGame(c, game)
    \/ \E s \in Stored : OpenStudy(c, s) \/ DeleteStudy(c, s) \/ \E p \in BOOLEAN : LoadForFlag(c, s, p)
    \/ StudyEdit(c)
    \/ SetPublic(c) \/ Persist(c) \/ Refreshed(c)

StudySpec == StudyInit /\ [][StudyNext]_studyVars
=============================================================================
