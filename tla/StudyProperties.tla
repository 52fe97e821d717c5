-------------------------- MODULE StudyProperties --------------------------
(***************************************************************************)
(* What the studies promise, over module StudyStore.                       *)
(***************************************************************************)
EXTENDS StudyStore

\* A node id in a client's view names, when its request is served, the move
\* the client saw there; only a deletion, or two edits that overlapped, can
\* change that (pgn_tree.rs delete renumbers, every other edit keeps ids).
\* The id that add_move answers with is the id of its move in the answer.
IdsNameTheirMoves == ~misaddressed

\* A study's tree is sound, and it holds exactly the lines that its acknowledged
\* edits put there and left there, as long as none of them overlapped: a graft
\* or a merge adds the legal prefixes of what it was given and nothing else, a
\* deletion takes the node's subtree, every other edit leaves the lines alone.
LinesAsPromised ==
  \A s \in Stored : SoundTree(studies[s].tree) /\ Held(studies[s].tree) = promised[s]

\* What the user made on the nodes of old is still there in new: the moves
\* under their ids, words, shapes and positional glyphs.  Words that begin as
\* a statistic or a transposition note does are not counted here.
UserWork(node) ==
  [words |-> IF TextOf(node.comment).kind = "user" THEN TextOf(node.comment) ELSE Empty,
   drawn |-> Only(node.shapes, {s \in ToSet(node.shapes) : s.brush \notin GeneratedBrushes}),
   glyphs |-> Only(node.nags, ToSet(node.nags) \ QualityNags)]
KeepsUserWork(old, new) ==
  /\ NodeIds(old) \subseteq NodeIds(new)
  /\ \A n \in NodeIds(old) :
       /\ LineTo(old, n) = LineTo(new, n)
       /\ UserWork(old.nodes[n]) = UserWork(new.nodes[n])

\* A pass of the program (merge, transposition notes, danger, analysis,
\* arrows) never touches what the user made on the tree that it loaded, but
\* for words that read like the pass's own, which a merge and a marking replace.
PassesKeepUserWork ==
  \A c \in StudyClients :
    StudyBusy(c) /\ studyReq[c].op # "share" /\ studyReq[c].pass =>
      KeepsUserWork(studyReq[c].loaded.tree, studyReq[c].tree)

\* Whatever a client has built survives an export and an import: moves,
\* variations in their order, words, glyphs, evaluations and arrows, as long
\* as every comment is plain.  Lost are the colour of a brush that has no
\* letter, comments of no words, and all but the comment of the root.
ExportsRoundTrip ==
  \A s \in Stored :
    LET t == studies[s].tree IN
    (\A n \in NodeIds(t) : Plain(t.nodes[n].comment)) => RoundTrips(t)

\* A merge run again with the same games on its own result changes nothing at
\* all: no move is added, no note is stacked, no order is upset; nor does
\* marking the transpositions again.
PassesAreIdempotent ==
  \A c \in StudyClients :
    LET r == studyReq[c] IN
    StudyBusy(c) /\ r.op # "share" /\ r.at = "persist" =>
      /\ r.op = "merge" => MergeGames(r.tree, r.input, MergeCap) = r.tree
      /\ r.op = "mark" => MarkTranspositions(r.tree).tree = r.tree
=============================================================================
