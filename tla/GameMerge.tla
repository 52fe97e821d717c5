------------------------------ MODULE GameMerge ------------------------------
(***************************************************************************)
(* Folding many games into one repertoire tree (pgn_tree/merge.rs) and the *)
(* transposition notes pinned on the result (pgn_tree/transpositions.rs).  *)
(* A comment is its text and, behind it, perhaps a transposition note.     *)
(* The code knows its own texts by how they begin, so the text of a user   *)
(* can pass for one: kinds "userstats" and "usernote".                     *)
(***************************************************************************)
EXTENDS MoveTree, Integers

CONSTANT MaxSamples   \* MAX_SAMPLES: labels that a statistic names

NoStat  == [games |-> 0, sum |-> 0, scored |-> 0, samples |-> <<>>, white |-> FALSE]
Text(kind, stat) == [kind |-> kind, stat |-> stat]
Comment(text, note) == <<[text |-> text, note |-> note]>>
Empty == Text("none", NoStat)
Prose == Text("user", NoStat)

\* Every comment a node can hold, its absence included; a missing comment
\* and an empty one are the same to both passes.
TextOf(c) == IF c = NoComment THEN Empty ELSE c[1].text

\* Mutant: whatever stands on a branch is taken for a statistic.
ReadsAsStats_Any(text) == text.kind # "none"

\* is_stats_comment: a number and " game"; strip_transposition_note: a text
\* that begins as a note does is all note.
ReadsAsStats(text) == text.kind \in {"stats", "userstats"}
Base(c) == IF TextOf(c).kind = "usernote" THEN Empty ELSE TextOf(c)

\* NodeStat::record; scores are counted in half points, None is NoEval.
Record(stat, game) ==
  [stat EXCEPT
     !.games   = @ + 1,
     !.sum     = IF game.score = NoEval THEN @ ELSE @ + game.score,
     !.scored  = IF game.score = NoEval THEN @ ELSE @ + 1,
     !.samples = IF Len(@) < MaxSamples /\ ~Contains(@, game.label) THEN Append(@, game.label) ELSE @]

\* One move of a game: an illegal move ends its line.
FoldMove(game, acc, san) ==
  LET pos   == IF acc.pos = Illegal THEN Illegal ELSE Plays(acc.pos, san)
      found == ChildBySan(acc.tree, acc.cur, san)
      child == IF found = NoNode THEN Size(acc.tree) ELSE found
      stat  == IF child \in DOMAIN acc.stats THEN acc.stats[child] ELSE NoStat
  IN IF pos = Illegal THEN [acc EXCEPT !.pos = Illegal]
     ELSE [tree  |-> IF found = NoNode THEN AddMove(acc.tree, acc.cur, san) ELSE acc.tree,
           stats |-> [n \in DOMAIN acc.stats \cup {child} |->
                        IF n = child THEN Record(stat, game) ELSE acc.stats[n]],
           cur   |-> child,
           pos   |-> pos]

\* The opening of a game; 0 plies means all of it.
Opening(sans, maxPlies) ==
  IF maxPlies = 0 \/ Len(sans) <= maxPlies THEN sans ELSE SubSeq(sans, 1, maxPlies)

FoldGame(maxPlies, acc, game) ==
  FoldLeft(LAMBDA a, san : FoldMove(game, a, san),
           [tree |-> acc.tree, stats |-> acc.stats, cur |-> 0, pos |-> acc.tree.start],
           Opening(game.sans, maxPlies))
FoldGames(t, games, maxPlies) ==
  FoldLeft(LAMBDA acc, g : FoldGame(maxPlies, acc, g), [tree |-> t, stats |-> <<>>], games)

\* Mutant: moves visited equally often swap their places.
OrderByFrequency_Unstable(t, stats, most) ==
  LET count(n) == IF n \in DOMAIN stats THEN stats[n].games ELSE 0
      sorted(cs) ==
        FoldLeft(LAMBDA acc, k : acc \o Reverse(SelectSeq(cs, LAMBDA c : count(c) = most - k)),
                 <<>>, [k \in 1 .. most + 1 |-> k - 1])
  IN [t EXCEPT !.nodes = [n \in NodeIds(t) |->
                            [t.nodes[n] EXCEPT !.children = sorted(t.nodes[n].children)]]]

\* order_by_frequency: a stable sort, most visited first.
Visits(stats, n) == IF n \in DOMAIN stats THEN stats[n].games ELSE 0
Place(c, acc, count) ==
  acc \o Only(c.moves, {m \in ToSet(c.moves) : Visits(c.stats, m) = count})
Ranked(c, most) ==
  FoldLeft(LAMBDA acc, count : Place(c, acc, count), <<>>, [k \in 1 .. most + 1 |-> most + 1 - k])
OrderByFrequency(t, stats, most) ==
  [t EXCEPT !.nodes = [n \in NodeIds(t) |-> [t.nodes[n] EXCEPT
     !.children = Ranked([moves |-> t.nodes[n].children, stats |-> stats], most)]]]

\* mover_is_white: from the depth, the standard start assumed.
MoverIsWhite(t, n) == Len(LineTo(t, n)) % 2 = 1

\* annotate_branches: only where there is a choice and
\* nothing but a statistic.
AnnotateBranches(t, stats) ==
  LET branch(n) == /\ t.nodes[n].parent # NoNode
                   /\ Len(t.nodes[t.nodes[n].parent].children) >= 2
                   /\ n \in DOMAIN stats
                   /\ t.nodes[n].comment = NoComment \/ ReadsAsStats(TextOf(t.nodes[n].comment))
      stat(n) == Text("stats", [stats[n] EXCEPT !.white = MoverIsWhite(t, n)])
  IN [t EXCEPT !.nodes = [n \in NodeIds(t) |->
        IF branch(n) THEN [t.nodes[n] EXCEPT !.comment = Comment(stat(n), <<>>)] ELSE t.nodes[n]]]

\* describe_move, and tag_transposition: an old note is replaced, the text
\* before it kept.
DescribeMove(t, n) == LET line == LineTo(t, n) IN <<Len(line), line[Len(line)]>>
TagTransposition(t, n, canonical) ==
  SetComment(t, n, Comment(Base(t.nodes[n].comment), DescribeMove(t, canonical)))

\* mark_transpositions: main continuations first; the first node to reach a
\* position is its canonical one.  An illegal move hides what follows it.
MarkNode(acc, n) ==
  LET from == acc.pos[acc.tree.nodes[n].parent]
      pos  == IF from = Illegal THEN Illegal ELSE Plays(from, acc.tree.nodes[n].san)
      seen == {m \in DOMAIN acc.seen : acc.seen[m] = pos}
  IN [acc EXCEPT
        !.pos  = [@ EXCEPT ![n] = pos],
        !.seen = IF pos = Illegal \/ seen # {} THEN @
                 ELSE [m \in DOMAIN @ \cup {n} |-> IF m = n THEN pos ELSE @[m]],
        !.tree = IF pos # Illegal /\ seen # {}
                 THEN TagTransposition(@, n, CHOOSE m \in seen : TRUE) ELSE @,
        !.marked = IF pos # Illegal /\ seen # {} THEN @ + 1 ELSE @]
MarkTranspositions(t) ==
  FoldLeft(MarkNode,
           [tree |-> t, pos |-> [n \in NodeIds(t) |-> t.start], seen |-> <<>>, marked |-> 0],
           Tail(Preorder(t, 0)))

\* merge_games
MergeGames(t, games, maxPlies) ==
  LET folded == FoldGames(t, games, maxPlies)
      ranked == OrderByFrequency(folded.tree, folded.stats, Len(games))
  IN MarkTranspositions(AnnotateBranches(ranked, folded.stats)).tree
=============================================================================
