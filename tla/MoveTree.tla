------------------------------ MODULE MoveTree ------------------------------
(***************************************************************************)
(* The move tree of a study (pgn_tree.rs): an arena of nodes whose ids are *)
(* indices, the first child of a node its main continuation.  Chess itself *)
(* is the parameter Plays: the position a move leads to, or Illegal.       *)
(***************************************************************************)
EXTENDS Naturals, Sequences, FiniteSets, SequencesExt

CONSTANTS Plays(_, _),   \* position, SAN -> position or Illegal
          Core(_),       \* SAN without its check or mate marker
          Illegal,
          StartPos,      \* the standard start
          NoEval,
          NoNode         \* no parent, or no such child

ASSUME MoveTreeAssumption == NoNode \notin Nat

\* A comment is optional: none, or a sequence of one.
NoComment == <<>>

QualityNags == 1 .. 6   \* !, ?, !!, ??, !?, ?!

Node(parent, san) ==
  [parent |-> parent, san |-> san, comment |-> NoComment, nags |-> <<>>,
   shapes |-> <<>>, eval |-> NoEval, children |-> <<>>]

\* MoveTree::new; no move leads to the root.
NoSan   == "none"
NewTree == [start |-> StartPos, nodes |-> [id \in {0} |-> Node(NoNode, NoSan)]]

NodeIds(t) == DOMAIN t.nodes
Size(t) == Cardinality(NodeIds(t))
IsList(s) == s \in Seq(ToSet(s))
IsNode(x) ==
  x = [parent |-> x.parent, san |-> x.san, comment |-> x.comment, nags |-> x.nags,
       shapes |-> x.shapes, eval |-> x.eval, children |-> x.children]
IsTree(t) ==
  /\ t = [start |-> t.start, nodes |-> t.nodes]
  /\ t.nodes = [n \in NodeIds(t) |-> t.nodes[n]]

\* add_move: the new id is the length of the arena.
AddMove(t, parent, san) ==
  LET id  == Size(t)
      old == [t.nodes EXCEPT ![parent].children = Append(@, id)]
  IN [t EXCEPT !.nodes = [n \in NodeIds(t) \cup {id} |->
                            IF n = id THEN Node(parent, san) ELSE old[n]]]

SetComment(t, id, c) == [t EXCEPT !.nodes[id].comment = c]
SetShapes(t, id, s)  == [t EXCEPT !.nodes[id].shapes = s]
SetEval(t, id, e)    == [t EXCEPT !.nodes[id].eval = e]
AddNag(t, id, nag)   == [t EXCEPT !.nodes[id].nags = Append(@, nag)]

\* Vec::retain: what of s is in K.
Keep(K, acc, x) == IF x \in K THEN Append(acc, x) ELSE acc
Only(s, K) == FoldLeft(LAMBDA acc, x : Keep(K, acc, x), <<>>, s)

\* toggle_nag: at most one move-quality glyph is left behind.
ToggleNag(t, id, nag) ==
  LET old  == t.nodes[id].nags
      kept == Only(old, {n \in ToSet(old) : nag \notin QualityNags \/ n \notin QualityNags})
  IN [t EXCEPT !.nodes[id].nags =
        IF Contains(old, nag) THEN RemoveFirst(old, nag) ELSE Append(kept, nag)]

\* set_quality_nag; 0 clears.
SetQualityNag(t, id, nag) ==
  LET kept == Only(t.nodes[id].nags, ToSet(t.nodes[id].nags) \ QualityNags)
  IN [t EXCEPT !.nodes[id].nags = IF nag = 0 THEN kept ELSE Append(kept, nag)]

\* line_to: the moves from the root to id.
LineTo(t, id) ==
  LET line[n \in NodeIds(t)] ==
        IF t.nodes[n].parent = NoNode THEN <<>>
        ELSE Append(line[t.nodes[n].parent], t.nodes[n].san)
  IN line[id]

\* replay: the position after a line, Illegal from the first bad move on.
Replay(from, line) ==
  FoldLeft(LAMBDA pos, san : IF pos = Illegal THEN Illegal ELSE Plays(pos, san), from, line)
PositionAt(t, id) == Replay(t.start, LineTo(t, id))

\* parent_of
HasParent(t, id) == id \in NodeIds(t) /\ t.nodes[id].parent # NoNode

\* reorder, promote; the index is clamped, and the node must be among the
\* children of its parent.
Siblings(t, id) == t.nodes[t.nodes[id].parent].children
Movable(t, id) == HasParent(t, id) /\ Contains(Siblings(t, id), id)
Reorder(t, id, index) ==
  LET rest == Only(Siblings(t, id), ToSet(Siblings(t, id)) \ {id})
      at   == IF index <= Len(rest) THEN index ELSE Len(rest)
  IN [t EXCEPT !.nodes[t.nodes[id].parent].children = InsertAt(rest, at + 1, id)]
Promote(t, id) == Reorder(t, id, 0)

\* The nodes below and including id, main continuations first.
Behind(visited, acc, c) == acc \o visited[c]
Preorder(t, id) ==
  LET visit[n \in NodeIds(t)] ==
        <<n>> \o FoldLeft(LAMBDA acc, c : Behind(visit, acc, c), <<>>, t.nodes[n].children)
  IN visit[id]

\* compact: the arena is rebuilt in preorder, ids dense again.
Compact(t) ==
  LET order  == Preorder(t, 0)
      new(n) == CHOOSE i \in 0 .. Len(order) - 1 : order[i + 1] = n
      node(i) == LET o == t.nodes[order[i + 1]]
                 IN [o EXCEPT !.parent = IF i = 0 THEN NoNode ELSE new(o.parent),
                              !.children = [k \in DOMAIN o.children |-> new(o.children[k])]]
  IN [t EXCEPT !.nodes = [i \in 0 .. Len(order) - 1 |-> node(i)]]

\* Mutant: it is always the main continuation that goes.
DeleteNode_Main(t, id) ==
  Compact([t EXCEPT !.nodes[t.nodes[id].parent].children = Tail(t.nodes[t.nodes[id].parent].children)])

\* delete
DeleteNode(t, id) ==
  LET p == t.nodes[id].parent
  IN Compact([t EXCEPT !.nodes[p].children = Only(Siblings(t, id), ToSet(Siblings(t, id)) \ {id})])

\* child_by_san: the first child with the move, if any.
ChildBySan(t, parent, san) ==
  LET cs   == t.nodes[parent].children
      hits == {k \in DOMAIN cs : Core(t.nodes[cs[k]].san) = Core(san)}
  IN IF hits = {} THEN NoNode ELSE cs[Min(hits)]

\* resolve_line
ResolveLine(t, from, sans) ==
  FoldLeft(LAMBDA n, san : IF n = NoNode THEN NoNode ELSE ChildBySan(t, n, san), from, sans)

\* graft_children: src is walked in preorder; a move that is illegal where it
\* would land is skipped with all that follows it.  added pairs the id in src
\* with the id it got here.
GraftMove(src, acc, c) ==
  LET p      == src.nodes[c].parent
      san    == src.nodes[c].san
      dst    == acc.at[p]
      pos    == IF dst = NoNode THEN Illegal ELSE Plays(acc.pos[p], san)
      found  == IF pos = Illegal THEN NoNode ELSE ChildBySan(acc.tree, dst, san)
      target == IF pos = Illegal THEN NoNode
                ELSE IF found = NoNode THEN Size(acc.tree) ELSE found
      grown  == pos # Illegal /\ found = NoNode
  IN [tree  |-> IF grown THEN AddMove(acc.tree, dst, san) ELSE acc.tree,
      at    |-> [acc.at EXCEPT ![c] = target],
      pos   |-> [acc.pos EXCEPT ![c] = pos],
      added |-> IF grown THEN Append(acc.added, <<c, target>>) ELSE acc.added]
Graft(t, at, src) ==
  FoldLeft(LAMBDA acc, c : GraftMove(src, acc, c),
           [tree |-> t,
            at |-> [n \in NodeIds(src) |-> IF n = 0 THEN at ELSE NoNode],
            pos |-> [n \in NodeIds(src) |-> PositionAt(t, at)],
            added |-> <<>>],
           Tail(Preorder(src, 0)))

\* games::export::linear_tree
LinearTree(sans) ==
  FoldLeft(LAMBDA t, san : AddMove(t, Size(t) - 1, san), NewTree, sans)

\* What every tree of the program is meant to be: ids are dense, parent and
\* children agree, every node is reached from the root once, and every move
\* is legal where it stands.
SoundTree(t) ==
  /\ NodeIds(t) = 0 .. Size(t) - 1
  /\ \A n \in NodeIds(t) :
       /\ n = 0 <=> t.nodes[n].parent = NoNode
       /\ \A k \in DOMAIN t.nodes[n].children : t.nodes[t.nodes[n].children[k]].parent = n
  /\ LET order == Preorder(t, 0)
     IN Len(order) = Size(t) /\ ToSet(order) = NodeIds(t)
  /\ \A n \in NodeIds(t) : PositionAt(t, n) # Illegal

Lines(t) == {LineTo(t, n) : n \in NodeIds(t)}
=============================================================================
