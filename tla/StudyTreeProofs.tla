-------------------------- MODULE StudyTreeProofs --------------------------
(***************************************************************************)
(* Lemmas about move trees and the algorithms over them, for any chess and *)
(* any trees: arenas stay well formed, ids name their moves, the preorder  *)
(* lists what hangs from the root, and compacting, grafting, merging       *)
(* games, ordering and marking transpositions do to a tree what they       *)
(* should and nothing else.                                                *)
(***************************************************************************)
EXTENDS StudyProperties, FiniteSetTheorems, SequenceTheorems, WellFoundedInduction, TLAPS

(***************************************************************************)
(* The arena.  Ids are dense; a rank r rises from each parent to its       *)
(* child; and the nodes G that hang from the root know their parents.      *)
(***************************************************************************)
Dense(t) == \E k \in Nat : NodeIds(t) = 0 .. k

Rising(t, r) ==
  \A n \in NodeIds(t) :
    /\ n # 0 => r[t.nodes[n].parent] < r[n]
    /\ \A k \in DOMAIN t.nodes[n].children : r[n] < r[t.nodes[n].children[k]]

Hanging(t, G) ==
  /\ 0 \in G
  /\ \A n \in G : \A k \in DOMAIN t.nodes[n].children :
       /\ t.nodes[n].children[k] \in G
       /\ t.nodes[t.nodes[n].children[k]].parent = n

NodesOK(t) ==
  /\ IsTree(t)
  /\ \A n \in NodeIds(t) :
       /\ IsNode(t.nodes[n])
       /\ t.nodes[n].children \in Seq(NodeIds(t))
       /\ IF n = 0 THEN t.nodes[n].parent = NoNode ELSE t.nodes[n].parent \in NodeIds(t)

Arena(t) ==
  /\ NodesOK(t)
  /\ Dense(t)
  /\ \E b \in Nat : \E r \in [NodeIds(t) -> 0 .. b] : Rising(t, r)
  /\ \E G \in SUBSET NodeIds(t) : Hanging(t, G)

\* u has the nodes of t, with their moves.
Extends(t, u) ==
  /\ NodeIds(t) \subseteq NodeIds(u)
  /\ \A n \in NodeIds(t) : t.nodes[n].parent = u.nodes[n].parent /\ t.nodes[n].san = u.nodes[n].san

\* What nodes carry in lists.
Listed(t) == \A n \in NodeIds(t) : IsList(t.nodes[n].nags) /\ IsList(t.nodes[n].shapes)

\* u has what is written on the nodes of t.
SameNotes(t, u) ==
  \A n \in NodeIds(t) :
    /\ u.nodes[n].comment = t.nodes[n].comment
    /\ u.nodes[n].nags = t.nodes[n].nags
    /\ u.nodes[n].shapes = t.nodes[n].shapes

\* u is t but for what its nodes carry and the order of children it has left.
Trimmed(t, u) ==
  /\ IsTree(u) /\ NodeIds(u) = NodeIds(t)
  /\ \A n \in NodeIds(t) :
       /\ IsNode(u.nodes[n])
       /\ u.nodes[n].parent = t.nodes[n].parent /\ u.nodes[n].san = t.nodes[n].san
       /\ u.nodes[n].children \in Seq(ToSet(t.nodes[n].children))

-----------------------------------------------------------------------------
LEMMA ExtendsSelf == ASSUME NEW t PROVE Extends(t, t)
BY DEF Extends

LEMMA ExtendsOn ==
  ASSUME NEW t, NEW u, NEW v, Extends(t, u), Extends(u, v)
  PROVE  Extends(t, v)
BY DEF Extends

LEMMA DenseSize ==
  ASSUME NEW t, NEW k \in Nat, NodeIds(t) = 0 .. k
  PROVE  Size(t) = k + 1
<1>1. Cardinality(0 .. k) = IF 0 > k THEN 0 ELSE k - 0 + 1
  BY FS_Interval
<1> QED  BY <1>1 DEF Size

LEMMA ArenaSize ==
  ASSUME NEW t, Arena(t)
  PROVE  /\ Size(t) \in Nat /\ Size(t) \notin NodeIds(t) /\ NodeIds(t) \subseteq Nat
         /\ 0 \in NodeIds(t) /\ Size(t) - 1 \in NodeIds(t)
         /\ NodeIds(t) = 0 .. (Size(t) - 1)
<1>1. PICK k \in Nat : NodeIds(t) = 0 .. k
  BY DEF Arena, Dense
<1>2. Size(t) = k + 1
  BY <1>1, DenseSize
<1> QED  BY <1>1, <1>2

LEMMA RangeFacts ==
  ASSUME NEW S, NEW s \in Seq(S)
  PROVE  /\ ToSet(s) \subseteq S
         /\ \A k \in DOMAIN s : s[k] \in ToSet(s)
         /\ \A x \in ToSet(s) : \E k \in DOMAIN s : x = s[k]
         /\ s \in Seq(ToSet(s))
BY DEF ToSet

LEMMA RangeJoined ==
  ASSUME NEW S, NEW s \in Seq(S), NEW u \in Seq(S)
  PROVE  s \o u \in Seq(S) /\ ToSet(s \o u) = ToSet(s) \cup ToSet(u)
<1> PICK v : v = s \o u
  OBVIOUS
<1>1. /\ Len(s) \in Nat /\ Len(u) \in Nat /\ DOMAIN s = 1 .. Len(s) /\ DOMAIN u = 1 .. Len(u)
      /\ v \in Seq(S) /\ DOMAIN v = 1 .. (Len(s) + Len(u))
      /\ \A k \in 1 .. (Len(s) + Len(u)) : v[k] = IF k <= Len(s) THEN s[k] ELSE u[k - Len(s)]
  OBVIOUS
<1>2. \A x \in ToSet(v) : x \in ToSet(s) \cup ToSet(u)
  <2> SUFFICES ASSUME NEW k \in 1 .. (Len(s) + Len(u)) PROVE v[k] \in ToSet(s) \cup ToSet(u)
    BY <1>1 DEF ToSet
  <2>1. CASE k <= Len(s)
    BY <1>1, <2>1 DEF ToSet
  <2>2. CASE ~(k <= Len(s))
    <3>1. k - Len(s) \in 1 .. Len(u) /\ v[k] = u[k - Len(s)]
      BY <1>1, <2>2
    <3> QED  BY <1>1, <3>1 DEF ToSet
  <2> QED  BY <2>1, <2>2
<1>3. \A x \in ToSet(s) : x \in ToSet(v)
  <2> SUFFICES ASSUME NEW k \in 1 .. Len(s) PROVE s[k] \in ToSet(v)
    BY <1>1 DEF ToSet
  <2>1. k \in 1 .. (Len(s) + Len(u)) /\ v[k] = s[k]
    BY <1>1
  <2> QED  BY <1>1, <2>1 DEF ToSet
<1>4. \A x \in ToSet(u) : x \in ToSet(v)
  <2> SUFFICES ASSUME NEW k \in 1 .. Len(u) PROVE u[k] \in ToSet(v)
    BY <1>1 DEF ToSet
  <2>1. k + Len(s) \in 1 .. (Len(s) + Len(u)) /\ v[k + Len(s)] = u[k]
    BY <1>1
  <2> QED  BY <1>1, <2>1 DEF ToSet
<1> QED  BY <1>1, <1>2, <1>3, <1>4

\* Children may be dropped and reordered, and notes changed.
LEMMA TrimmedArena ==
  ASSUME NEW t, NEW u, Arena(t), Trimmed(t, u)
  PROVE  Arena(u) /\ Extends(t, u) /\ NodeIds(u) = NodeIds(t)
<1>1. NodeIds(u) = NodeIds(t)
  BY DEF Trimmed, NodeIds
<1>2. \A n \in NodeIds(t) : ToSet(t.nodes[n].children) \subseteq NodeIds(t)
  BY RangeFacts DEF Arena, NodesOK
<1>3. ASSUME NEW n \in NodeIds(t), NEW k \in DOMAIN u.nodes[n].children
      PROVE  \E j \in DOMAIN t.nodes[n].children : u.nodes[n].children[k] = t.nodes[n].children[j]
  <2>1. u.nodes[n].children \in Seq(ToSet(t.nodes[n].children))
    BY DEF Trimmed
  <2>2. u.nodes[n].children[k] \in ToSet(t.nodes[n].children)
    BY <1>3, <2>1
  <2> QED  BY <2>2 DEF ToSet
<1>4. NodesOK(u)
  <2>1. ASSUME NEW n \in NodeIds(u)
        PROVE  /\ IsNode(u.nodes[n])
               /\ u.nodes[n].children \in Seq(NodeIds(u))
               /\ IF n = 0 THEN u.nodes[n].parent = NoNode ELSE u.nodes[n].parent \in NodeIds(u)
    <3>1. u.nodes[n].children \in Seq(ToSet(t.nodes[n].children))
      BY <1>1, <2>1 DEF Trimmed
    <3>2. u.nodes[n].children \in Seq(NodeIds(u))
      BY <1>1, <1>2, <3>1
    <3> QED  BY <1>1, <3>2 DEF Trimmed, Arena, NodesOK
  <2> QED  BY <1>1, <2>1 DEF Trimmed, NodesOK
<1>5. Dense(u)
  BY <1>1 DEF Arena, Dense
<1> PICK b \in Nat : \E r \in [NodeIds(t) -> 0 .. b] : Rising(t, r)
  BY DEF Arena
<1>6. PICK r \in [NodeIds(t) -> 0 .. b] : Rising(t, r)
  OBVIOUS
<1>7. Rising(u, r)
  <2> SUFFICES ASSUME NEW n \in NodeIds(u)
               PROVE  /\ n # 0 => r[u.nodes[n].parent] < r[n]
                      /\ \A k \in DOMAIN u.nodes[n].children : r[n] < r[u.nodes[n].children[k]]
    BY DEF Rising
  <2>1. n # 0 => r[u.nodes[n].parent] < r[n]
    BY <1>1, <1>6 DEF Rising, Trimmed
  <2>2. ASSUME NEW k \in DOMAIN u.nodes[n].children PROVE r[n] < r[u.nodes[n].children[k]]
    BY <1>1, <1>3, <1>6 DEF Rising
  <2> QED  BY <2>1, <2>2
<1>8. PICK G \in SUBSET NodeIds(t) : Hanging(t, G)
  BY DEF Arena
<1>9. Hanging(u, G)
  <2>1. ASSUME NEW n \in G, NEW k \in DOMAIN u.nodes[n].children
        PROVE  u.nodes[n].children[k] \in G /\ u.nodes[u.nodes[n].children[k]].parent = n
    <3>1. PICK j \in DOMAIN t.nodes[n].children : u.nodes[n].children[k] = t.nodes[n].children[j]
      BY <1>3, <1>8
    <3>2. t.nodes[n].children[j] \in G /\ t.nodes[t.nodes[n].children[j]].parent = n
      BY <1>8 DEF Hanging
    <3> QED  BY <3>1, <3>2 DEF Trimmed
  <2> QED  BY <1>8, <2>1 DEF Hanging
<1>10. Extends(t, u)
  BY <1>1 DEF Extends, Trimmed
<1> QED  BY <1>1, <1>4, <1>5, <1>6, <1>7, <1>8, <1>9, <1>10 DEF Arena

LEMMA NewTreeArena == Arena(NewTree)
<1> PICK t : t = NewTree
  OBVIOUS
<1>1. /\ t = [start |-> StartPos, nodes |-> [id \in {0} |-> Node(NoNode, NoSan)]]
      /\ NodeIds(t) = {0} /\ t.nodes[0] = Node(NoNode, NoSan)
  BY DEF NewTree, NodeIds
<1>2. NodesOK(t)
  BY <1>1 DEF NodesOK, IsTree, IsNode, Node
<1>3. Dense(t)
  <2>1. {0} = 0 .. 0
    OBVIOUS
  <2> QED  BY <1>1, <2>1 DEF Dense
<1>4. \E b \in Nat : \E r \in [NodeIds(t) -> 0 .. b] : Rising(t, r)
  <2> DEFINE r == [n \in {0} |-> 0]
  <2>1. r \in [NodeIds(t) -> 0 .. 0]
    BY <1>1
  <2>2. Rising(t, r)
    BY <1>1 DEF Rising, Node
  <2> QED  BY <2>1, <2>2
<1>5. Hanging(t, {0})
  BY <1>1 DEF Hanging, Node
<1> QED  BY <1>1, <1>2, <1>3, <1>4, <1>5 DEF Arena

Grown(x, id) == [x EXCEPT !.children = Append(@, id)]

\* add_move: the new node is the last; nothing else of the tree changes but
\* the children of its parent.
LEMMA AddMoveShape ==
  ASSUME NEW t, Arena(t), NEW p \in NodeIds(t), NEW san, NEW u, u = AddMove(t, p, san)
  PROVE  /\ IsTree(u) /\ u.start = t.start /\ NodeIds(u) = NodeIds(t) \cup {Size(t)}
         /\ u.nodes[Size(t)] = Node(p, san)
         /\ \A n \in NodeIds(t) :
              u.nodes[n] = IF n = p THEN Grown(t.nodes[n], Size(t)) ELSE t.nodes[n]
<1> DEFINE old == [t.nodes EXCEPT ![p].children = Append(@, Size(t))]
           new == [n \in NodeIds(t) \cup {Size(t)} |-> IF n = Size(t) THEN Node(p, san) ELSE old[n]]
<1>1. \A n \in NodeIds(t) :
        old[n] = IF n = p THEN Grown(t.nodes[n], Size(t)) ELSE t.nodes[n]
  BY DEF NodeIds, Grown
<1>2. Size(t) \notin NodeIds(t)
  BY ArenaSize
<1>3. u = [t EXCEPT !.nodes = new]
  BY DEF AddMove
<1> HIDE DEF old
<1>4. /\ DOMAIN new = NodeIds(t) \cup {Size(t)} /\ new = [n \in DOMAIN new |-> new[n]]
      /\ new[Size(t)] = Node(p, san) /\ \A n \in NodeIds(t) : new[n] = old[n]
  BY <1>2
<1> HIDE DEF new
<1>5. u = [start |-> t.start, nodes |-> new]
  <2>1. t = [start |-> t.start, nodes |-> t.nodes]
    BY DEF Arena, NodesOK, IsTree
  <2> QED  BY ONLY <1>3, <2>1
<1>6. u.nodes = new /\ u.start = t.start /\ NodeIds(u) = DOMAIN new
  BY <1>5 DEF NodeIds
<1>7. IsTree(u)
  BY ONLY <1>4, <1>5, <1>6 DEF IsTree
<1> QED  BY <1>1, <1>4, <1>6, <1>7

LEMMA GrownNode ==
  ASSUME NEW x, IsNode(x), NEW y, NEW id, y = Grown(x, id)
  PROVE  /\ IsNode(y) /\ y.children = Append(x.children, id)
         /\ y.parent = x.parent /\ y.san = x.san /\ y.comment = x.comment /\ y.nags = x.nags /\ y.shapes = x.shapes
BY DEF IsNode, Grown

LEMMA AddMoveArena ==
  ASSUME NEW t, Arena(t), NEW p \in NodeIds(t), NEW san, NEW u, u = AddMove(t, p, san)
  PROVE  /\ Arena(u) /\ Extends(t, u) /\ SameNotes(t, u) /\ u.start = t.start
         /\ NodeIds(u) = NodeIds(t) \cup {Size(t)}
         /\ u.nodes[Size(t)].nags = <<>> /\ u.nodes[Size(t)].shapes = <<>>
<1>a. /\ IsTree(u) /\ u.start = t.start /\ NodeIds(u) = NodeIds(t) \cup {Size(t)}
      /\ u.nodes[Size(t)] = Node(p, san)
      /\ \A n \in NodeIds(t) :
           u.nodes[n] = IF n = p THEN Grown(t.nodes[n], Size(t)) ELSE t.nodes[n]
  BY AddMoveShape
<1> PICK id : id = Size(t)
  OBVIOUS
<1> PICK D : D = NodeIds(t)
  OBVIOUS
<1>0. /\ id \in Nat /\ id \notin D /\ 0 \in D /\ id # 0
      /\ D \subseteq Nat /\ D = 0 .. (id - 1)
  BY ArenaSize
<1>1. /\ IsTree(u) /\ u.start = t.start /\ NodeIds(u) = D \cup {id}
      /\ u.nodes[id] = Node(p, san)
      /\ \A n \in D : u.nodes[n] = IF n = p THEN Grown(t.nodes[n], id) ELSE t.nodes[n]
  BY <1>a
<1>2. ASSUME NEW n \in D
      PROVE  /\ IsNode(u.nodes[n])
             /\ u.nodes[n].children = IF n = p THEN Append(t.nodes[n].children, id) ELSE t.nodes[n].children
             /\ u.nodes[n].parent = t.nodes[n].parent /\ u.nodes[n].san = t.nodes[n].san
             /\ u.nodes[n].comment = t.nodes[n].comment /\ u.nodes[n].nags = t.nodes[n].nags
             /\ u.nodes[n].shapes = t.nodes[n].shapes
  <2>1. IsNode(t.nodes[n])
    BY DEF Arena, NodesOK
  <2>2. CASE n = p
    <3> PICK x : x = t.nodes[n]
      OBVIOUS
    <3> PICK y : y = u.nodes[n]
      OBVIOUS
    <3>1. IsNode(x) /\ y = Grown(x, id)
      BY <1>1, <2>1, <2>2
    <3>2. /\ IsNode(y) /\ y.children = Append(x.children, id)
          /\ y.parent = x.parent /\ y.san = x.san /\ y.comment = x.comment /\ y.nags = x.nags /\ y.shapes = x.shapes
      BY ONLY <3>1, GrownNode
    <3> QED  BY <2>2, <3>2
  <2>3. CASE n # p
    <3>1. u.nodes[n] = t.nodes[n]
      BY <1>1, <2>3
    <3> QED  BY ONLY <2>1, <2>3, <3>1
  <2> QED  BY <2>2, <2>3
<1>3. /\ u.nodes[id].parent = p /\ u.nodes[id].children = <<>> /\ IsNode(u.nodes[id])
      /\ u.nodes[id].nags = <<>> /\ u.nodes[id].shapes = <<>>
  BY <1>1 DEF Node, IsNode
<1>4. ASSUME NEW n \in D
      PROVE  /\ t.nodes[n].children \in Seq(D)
             /\ IF n = 0 THEN t.nodes[n].parent = NoNode ELSE t.nodes[n].parent \in D
  BY DEF Arena, NodesOK
<1>5. NodesOK(u)
  <2>1. ASSUME NEW n \in NodeIds(u)
        PROVE  /\ IsNode(u.nodes[n])
               /\ u.nodes[n].children \in Seq(NodeIds(u))
               /\ IF n = 0 THEN u.nodes[n].parent = NoNode ELSE u.nodes[n].parent \in NodeIds(u)
    <3>1. CASE n = id
      <4>1. <<>> \in Seq(NodeIds(u))
        OBVIOUS
      <4> QED  BY <1>0, <1>1, <1>3, <3>1, <4>1
    <3>2. CASE n \in D
      <4>1. t.nodes[n].children \in Seq(NodeIds(u)) /\ id \in NodeIds(u)
        BY <1>1, <1>4, <3>2
      <4>2. u.nodes[n].children \in Seq(NodeIds(u))
        <5> PICK cs : cs = t.nodes[n].children
          OBVIOUS
        <5>1. Append(cs, id) \in Seq(NodeIds(u))
          BY <4>1
        <5> QED  BY <1>2, <3>2, <4>1, <5>1
      <4>3. IF n = 0 THEN u.nodes[n].parent = NoNode ELSE u.nodes[n].parent \in NodeIds(u)
        BY <1>1, <1>2, <1>4, <3>2
      <4> QED  BY <1>2, <3>2, <4>2, <4>3
    <3> QED  BY <1>1, <3>1, <3>2
  <2> QED  BY <1>1, <2>1 DEF NodesOK
<1>6. Dense(u)
  <2>1. NodeIds(u) = 0 .. id
    BY <1>0, <1>1
  <2> QED  BY <1>0, <2>1 DEF Dense
<1> PICK b \in Nat : \E r \in [D -> 0 .. b] : Rising(t, r)
  BY DEF Arena
<1>7. PICK r \in [D -> 0 .. b] : Rising(t, r)
  OBVIOUS
<1>8. PICK q : q = [n \in D \cup {id} |-> IF n = id THEN r[p] + 1 ELSE r[n]]
  OBVIOUS
<1>9. /\ q[id] = r[p] + 1 /\ r[p] \in Nat /\ (\A n \in D : q[n] = r[n] /\ r[n] \in Nat)
      /\ q \in [NodeIds(u) -> 0 .. (b + 1)] /\ p \in D
  <2>1. \A n \in D : r[n] \in 0 .. b
    BY <1>7
  <2>2. \A n \in D : n # id
    BY <1>0
  <2>3. p \in D
    OBVIOUS
  <2>4. q[id] = r[p] + 1 /\ r[p] \in Nat /\ (\A n \in D : q[n] = r[n] /\ r[n] \in Nat)
    BY <1>8, <2>1, <2>2, <2>3
  <2>5. \A n \in D \cup {id} : q[n] \in 0 .. (b + 1)
    BY <2>1, <2>3, <2>4
  <2>6. q \in [D \cup {id} -> 0 .. (b + 1)]
    BY ONLY <1>8, <2>5
  <2> QED  BY <1>1, <2>3, <2>4, <2>6
<1>10. Rising(u, q)
  <2>1. ASSUME NEW n \in NodeIds(u), n # 0 PROVE q[u.nodes[n].parent] < q[n]
    <3>1. CASE n = id
      <4>1. q[p] < q[id]
        BY <1>9
      <4> QED  BY <1>3, <3>1, <4>1
    <3>2. CASE n \in D
      <4>1. t.nodes[n].parent \in D /\ r[t.nodes[n].parent] < r[n]
        BY <1>4, <1>7, <2>1, <3>2 DEF Rising
      <4>2. u.nodes[n].parent = t.nodes[n].parent
        BY <1>2, <3>2
      <4>3. q[t.nodes[n].parent] = r[t.nodes[n].parent] /\ q[n] = r[n]
        BY <1>9, <3>2, <4>1
      <4> QED  BY ONLY <4>1, <4>2, <4>3
    <3> QED  BY <1>1, <3>1, <3>2
  <2>2. ASSUME NEW n \in NodeIds(u), NEW k \in DOMAIN u.nodes[n].children
        PROVE  q[n] < q[u.nodes[n].children[k]]
    <3>1. n # id
      <4>1. DOMAIN <<>> = {}
        OBVIOUS
      <4> QED  BY <1>3, <2>2, <4>1
    <3>2. n \in D
      BY <1>1, <3>1
    <3> PICK cs : cs = t.nodes[n].children
      OBVIOUS
    <3>3. cs \in Seq(D) /\ (\A j \in DOMAIN cs : r[n] < r[cs[j]])
      BY <1>4, <1>7, <3>2 DEF Rising
    <3>4. \A j \in DOMAIN cs : q[n] < q[cs[j]]
      <4>1. \A j \in DOMAIN cs : cs[j] \in D
        BY <3>3
      <4> QED  BY <1>9, <3>2, <3>3, <4>1
    <3>5. CASE n # p
      <4>1. u.nodes[n].children = cs
        BY <1>2, <3>2, <3>5
      <4> QED  BY <2>2, <3>4, <4>1
    <3>6. CASE n = p
      <4>1. u.nodes[n].children = Append(cs, id)
        BY <1>2, <3>2, <3>6
      <4>2. (k \in DOMAIN cs /\ Append(cs, id)[k] = cs[k]) \/ Append(cs, id)[k] = id
        <5>1. k \in DOMAIN Append(cs, id)
          BY <2>2, <4>1
        <5> QED  BY ONLY <3>3, <5>1
      <4>3. q[n] < q[id]
        BY <1>9, <3>6
      <4> QED  BY <3>4, <4>1, <4>2, <4>3
    <3> QED  BY <3>5, <3>6
  <2> QED  BY <2>1, <2>2 DEF Rising
<1>11. PICK G \in SUBSET D : Hanging(t, G)
  BY DEF Arena
<1>12. PICK H : H = IF p \in G THEN G \cup {id} ELSE G
  OBVIOUS
<1>13. H \in SUBSET NodeIds(u) /\ 0 \in H /\ G \subseteq H /\ H \subseteq G \cup {id} /\ (p \in G => id \in H)
  BY <1>1, <1>11, <1>12 DEF Hanging
<1>14. Hanging(u, H)
  <2>1. ASSUME NEW n \in H, NEW k \in DOMAIN u.nodes[n].children
        PROVE  u.nodes[n].children[k] \in H /\ u.nodes[u.nodes[n].children[k]].parent = n
    <3>1. n # id
      <4>1. DOMAIN <<>> = {}
        OBVIOUS
      <4> QED  BY <1>3, <2>1, <4>1
    <3>2. n \in G /\ n \in D
      BY <1>11, <1>13, <2>1, <3>1
    <3> PICK cs : cs = t.nodes[n].children
      OBVIOUS
    <3>3. cs \in Seq(D) /\ (\A j \in DOMAIN cs : cs[j] \in G /\ t.nodes[cs[j]].parent = n)
      BY <1>4, <1>11, <3>2 DEF Hanging
    <3>4. \A j \in DOMAIN cs : cs[j] \in H /\ u.nodes[cs[j]].parent = n
      <4>1. \A j \in DOMAIN cs : cs[j] \in D
        BY <3>3
      <4> QED  BY <1>2, <1>13, <3>3, <4>1
    <3>5. CASE n # p
      <4>1. u.nodes[n].children = cs
        BY <1>2, <3>2, <3>5
      <4> QED  BY <2>1, <3>4, <4>1
    <3>6. CASE n = p
      <4>1. u.nodes[n].children = Append(cs, id)
        BY <1>2, <3>2, <3>6
      <4>2. (k \in DOMAIN cs /\ Append(cs, id)[k] = cs[k]) \/ Append(cs, id)[k] = id
        <5>1. k \in DOMAIN Append(cs, id)
          BY <2>1, <4>1
        <5> QED  BY ONLY <3>3, <5>1
      <4>3. id \in H /\ u.nodes[id].parent = n
        BY <1>3, <1>13, <3>2, <3>6
      <4> QED  BY <3>4, <4>1, <4>2, <4>3
    <3> QED  BY <3>5, <3>6
  <2> QED  BY <1>13, <2>1 DEF Hanging
<1>15. Arena(u)
  <2>1. b + 1 \in Nat
    OBVIOUS
  <2>2. \E rr \in [NodeIds(u) -> 0 .. (b + 1)] : Rising(u, rr)
    BY ONLY <1>9, <1>10
  <2>3. \E bb \in Nat : \E rr \in [NodeIds(u) -> 0 .. bb] : Rising(u, rr)
    BY ONLY <2>1, <2>2
  <2> QED  BY ONLY <1>5, <1>6, <1>13, <1>14, <2>3 DEF Arena
<1>16. Extends(t, u) /\ SameNotes(t, u) /\ u.start = t.start
  <2>1. u.start = t.start
    BY ONLY <1>1
  <2>2. Extends(t, u)
    BY <1>1, <1>2 DEF Extends
  <2>3. SameNotes(t, u)
    BY <1>2 DEF SameNotes
  <2> QED  BY <2>1, <2>2, <2>3
<1> QED  BY <1>1, <1>3, <1>15, <1>16

-----------------------------------------------------------------------------
(***************************************************************************)
(* line_to follows the parents.                                            *)
(***************************************************************************)
LineBody(t, line, n) ==
  IF t.nodes[n].parent = NoNode THEN <<>> ELSE Append(line[t.nodes[n].parent], t.nodes[n].san)
AnyLine(c, acc) == TRUE
Lining == INSTANCE Folding WITH Op <- LineBody, Inv <- AnyLine

LEMMA LineToParent ==
  ASSUME NEW t, Arena(t)
  PROVE  \A n \in NodeIds(t) :
           LineTo(t, n) = IF n = 0 THEN <<>> ELSE Append(LineTo(t, t.nodes[n].parent), t.nodes[n].san)
<1> PICK b \in Nat : \E r \in [NodeIds(t) -> 0 .. b] : Rising(t, r)
  BY DEF Arena
<1>1. PICK r \in [NodeIds(t) -> 0 .. b] : Rising(t, r)
  OBVIOUS
<1>2. \A n \in NodeIds(t) : IF n = 0 THEN t.nodes[n].parent = NoNode ELSE t.nodes[n].parent \in NodeIds(t)
  BY DEF Arena, NodesOK
<1>3. NoNode \notin NodeIds(t)
  BY ArenaSize, MoveTreeAssumption
<1>4. ASSUME NEW f, NEW g, NEW n \in NodeIds(t), \A m \in NodeIds(t) : r[m] < r[n] => f[m] = g[m]
      PROVE  LineBody(t, f, n) = LineBody(t, g, n)
  <2>1. n # 0 => f[t.nodes[n].parent] = g[t.nodes[n].parent]
    BY <1>1, <1>2, <1>4 DEF Rising
  <2>2. n = 0 => t.nodes[n].parent = NoNode
    BY <1>2
  <2> QED  BY <2>1, <2>2 DEF LineBody
<1> DEFINE h == CHOOSE f : f = [n \in NodeIds(t) |-> LineBody(t, f, n)]
<1>5. \A n \in NodeIds(t) : h[n] = LineBody(t, h, n)
  <2>1. \A f, g : \A n \in NodeIds(t) :
          (\A m \in NodeIds(t) : r[m] < r[n] => f[m] = g[m]) => LineBody(t, f, n) = LineBody(t, g, n)
    BY <1>4
  <2>2. Lining!Recursive(t, NodeIds(t), h)
    BY DEF Lining!Recursive
  <2> HIDE DEF h
  <2> QED  BY <2>1, <2>2, Lining!Recursion
<1>6. \A n \in NodeIds(t) : LineTo(t, n) = h[n]
  BY DEF LineTo, LineBody
<1> HIDE DEF h
<1> QED
  <2> SUFFICES ASSUME NEW n \in NodeIds(t)
               PROVE LineTo(t, n) = IF n = 0 THEN <<>> ELSE Append(LineTo(t, t.nodes[n].parent), t.nodes[n].san)
    OBVIOUS
  <2>1. CASE n = 0
    BY <1>2, <1>5, <1>6, <2>1 DEF LineBody
  <2>2. CASE n # 0
    <3>1. t.nodes[n].parent \in NodeIds(t) /\ t.nodes[n].parent # NoNode
      BY <1>2, <1>3, <2>2
    <3> QED  BY <1>5, <1>6, <2>2, <3>1 DEF LineBody
  <2> QED  BY <2>1, <2>2

\* A node's line is the same in every tree that has its nodes.
LEMMA SameLine ==
  ASSUME NEW t, NEW u, Arena(t), Arena(u), Extends(t, u)
  PROVE  \A n \in NodeIds(t) : LineTo(t, n) = LineTo(u, n)
<1> PICK b \in Nat : \E r \in [NodeIds(t) -> 0 .. b] : Rising(t, r)
  BY DEF Arena
<1>1. PICK r \in [NodeIds(t) -> 0 .. b] : Rising(t, r)
  OBVIOUS
<1> DEFINE Apart == {n \in NodeIds(t) : LineTo(t, n) # LineTo(u, n)}
           Bad   == {k \in Nat : \E n \in Apart : r[n] = k}
<1>2. ASSUME Bad # {} PROVE FALSE
  <2>1. PICK k \in Bad : \A j \in Bad : k <= j
    <3>1. Bad \subseteq Nat
      OBVIOUS
    <3> HIDE DEF Bad
    <3> QED  BY <1>2, <3>1, Lining!Least
  <2>2. PICK n \in Apart : r[n] = k
    BY <2>1
  <2>3. n \in NodeIds(t) /\ n \in NodeIds(u) /\ LineTo(t, n) # LineTo(u, n)
        /\ t.nodes[n].parent = u.nodes[n].parent /\ t.nodes[n].san = u.nodes[n].san
    BY <2>2 DEF Extends
  <2>4. n # 0
    <3>1. LineTo(t, 0) = <<>> /\ LineTo(u, 0) = <<>>
      BY LineToParent, ArenaSize
    <3> QED  BY <2>3, <3>1
  <2> PICK p : p = t.nodes[n].parent
    OBVIOUS
  <2>5. p \in NodeIds(t) /\ r[p] < r[n]
    BY <1>1, <2>3, <2>4 DEF Rising, Arena, NodesOK
  <2>6. /\ LineTo(t, n) = Append(LineTo(t, p), t.nodes[n].san)
        /\ LineTo(u, n) = Append(LineTo(u, p), t.nodes[n].san)
    <3>1. LineTo(t, n) = Append(LineTo(t, p), t.nodes[n].san)
      BY <2>3, <2>4, LineToParent
    <3>2. LineTo(u, n) = Append(LineTo(u, u.nodes[n].parent), u.nodes[n].san)
      BY <2>3, <2>4, LineToParent
    <3> QED  BY <2>3, <3>1, <3>2
  <2>7. LineTo(t, p) # LineTo(u, p)
    BY <2>3, <2>6
  <2>8. p \in Apart /\ r[p] \in Bad
    <3>1. r[p] \in Nat
      BY <2>5
    <3> QED  BY <2>5, <2>7, <3>1
  <2>9. k <= r[p]
    BY <2>1, <2>8
  <2>10. r[p] \in Nat /\ r[n] \in Nat
    BY <2>3, <2>5
  <2> QED  BY <2>2, <2>5, <2>9, <2>10
<1>3. \A n \in NodeIds(t) : r[n] \in Nat
  OBVIOUS
<1> QED  BY <1>2, <1>3

-----------------------------------------------------------------------------
(***************************************************************************)
(* The preorder visits the nodes that hang from where it starts.           *)
(***************************************************************************)
VisitBody(t, visit, n) ==
  <<n>> \o FoldLeft(LAMBDA acc, c : Behind(visit, acc, c), <<>>, t.nodes[n].children)

Visited(t, r, G, n, v) ==
  /\ v \in Seq(G) /\ v # <<>> /\ v[1] = n
  /\ \A x \in ToSet(v) : /\ r[x] >= r[n]
                         /\ \A k \in DOMAIN t.nodes[x].children : t.nodes[x].children[k] \in ToSet(v)
  /\ \A k \in DOMAIN v : k # 1 => r[v[k]] > r[n] /\ t.nodes[v[k]].parent \in ToSet(v)

Below(t, r, G, n, at, acc) ==
  /\ acc \in Seq(G)
  /\ \A x \in ToSet(acc) :
       /\ r[x] > r[n] /\ t.nodes[x].parent \in ToSet(acc) \cup {n}
       /\ \A k \in DOMAIN t.nodes[x].children : t.nodes[x].children[k] \in ToSet(acc)
  /\ \A k \in 1 .. at : t.nodes[n].children[k] \in ToSet(acc)
Gathered(d, s) == Below(d.t, d.r, d.G, d.n, s.at, s.acc)

Visiting  == INSTANCE Folding WITH Op <- VisitBody, Inv <- AnyLine
Gathering == INSTANCE Folding WITH Op <- Behind, Inv <- Gathered

LEMMA VisitFold ==
  ASSUME NEW t, NEW visit, NEW n
  PROVE  VisitBody(t, visit, n) = <<n>> \o Gathering!Of(visit, <<>>, t.nodes[n].children)
BY DEF VisitBody, Gathering!Of, FoldLeft, MapThenFoldSet, Max, Gathering!Highest

LEMMA VisitAlike ==
  ASSUME NEW t, NEW n, NEW S, t.nodes[n].children \in Seq(S), NEW f, NEW g, \A m \in S : f[m] = g[m]
  PROVE  VisitBody(t, f, n) = VisitBody(t, g, n)
<1>1. PICK cs : cs = t.nodes[n].children
  OBVIOUS
<1>2. cs \in Seq(S)
  BY <1>1
<1>3. ASSUME NEW acc, NEW k \in 1 .. Len(cs) PROVE Behind(f, acc, cs[k]) = Behind(g, acc, cs[k])
  <2>1. cs[k] \in S
    BY <1>2
  <2> QED  BY <2>1 DEF Behind
<1>4. Gathering!Of(f, <<>>, cs) = Gathering!Of(g, <<>>, cs)
  <2>1. PICK base : base = <<>>
    OBVIOUS
  <2>2. \A acc : \A k \in 1 .. Len(cs) : Behind(f, acc, cs[k]) = Behind(g, acc, cs[k])
    BY ONLY <1>3
  <2>3. Gathering!Of(f, base, cs) = Gathering!Of(g, base, cs)
    BY ONLY <1>2, <2>2, Gathering!Alike
  <2> QED  BY ONLY <2>1, <2>3
<1> QED  BY ONLY <1>1, <1>4, VisitFold

LEMMA PreorderBody ==
  ASSUME NEW t, Arena(t)
  PROVE  \E visit : \A n \in NodeIds(t) : Preorder(t, n) = visit[n] /\ visit[n] = VisitBody(t, visit, n)
<1> PICK b \in Nat : \E r \in [NodeIds(t) -> 0 .. b] : Rising(t, r)
  BY DEF Arena
<1>1. PICK r \in [NodeIds(t) -> 0 .. b] : Rising(t, r)
  OBVIOUS
<1> PICK q : q = [n \in NodeIds(t) |-> b - r[n]]
  OBVIOUS
<1>2. q \in [NodeIds(t) -> 0 .. b] /\ \A n \in NodeIds(t) : q[n] = b - r[n]
  OBVIOUS
<1>3. ASSUME NEW f, NEW g, NEW n \in NodeIds(t), \A m \in NodeIds(t) : q[m] < q[n] => f[m] = g[m]
      PROVE  VisitBody(t, f, n) = VisitBody(t, g, n)
  <2>1. PICK cs : cs = t.nodes[n].children
    OBVIOUS
  <2>2. cs \in Seq(NodeIds(t)) /\ \A k \in DOMAIN cs : r[n] < r[cs[k]]
    BY <1>1, <2>1 DEF Rising, Arena, NodesOK
  <2>3. cs \in Seq(ToSet(cs))
    BY <2>2, RangeFacts
  <2>4. ASSUME NEW m \in ToSet(cs) PROVE f[m] = g[m]
    <3>1. m \in NodeIds(t) /\ r[n] < r[m]
      BY <2>2 DEF ToSet
    <3>2. q[m] < q[n]
      <4>1. r[m] \in Nat /\ r[n] \in Nat /\ q[m] = b - r[m] /\ q[n] = b - r[n]
        BY <1>2, <3>1
      <4> QED  BY ONLY <3>1, <4>1
    <3> QED  BY <1>3, <3>1, <3>2
  <2> QED  BY ONLY <2>1, <2>3, <2>4, VisitAlike
<1> DEFINE h == CHOOSE f : f = [n \in NodeIds(t) |-> VisitBody(t, f, n)]
<1>4. \A n \in NodeIds(t) : h[n] = VisitBody(t, h, n)
  <2>1. \A f, g : \A n \in NodeIds(t) :
          (\A m \in NodeIds(t) : q[m] < q[n] => f[m] = g[m]) => VisitBody(t, f, n) = VisitBody(t, g, n)
    BY <1>3
  <2>2. Visiting!Recursive(t, NodeIds(t), h)
    BY DEF Visiting!Recursive
  <2> HIDE DEF h
  <2> QED  BY <1>2, <2>1, <2>2, Visiting!Recursion
<1>5. \A n \in NodeIds(t) : Preorder(t, n) = h[n]
  BY DEF Preorder, VisitBody
<1> HIDE DEF h
<1> QED  BY <1>4, <1>5

LEMMA PreorderVisits ==
  ASSUME NEW t, Arena(t), NEW b \in Nat, NEW r \in [NodeIds(t) -> 0 .. b], Rising(t, r),
         NEW G \in SUBSET NodeIds(t), Hanging(t, G)
  PROVE  \A n \in G : Visited(t, r, G, n, Preorder(t, n))
<1>1. PICK visit : \A n \in NodeIds(t) : Preorder(t, n) = visit[n] /\ visit[n] = VisitBody(t, visit, n)
  BY PreorderBody
<1>0. \A x \in G : r[x] \in Nat
  OBVIOUS
<1>2. ASSUME NEW n \in G, \A m \in G : r[m] > r[n] => Visited(t, r, G, m, visit[m])
      PROVE  Visited(t, r, G, n, visit[n])
  <2>1. PICK cs : cs = t.nodes[n].children
    OBVIOUS
  <2>2. PICK d : d = [t |-> t, r |-> r, G |-> G, n |-> n]
    OBVIOUS
  <2>3. \A acc, k : Gathered(d, [at |-> k, acc |-> acc]) <=> Below(t, r, G, n, k, acc)
    BY ONLY <2>2 DEF Gathered
  <2>4. /\ cs \in Seq(G)
        /\ \A c \in ToSet(cs) : c \in G /\ t.nodes[c].parent = n /\ r[c] > r[n]
    <3>1. cs \in Seq(NodeIds(t))
      BY <2>1 DEF Arena, NodesOK
    <3>2. \A k \in DOMAIN cs : cs[k] \in G /\ t.nodes[cs[k]].parent = n
      BY <2>1 DEF Hanging
    <3>3. \A k \in DOMAIN cs : r[n] < r[cs[k]]
      BY <2>1 DEF Rising
    <3>4. ASSUME NEW c \in ToSet(cs) PROVE c \in G /\ t.nodes[c].parent = n /\ r[c] > r[n]
      <4>1. PICK k \in DOMAIN cs : c = cs[k]
        BY DEF ToSet
      <4>2. c \in G /\ t.nodes[c].parent = n /\ r[n] < r[c]
        BY <3>2, <3>3, <4>1
      <4> QED  BY <1>0, <4>2
    <3>5. cs \in Seq(G)
      BY ONLY <3>1, <3>2
    <3> QED  BY <3>4, <3>5
  <2>5. ASSUME NEW acc, NEW k \in 1 .. Len(cs), Gathered(d, [at |-> k - 1, acc |-> acc])
        PROVE  Gathered(d, [at |-> k, acc |-> Behind(visit, acc, cs[k])])
    <3>0. PICK c : c = cs[k]
      OBVIOUS
    <3>1. PICK v : v = visit[c]
      OBVIOUS
    <3>2. PICK a : a = acc \o v
      OBVIOUS
    <3>3. c \in ToSet(cs) /\ k \in DOMAIN cs
      BY <2>4, <3>0, RangeFacts
    <3>4. c \in G /\ t.nodes[c].parent = n /\ r[c] > r[n] /\ Visited(t, r, G, c, v)
      BY <1>2, <2>4, <3>1, <3>3
    <3>5. /\ acc \in Seq(G)
          /\ \A x \in ToSet(acc) :
               /\ r[x] > r[n] /\ t.nodes[x].parent \in ToSet(acc) \cup {n}
               /\ \A j \in DOMAIN t.nodes[x].children : t.nodes[x].children[j] \in ToSet(acc)
          /\ \A j \in 1 .. (k - 1) : cs[j] \in ToSet(acc)
      BY <2>1, <2>3, <2>5 DEF Below
    <3>6. a \in Seq(G) /\ ToSet(a) = ToSet(acc) \cup ToSet(v)
      <4>1. v \in Seq(G)
        BY <3>4 DEF Visited
      <4> QED  BY ONLY <3>2, <3>5, <4>1, RangeJoined
    <3>7. /\ \A x \in ToSet(v) : /\ r[x] >= r[c] /\ x \in G
                                 /\ \A j \in DOMAIN t.nodes[x].children : t.nodes[x].children[j] \in ToSet(v)
          /\ \A j \in DOMAIN v : j # 1 => t.nodes[v[j]].parent \in ToSet(v)
          /\ v[1] = c /\ c \in ToSet(v)
      <4>1. v \in Seq(G) /\ v # <<>> /\ v[1] = c
        BY <3>4 DEF Visited
      <4>2. 1 \in DOMAIN v
        BY ONLY <4>1
      <4>3. c \in ToSet(v) /\ \A x \in ToSet(v) : x \in G
        BY ONLY <4>1, <4>2, RangeFacts
      <4> QED  BY <3>4, <4>1, <4>3 DEF Visited
    <3>8. ASSUME NEW x \in ToSet(v)
          PROVE  /\ r[x] > r[n] /\ t.nodes[x].parent \in ToSet(v) \cup {n}
                 /\ \A j \in DOMAIN t.nodes[x].children : t.nodes[x].children[j] \in ToSet(v)
      <4>1. r[x] > r[n]
        <5>1. r[x] >= r[c] /\ r[c] > r[n] /\ r[x] \in Nat /\ r[c] \in Nat /\ r[n] \in Nat
          BY <1>0, <3>4, <3>7
        <5> QED  BY ONLY <5>1
      <4>2. PICK j \in DOMAIN v : x = v[j]
        BY DEF ToSet
      <4> QED  BY <3>4, <3>7, <4>1, <4>2
    <3>9. ASSUME NEW j \in 1 .. k PROVE cs[j] \in ToSet(a)
      <4>1. j \in 1 .. (k - 1) \/ j = k
        OBVIOUS
      <4> QED  BY <3>0, <3>5, <3>6, <3>7, <4>1
    <3>10. \A x \in ToSet(a) :
             /\ r[x] > r[n] /\ t.nodes[x].parent \in ToSet(a) \cup {n}
             /\ \A j \in DOMAIN t.nodes[x].children : t.nodes[x].children[j] \in ToSet(a)
      BY <3>5, <3>6, <3>8
    <3>11. Below(t, r, G, n, k, a)
      BY ONLY <2>1, <3>6, <3>9, <3>10 DEF Below
    <3>12. Behind(visit, acc, cs[k]) = a
      BY ONLY <3>0, <3>1, <3>2 DEF Behind
    <3> QED  BY ONLY <2>3, <3>11, <3>12
  <2>6. PICK below : below = Gathering!Of(visit, <<>>, cs)
    OBVIOUS
  <2>7. Below(t, r, G, n, Len(cs), below)
    <3>1. Gathered(d, [at |-> 0, acc |-> <<>>])
      <4>1. Below(t, r, G, n, 0, <<>>)
        BY DEF Below, ToSet
      <4> QED  BY ONLY <2>3, <4>1
    <3>2. Gathered(d, [at |-> Len(cs), acc |-> Gathering!Of(visit, <<>>, cs)])
      BY ONLY <2>4, <2>5, <3>1, Gathering!Followed
    <3> QED  BY ONLY <2>3, <2>6, <3>2
  <2>8. /\ below \in Seq(G)
        /\ \A x \in ToSet(below) :
             /\ r[x] > r[n] /\ t.nodes[x].parent \in ToSet(below) \cup {n} /\ x \in G
             /\ \A j \in DOMAIN t.nodes[x].children : t.nodes[x].children[j] \in ToSet(below)
        /\ \A j \in DOMAIN cs : cs[j] \in ToSet(below)
    <3>1. below \in Seq(G) /\ DOMAIN cs = 1 .. Len(cs)
      BY <2>4, <2>7 DEF Below
    <3>2. \A x \in ToSet(below) : x \in G
      BY ONLY <3>1, RangeFacts
    <3> QED  BY ONLY <2>1, <2>7, <3>1, <3>2 DEF Below
  <2>9. PICK v : v = <<n>> \o below
    OBVIOUS
  <2>10. visit[n] = v
    BY <1>1, <2>1, <2>6, <2>9, VisitFold
  <2>11. /\ v \in Seq(G) /\ v # <<>> /\ v[1] = n /\ ToSet(v) = {n} \cup ToSet(below)
         /\ \A k \in DOMAIN v : k # 1 => v[k] \in ToSet(below)
    <3>1. <<n>> \in Seq(G) /\ ToSet(<<n>>) = {n}
      BY DEF ToSet
    <3>2. v \in Seq(G) /\ ToSet(v) = {n} \cup ToSet(below)
      <4>1. PICK w : w = <<n>>
        OBVIOUS
      <4>2. w \in Seq(G) /\ ToSet(w) = {n} /\ v = w \o below
        BY ONLY <2>9, <3>1, <4>1
      <4> QED  BY ONLY <2>8, <4>2, RangeJoined
    <3>3. v[1] = n /\ Len(v) = 1 + Len(below) /\ \A k \in DOMAIN v : k # 1 => k - 1 \in DOMAIN below /\ v[k] = below[k - 1]
      BY ONLY <2>8, <2>9
    <3>4. v # <<>>
      BY ONLY <2>8, <3>3
    <3>5. \A k \in DOMAIN below : below[k] \in ToSet(below)
      BY DEF ToSet
    <3> QED  BY ONLY <3>2, <3>3, <3>4, <3>5
  <2>12. ASSUME NEW x \in ToSet(v)
         PROVE  /\ r[x] >= r[n]
                /\ \A k \in DOMAIN t.nodes[x].children : t.nodes[x].children[k] \in ToSet(v)
    <3>1. CASE x = n
      BY <1>0, <2>1, <2>8, <2>11, <3>1
    <3>2. CASE x \in ToSet(below)
      <4>1. r[x] \in Nat /\ r[n] \in Nat /\ r[x] > r[n]
        BY <1>0, <2>8, <3>2
      <4> QED  BY <2>8, <2>11, <3>2, <4>1
    <3> QED  BY <2>11, <3>1, <3>2
  <2>13. \A k \in DOMAIN v : k # 1 => r[v[k]] > r[n] /\ t.nodes[v[k]].parent \in ToSet(v)
    BY <2>8, <2>11
  <2> QED  BY <2>10, <2>11, <2>12, <2>13 DEF Visited
<1> DEFINE Bad == {k \in Nat : \E n \in G : r[n] = b - k /\ ~Visited(t, r, G, n, visit[n])}
<1>3. ASSUME Bad # {} PROVE FALSE
  <2>1. PICK k \in Bad : \A j \in Bad : k <= j
    <3>1. Bad \subseteq Nat
      OBVIOUS
    <3> HIDE DEF Bad
    <3> QED  BY <1>3, <3>1, Gathering!Least
  <2>2. PICK n \in G : r[n] = b - k /\ ~Visited(t, r, G, n, visit[n])
    BY <2>1
  <2>3. PICK m \in G : r[m] > r[n] /\ ~Visited(t, r, G, m, visit[m])
    BY <1>2, <2>2
  <2>4. r[m] \in 0 .. b /\ r[n] \in 0 .. b
    OBVIOUS
  <2>5. b - r[m] \in Nat /\ r[m] = b - (b - r[m]) /\ b - r[m] < b - r[n] /\ b - r[n] = k
    BY <2>2, <2>3, <2>4
  <2>6. b - r[m] \in Bad
    BY <2>3, <2>5
  <2> QED  BY <2>1, <2>5, <2>6
<1>4. ASSUME NEW n \in G PROVE Visited(t, r, G, n, visit[n])
  <2>1. r[n] \in 0 .. b
    OBVIOUS
  <2>2. b - r[n] \in Nat /\ r[n] = b - (b - r[n])
    BY <2>1
  <2> QED  BY <1>3, <2>2
<1> QED  BY <1>1, <1>4

-----------------------------------------------------------------------------
(***************************************************************************)
(* compact renumbers what hangs from the root.                             *)
(***************************************************************************)
NewId(v, x) == CHOOSE i \in 0 .. Len(v) - 1 : v[i + 1] = x
Renamed(o, v, i) ==
  [o EXCEPT !.parent = IF i = 0 THEN NoNode ELSE NewId(v, o.parent),
            !.children = [k \in DOMAIN o.children |-> NewId(v, o.children[k])]]

LEMMA NewIdFinds ==
  ASSUME NEW S, NEW v \in Seq(S), NEW x \in ToSet(v)
  PROVE  NewId(v, x) \in 0 .. Len(v) - 1 /\ v[NewId(v, x) + 1] = x
<1>1. PICK k \in 1 .. Len(v) : v[k] = x
  BY DEF ToSet
<1>2. k - 1 \in 0 .. Len(v) - 1 /\ v[(k - 1) + 1] = x
  BY <1>1
<1> QED  BY <1>2 DEF NewId

LEMMA CompactShape ==
  ASSUME NEW t, IsTree(t), NEW v, v = Preorder(t, 0), NEW u, u = Compact(t)
  PROVE  /\ IsTree(u) /\ u.start = t.start /\ NodeIds(u) = 0 .. Len(v) - 1
         /\ \A i \in NodeIds(u) : u.nodes[i] = Renamed(t.nodes[v[i + 1]], v, i)
<1> DEFINE ns == [i \in 0 .. Len(Preorder(t, 0)) - 1 |->
                    Renamed(t.nodes[Preorder(t, 0)[i + 1]], Preorder(t, 0), i)]
<1>1. u = [t EXCEPT !.nodes = ns]
  BY DEF Compact, Renamed, NewId
<1>2. /\ DOMAIN ns = 0 .. Len(v) - 1 /\ ns = [n \in DOMAIN ns |-> ns[n]]
      /\ \A i \in DOMAIN ns : ns[i] = Renamed(t.nodes[v[i + 1]], v, i)
  OBVIOUS
<1> HIDE DEF ns
<1>3. u = [start |-> t.start, nodes |-> ns]
  <2>1. t = [start |-> t.start, nodes |-> t.nodes]
    BY DEF IsTree
  <2> QED  BY ONLY <1>1, <2>1
<1>4. u.nodes = ns /\ u.start = t.start /\ NodeIds(u) = DOMAIN ns
  BY ONLY <1>3 DEF NodeIds
<1>5. IsTree(u)
  BY ONLY <1>2, <1>3, <1>4 DEF IsTree
<1> QED  BY ONLY <1>2, <1>4, <1>5

LEMMA RenamedNode ==
  ASSUME NEW o, IsNode(o), NEW S, NEW v \in Seq(S), o.children \in Seq(ToSet(v)), NEW i,
         NEW y, y = Renamed(o, v, i)
  PROVE  /\ IsNode(y) /\ y.children \in Seq(0 .. Len(v) - 1)
         /\ DOMAIN y.children = DOMAIN o.children
         /\ \A k \in DOMAIN o.children : y.children[k] = NewId(v, o.children[k])
         /\ y.parent = IF i = 0 THEN NoNode ELSE NewId(v, o.parent)
<1>1. PICK cs : cs = o.children
  OBVIOUS
<1>2. PICK p : p = IF i = 0 THEN NoNode ELSE NewId(v, o.parent)
  OBVIOUS
<1> DEFINE ns == [k \in DOMAIN cs |-> NewId(v, cs[k])]
<1>3. y = [o EXCEPT !.parent = p, !.children = ns]
  BY <1>1, <1>2 DEF Renamed
<1>4. ns \in Seq(0 .. Len(v) - 1) /\ DOMAIN ns = DOMAIN cs /\ \A k \in DOMAIN cs : ns[k] = NewId(v, cs[k])
  <2>1. Len(cs) \in Nat /\ DOMAIN cs = 1 .. Len(cs)
    BY <1>1
  <2>2. \A k \in DOMAIN cs : NewId(v, cs[k]) \in 0 .. Len(v) - 1
    <3>1. \A k \in DOMAIN cs : cs[k] \in ToSet(v)
      BY <1>1
    <3> QED  BY <3>1, NewIdFinds
  <2>3. ns \in [1 .. Len(cs) -> 0 .. Len(v) - 1]
    BY ONLY <2>1, <2>2
  <2>4. ns \in Seq(0 .. Len(v) - 1)
    <3> HIDE DEF ns
    <3> QED  BY ONLY <2>1, <2>3
  <2> QED  BY <2>4
<1> HIDE DEF ns
<1>5. IsNode(y) /\ y.children = ns /\ y.parent = p
  BY ONLY <1>3, IsNode(o) DEF IsNode
<1> QED  BY ONLY <1>1, <1>2, <1>4, <1>5

LEMMA CompactArena ==
  ASSUME NEW t, Arena(t), NEW u, u = Compact(t)
  PROVE  Arena(u)
<1>1. PICK b \in Nat : \E r \in [NodeIds(t) -> 0 .. b] : Rising(t, r)
  BY DEF Arena
<1>2. PICK r \in [NodeIds(t) -> 0 .. b] : Rising(t, r)
  BY <1>1
<1>3. PICK G \in SUBSET NodeIds(t) : Hanging(t, G)
  BY DEF Arena
<1>4. PICK v : v = Preorder(t, 0)
  OBVIOUS
<1>5. 0 \in G /\ Visited(t, r, G, 0, v)
  BY <1>2, <1>3, <1>4, PreorderVisits DEF Hanging
<1>6. PICK D : D = 0 .. Len(v) - 1
  OBVIOUS
<1>7. /\ v \in Seq(G) /\ Len(v) \in Nat /\ Len(v) > 0 /\ v[1] = 0 /\ DOMAIN v = 1 .. Len(v)
      /\ \A x \in ToSet(v) : x \in G /\ x \in NodeIds(t) /\ r[x] \in 0 .. b
      /\ \A i \in D : i + 1 \in DOMAIN v /\ v[i + 1] \in ToSet(v)
  <2>1. v \in Seq(G) /\ v # <<>> /\ v[1] = 0
    BY <1>5 DEF Visited
  <2>2. Len(v) \in Nat /\ Len(v) > 0 /\ DOMAIN v = 1 .. Len(v)
    BY ONLY <2>1
  <2>3. \A x \in ToSet(v) : x \in G /\ x \in NodeIds(t) /\ r[x] \in 0 .. b
    BY <2>1, RangeFacts
  <2>4. \A i \in D : i + 1 \in DOMAIN v
    BY ONLY <1>6, <2>2
  <2>5. \A i \in D : v[i + 1] \in ToSet(v)
    BY ONLY <2>1, <2>4, RangeFacts
  <2> QED  BY ONLY <2>1, <2>2, <2>3, <2>4, <2>5
<1>8. /\ \A x \in ToSet(v) : \A k \in DOMAIN t.nodes[x].children : t.nodes[x].children[k] \in ToSet(v)
      /\ \A x \in ToSet(v) : r[x] >= r[0]
      /\ \A k \in DOMAIN v : k # 1 => v[k] # 0 /\ t.nodes[v[k]].parent \in ToSet(v)
  <2>1. \A k \in DOMAIN v : k # 1 => r[v[k]] > r[0]
    BY ONLY <1>5 DEF Visited
  <2>2. r[0] \in Nat
    BY <1>5
  <2>3. ~(r[0] > r[0])
    BY ONLY <2>2
  <2> QED  BY ONLY <1>5, <2>1, <2>3 DEF Visited
<1>9. \A x \in ToSet(v) : NewId(v, x) \in D /\ v[NewId(v, x) + 1] = x
  BY ONLY <1>6, <1>7, NewIdFinds
<1>10. NewId(v, 0) = 0 /\ 0 \in D /\ 0 \in ToSet(v)
  <2>1. 0 \in D /\ 1 \in DOMAIN v
    BY ONLY <1>6, <1>7
  <2>2. 0 \in ToSet(v)
    BY ONLY <1>7, <2>1, RangeFacts
  <2>3. NewId(v, 0) \in D /\ v[NewId(v, 0) + 1] = 0
    BY ONLY <1>9, <2>2
  <2>4. NewId(v, 0) + 1 \in DOMAIN v
    BY ONLY <1>7, <2>3
  <2>5. NewId(v, 0) + 1 = 1
    BY ONLY <1>8, <2>3, <2>4
  <2>6. NewId(v, 0) \in Int
    BY ONLY <1>6, <2>3
  <2> QED  BY ONLY <2>1, <2>2, <2>5, <2>6
<1>11. /\ IsTree(u) /\ NodeIds(u) = D
       /\ \A i \in D : u.nodes[i] = Renamed(t.nodes[v[i + 1]], v, i)
  <2>1. IsTree(t)
    BY DEF Arena, NodesOK
  <2> QED  BY ONLY <1>4, <1>6, <2>1, u = Compact(t), CompactShape
<1>12. ASSUME NEW x \in ToSet(v)
       PROVE  /\ IsNode(t.nodes[x]) /\ t.nodes[x].children \in Seq(ToSet(v))
  <2>1. IsNode(t.nodes[x]) /\ t.nodes[x].children \in Seq(NodeIds(t))
    BY <1>7 DEF Arena, NodesOK
  <2>2. \A k \in DOMAIN t.nodes[x].children : t.nodes[x].children[k] \in ToSet(v)
    BY <1>8
  <2>3. PICK cs : cs = t.nodes[x].children
    OBVIOUS
  <2>4. cs \in Seq(ToSet(v))
    BY ONLY <2>1, <2>2, <2>3
  <2> QED  BY <2>1, <2>3, <2>4
<1>13. ASSUME NEW i \in D, NEW x, x = v[i + 1]
       PROVE  /\ IsNode(u.nodes[i]) /\ u.nodes[i].children \in Seq(D)
              /\ DOMAIN u.nodes[i].children = DOMAIN t.nodes[x].children
              /\ \A k \in DOMAIN t.nodes[x].children : u.nodes[i].children[k] = NewId(v, t.nodes[x].children[k])
              /\ u.nodes[i].parent = IF i = 0 THEN NoNode ELSE NewId(v, t.nodes[x].parent)
  <2>1. x \in ToSet(v)
    BY <1>7, <1>13
  <2>2. PICK o : o = t.nodes[x]
    OBVIOUS
  <2>3. PICK y : y = u.nodes[i]
    OBVIOUS
  <2>4. IsNode(o) /\ o.children \in Seq(ToSet(v))
    BY <1>12, <2>1, <2>2
  <2>5. y = Renamed(o, v, i)
    BY <1>11, <1>13, <2>2, <2>3
  <2>6. /\ IsNode(y) /\ y.children \in Seq(0 .. Len(v) - 1)
        /\ DOMAIN y.children = DOMAIN o.children
        /\ \A k \in DOMAIN o.children : y.children[k] = NewId(v, o.children[k])
        /\ y.parent = IF i = 0 THEN NoNode ELSE NewId(v, o.parent)
    BY ONLY <1>7, <2>4, <2>5, RenamedNode
  <2> QED  BY ONLY <1>6, <2>2, <2>3, <2>6
<1>14. ASSUME NEW i \in D, i # 0, NEW x, x = v[i + 1]
       PROVE  /\ x \in ToSet(v) /\ x # 0 /\ t.nodes[x].parent \in ToSet(v) /\ u.nodes[i].parent = NewId(v, t.nodes[x].parent)
              /\ NewId(v, t.nodes[x].parent) \in D
  <2>1. i + 1 \in DOMAIN v /\ i + 1 # 1
    <3>1. i \in Int
      BY <1>6
    <3> QED  BY <1>7, <1>14, <3>1
  <2>2. x # 0 /\ t.nodes[x].parent \in ToSet(v)
    BY <1>8, <1>14, <2>1
  <2>3. x \in ToSet(v)
    BY <1>7, <1>14
  <2>4. u.nodes[i].parent = NewId(v, t.nodes[x].parent)
    BY <1>13, <1>14
  <2> QED  BY <1>9, <2>2, <2>3, <2>4
<1>15. NodesOK(u)
  <2>1. ASSUME NEW i \in D
        PROVE  /\ IsNode(u.nodes[i]) /\ u.nodes[i].children \in Seq(D)
               /\ IF i = 0 THEN u.nodes[i].parent = NoNode ELSE u.nodes[i].parent \in D
    <3>1. PICK x : x = v[i + 1]
      OBVIOUS
    <3>2. /\ IsNode(u.nodes[i]) /\ u.nodes[i].children \in Seq(D)
          /\ i = 0 => u.nodes[i].parent = NoNode
      BY <1>13, <3>1
    <3>3. i # 0 => u.nodes[i].parent \in D
      BY <1>14, <3>1
    <3> QED  BY <3>2, <3>3
  <2> QED  BY ONLY <1>11, <2>1 DEF NodesOK
<1>16. Dense(u)
  <2>1. Len(v) - 1 \in Nat
    BY ONLY <1>7
  <2> QED  BY ONLY <1>6, <1>11, <2>1 DEF Dense
<1>17. PICK q : q = [i \in D |-> r[v[i + 1]]]
  OBVIOUS
<1>18. q \in [D -> 0 .. b] /\ \A i \in D : q[i] = r[v[i + 1]]
  BY <1>7, <1>17
<1>19. Rising(u, q)
  <2>1. ASSUME NEW i \in D, i # 0 PROVE q[u.nodes[i].parent] < q[i]
    <3>1. PICK x : x = v[i + 1]
      OBVIOUS
    <3>2. PICK p : p = t.nodes[x].parent
      OBVIOUS
    <3>3. x \in ToSet(v) /\ x # 0 /\ p \in ToSet(v) /\ u.nodes[i].parent = NewId(v, p) /\ NewId(v, p) \in D
      BY <1>14, <2>1, <3>1, <3>2
    <3>4. q[NewId(v, p)] = r[p] /\ q[i] = r[x]
      BY <1>9, <1>18, <3>1, <3>3
    <3>5. r[p] < r[x]
      BY <1>2, <1>7, <3>2, <3>3 DEF Rising
    <3> QED  BY ONLY <3>3, <3>4, <3>5
  <2>2. ASSUME NEW i \in D, NEW k \in DOMAIN u.nodes[i].children PROVE q[i] < q[u.nodes[i].children[k]]
    <3>1. PICK x : x = v[i + 1]
      OBVIOUS
    <3>2. PICK c : c = t.nodes[x].children[k]
      OBVIOUS
    <3>3. x \in ToSet(v) /\ k \in DOMAIN t.nodes[x].children /\ u.nodes[i].children[k] = NewId(v, c)
      <4>1. x \in ToSet(v)
        BY <1>7, <3>1
      <4>2. k \in DOMAIN t.nodes[x].children
        BY <1>13, <2>2, <3>1
      <4> QED  BY <1>13, <3>1, <3>2, <4>1, <4>2
    <3>4. c \in ToSet(v)
      BY <1>8, <3>2, <3>3
    <3>5. q[NewId(v, c)] = r[c] /\ q[i] = r[x]
      BY <1>9, <1>18, <3>1, <3>4
    <3>6. r[x] < r[c]
      BY <1>2, <1>7, <3>2, <3>3 DEF Rising
    <3> QED  BY ONLY <3>3, <3>5, <3>6
  <2> QED  BY ONLY <1>11, <2>1, <2>2 DEF Rising
<1>20. PICK H : H = {i \in D : \E x \in ToSet(v) : i = NewId(v, x)}
  OBVIOUS
<1>21. Hanging(u, H)
  <2>1. 0 \in H
    BY ONLY <1>10, <1>20
  <2>2. ASSUME NEW i \in H, NEW k \in DOMAIN u.nodes[i].children
        PROVE  u.nodes[i].children[k] \in H /\ u.nodes[u.nodes[i].children[k]].parent = i
    <3>1. PICK x \in ToSet(v) : i = NewId(v, x)
      BY <1>20
    <3>2. i \in D /\ x = v[i + 1]
      BY <1>9, <3>1
    <3>3. PICK c : c = t.nodes[x].children[k]
      OBVIOUS
    <3>4. k \in DOMAIN t.nodes[x].children
      BY <1>13, <2>2, <3>2
    <3>5. u.nodes[i].children[k] = NewId(v, c)
      BY <1>13, <3>2, <3>3, <3>4
    <3>6. c \in ToSet(v) /\ c \in G /\ t.nodes[c].parent = x
      BY <1>3, <1>7, <1>8, <3>3, <3>4 DEF Hanging
    <3>7. PICK j : j = NewId(v, c)
      OBVIOUS
    <3>8. j \in D /\ c = v[j + 1] /\ j \in H
      BY <1>9, <1>20, <3>6, <3>7
    <3>9. j # 0
      <4>1. SUFFICES ASSUME j = 0 PROVE FALSE
        OBVIOUS
      <4>2. c = 0
        BY <1>7, <3>8, <4>1
      <4>3. r[x] < r[c]
        BY <1>2, <1>7, <3>1, <3>3, <3>4 DEF Rising
      <4>4. r[x] >= r[0] /\ r[x] \in 0 .. b /\ r[c] \in 0 .. b
        BY <1>7, <1>8, <3>1, <3>6
      <4> QED  BY ONLY <4>2, <4>3, <4>4
    <3>10. u.nodes[j].parent = NewId(v, t.nodes[c].parent)
      BY <1>14, <3>8, <3>9
    <3> QED  BY <3>1, <3>5, <3>6, <3>7, <3>8, <3>10
  <2> QED  BY ONLY <2>1, <2>2 DEF Hanging
<1>22. H \in SUBSET NodeIds(u)
  BY ONLY <1>11, <1>20
<1>23. q \in [NodeIds(u) -> 0 .. b]
  BY ONLY <1>11, <1>18
<1> QED  BY ONLY <1>1, <1>15, <1>16, <1>19, <1>21, <1>22, <1>23 DEF Arena

-----------------------------------------------------------------------------
(***************************************************************************)
(* What the helpers of the tree answer with.                               *)
(***************************************************************************)
LEMMA LeastOf == ASSUME NEW T, T \subseteq Nat, T # {} PROVE Min(T) \in T
BY Gathering!Least DEF Min

LEMMA ChildFound ==
  ASSUME NEW t, Arena(t), NEW p \in NodeIds(t), NEW san
  PROVE  ChildBySan(t, p, san) \in NodeIds(t) \cup {NoNode}
<1>1. PICK cs : cs = t.nodes[p].children
  OBVIOUS
<1>2. cs \in Seq(NodeIds(t))
  BY <1>1 DEF Arena, NodesOK
<1>3. PICK hits : hits = {k \in DOMAIN cs : Core(t.nodes[cs[k]].san) = Core(san)}
  OBVIOUS
<1>4. hits # {} => Min(hits) \in DOMAIN cs
  <2>1. DOMAIN cs = 1 .. Len(cs)
    BY ONLY <1>2
  <2>2. hits \subseteq Nat /\ hits \subseteq DOMAIN cs
    BY ONLY <1>3, <2>1
  <2> QED  BY ONLY <2>2, LeastOf
<1>5. hits # {} => cs[Min(hits)] \in NodeIds(t)
  BY ONLY <1>2, <1>4
<1>6. ChildBySan(t, p, san) = IF hits = {} THEN NoNode ELSE cs[Min(hits)]
  BY <1>1, <1>3 DEF ChildBySan
<1> QED  BY <1>5, <1>6

InSeq(S, acc) == acc \in Seq(S)
Keeping == INSTANCE Folding WITH Op <- Keep, Inv <- InSeq

LEMMA OnlyFold == ASSUME NEW s, NEW K PROVE Only(s, K) = Keeping!Of(K, <<>>, s)
BY DEF Only, Keeping!Of, FoldLeft, MapThenFoldSet, Max, Keeping!Highest

LEMMA OnlyIn ==
  ASSUME NEW S, NEW s \in Seq(S), NEW K
  PROVE  Only(s, K) \in Seq(S \cap K)
<1>1. ASSUME NEW acc, NEW x \in S, InSeq(S \cap K, acc) PROVE InSeq(S \cap K, Keep(K, acc, x))
  BY <1>1 DEF InSeq, Keep
<1>2. PICK base : base = <<>>
  OBVIOUS
<1>3. InSeq(S \cap K, base)
  BY <1>2 DEF InSeq
<1>4. \A acc : \A x \in S : InSeq(S \cap K, acc) => InSeq(S \cap K, Keep(K, acc, x))
  BY <1>1
<1>5. InSeq(S \cap K, Keeping!Of(K, base, s))
  BY ONLY <1>3, <1>4, s \in Seq(S), Keeping!Preserved
<1> QED  BY <1>2, <1>5, OnlyFold DEF InSeq

LEMMA OnlyOf ==
  ASSUME NEW S, NEW s \in Seq(S), NEW K
  PROVE  Only(s, K) \in Seq(ToSet(s) \cap K) /\ Only(s, K) \in Seq(ToSet(s))
<1>1. s \in Seq(ToSet(s))
  BY RangeFacts
<1>2. Only(s, K) \in Seq(ToSet(s) \cap K)
  BY ONLY <1>1, OnlyIn
<1> QED  BY <1>2

\* What is kept of a list behind which comes a list to be dropped.
FirstOf(a, s) ==
  /\ s.acc \in Seq(ToSet(a))
  /\ Len(s.acc) = IF s.at <= Len(a) THEN s.at ELSE Len(a)
  /\ \A j \in 1 .. Len(s.acc) : s.acc[j] = a[j]
Splitting == INSTANCE Folding WITH Op <- Keep, Inv <- FirstOf

LEMMA OnlySplit ==
  ASSUME NEW A, NEW a \in Seq(A), NEW B, NEW g \in Seq(B), NEW K, A \subseteq K, B \cap K = {}
  PROVE  Only(a \o g, K) = a
<1>1. PICK s : s = a \o g
  OBVIOUS
<1>2. /\ s \in Seq(A \cup B) /\ Len(s) = Len(a) + Len(g) /\ Len(a) \in Nat /\ Len(g) \in Nat
      /\ \A k \in 1 .. Len(s) : s[k] = IF k <= Len(a) THEN a[k] ELSE g[k - Len(a)]
  BY ONLY <1>1, a \in Seq(A), g \in Seq(B)
<1>3. ASSUME NEW acc, NEW k \in 1 .. Len(s), FirstOf(a, [at |-> k - 1, acc |-> acc])
      PROVE  FirstOf(a, [at |-> k, acc |-> Keep(K, acc, s[k])])
  <2>1. /\ acc \in Seq(ToSet(a)) /\ Len(acc) = IF k - 1 <= Len(a) THEN k - 1 ELSE Len(a)
        /\ \A j \in 1 .. Len(acc) : acc[j] = a[j]
    BY <1>3 DEF FirstOf
  <2>2. CASE k <= Len(a)
    <3>1. s[k] = a[k] /\ a[k] \in ToSet(a) /\ a[k] \in K /\ Len(acc) = k - 1
      BY <1>2, <2>1, <2>2, RangeFacts
    <3>2. PICK more : more = Append(acc, a[k])
      OBVIOUS
    <3>3. more \in Seq(ToSet(a)) /\ Len(more) = k /\ \A j \in 1 .. Len(more) : more[j] = a[j]
      BY ONLY <1>2, <2>1, <2>2, <3>1, <3>2
    <3>4. Keep(K, acc, s[k]) = more
      BY ONLY <3>1, <3>2 DEF Keep
    <3> QED  BY ONLY <2>2, <3>3, <3>4 DEF FirstOf
  <2>3. CASE ~(k <= Len(a))
    <3>1. k - Len(a) \in 1 .. Len(g) /\ s[k] = g[k - Len(a)]
      BY <1>2, <2>3
    <3>2. s[k] \notin K
      BY <3>1
    <3>3. Len(acc) = Len(a)
      BY <1>2, <2>1, <2>3
    <3>4. Keep(K, acc, s[k]) = acc
      BY ONLY <3>2 DEF Keep
    <3> QED  BY ONLY <2>1, <2>3, <3>3, <3>4 DEF FirstOf
  <2> QED  BY <2>2, <2>3
<1>4. PICK base : base = <<>>
  OBVIOUS
<1>5. FirstOf(a, [at |-> 0, acc |-> base])
  BY <1>2, <1>4 DEF FirstOf
<1>6. FirstOf(a, [at |-> Len(s), acc |-> Splitting!Of(K, base, s)])
  BY ONLY <1>2, <1>3, <1>5, Splitting!Followed
<1>7. Only(s, K) = Splitting!Of(K, base, s)
  BY <1>4 DEF Only, Splitting!Of, FoldLeft, MapThenFoldSet, Max, Splitting!Highest
<1>8. PICK o : o = Only(s, K)
  OBVIOUS
<1>9. o \in Seq(ToSet(a)) /\ Len(o) = Len(a) /\ \A j \in 1 .. Len(o) : o[j] = a[j]
  BY ONLY <1>2, <1>6, <1>7, <1>8 DEF FirstOf
<1>10. o = a
  BY ONLY <1>9, a \in Seq(A)
<1> QED  BY <1>1, <1>8, <1>10

-----------------------------------------------------------------------------
(***************************************************************************)
(* One node of a tree is changed, but for its move.                        *)
(***************************************************************************)
LEMMA TrimmedSelf == ASSUME NEW t, Arena(t) PROVE Trimmed(t, t)
<1>1. \A n \in NodeIds(t) : t.nodes[n].children \in Seq(ToSet(t.nodes[n].children))
  BY RangeFacts DEF Arena, NodesOK
<1> QED  BY <1>1 DEF Trimmed, Arena, NodesOK

\* Node n of t, and no other, is now x.
Changed(t, n, x, u) ==
  /\ IsTree(u) /\ u.start = t.start /\ NodeIds(u) = NodeIds(t)
  /\ u.nodes[n] = x /\ \A m \in NodeIds(t) : m # n => u.nodes[m] = t.nodes[m]

LEMMA ChangedTree ==
  ASSUME NEW t, IsTree(t), NEW n \in NodeIds(t), NEW x, NEW u, u = [t EXCEPT !.nodes = [t.nodes EXCEPT ![n] = x]]
  PROVE  Changed(t, n, x, u)
<1> DEFINE ns == [t.nodes EXCEPT ![n] = x]
<1>1. t = [start |-> t.start, nodes |-> t.nodes] /\ t.nodes = [m \in NodeIds(t) |-> t.nodes[m]]
  BY DEF IsTree
<1>2. /\ DOMAIN ns = NodeIds(t) /\ ns = [m \in DOMAIN ns |-> ns[m]]
      /\ ns[n] = x /\ \A m \in NodeIds(t) : m # n => ns[m] = t.nodes[m]
  BY <1>1
<1>0. u = [t EXCEPT !.nodes = ns]
  OBVIOUS
<1> HIDE DEF ns
<1>3. u = [start |-> t.start, nodes |-> ns]
  BY ONLY <1>0, <1>1
<1>4. u.nodes = ns /\ u.start = t.start /\ NodeIds(u) = DOMAIN ns
  BY ONLY <1>3 DEF NodeIds
<1>5. IsTree(u)
  BY ONLY <1>2, <1>3, <1>4 DEF IsTree
<1> QED  BY ONLY <1>2, <1>4, <1>5 DEF Changed

LEMMA ChangedTrimmed ==
  ASSUME NEW t, Arena(t), NEW n \in NodeIds(t), NEW x, NEW u, Changed(t, n, x, u),
         IsNode(x), x.parent = t.nodes[n].parent, x.san = t.nodes[n].san,
         x.children \in Seq(ToSet(t.nodes[n].children))
  PROVE  Trimmed(t, u)
<1>1. \A m \in NodeIds(t) : IsNode(t.nodes[m]) /\ t.nodes[m].children \in Seq(ToSet(t.nodes[m].children))
  BY TrimmedSelf DEF Trimmed
<1>2. ASSUME NEW m \in NodeIds(t)
      PROVE  /\ IsNode(u.nodes[m])
             /\ u.nodes[m].parent = t.nodes[m].parent /\ u.nodes[m].san = t.nodes[m].san
             /\ u.nodes[m].children \in Seq(ToSet(t.nodes[m].children))
  <2>1. CASE m = n
    BY <2>1 DEF Changed
  <2>2. CASE m # n
    <3>1. u.nodes[m] = t.nodes[m]
      BY <2>2 DEF Changed
    <3> QED  BY <1>1, <3>1
  <2> QED  BY <2>1, <2>2
<1> QED  BY <1>2 DEF Changed, Trimmed

WithComment(x, v)  == [x EXCEPT !.comment = v]
WithShapes(x, v)   == [x EXCEPT !.shapes = v]
WithEval(x, v)     == [x EXCEPT !.eval = v]
WithNags(x, v)     == [x EXCEPT !.nags = v]
WithChildren(x, v) == [x EXCEPT !.children = v]

LEMMA NodeWith ==
  ASSUME NEW x, IsNode(x), NEW v,
         NEW y \in {WithComment(x, v), WithShapes(x, v), WithEval(x, v), WithNags(x, v)}
  PROVE  IsNode(y) /\ y.parent = x.parent /\ y.san = x.san /\ y.children = x.children
BY DEF IsNode, WithComment, WithShapes, WithEval, WithNags

SetNags(t, n, v)     == [t EXCEPT !.nodes[n].nags = v]
SetChildren(t, n, v) == [t EXCEPT !.nodes[n].children = v]

LEMMA Setters ==
  ASSUME NEW t, IsTree(t), NEW n \in NodeIds(t), NEW v, NEW x, x = t.nodes[n]
  PROVE  /\ Changed(t, n, WithComment(x, v), SetComment(t, n, v))
         /\ Changed(t, n, WithShapes(x, v), SetShapes(t, n, v))
         /\ Changed(t, n, WithEval(x, v), SetEval(t, n, v))
         /\ Changed(t, n, WithNags(x, v), SetNags(t, n, v))
         /\ Changed(t, n, WithChildren(x, v), SetChildren(t, n, v))
<1>1. SetComment(t, n, v) = [t EXCEPT !.nodes = [t.nodes EXCEPT ![n] = WithComment(x, v)]]
  BY DEF SetComment, WithComment
<1>2. SetShapes(t, n, v) = [t EXCEPT !.nodes = [t.nodes EXCEPT ![n] = WithShapes(x, v)]]
  BY DEF SetShapes, WithShapes
<1>3. SetEval(t, n, v) = [t EXCEPT !.nodes = [t.nodes EXCEPT ![n] = WithEval(x, v)]]
  BY DEF SetEval, WithEval
<1>4. SetNags(t, n, v) = [t EXCEPT !.nodes = [t.nodes EXCEPT ![n] = WithNags(x, v)]]
  BY DEF SetNags, WithNags
<1>5. SetChildren(t, n, v) = [t EXCEPT !.nodes = [t.nodes EXCEPT ![n] = WithChildren(x, v)]]
  BY DEF SetChildren, WithChildren
<1>6. \A y : Changed(t, n, y, [t EXCEPT !.nodes = [t.nodes EXCEPT ![n] = y]])
  BY ChangedTree
<1> QED  BY <1>1, <1>2, <1>3, <1>4, <1>5, <1>6

LEMMA SetTrimmed ==
  ASSUME NEW t, Arena(t), NEW n \in NodeIds(t), NEW v
  PROVE  /\ Trimmed(t, SetComment(t, n, v)) /\ Trimmed(t, SetShapes(t, n, v)) /\ Trimmed(t, SetEval(t, n, v))
         /\ Trimmed(t, SetNags(t, n, v))
         /\ v \in Seq(ToSet(t.nodes[n].children)) => Trimmed(t, SetChildren(t, n, v))
<1>1. PICK x : x = t.nodes[n]
  OBVIOUS
<1>2. IsTree(t) /\ IsNode(x) /\ x.children \in Seq(ToSet(x.children))
  BY <1>1, TrimmedSelf DEF Arena, NodesOK, Trimmed
<1>3. /\ Changed(t, n, WithComment(x, v), SetComment(t, n, v))
      /\ Changed(t, n, WithShapes(x, v), SetShapes(t, n, v))
      /\ Changed(t, n, WithEval(x, v), SetEval(t, n, v))
      /\ Changed(t, n, WithNags(x, v), SetNags(t, n, v))
      /\ Changed(t, n, WithChildren(x, v), SetChildren(t, n, v))
  BY <1>1, <1>2, Setters
<1>4. ASSUME NEW y \in {WithComment(x, v), WithShapes(x, v), WithEval(x, v), WithNags(x, v)},
             NEW u, Changed(t, n, y, u)
      PROVE  Trimmed(t, u)
  <2>1. IsNode(y) /\ y.parent = x.parent /\ y.san = x.san /\ y.children = x.children
    BY <1>2, NodeWith
  <2> QED  BY <1>1, <1>2, <1>4, <2>1, ChangedTrimmed
<1>5. ASSUME v \in Seq(ToSet(x.children)), NEW u, Changed(t, n, WithChildren(x, v), u)
      PROVE  Trimmed(t, u)
  <2>1. PICK y : y = WithChildren(x, v)
    OBVIOUS
  <2>2. IsNode(y) /\ y.parent = x.parent /\ y.san = x.san /\ y.children = v
    BY <1>2, <2>1 DEF IsNode, WithChildren
  <2> QED  BY <1>1, <1>5, <2>1, <2>2, ChangedTrimmed
<1> QED  BY <1>1, <1>3, <1>4, <1>5

-----------------------------------------------------------------------------
(***************************************************************************)
(* Trees that grow move by move.  Grew is what every edit but a deletion   *)
(* does; Untouched, what it does where it only adds moves.                 *)
(***************************************************************************)
Grew(t, u) == Arena(u) /\ Extends(t, u)
Untouched(t, u) == Grew(t, u) /\ SameNotes(t, u) /\ u.start = t.start /\ (Listed(t) => Listed(u))

LEMMA GrewOn ==
  ASSUME NEW t, NEW u, NEW v, Grew(t, u), Grew(u, v)
  PROVE  Grew(t, v)
BY ExtendsOn DEF Grew

LEMMA UntouchedSelf == ASSUME NEW t, Arena(t) PROVE Untouched(t, t)
BY DEF Untouched, Grew, Extends, SameNotes

LEMMA UntouchedOn ==
  ASSUME NEW t, NEW u, NEW v, Untouched(t, u), Untouched(u, v)
  PROVE  Untouched(t, v)
BY DEF Untouched, Grew, Extends, SameNotes

LEMMA EmptyIsList == IsList(<<>>)
<1>1. PICK none : none = <<>>
  OBVIOUS
<1>2. none \in Seq(ToSet(none))
  BY <1>1
<1> QED  BY <1>1, <1>2 DEF IsList

LEMMA UntouchedAdd ==
  ASSUME NEW t, NEW u, Untouched(t, u), NEW p \in NodeIds(u), NEW san, NEW v, v = AddMove(u, p, san)
  PROVE  /\ Untouched(t, v) /\ Size(u) \in NodeIds(v) /\ Size(u) \notin NodeIds(t)
         /\ NodeIds(u) \subseteq NodeIds(v) /\ Size(v) - 1 \in NodeIds(v)
<1>1. Arena(u) /\ NodeIds(t) \subseteq NodeIds(u)
  BY DEF Untouched, Grew, Extends
<1>2. /\ Arena(v) /\ Extends(u, v) /\ SameNotes(u, v) /\ v.start = u.start
      /\ NodeIds(v) = NodeIds(u) \cup {Size(u)}
      /\ v.nodes[Size(u)].nags = <<>> /\ v.nodes[Size(u)].shapes = <<>>
  BY <1>1, AddMoveArena
<1>3. Untouched(u, v)
  <2>1. IsList(<<>>)
    BY EmptyIsList
  <2>2. ASSUME Listed(u), NEW n \in NodeIds(v) PROVE IsList(v.nodes[n].nags) /\ IsList(v.nodes[n].shapes)
    <3>1. CASE n \in NodeIds(u)
      BY <1>2, <2>2, <3>1 DEF Listed, SameNotes
    <3>2. CASE n = Size(u)
      BY <1>2, <2>1, <3>2
    <3> QED  BY <1>2, <3>1, <3>2
  <2> QED  BY <1>2, <2>2 DEF Untouched, Grew, Listed
<1>4. Untouched(t, v)
  BY <1>3, UntouchedOn
<1>5. Size(u) \notin NodeIds(u) /\ Size(v) - 1 \in NodeIds(v)
  BY <1>1, <1>2, ArenaSize
<1> QED  BY <1>1, <1>2, <1>4, <1>5

LEMMA NewTreeListed == Listed(NewTree)
<1>1. NodeIds(NewTree) = {0} /\ NewTree.nodes[0] = Node(NoNode, NoSan)
  BY DEF NewTree, NodeIds
<1>2. Node(NoNode, NoSan).nags = <<>> /\ Node(NoNode, NoSan).shapes = <<>>
  BY DEF Node
<1> QED  BY <1>1, <1>2, EmptyIsList DEF Listed

\* A linear tree.
Lengthen(c, t, san) == AddMove(t, Size(t) - 1, san)
IsArena(c, t) == Arena(t) /\ Listed(t)
Lengthening == INSTANCE Folding WITH Op <- Lengthen, Inv <- IsArena

LEMMA LinearArena ==
  ASSUME NEW S, NEW sans \in Seq(S)
  PROVE  Arena(LinearTree(sans)) /\ Listed(LinearTree(sans))
<1>1. ASSUME NEW t, NEW san, Arena(t), Listed(t) PROVE Arena(Lengthen(0, t, san)) /\ Listed(Lengthen(0, t, san))
  <2>1. Size(t) - 1 \in NodeIds(t)
    BY <1>1, ArenaSize
  <2>2. PICK u : u = AddMove(t, Size(t) - 1, san)
    OBVIOUS
  <2>3. Untouched(t, u)
    BY <1>1, <2>1, <2>2, UntouchedSelf, UntouchedAdd
  <2> QED  BY <1>1, <2>2, <2>3 DEF Lengthen, Untouched, Grew
<1>2. PICK new : new = NewTree
  OBVIOUS
<1>3. IsArena(0, new)
  BY <1>2, NewTreeArena, NewTreeListed DEF IsArena
<1>4. \A t : \A san \in S : IsArena(0, t) => IsArena(0, Lengthen(0, t, san))
  BY <1>1 DEF IsArena
<1>5. IsArena(0, Lengthening!Of(0, new, sans))
  BY ONLY <1>3, <1>4, sans \in Seq(S), Lengthening!Preserved
<1>6. LinearTree(sans) = Lengthening!Of(0, new, sans)
  BY <1>2 DEF LinearTree, Lengthen, Lengthening!Of, FoldLeft, MapThenFoldSet, Max, Lengthening!Highest
<1> QED  BY <1>5, <1>6 DEF IsArena

\* A tree grafted on another: what the walk has placed so far.
Grafted(t, src, at, added, u) ==
  /\ Untouched(t, u)
  /\ at = [n \in NodeIds(src) |-> at[n]]
  /\ \A n \in NodeIds(src) : at[n] \in NodeIds(u) \cup {NoNode}
  /\ \A k \in DOMAIN added : added[k][2] \in NodeIds(u) /\ added[k][2] \notin NodeIds(t)
  /\ added \in Seq(NodeIds(src) \X Nat)
GraftedSoFar(d, acc) == Grafted(d[1], d[2], acc.at, acc.added, acc.tree)
Grafting == INSTANCE Folding WITH Op <- GraftMove, Inv <- GraftedSoFar

LEMMA GraftStep ==
  ASSUME NEW t, NEW src, NEW acc, Grafted(t, src, acc.at, acc.added, acc.tree),
         NEW c \in NodeIds(src), src.nodes[c].parent \in NodeIds(src), NEW on, on = GraftMove(src, acc, c)
  PROVE  Grafted(t, src, on.at, on.added, on.tree)
<1>1. PICK p : p = src.nodes[c].parent
  OBVIOUS
<1>2. PICK san : san = src.nodes[c].san
  OBVIOUS
<1>3. PICK dst : dst = acc.at[p]
  OBVIOUS
<1>4. PICK pos : pos = IF dst = NoNode THEN Illegal ELSE Plays(acc.pos[p], san)
  OBVIOUS
<1>5. PICK found : found = IF pos = Illegal THEN NoNode ELSE ChildBySan(acc.tree, dst, san)
  OBVIOUS
<1>6. PICK target : target = IF pos = Illegal THEN NoNode ELSE IF found = NoNode THEN Size(acc.tree) ELSE found
  OBVIOUS
<1>7. /\ on.tree = IF pos # Illegal /\ found = NoNode THEN AddMove(acc.tree, dst, san) ELSE acc.tree
      /\ on.at = [acc.at EXCEPT ![c] = target]
      /\ on.added = IF pos # Illegal /\ found = NoNode THEN Append(acc.added, <<c, target>>) ELSE acc.added
  BY <1>1, <1>2, <1>3, <1>4, <1>5, <1>6 DEF GraftMove
<1>8. PICK u : u = acc.tree
  OBVIOUS
<1>9. PICK added : added = acc.added
  OBVIOUS
<1>10. /\ Untouched(t, u) /\ Arena(u)
       /\ acc.at = [n \in NodeIds(src) |-> acc.at[n]]
       /\ \A n \in NodeIds(src) : acc.at[n] \in NodeIds(u) \cup {NoNode}
       /\ \A k \in DOMAIN added : added[k][2] \in NodeIds(u) /\ added[k][2] \notin NodeIds(t)
       /\ added \in Seq(NodeIds(src) \X Nat)
  BY <1>8, <1>9 DEF Grafted, Untouched, Grew
<1>11. on.at = [n \in NodeIds(src) |-> on.at[n]] /\ \A n \in NodeIds(src) : on.at[n] = IF n = c THEN target ELSE acc.at[n]
  BY ONLY <1>7, <1>10, c \in NodeIds(src)
<1>12. pos # Illegal => dst \in NodeIds(u) /\ found \in NodeIds(u) \cup {NoNode}
  <2>1. SUFFICES ASSUME pos # Illegal PROVE dst \in NodeIds(u) /\ found \in NodeIds(u) \cup {NoNode}
    OBVIOUS
  <2>2. dst \in NodeIds(u)
    BY <1>1, <1>3, <1>4, <1>10, <2>1
  <2> QED  BY <1>5, <1>8, <1>10, <2>1, <2>2, ChildFound
<1>13. CASE pos # Illegal /\ found = NoNode
  <2>1. PICK v : v = AddMove(u, dst, san)
    OBVIOUS
  <2>2. on.tree = v /\ on.added = Append(added, <<c, Size(u)>>) /\ target = Size(u)
    BY ONLY <1>6, <1>7, <1>8, <1>9, <1>13, <2>1
  <2>3. /\ Untouched(t, v) /\ Size(u) \in NodeIds(v) /\ Size(u) \notin NodeIds(t)
        /\ NodeIds(u) \subseteq NodeIds(v)
    BY <1>10, <1>12, <1>13, <2>1, UntouchedAdd
  <2>4. Size(u) \in Nat
    BY <1>10, ArenaSize
  <2>5. PICK more : more = Append(added, <<c, Size(u)>>)
    OBVIOUS
  <2>6. PICK pair : pair = <<c, Size(u)>>
    OBVIOUS
  <2>7. pair \in NodeIds(src) \X Nat /\ pair[2] = Size(u) /\ more = Append(added, pair)
    BY <2>4, <2>5, <2>6
  <2>8. /\ more \in Seq(NodeIds(src) \X Nat)
        /\ \A k \in DOMAIN more : (k \in DOMAIN added /\ more[k] = added[k]) \/ more[k] = pair
    BY ONLY <1>10, <2>7
  <2>9. \A k \in DOMAIN more : more[k][2] \in NodeIds(v) /\ more[k][2] \notin NodeIds(t)
    BY <1>10, <2>3, <2>7, <2>8
  <2>10. \A n \in NodeIds(src) : on.at[n] \in NodeIds(v) \cup {NoNode}
    BY <1>10, <1>11, <2>2, <2>3
  <2> QED  BY ONLY <1>11, <2>2, <2>3, <2>5, <2>8, <2>9, <2>10 DEF Grafted
<1>14. CASE ~(pos # Illegal /\ found = NoNode)
  <2>1. on.tree = u /\ on.added = added
    BY ONLY <1>7, <1>8, <1>9, <1>14
  <2>2. target \in NodeIds(u) \cup {NoNode}
    BY ONLY <1>6, <1>12, <1>14
  <2>3. \A n \in NodeIds(src) : on.at[n] \in NodeIds(u) \cup {NoNode}
    BY ONLY <1>10, <1>11, <2>2
  <2> QED  BY ONLY <1>10, <1>11, <2>1, <2>3 DEF Grafted
<1> QED  BY <1>13, <1>14

\* The nodes that a walk from the root comes to, behind the root.
LEMMA Walked ==
  ASSUME NEW t, Arena(t), NEW s, s = Tail(Preorder(t, 0))
  PROVE  s \in Seq({n \in NodeIds(t) : n # 0 /\ t.nodes[n].parent \in NodeIds(t)})
<1>1. PICK b \in Nat : \E r \in [NodeIds(t) -> 0 .. b] : Rising(t, r)
  BY DEF Arena
<1>2. PICK r \in [NodeIds(t) -> 0 .. b] : Rising(t, r)
  BY <1>1
<1>3. PICK G \in SUBSET NodeIds(t) : Hanging(t, G)
  BY DEF Arena
<1>4. PICK v : v = Preorder(t, 0)
  OBVIOUS
<1>5. 0 \in G /\ Visited(t, r, G, 0, v)
  BY <1>2, <1>3, <1>4, PreorderVisits DEF Hanging
<1>6. v \in Seq(G) /\ v # <<>>
  BY <1>5 DEF Visited
<1>7. r[0] \in Nat
  BY <1>5
<1>8. ASSUME NEW k \in DOMAIN v, k # 1
      PROVE  v[k] \in {n \in NodeIds(t) : n # 0 /\ t.nodes[n].parent \in NodeIds(t)}
  <2>1. r[v[k]] > r[0] /\ v[k] \in NodeIds(t)
    BY <1>5, <1>6, <1>8 DEF Visited
  <2>2. v[k] # 0
    <3>1. ~(r[0] > r[0])
      BY ONLY <1>7
    <3> QED  BY ONLY <2>1, <3>1
  <2>3. t.nodes[v[k]].parent \in NodeIds(t)
    BY <2>1, <2>2 DEF Arena, NodesOK
  <2> QED  BY <2>1, <2>2, <2>3
<1>9. /\ Len(v) \in Nat /\ Len(v) > 0 /\ Len(s) = Len(v) - 1
      /\ \A k \in 1 .. Len(v) - 1 : s[k] = v[k + 1] /\ k + 1 \in DOMAIN v /\ k + 1 # 1
      /\ s \in Seq(G)
  BY ONLY <1>4, <1>6, s = Tail(Preorder(t, 0))
<1>10. PICK W : W = {n \in NodeIds(t) : n # 0 /\ t.nodes[n].parent \in NodeIds(t)}
  OBVIOUS
<1>11. \A k \in 1 .. Len(s) : s[k] \in W
  BY <1>8, <1>9, <1>10
<1>12. s \in Seq(W)
  BY ONLY <1>9, <1>11
<1> QED  BY <1>10, <1>12

LEMMA GraftUntouched ==
  ASSUME NEW t, Arena(t), NEW src, Arena(src), NEW at \in NodeIds(t), NEW g, g = Graft(t, at, src)
  PROVE  Grafted(t, src, g.at, g.added, g.tree)
<1>1. PICK W : W = {n \in NodeIds(src) : n # 0 /\ src.nodes[n].parent \in NodeIds(src)}
  OBVIOUS
<1>2. PICK walk : walk = Tail(Preorder(src, 0))
  OBVIOUS
<1>3. walk \in Seq(W)
  BY <1>1, <1>2, Walked
<1> DEFINE base == [tree |-> t,
                    at |-> [n \in NodeIds(src) |-> IF n = 0 THEN at ELSE NoNode],
                    pos |-> [n \in NodeIds(src) |-> PositionAt(t, at)],
                    added |-> <<>>]
<1>4. g = Grafting!Of(src, base, walk)
  BY <1>2 DEF Graft, Grafting!Of, FoldLeft, MapThenFoldSet, Max, Grafting!Highest
<1>5. PICK d : d = <<t, src>>
  OBVIOUS
<1>6. \A acc : GraftedSoFar(d, acc) <=> Grafted(t, src, acc.at, acc.added, acc.tree)
  BY ONLY <1>5 DEF GraftedSoFar
<1>7. Grafted(t, src, base.at, base.added, base.tree)
  <2>1. Untouched(t, t)
    BY UntouchedSelf
  <2>2. PICK none : none = <<>>
    OBVIOUS
  <2>3. none \in Seq(NodeIds(src) \X Nat) /\ DOMAIN none = {}
    BY <2>2
  <2>4. PICK placed : placed = [n \in NodeIds(src) |-> IF n = 0 THEN at ELSE NoNode]
    OBVIOUS
  <2>5. /\ placed = [n \in NodeIds(src) |-> placed[n]]
        /\ \A n \in NodeIds(src) : placed[n] \in NodeIds(t) \cup {NoNode}
    BY <2>4
  <2>6. Grafted(t, src, placed, none, t)
    BY ONLY <2>1, <2>3, <2>5 DEF Grafted
  <2> QED  BY <2>2, <2>4, <2>6
<1> HIDE DEF base
<1>8. GraftedSoFar(d, base)
  BY <1>6, <1>7
<1>9. ASSUME NEW acc, NEW c \in W, GraftedSoFar(d, acc) PROVE GraftedSoFar(d, GraftMove(src, acc, c))
  <2>1. Grafted(t, src, acc.at, acc.added, acc.tree)
    BY ONLY <1>6, <1>9
  <2>2. c \in NodeIds(src) /\ src.nodes[c].parent \in NodeIds(src)
    BY <1>1
  <2>3. PICK on : on = GraftMove(src, acc, c)
    OBVIOUS
  <2>4. Grafted(t, src, on.at, on.added, on.tree)
    BY ONLY <2>1, <2>2, <2>3, GraftStep
  <2> QED  BY ONLY <1>6, <2>3, <2>4
<1>10. GraftedSoFar(d, Grafting!Of(src, base, walk))
  BY ONLY <1>3, <1>8, <1>9, Grafting!Preserved
<1> QED  BY ONLY <1>4, <1>6, <1>10

\* A line of the tree, move by move.
FollowSan(t, n, san) == IF n = NoNode THEN NoNode ELSE ChildBySan(t, n, san)
IsThere(t, n) == n \in NodeIds(t) \cup {NoNode}
Following == INSTANCE Folding WITH Op <- FollowSan, Inv <- IsThere

LEMMA LineFound ==
  ASSUME NEW t, Arena(t), NEW from \in NodeIds(t), NEW S, NEW sans \in Seq(S)
  PROVE  ResolveLine(t, from, sans) \in NodeIds(t) \cup {NoNode}
<1>1. ASSUME NEW n, NEW san \in S, IsThere(t, n) PROVE IsThere(t, FollowSan(t, n, san))
  BY <1>1, ChildFound DEF IsThere, FollowSan
<1>2. IsThere(t, from)
  BY DEF IsThere
<1>3. IsThere(t, Following!Of(t, from, sans))
  BY ONLY <1>1, <1>2, sans \in Seq(S), Following!Preserved
<1>4. ResolveLine(t, from, sans) = Following!Of(t, from, sans)
  BY DEF ResolveLine, FollowSan, Following!Of, FoldLeft, MapThenFoldSet, Max, Following!Highest
<1> QED  BY <1>3, <1>4 DEF IsThere

-----------------------------------------------------------------------------
(***************************************************************************)
(* Folding games into a tree.                                              *)
(***************************************************************************)
Folded(t, u, cur) == Untouched(t, u) /\ cur \in NodeIds(u)
FoldedSoFar(t, acc) ==
  /\ acc = [tree |-> acc.tree, stats |-> acc.stats, cur |-> acc.cur, pos |-> acc.pos]
  /\ Folded(t, acc.tree, acc.cur)
GamesSoFar(t, acc) == Untouched(t, acc.tree)
FoldingGame  == INSTANCE Folding WITH Op <- FoldMove, Inv <- FoldedSoFar
FoldingGames == INSTANCE Folding WITH Op <- FoldGame, Inv <- GamesSoFar

LEMMA FoldMoveStep ==
  ASSUME NEW t, NEW game, NEW acc, NEW san, FoldedSoFar(t, acc)
  PROVE  FoldedSoFar(t, FoldMove(game, acc, san))
<1>1. PICK u : u = acc.tree
  OBVIOUS
<1>2. PICK pos : pos = IF acc.pos = Illegal THEN Illegal ELSE Plays(acc.pos, san)
  OBVIOUS
<1>3. PICK found : found = ChildBySan(u, acc.cur, san)
  OBVIOUS
<1>4. PICK child : child = IF found = NoNode THEN Size(u) ELSE found
  OBVIOUS
<1>5. PICK on : on = FoldMove(game, acc, san)
  OBVIOUS
<1>6. /\ pos = Illegal => on = [acc EXCEPT !.pos = Illegal]
      /\ pos # Illegal => /\ on.tree = IF found = NoNode THEN AddMove(u, acc.cur, san) ELSE u
                          /\ on.cur = child
                          /\ on = [tree |-> on.tree, stats |-> on.stats, cur |-> on.cur, pos |-> on.pos]
  BY <1>1, <1>2, <1>3, <1>4, <1>5 DEF FoldMove
<1>7. /\ acc = [tree |-> acc.tree, stats |-> acc.stats, cur |-> acc.cur, pos |-> acc.pos]
      /\ Untouched(t, u) /\ Arena(u) /\ acc.cur \in NodeIds(u)
  BY <1>1 DEF FoldedSoFar, Folded, Untouched, Grew
<1>8. CASE pos = Illegal
  <2>1. /\ on.tree = u /\ on.cur = acc.cur
        /\ on = [tree |-> on.tree, stats |-> on.stats, cur |-> on.cur, pos |-> on.pos]
    BY ONLY <1>1, <1>6, <1>7, <1>8
  <2> QED  BY ONLY <1>5, <1>7, <2>1 DEF FoldedSoFar, Folded
<1>9. CASE pos # Illegal /\ found = NoNode
  <2>1. PICK v : v = AddMove(u, acc.cur, san)
    OBVIOUS
  <2>2. Untouched(t, v) /\ Size(u) \in NodeIds(v)
    BY <1>7, <2>1, UntouchedAdd
  <2> QED  BY ONLY <1>4, <1>5, <1>6, <1>9, <2>1, <2>2 DEF FoldedSoFar, Folded
<1>10. CASE pos # Illegal /\ found # NoNode
  <2>1. found \in NodeIds(u)
    BY <1>3, <1>7, <1>10, ChildFound
  <2> QED  BY ONLY <1>4, <1>5, <1>6, <1>7, <1>10, <2>1 DEF FoldedSoFar, Folded
<1> QED  BY <1>8, <1>9, <1>10

LEMMA OpeningOf ==
  ASSUME NEW S, NEW sans \in Seq(S), NEW max \in Nat
  PROVE  Opening(sans, max) \in Seq(S)
BY DEF Opening

LEMMA FoldGameStep ==
  ASSUME NEW t, NEW max \in Nat, NEW acc, NEW game, NEW S, game.sans \in Seq(S), GamesSoFar(t, acc)
  PROVE  GamesSoFar(t, FoldGame(max, acc, game))
<1>1. PICK sans : sans = Opening(game.sans, max)
  OBVIOUS
<1>2. sans \in Seq(S)
  BY <1>1, OpeningOf
<1>3. PICK base : base = [tree |-> acc.tree, stats |-> acc.stats, cur |-> 0, pos |-> acc.tree.start]
  OBVIOUS
<1>4. PICK on : on = FoldGame(max, acc, game)
  OBVIOUS
<1>5. on = FoldingGame!Of(game, base, sans)
  BY <1>1, <1>3, <1>4 DEF FoldGame, FoldingGame!Of, FoldLeft, MapThenFoldSet, Max, FoldingGame!Highest
<1>6. FoldedSoFar(t, base)
  <2>1. Untouched(t, acc.tree) /\ 0 \in NodeIds(acc.tree)
    BY ArenaSize DEF GamesSoFar, Untouched, Grew
  <2>2. /\ base.tree = acc.tree /\ base.cur = 0
        /\ base = [tree |-> base.tree, stats |-> base.stats, cur |-> base.cur, pos |-> base.pos]
    BY ONLY <1>3
  <2> QED  BY ONLY <2>1, <2>2 DEF FoldedSoFar, Folded
<1>7. \A a : \A san \in S : FoldedSoFar(t, a) => FoldedSoFar(t, FoldMove(game, a, san))
  BY FoldMoveStep
<1>8. FoldedSoFar(t, FoldingGame!Of(game, base, sans))
  BY ONLY <1>2, <1>6, <1>7, FoldingGame!Preserved
<1> QED  BY <1>4, <1>5, <1>8 DEF FoldedSoFar, Folded, GamesSoFar

LEMMA FoldGamesUntouched ==
  ASSUME NEW t, Arena(t), NEW S, NEW games \in Seq(S), \A g \in S : IsList(g.sans), NEW max \in Nat
  PROVE  Untouched(t, FoldGames(t, games, max).tree)
<1>1. PICK base : base = [tree |-> t, stats |-> <<>>]
  OBVIOUS
<1>2. FoldGames(t, games, max) = FoldingGames!Of(max, base, games)
  BY <1>1 DEF FoldGames, FoldingGames!Of, FoldLeft, MapThenFoldSet, Max, FoldingGames!Highest
<1>3. GamesSoFar(t, base)
  BY <1>1, UntouchedSelf DEF GamesSoFar
<1>4. \A a : \A g \in S : GamesSoFar(t, a) => GamesSoFar(t, FoldGame(max, a, g))
  BY FoldGameStep DEF IsList
<1>5. GamesSoFar(t, FoldingGames!Of(max, base, games))
  BY ONLY <1>3, <1>4, games \in Seq(S), FoldingGames!Preserved
<1> QED  BY <1>2, <1>5 DEF GamesSoFar

-----------------------------------------------------------------------------
(***************************************************************************)
(* Every node of a tree is changed.                                        *)
(***************************************************************************)
IsMap(f) == f = [x \in DOMAIN f |-> f[x]]

LEMMA Renoded ==
  ASSUME NEW t, IsTree(t), NEW ns, IsMap(ns), DOMAIN ns = NodeIds(t), NEW u, u = [t EXCEPT !.nodes = ns]
  PROVE  IsTree(u) /\ u.start = t.start /\ u.nodes = ns /\ NodeIds(u) = NodeIds(t)
<1>1. t = [start |-> t.start, nodes |-> t.nodes]
  BY DEF IsTree
<1>2. u = [start |-> t.start, nodes |-> ns]
  BY ONLY <1>1, u = [t EXCEPT !.nodes = ns]
<1>3. u.nodes = ns /\ u.start = t.start /\ NodeIds(u) = NodeIds(t)
  BY <1>2 DEF NodeIds
<1>4. ns = [x \in NodeIds(u) |-> ns[x]]
  BY <1>3 DEF IsMap
<1> QED  BY ONLY <1>2, <1>3, <1>4 DEF IsTree

Ranking == INSTANCE Folding WITH Op <- Place, Inv <- InSeq

LEMMA RankedOf ==
  ASSUME NEW S, NEW moves \in Seq(S), NEW stats, NEW most \in Nat
  PROVE  Ranked([moves |-> moves, stats |-> stats], most) \in Seq(S)
<1>1. PICK c : c = [moves |-> moves, stats |-> stats]
  OBVIOUS
<1>2. PICK counts : counts = [k \in 1 .. most + 1 |-> most + 1 - k]
  OBVIOUS
<1>3. counts \in Seq(Nat)
  <2>1. counts \in [1 .. most + 1 -> Nat]
    BY <1>2
  <2> QED  BY <2>1
<1>4. PICK base : base = <<>>
  OBVIOUS
<1>5. InSeq(S, base)
  BY <1>4 DEF InSeq
<1>6. ASSUME NEW acc, NEW count \in Nat, InSeq(S, acc) PROVE InSeq(S, Place(c, acc, count))
  <2>1. PICK K : K = {m \in ToSet(c.moves) : Visits(c.stats, m) = count}
    OBVIOUS
  <2>2. PICK more : more = Only(moves, K)
    OBVIOUS
  <2>3. more \in Seq(S)
    <3>1. more \in Seq(S \cap K)
      BY ONLY <2>2, moves \in Seq(S), OnlyIn
    <3> QED  BY ONLY <3>1
  <2>4. Place(c, acc, count) = acc \o more
    BY <1>1, <2>1, <2>2 DEF Place
  <2> QED  BY ONLY <1>6, <2>3, <2>4 DEF InSeq
<1>7. Ranked(c, most) = Ranking!Of(c, base, counts)
  BY <1>2, <1>4 DEF Ranked, Ranking!Of, FoldLeft, MapThenFoldSet, Max, Ranking!Highest
<1>8. InSeq(S, Ranking!Of(c, base, counts))
  BY ONLY <1>3, <1>5, <1>6, Ranking!Preserved
<1> QED  BY <1>1, <1>7, <1>8 DEF InSeq

LEMMA RankedTrimmed ==
  ASSUME NEW t, Arena(t), NEW stats, NEW most \in Nat, NEW u, u = OrderByFrequency(t, stats, most)
  PROVE  Trimmed(t, u) /\ SameNotes(t, u)
<1> DEFINE ranked(n) == Ranked([moves |-> t.nodes[n].children, stats |-> stats], most)
           ns == [n \in NodeIds(t) |-> WithChildren(t.nodes[n], ranked(n))]
<1>1. u = [t EXCEPT !.nodes = ns]
  BY DEF OrderByFrequency, WithChildren
<1>2. IsMap(ns) /\ DOMAIN ns = NodeIds(t) /\ \A n \in NodeIds(t) : ns[n] = WithChildren(t.nodes[n], ranked(n))
  BY DEF IsMap
<1>3. ASSUME NEW n \in NodeIds(t)
      PROVE  IsNode(t.nodes[n]) /\ ranked(n) \in Seq(ToSet(t.nodes[n].children))
  <2>1. IsNode(t.nodes[n])
    BY DEF Arena, NodesOK
  <2>2. PICK cs : cs = t.nodes[n].children
    OBVIOUS
  <2>3. cs \in Seq(ToSet(cs))
    BY <2>2, TrimmedSelf DEF Trimmed
  <2>4. Ranked([moves |-> cs, stats |-> stats], most) \in Seq(ToSet(cs))
    BY ONLY <2>3, most \in Nat, RankedOf
  <2> QED  BY <2>1, <2>2, <2>4
<1> HIDE DEF ns, ranked
<1>4. IsTree(u) /\ u.start = t.start /\ u.nodes = ns /\ NodeIds(u) = NodeIds(t)
  BY <1>1, <1>2, Renoded DEF Arena, NodesOK
<1>5. ASSUME NEW n \in NodeIds(t)
      PROVE  /\ IsNode(u.nodes[n])
             /\ u.nodes[n].parent = t.nodes[n].parent /\ u.nodes[n].san = t.nodes[n].san
             /\ u.nodes[n].comment = t.nodes[n].comment /\ u.nodes[n].nags = t.nodes[n].nags
             /\ u.nodes[n].shapes = t.nodes[n].shapes
             /\ u.nodes[n].children \in Seq(ToSet(t.nodes[n].children))
  <2>1. PICK x : x = t.nodes[n]
    OBVIOUS
  <2>2. PICK y : y = u.nodes[n]
    OBVIOUS
  <2>3. PICK cs : cs = ranked(n)
    OBVIOUS
  <2>4. IsNode(x) /\ y = WithChildren(x, cs) /\ cs \in Seq(ToSet(x.children))
    BY <1>2, <1>3, <1>4, <2>1, <2>2, <2>3
  <2>5. /\ IsNode(y) /\ y.parent = x.parent /\ y.san = x.san /\ y.children = cs
        /\ y.comment = x.comment /\ y.nags = x.nags /\ y.shapes = x.shapes
    BY ONLY <2>4 DEF IsNode, WithChildren
  <2> QED  BY ONLY <2>1, <2>2, <2>4, <2>5
<1>6. Trimmed(t, u)
  BY <1>4, <1>5 DEF Trimmed
<1>7. SameNotes(t, u)
  BY <1>5 DEF SameNotes
<1> QED  BY <1>6, <1>7

-----------------------------------------------------------------------------
(***************************************************************************)
(* Notes that a pass writes on the nodes of a tree.                        *)
(***************************************************************************)
WordOf(c) == IF TextOf(c).kind = "user" THEN TextOf(c) ELSE Empty
SameWords(t, u) ==
  \A n \in NodeIds(t) :
    /\ WordOf(u.nodes[n].comment) = WordOf(t.nodes[n].comment)
    /\ u.nodes[n].nags = t.nodes[n].nags
    /\ u.nodes[n].shapes = t.nodes[n].shapes

\* A comment that is there has the text it was made of.
LEMMA CommentText ==
  ASSUME NEW text, NEW note
  PROVE  TextOf(Comment(text, note)) = text
<1>1. PICK r : r = [text |-> text, note |-> note]
  OBVIOUS
<1>2. Comment(text, note) = <<r>>
  BY <1>1 DEF Comment
<1>3. <<r>> # <<>> /\ <<r>>[1] = r
  OBVIOUS
<1>4. r.text = text
  BY <1>1
<1> QED  BY <1>2, <1>3, <1>4 DEF TextOf, NoComment

LEMMA SameWordsOn ==
  ASSUME NEW t, NEW u, NEW v, NodeIds(t) \subseteq NodeIds(u), SameWords(t, u), SameWords(u, v)
  PROVE  SameWords(t, v)
BY DEF SameWords

LEMMA WordsListed ==
  ASSUME NEW t, NEW u, NodeIds(u) = NodeIds(t), SameWords(t, u), Listed(t)
  PROVE  Listed(u)
BY DEF Listed, SameWords

LEMMA NotesAreWords == ASSUME NEW t, NEW u, SameNotes(t, u) PROVE SameWords(t, u)
BY DEF SameNotes, SameWords

\* One node carries something else.
LEMMA OneNode ==
  ASSUME NEW t, Arena(t), NEW n \in NodeIds(t), NEW v,
         NEW u \in {SetComment(t, n, v), SetShapes(t, n, v), SetEval(t, n, v), SetNags(t, n, v)}
  PROVE  /\ Grew(t, u) /\ NodeIds(u) = NodeIds(t)
         /\ \A m \in NodeIds(t) : m # n => u.nodes[m] = t.nodes[m]
<1>1. Trimmed(t, u)
  BY SetTrimmed
<1>2. PICK x : x = t.nodes[n]
  OBVIOUS
<1>3. \E y : Changed(t, n, y, u)
  <2>1. /\ Changed(t, n, WithComment(x, v), SetComment(t, n, v))
        /\ Changed(t, n, WithShapes(x, v), SetShapes(t, n, v))
        /\ Changed(t, n, WithEval(x, v), SetEval(t, n, v))
        /\ Changed(t, n, WithNags(x, v), SetNags(t, n, v))
    BY <1>2, Setters DEF Arena, NodesOK
  <2> QED  BY <2>1
<1> QED  BY <1>1, <1>3, TrimmedArena DEF Grew, Changed

LEMMA CommentSet ==
  ASSUME NEW t, Arena(t), NEW n \in NodeIds(t), NEW v, NEW u, u = SetComment(t, n, v)
  PROVE  /\ u.nodes[n].comment = v /\ u.nodes[n].nags = t.nodes[n].nags /\ u.nodes[n].shapes = t.nodes[n].shapes
<1>1. PICK x : x = t.nodes[n]
  OBVIOUS
<1>2. IsTree(t) /\ IsNode(x)
  BY <1>1 DEF Arena, NodesOK
<1>3. Changed(t, n, WithComment(x, v), u)
  BY <1>1, <1>2, Setters
<1>4. PICK y : y = WithComment(x, v)
  OBVIOUS
<1>5. y.comment = v /\ y.nags = x.nags /\ y.shapes = x.shapes
  BY ONLY <1>2, <1>4 DEF IsNode, WithComment
<1> QED  BY <1>1, <1>3, <1>4, <1>5 DEF Changed

LEMMA StatsAnnotated ==
  ASSUME NEW t, Arena(t), NEW stats, NEW u, u = AnnotateBranches(t, stats)
  PROVE  Trimmed(t, u) /\ SameWords(t, u)
<1> DEFINE branch(n) == /\ t.nodes[n].parent # NoNode
                        /\ Len(t.nodes[t.nodes[n].parent].children) >= 2
                        /\ n \in DOMAIN stats
                        /\ t.nodes[n].comment = NoComment \/ ReadsAsStats(TextOf(t.nodes[n].comment))
           stat(n) == Text("stats", [stats[n] EXCEPT !.white = MoverIsWhite(t, n)])
           note(n) == Comment(stat(n), <<>>)
           ns == [n \in NodeIds(t) |-> IF branch(n) THEN WithComment(t.nodes[n], note(n)) ELSE t.nodes[n]]
<1>1. u = [t EXCEPT !.nodes = ns]
  BY DEF AnnotateBranches, WithComment
<1>2. /\ IsMap(ns) /\ DOMAIN ns = NodeIds(t)
      /\ \A n \in NodeIds(t) : ns[n] = IF branch(n) THEN WithComment(t.nodes[n], note(n)) ELSE t.nodes[n]
  BY DEF IsMap
<1>3. \A n \in NodeIds(t) : branch(n) => WordOf(t.nodes[n].comment) = Empty
  BY DEF WordOf, ReadsAsStats, TextOf
<1>4. \A n : WordOf(note(n)) = Empty
  <2> SUFFICES ASSUME NEW n PROVE WordOf(note(n)) = Empty
    OBVIOUS
  <2>1. TextOf(note(n)) = stat(n)
    BY CommentText
  <2>2. stat(n).kind = "stats"
    BY DEF Text
  <2> QED  BY <2>1, <2>2 DEF WordOf
<1> HIDE DEF ns, branch, stat, note
<1>5. IsTree(u) /\ u.start = t.start /\ u.nodes = ns /\ NodeIds(u) = NodeIds(t)
  BY <1>1, <1>2, Renoded DEF Arena, NodesOK
<1>6. ASSUME NEW n \in NodeIds(t)
      PROVE  /\ IsNode(u.nodes[n])
             /\ u.nodes[n].parent = t.nodes[n].parent /\ u.nodes[n].san = t.nodes[n].san
             /\ u.nodes[n].children \in Seq(ToSet(t.nodes[n].children))
             /\ u.nodes[n].nags = t.nodes[n].nags /\ u.nodes[n].shapes = t.nodes[n].shapes
             /\ WordOf(u.nodes[n].comment) = WordOf(t.nodes[n].comment)
  <2>1. PICK x : x = t.nodes[n]
    OBVIOUS
  <2>2. PICK y : y = u.nodes[n]
    OBVIOUS
  <2>3. IsNode(x) /\ x.children \in Seq(ToSet(x.children))
    BY <2>1, TrimmedSelf DEF Trimmed, Arena, NodesOK
  <2>4. CASE branch(n)
    <3>1. PICK c : c = note(n)
      OBVIOUS
    <3>2. y = WithComment(x, c) /\ WordOf(c) = Empty /\ WordOf(x.comment) = Empty
      BY <1>2, <1>3, <1>4, <1>5, <2>1, <2>2, <2>4, <3>1
    <3>3. /\ IsNode(y) /\ y.parent = x.parent /\ y.san = x.san /\ y.children = x.children
          /\ y.nags = x.nags /\ y.shapes = x.shapes /\ y.comment = c
      BY ONLY <2>3, <3>2 DEF IsNode, WithComment
    <3> QED  BY ONLY <2>1, <2>2, <2>3, <3>2, <3>3
  <2>5. CASE ~branch(n)
    <3>1. y = x
      BY <1>2, <1>5, <2>1, <2>2, <2>5
    <3> QED  BY ONLY <2>1, <2>2, <2>3, <3>1
  <2> QED  BY <2>4, <2>5
<1> QED  BY <1>5, <1>6 DEF Trimmed, SameWords

\* Transposition notes.
Marking(t, u) == Grew(t, u) /\ NodeIds(u) = NodeIds(t) /\ SameWords(t, u)
MarkStep(c, acc, n) == MarkNode(acc, n)
MarkedSoFar(t, acc) ==
  /\ acc = [tree |-> acc.tree, pos |-> acc.pos, seen |-> acc.seen, marked |-> acc.marked]
  /\ Marking(t, acc.tree)
MarkFold == INSTANCE Folding WITH Op <- MarkStep, Inv <- MarkedSoFar

LEMMA TaggedSoFar ==
  ASSUME NEW t, NEW u, Marking(t, u), NEW n \in NodeIds(t), NEW m
  PROVE  Marking(t, TagTransposition(u, n, m))
<1>1. PICK note : note = Comment(Base(u.nodes[n].comment), DescribeMove(u, m))
  OBVIOUS
<1>2. PICK v : v = SetComment(u, n, note)
  OBVIOUS
<1>3. Arena(u) /\ n \in NodeIds(u) /\ Extends(t, u) /\ NodeIds(u) = NodeIds(t)
  BY DEF Marking, Grew
<1>4. /\ Grew(u, v) /\ NodeIds(v) = NodeIds(u)
      /\ \A k \in NodeIds(u) : k # n => v.nodes[k] = u.nodes[k]
  BY <1>2, <1>3, OneNode
<1>5. v.nodes[n].comment = note /\ v.nodes[n].nags = u.nodes[n].nags /\ v.nodes[n].shapes = u.nodes[n].shapes
  BY <1>2, <1>3, CommentSet
<1>6. SameWords(t, v)
  <2>1. TextOf(note) = Base(u.nodes[n].comment)
    BY <1>1, CommentText
  <2>2. Empty.kind # "user"
    BY DEF Empty, Text
  <2>3. WordOf(note) = WordOf(u.nodes[n].comment)
    BY <2>1, <2>2 DEF WordOf, Base
  <2>4. SameWords(u, v)
    BY <1>4, <1>5, <2>3 DEF SameWords
  <2>5. SameWords(t, u)
    BY DEF Marking
  <2> QED  BY <1>3, <2>4, <2>5, SameWordsOn
<1>7. Grew(t, v)
  BY <1>4, GrewOn DEF Marking
<1> QED  BY <1>1, <1>2, <1>3, <1>4, <1>6, <1>7 DEF Marking, TagTransposition

LEMMA MarkNodeStep ==
  ASSUME NEW t, NEW acc, NEW n \in NodeIds(t), MarkedSoFar(t, acc)
  PROVE  MarkedSoFar(t, MarkNode(acc, n))
<1>1. PICK from : from = acc.pos[acc.tree.nodes[n].parent]
  OBVIOUS
<1>2. PICK pos : pos = IF from = Illegal THEN Illegal ELSE Plays(from, acc.tree.nodes[n].san)
  OBVIOUS
<1>3. PICK seen : seen = {m \in DOMAIN acc.seen : acc.seen[m] = pos}
  OBVIOUS
<1>4. PICK m : m = CHOOSE x \in seen : TRUE
  OBVIOUS
<1>5. PICK on : on = MarkNode(acc, n)
  OBVIOUS
<1>6. acc = [tree |-> acc.tree, pos |-> acc.pos, seen |-> acc.seen, marked |-> acc.marked] /\ Marking(t, acc.tree)
  BY DEF MarkedSoFar
<1>7. PICK tree : tree = IF pos # Illegal /\ seen # {} THEN TagTransposition(acc.tree, n, m) ELSE acc.tree
  OBVIOUS
<1>8. /\ on = [tree |-> on.tree, pos |-> on.pos, seen |-> on.seen, marked |-> on.marked]
      /\ on.tree = tree
  <2>1. on = [acc EXCEPT !.pos = [@ EXCEPT ![n] = pos],
                         !.seen = IF pos = Illegal \/ seen # {} THEN @
                                  ELSE [k \in DOMAIN @ \cup {n} |-> IF k = n THEN pos ELSE @[k]],
                         !.tree = tree,
                         !.marked = IF pos # Illegal /\ seen # {} THEN @ + 1 ELSE @]
    BY <1>1, <1>2, <1>3, <1>4, <1>5, <1>7 DEF MarkNode
  <2> QED  BY ONLY <1>6, <2>1
<1>9. Marking(t, tree)
  BY <1>6, <1>7, TaggedSoFar
<1> QED  BY <1>5, <1>8, <1>9 DEF MarkedSoFar

LEMMA MarkingSelf == ASSUME NEW t, Arena(t) PROVE Marking(t, t)
BY ExtendsSelf DEF Marking, Grew, SameWords

LEMMA MarksSpare ==
  ASSUME NEW t, Arena(t)
  PROVE  Marking(t, MarkTranspositions(t).tree)
<1> DEFINE base == [tree |-> t, pos |-> [n \in NodeIds(t) |-> t.start], seen |-> <<>>, marked |-> 0]
<1>1. PICK W : W = {n \in NodeIds(t) : n # 0 /\ t.nodes[n].parent \in NodeIds(t)}
  OBVIOUS
<1>2. PICK walk : walk = Tail(Preorder(t, 0))
  OBVIOUS
<1>3. walk \in Seq(W)
  BY <1>1, <1>2, Walked
<1>4. MarkTranspositions(t) = MarkFold!Of(0, base, walk)
  BY <1>2 DEF MarkTranspositions, MarkStep, MarkFold!Of, FoldLeft, MapThenFoldSet, Max, MarkFold!Highest
<1>5. MarkedSoFar(t, base)
  <2>1. base = [tree |-> base.tree, pos |-> base.pos, seen |-> base.seen, marked |-> base.marked] /\ base.tree = t
    OBVIOUS
  <2> QED  BY ONLY <2>1, Arena(t), MarkingSelf DEF MarkedSoFar
<1> HIDE DEF base
<1>6. \A acc : \A n \in W : MarkedSoFar(t, acc) => MarkedSoFar(t, MarkStep(0, acc, n))
  BY <1>1, MarkNodeStep DEF MarkStep
<1>7. MarkedSoFar(t, MarkFold!Of(0, base, walk))
  BY ONLY <1>3, <1>5, <1>6, MarkFold!Preserved
<1> QED  BY <1>4, <1>7 DEF MarkedSoFar

LEMMA MergeSpares ==
  ASSUME NEW t, Arena(t), NEW S, NEW games \in Seq(S), \A g \in S : IsList(g.sans), NEW max \in Nat,
         NEW u, u = MergeGames(t, games, max)
  PROVE  Grew(t, u) /\ SameWords(t, u) /\ (Listed(t) => Listed(u))
<1>1. PICK folded : folded = FoldGames(t, games, max)
  OBVIOUS
<1>2. PICK a : a = folded.tree
  OBVIOUS
<1>3. PICK ranked : ranked = OrderByFrequency(a, folded.stats, Len(games))
  OBVIOUS
<1>4. PICK noted : noted = AnnotateBranches(ranked, folded.stats)
  OBVIOUS
<1>5. u = MarkTranspositions(noted).tree
  BY <1>1, <1>2, <1>3, <1>4 DEF MergeGames
<1>6. Grew(t, a) /\ SameWords(t, a) /\ (Listed(t) => Listed(a))
  BY <1>1, <1>2, FoldGamesUntouched, NotesAreWords DEF Untouched
<1>7. Grew(a, ranked) /\ SameWords(a, ranked) /\ NodeIds(ranked) = NodeIds(a)
  <2>1. Len(games) \in Nat
    OBVIOUS
  <2> QED  BY <1>3, <1>6, <2>1, RankedTrimmed, TrimmedArena, NotesAreWords DEF Grew
<1>8. Grew(ranked, noted) /\ SameWords(ranked, noted) /\ NodeIds(noted) = NodeIds(ranked)
  BY <1>4, <1>7, StatsAnnotated, TrimmedArena DEF Grew
<1>9. Grew(noted, u) /\ NodeIds(u) = NodeIds(noted) /\ SameWords(noted, u)
  BY <1>5, <1>8, MarksSpare DEF Grew, Marking
<1>10. Grew(t, ranked) /\ SameWords(t, ranked)
  BY <1>6, <1>7, GrewOn, SameWordsOn DEF Grew, Extends
<1>11. Grew(t, noted) /\ SameWords(t, noted)
  BY <1>8, <1>10, GrewOn, SameWordsOn DEF Grew, Extends
<1>12. Grew(t, u) /\ SameWords(t, u)
  BY <1>9, <1>11, GrewOn, SameWordsOn DEF Grew, Extends
<1>13. Listed(t) => Listed(u)
  BY <1>6, <1>7, <1>8, <1>9, WordsListed
<1> QED  BY <1>12, <1>13
============================================================================
