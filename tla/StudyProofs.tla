---------------------------- MODULE StudyProofs ----------------------------
(***************************************************************************)
(* Proofs about the studies: node ids name the same moves to everyone, and *)
(* no pass touches what the user made, for any chess, any trees, any       *)
(* requests and any number of clients.  The first part is about the edits  *)
(* one by one, the second about the store.                                 *)
(***************************************************************************)
EXTENDS StudyTreeProofs

(***************************************************************************)
(* Lists that grow.                                                        *)
(***************************************************************************)
LEMMA ListGrows ==
  ASSUME NEW s, IsList(s), NEW x
  PROVE  IsList(Append(s, x))
<1>1. PICK S : S = ToSet(s) \cup {x}
  OBVIOUS
<1>2. s \in Seq(S)
  BY <1>1 DEF IsList
<1>3. Append(s, x) \in Seq(S)
  BY <1>1, <1>2
<1> QED  BY <1>3, RangeFacts DEF IsList

LEMMA ListOf == ASSUME NEW S, NEW s \in Seq(S) PROVE IsList(s)
BY RangeFacts DEF IsList

LEMMA ListJoined ==
  ASSUME NEW s, IsList(s), NEW u, IsList(u)
  PROVE  IsList(s \o u) /\ ToSet(s \o u) = ToSet(s) \cup ToSet(u)
<1>1. PICK S : S = ToSet(s) \cup ToSet(u)
  OBVIOUS
<1>2. s \in Seq(S) /\ u \in Seq(S)
  BY <1>1 DEF IsList
<1> QED  BY <1>2, RangeJoined, ListOf

\* What a node carries, once it is set.
LEMMA NagsSet ==
  ASSUME NEW t, Arena(t), NEW n \in NodeIds(t), NEW v, NEW u, u = SetNags(t, n, v)
  PROVE  /\ u.nodes[n].nags = v /\ u.nodes[n].comment = t.nodes[n].comment /\ u.nodes[n].shapes = t.nodes[n].shapes
<1>1. PICK x : x = t.nodes[n]
  OBVIOUS
<1>2. IsTree(t) /\ IsNode(x)
  BY <1>1 DEF Arena, NodesOK
<1>3. Changed(t, n, WithNags(x, v), u)
  BY <1>1, <1>2, Setters
<1>4. PICK y : y = WithNags(x, v)
  OBVIOUS
<1>5. y.nags = v /\ y.comment = x.comment /\ y.shapes = x.shapes
  BY ONLY <1>2, <1>4 DEF IsNode, WithNags
<1> QED  BY <1>1, <1>3, <1>4, <1>5 DEF Changed

LEMMA ShapesSet ==
  ASSUME NEW t, Arena(t), NEW n \in NodeIds(t), NEW v, NEW u, u = SetShapes(t, n, v)
  PROVE  /\ u.nodes[n].shapes = v /\ u.nodes[n].comment = t.nodes[n].comment /\ u.nodes[n].nags = t.nodes[n].nags
<1>1. PICK x : x = t.nodes[n]
  OBVIOUS
<1>2. IsTree(t) /\ IsNode(x)
  BY <1>1 DEF Arena, NodesOK
<1>3. Changed(t, n, WithShapes(x, v), u)
  BY <1>1, <1>2, Setters
<1>4. PICK y : y = WithShapes(x, v)
  OBVIOUS
<1>5. y.shapes = v /\ y.comment = x.comment /\ y.nags = x.nags
  BY ONLY <1>2, <1>4 DEF IsNode, WithShapes
<1> QED  BY <1>1, <1>3, <1>4, <1>5 DEF Changed

LEMMA EvalSet ==
  ASSUME NEW t, Arena(t), NEW n \in NodeIds(t), NEW v, NEW u, u = SetEval(t, n, v)
  PROVE  SameNotes(t, u)
<1>1. PICK x : x = t.nodes[n]
  OBVIOUS
<1>2. IsTree(t) /\ IsNode(x)
  BY <1>1 DEF Arena, NodesOK
<1>3. Changed(t, n, WithEval(x, v), u)
  BY <1>1, <1>2, Setters
<1>4. PICK y : y = WithEval(x, v)
  OBVIOUS
<1>5. y.shapes = x.shapes /\ y.comment = x.comment /\ y.nags = x.nags
  BY ONLY <1>2, <1>4 DEF IsNode, WithEval
<1> QED  BY <1>1, <1>3, <1>4, <1>5 DEF Changed, SameNotes

LEMMA NagAdded ==
  ASSUME NEW t, NEW n, NEW nag
  PROVE  AddNag(t, n, nag) = SetNags(t, n, Append(t.nodes[n].nags, nag))
BY DEF AddNag, SetNags

\* A change at one node keeps the lists of all the others.
LEMMA OneListed ==
  ASSUME NEW t, Listed(t), NEW n \in NodeIds(t), NEW u, NodeIds(u) = NodeIds(t),
         \A m \in NodeIds(t) : m # n => u.nodes[m] = t.nodes[m],
         IsList(u.nodes[n].nags), IsList(u.nodes[n].shapes)
  PROVE  Listed(u)
BY DEF Listed

(***************************************************************************)
(* Danger notes go on the nodes that the graft has added.                  *)
(***************************************************************************)
OnlyAt(t, n, u) ==
  /\ Grew(t, u) /\ NodeIds(u) = NodeIds(t)
  /\ \A m \in NodeIds(t) : m # n => u.nodes[m] = t.nodes[m]
  /\ Listed(t) => Listed(u)
LEMMA OnlyAtSelf == ASSUME NEW t, Arena(t), NEW n PROVE OnlyAt(t, n, t)
BY ExtendsSelf DEF OnlyAt, Grew

LEMMA OnlyAtOn ==
  ASSUME NEW t, NEW n, NEW u, NEW v, OnlyAt(t, n, u), OnlyAt(u, n, v)
  PROVE  OnlyAt(t, n, v)
BY GrewOn DEF OnlyAt

LEMMA CommentAt ==
  ASSUME NEW t, Arena(t), NEW n \in NodeIds(t), NEW v
  PROVE  OnlyAt(t, n, SetComment(t, n, v))
<1>1. PICK u : u = SetComment(t, n, v)
  OBVIOUS
<1>2. /\ Grew(t, u) /\ NodeIds(u) = NodeIds(t)
      /\ \A m \in NodeIds(t) : m # n => u.nodes[m] = t.nodes[m]
  BY <1>1, OneNode
<1>3. u.nodes[n].nags = t.nodes[n].nags /\ u.nodes[n].shapes = t.nodes[n].shapes
  BY <1>1, CommentSet
<1>4. Listed(t) => Listed(u)
  BY ONLY <1>2, <1>3, n \in NodeIds(t) DEF Listed
<1> QED  BY <1>1, <1>2, <1>4 DEF OnlyAt

LEMMA EvalAt ==
  ASSUME NEW t, Arena(t), NEW n \in NodeIds(t), NEW v
  PROVE  OnlyAt(t, n, SetEval(t, n, v))
<1>1. PICK u : u = SetEval(t, n, v)
  OBVIOUS
<1>2. /\ Grew(t, u) /\ NodeIds(u) = NodeIds(t)
      /\ \A m \in NodeIds(t) : m # n => u.nodes[m] = t.nodes[m]
  BY <1>1, OneNode
<1>3. SameNotes(t, u)
  BY <1>1, EvalSet
<1>4. Listed(t) => Listed(u)
  BY ONLY <1>2, <1>3 DEF Listed, SameNotes
<1> QED  BY <1>1, <1>2, <1>4 DEF OnlyAt

LEMMA NagsAt ==
  ASSUME NEW t, Arena(t), NEW n \in NodeIds(t), NEW v, Listed(t) => IsList(v)
  PROVE  OnlyAt(t, n, SetNags(t, n, v))
<1>1. PICK u : u = SetNags(t, n, v)
  OBVIOUS
<1>2. /\ Grew(t, u) /\ NodeIds(u) = NodeIds(t)
      /\ \A m \in NodeIds(t) : m # n => u.nodes[m] = t.nodes[m]
  BY <1>1, OneNode
<1>3. u.nodes[n].nags = v /\ u.nodes[n].shapes = t.nodes[n].shapes
  BY <1>1, NagsSet
<1>4. Listed(t) => Listed(u)
  BY ONLY <1>2, <1>3, n \in NodeIds(t), Listed(t) => IsList(v) DEF Listed
<1> QED  BY <1>1, <1>2, <1>4 DEF OnlyAt

LEMMA ShapesAt ==
  ASSUME NEW t, Arena(t), NEW n \in NodeIds(t), NEW v, Listed(t) => IsList(v)
  PROVE  OnlyAt(t, n, SetShapes(t, n, v))
<1>1. PICK u : u = SetShapes(t, n, v)
  OBVIOUS
<1>2. /\ Grew(t, u) /\ NodeIds(u) = NodeIds(t)
      /\ \A m \in NodeIds(t) : m # n => u.nodes[m] = t.nodes[m]
  BY <1>1, OneNode
<1>3. u.nodes[n].shapes = v /\ u.nodes[n].nags = t.nodes[n].nags
  BY <1>1, ShapesSet
<1>4. Listed(t) => Listed(u)
  BY ONLY <1>2, <1>3, n \in NodeIds(t), Listed(t) => IsList(v) DEF Listed
<1> QED  BY <1>1, <1>2, <1>4 DEF OnlyAt

LEMMA NagAt ==
  ASSUME NEW t, Arena(t), NEW n \in NodeIds(t), NEW nag
  PROVE  OnlyAt(t, n, AddNag(t, n, nag))
<1>1. PICK v : v = Append(t.nodes[n].nags, nag)
  OBVIOUS
<1>2. Listed(t) => IsList(v)
  BY <1>1, ListGrows DEF Listed
<1> QED  BY <1>1, <1>2, NagsAt, NagAdded

LEMMA DangerNoted ==
  ASSUME NEW t, Arena(t), NEW n \in NodeIds(t), NEW tag
  PROVE  OnlyAt(t, n, AnnotateGrafted(t, n, tag))
<1>1. PICK a : a = IF tag.eval = NoEval THEN t ELSE SetEval(t, n, tag.eval)
  OBVIOUS
<1>2. PICK b : b = SetComment(a, n, tag.comment)
  OBVIOUS
<1>3. PICK w : w = AddNag(b, n, WeaponNag)
  OBVIOUS
<1>4. PICK k : k = AddNag(b, n, CautionNag)
  OBVIOUS
<1>5. AnnotateGrafted(t, n, tag) \in {w, k, b}
  BY <1>1, <1>2, <1>3, <1>4 DEF AnnotateGrafted
<1>6. OnlyAt(t, n, a)
  BY <1>1, EvalAt, OnlyAtSelf
<1>7. Arena(a) /\ n \in NodeIds(a)
  BY <1>6 DEF OnlyAt, Grew
<1>8. OnlyAt(a, n, b)
  BY <1>2, <1>7, CommentAt
<1>9. Arena(b) /\ n \in NodeIds(b)
  BY <1>7, <1>8 DEF OnlyAt, Grew
<1>10. OnlyAt(b, n, w) /\ OnlyAt(b, n, k)
  BY <1>3, <1>4, <1>9, NagAt
<1> QED  BY <1>5, <1>6, <1>8, <1>10, OnlyAtOn

\* What is kept of t once some nodes that are not in it are annotated.
Spared(t, u) == Grew(t, u) /\ SameNotes(t, u) /\ (Listed(t) => Listed(u))
SparedSoFar(d, acc) == Spared(d[1], acc) /\ NodeIds(acc) = NodeIds(d[2])
Annotating == INSTANCE Folding WITH Op <- AnnotateAdded, Inv <- SparedSoFar
LEMMA SparedOn ==
  ASSUME NEW t, NEW u, NEW v, NEW n \in NodeIds(u), n \notin NodeIds(t), Spared(t, u), OnlyAt(u, n, v)
  PROVE  Spared(t, v)
<1>1. Grew(t, v)
  BY GrewOn DEF Spared, OnlyAt
<1>2. \A m \in NodeIds(t) : v.nodes[m] = u.nodes[m]
  BY DEF Spared, OnlyAt, Grew, Extends
<1>3. SameNotes(t, v)
  BY <1>2 DEF Spared, SameNotes
<1> QED  BY <1>1, <1>3 DEF Spared, OnlyAt

\* merge_danger
DangerTold(danger, g) == FoldLeft(LAMBDA acc, pair : AnnotateAdded(danger, acc, pair), g.tree, g.added)
LEMMA DangerSpares ==
  ASSUME NEW t, Arena(t), NEW n \in NodeIds(t), NEW danger, Arena(danger.tree),
         NEW g, g = Graft(t, n, danger.tree), NEW u,
         u = DangerTold(danger, g)
  PROVE  Spared(t, u)
<1>1. Grafted(t, danger.tree, g.at, g.added, g.tree)
  BY GraftUntouched
<1>2. PICK S : S = {pair \in NodeIds(danger.tree) \X Nat : pair[2] \in NodeIds(g.tree) /\ pair[2] \notin NodeIds(t)}
  OBVIOUS
<1>3. g.added \in Seq(S)
  <2>1. PICK added : added = g.added
    OBVIOUS
  <2>2. /\ added \in Seq(NodeIds(danger.tree) \X Nat)
        /\ \A k \in DOMAIN added : added[k][2] \in NodeIds(g.tree) /\ added[k][2] \notin NodeIds(t)
    BY <1>1, <2>1 DEF Grafted
  <2>3. \A k \in DOMAIN added : added[k] \in NodeIds(danger.tree) \X Nat
    BY ONLY <2>2
  <2>4. \A k \in DOMAIN added : added[k] \in S
    BY ONLY <1>2, <2>2, <2>3
  <2>5. added \in Seq(S)
    BY ONLY <2>2, <2>4
  <2> QED  BY <2>1, <2>5
<1>4. u = Annotating!Of(danger, g.tree, g.added)
  BY DEF DangerTold, Annotating!Of, FoldLeft, MapThenFoldSet, Max, Annotating!Highest
<1>5. PICK d : d = <<t, g.tree>>
  OBVIOUS
<1>6. \A acc : SparedSoFar(d, acc) <=> Spared(t, acc) /\ NodeIds(acc) = NodeIds(g.tree)
  BY ONLY <1>5 DEF SparedSoFar
<1>7. SparedSoFar(d, g.tree)
  BY <1>1, <1>6 DEF Grafted, Untouched, Spared
<1>8. ASSUME NEW acc, NEW pair \in S, SparedSoFar(d, acc)
      PROVE  SparedSoFar(d, AnnotateAdded(danger, acc, pair))
  <2>1. PICK m : m = pair[2]
    OBVIOUS
  <2>2. Spared(t, acc) /\ NodeIds(acc) = NodeIds(g.tree) /\ m \in NodeIds(acc) /\ m \notin NodeIds(t)
    BY <1>2, <1>6, <1>8, <2>1
  <2>3. PICK on : on = AnnotateAdded(danger, acc, pair)
    OBVIOUS
  <2>4. Arena(acc)
    BY <2>2 DEF Spared, Grew
  <2>5. OnlyAt(acc, m, on)
    <3>1. CASE pair[1] \in DOMAIN danger.tags
      <4>1. on = AnnotateGrafted(acc, m, danger.tags[pair[1]])
        BY <2>1, <2>3, <3>1 DEF AnnotateAdded
      <4> QED  BY <2>2, <2>4, <4>1, DangerNoted
    <3>2. CASE pair[1] \notin DOMAIN danger.tags
      BY <2>3, <2>4, <3>2, OnlyAtSelf DEF AnnotateAdded
    <3> QED  BY <3>1, <3>2
  <2>6. Spared(t, on) /\ NodeIds(on) = NodeIds(g.tree)
    BY <2>2, <2>5, SparedOn DEF OnlyAt
  <2> QED  BY <1>6, <2>3, <2>6
<1>9. SparedSoFar(d, Annotating!Of(danger, g.tree, g.added))
  BY ONLY <1>3, <1>7, <1>8, Annotating!Preserved
<1> QED  BY <1>4, <1>6, <1>9

(***************************************************************************)
(* What the user made on a node.                                           *)
(***************************************************************************)
SameWork(t, u) == \A n \in NodeIds(t) : UserWork(t.nodes[n]) = UserWork(u.nodes[n])
Positional(nags) == Only(nags, ToSet(nags) \ QualityNags)
ByHand(shapes)   == Only(shapes, {s \in ToSet(shapes) : s.brush \notin GeneratedBrushes})
GlyphVerdicts == \A line : Verdict(line).nag \in {0} \cup QualityNags

LEMMA WorkOf ==
  ASSUME NEW x, NEW y, WordOf(x.comment) = WordOf(y.comment),
         Positional(x.nags) = Positional(y.nags), ByHand(x.shapes) = ByHand(y.shapes)
  PROVE  UserWork(x) = UserWork(y)
BY DEF UserWork, WordOf, Positional, ByHand

LEMMA WordsAreWork ==
  ASSUME NEW t, NEW u, SameWords(t, u)
  PROVE  SameWork(t, u)
BY WorkOf DEF SameWords, SameWork

LEMMA WorkOn ==
  ASSUME NEW t, NEW u, NEW v, NodeIds(t) \subseteq NodeIds(u), SameWork(t, u), SameWork(u, v)
  PROVE  SameWork(t, v)
<1> SUFFICES ASSUME NEW n \in NodeIds(t) PROVE UserWork(t.nodes[n]) = UserWork(v.nodes[n])
  BY DEF SameWork
<1> QED  BY DEF SameWork

LEMMA WorkAt ==
  ASSUME NEW t, NEW n \in NodeIds(t), NEW u, OnlyAt(t, n, u), UserWork(t.nodes[n]) = UserWork(u.nodes[n])
  PROVE  SameWork(t, u)
<1> SUFFICES ASSUME NEW m \in NodeIds(t) PROVE UserWork(t.nodes[m]) = UserWork(u.nodes[m])
  BY DEF SameWork
<1>1. m # n => u.nodes[m] = t.nodes[m]
  BY DEF OnlyAt
<1> QED  BY <1>1

\* A new verdict replaces the old one, and no other glyph.
LEMMA PositionalKept ==
  ASSUME NEW nags, IsList(nags), NEW nag \in QualityNags, NEW kept, kept = Positional(nags)
  PROVE  /\ IsList(kept) /\ IsList(Append(kept, nag))
         /\ Positional(kept) = kept /\ Positional(Append(kept, nag)) = kept
<1>1. PICK A : A = ToSet(kept)
  OBVIOUS
<1>2. kept \in Seq(ToSet(nags) \cap (ToSet(nags) \ QualityNags))
  BY OnlyIn DEF IsList, Positional
<1>3. kept \in Seq(A) /\ A \cap QualityNags = {}
  <2>1. PICK S : S = ToSet(nags) \cap (ToSet(nags) \ QualityNags)
    OBVIOUS
  <2>2. kept \in Seq(S)
    BY <1>2, <2>1
  <2>3. kept \in Seq(ToSet(kept)) /\ ToSet(kept) \subseteq S
    BY ONLY <2>2, RangeFacts
  <2>4. S \cap QualityNags = {}
    BY ONLY <2>1
  <2> QED  BY ONLY <1>1, <2>3, <2>4
<1>4. IsList(kept) /\ IsList(Append(kept, nag))
  BY <1>1, <1>3, ListGrows DEF IsList
<1>5. PICK g : g = <<nag>>
  OBVIOUS
<1>6. PICK none : none = <<>>
  OBVIOUS
<1>7. g \in Seq({nag}) /\ none \in Seq({nag}) /\ ToSet(g) = {nag} /\ ToSet(none) = {}
  BY <1>5, <1>6 DEF ToSet
<1>8. kept \o g = Append(kept, nag) /\ kept \o none = kept
  BY <1>3, <1>5, <1>6
<1>9. PICK s : s = kept \o g
  OBVIOUS
<1>10. ToSet(s) = A \cup {nag}
  BY <1>1, <1>4, <1>7, <1>9, ListJoined, ListOf
<1>11. Only(s, ToSet(s) \ QualityNags) = kept
  <2>1. PICK K : K = ToSet(s) \ QualityNags
    OBVIOUS
  <2>2. A \subseteq K /\ {nag} \cap K = {}
    BY <1>3, <1>10, <2>1
  <2>3. PICK B : B = {nag}
    OBVIOUS
  <2>4. g \in Seq(B) /\ B \cap K = {}
    BY <1>7, <2>2, <2>3
  <2>5. Only(kept \o g, K) = kept
    BY ONLY <1>3, <2>2, <2>4, OnlySplit
  <2> QED  BY <1>9, <2>1, <2>5
<1>12. Only(kept, ToSet(kept) \ QualityNags) = kept
  <2>1. PICK K : K = ToSet(kept) \ QualityNags
    OBVIOUS
  <2>2. A \subseteq K
    BY <1>1, <1>3, <2>1
  <2>3. PICK B : B = {}
    OBVIOUS
  <2>4. none \in Seq(B) /\ B \cap K = {}
    BY <1>6, <2>3
  <2>5. Only(kept \o none, K) = kept
    BY ONLY <1>3, <2>2, <2>4, OnlySplit
  <2> QED  BY <1>8, <2>1, <2>5
<1> QED  BY <1>4, <1>8, <1>9, <1>11, <1>12 DEF Positional

(***************************************************************************)
(* The analysis pass.                                                      *)
(***************************************************************************)
Judged(t, u) ==
  /\ Grew(t, u) /\ NodeIds(u) = NodeIds(t)
  /\ GlyphVerdicts /\ Listed(t) => Listed(u) /\ SameWork(t, u)
LEMMA JudgedSelf == ASSUME NEW t, Arena(t) PROVE Judged(t, t)
BY ExtendsSelf DEF Judged, Grew, SameWork

LEMMA JudgedOn ==
  ASSUME NEW t, NEW u, NEW v, Judged(t, u), Judged(u, v)
  PROVE  Judged(t, v)
<1>1. Grew(t, v) /\ NodeIds(v) = NodeIds(t)
  BY GrewOn DEF Judged
<1>2. GlyphVerdicts /\ Listed(t) => Listed(v) /\ SameWork(t, v)
  BY WorkOn DEF Judged
<1> QED  BY <1>1, <1>2 DEF Judged

LEMMA QualitySet ==
  ASSUME NEW t, NEW n, NEW nag
  PROVE  SetQualityNag(t, n, nag) =
           SetNags(t, n, IF nag = 0 THEN Positional(t.nodes[n].nags) ELSE Append(Positional(t.nodes[n].nags), nag))
BY DEF SetQualityNag, SetNags, Positional

LEMMA QualityAt ==
  ASSUME NEW t, Arena(t), NEW n \in NodeIds(t), NEW nag, NEW u, u = SetQualityNag(t, n, nag)
  PROVE  /\ Grew(t, u) /\ NodeIds(u) = NodeIds(t)
         /\ nag \in {0} \cup QualityNags /\ Listed(t) => Listed(u) /\ SameWork(t, u)
<1>1. PICK old : old = t.nodes[n].nags
  OBVIOUS
<1>2. PICK kept : kept = Positional(old)
  OBVIOUS
<1>3. PICK v : v = IF nag = 0 THEN kept ELSE Append(kept, nag)
  OBVIOUS
<1>4. u = SetNags(t, n, v)
  BY <1>1, <1>2, <1>3, QualitySet
<1>5. /\ Grew(t, u) /\ NodeIds(u) = NodeIds(t)
      /\ \A m \in NodeIds(t) : m # n => u.nodes[m] = t.nodes[m]
  BY <1>4, OneNode
<1>6. ASSUME nag \in {0} \cup QualityNags, Listed(t)
      PROVE  Listed(u) /\ SameWork(t, u)
  <2>1. IsList(old)
    BY <1>1, <1>6 DEF Listed
  <2>2. IsList(kept) /\ Positional(kept) = kept
    <3>1. 1 \in QualityNags
      BY DEF QualityNags
    <3> QED  BY <1>2, <2>1, <3>1, PositionalKept
  <2>3. IsList(v) /\ Positional(v) = kept
    <3>1. CASE nag = 0
      BY <1>3, <2>2, <3>1
    <3>2. CASE nag # 0
      <4>1. nag \in QualityNags /\ v = Append(kept, nag)
        BY <1>3, <1>6, <3>2
      <4> QED  BY <1>2, <2>1, <4>1, PositionalKept
    <3> QED  BY <3>1, <3>2
  <2>4. OnlyAt(t, n, u)
    BY <1>4, <2>3, NagsAt
  <2>5. u.nodes[n].nags = v /\ u.nodes[n].comment = t.nodes[n].comment /\ u.nodes[n].shapes = t.nodes[n].shapes
    BY <1>4, NagsSet
  <2>6. Positional(u.nodes[n].nags) = Positional(t.nodes[n].nags)
    BY <1>1, <1>2, <2>3, <2>5
  <2>7. UserWork(t.nodes[n]) = UserWork(u.nodes[n])
    BY <2>5, <2>6, WorkOf
  <2> QED  BY <1>6, <2>4, <2>7, WorkAt DEF OnlyAt
<1> QED  BY <1>5, <1>6

LEMMA JudgeStep ==
  ASSUME NEW t, Arena(t), NEW n \in NodeIds(t)
  PROVE  Judged(t, Judge(t, n))
<1>1. PICK v : v = Verdict(LineTo(t, n))
  OBVIOUS
<1>2. PICK a : a = SetEval(t, n, v.eval)
  OBVIOUS
<1>3. PICK u : u = SetQualityNag(a, n, v.nag)
  OBVIOUS
<1>4. u = Judge(t, n)
  BY <1>1, <1>2, <1>3 DEF Judge
<1>5. OnlyAt(t, n, a) /\ SameNotes(t, a)
  BY <1>2, EvalAt, EvalSet
<1>6. Judged(t, a)
  BY <1>5, NotesAreWords, WordsAreWork DEF OnlyAt, Judged
<1>7. Arena(a) /\ n \in NodeIds(a)
  BY <1>6 DEF Judged, Grew
<1>8. Judged(a, u)
  <2>1. GlyphVerdicts => v.nag \in {0} \cup QualityNags
    BY <1>1 DEF GlyphVerdicts
  <2> QED  BY <1>3, <1>7, <2>1, QualityAt DEF Judged
<1> QED  BY <1>4, <1>6, <1>8, JudgedOn

JudgeNode(c, acc, n) == Judge(acc, n)
Judging == INSTANCE Folding WITH Op <- JudgeNode, Inv <- Judged
LEMMA AnalysisSpares ==
  ASSUME NEW t, Arena(t), NEW reached \in Nat, reached <= Size(t),
         NEW u, u = FoldLeft(Judge, t, [k \in 1 .. reached - 1 |-> k])
  PROVE  Judged(t, u)
<1>1. PICK s : s = [k \in 1 .. reached - 1 |-> k]
  OBVIOUS
<1>2. NodeIds(t) = 0 .. Size(t) - 1 /\ Size(t) \in Nat
  BY ArenaSize
<1>3. \A k \in 1 .. reached - 1 : k \in NodeIds(t)
  BY <1>2
<1>4. s \in Seq(NodeIds(t))
  <2>1. \E k \in Nat : 1 .. reached - 1 = 1 .. k
    <3>1. CASE reached = 0
      <4>1. 1 .. reached - 1 = 1 .. 0
        BY <3>1
      <4> QED  BY <4>1
    <3>2. CASE reached # 0
      <4>1. reached - 1 \in Nat
        BY <3>2
      <4> QED  BY <4>1
    <3> QED  BY <3>1, <3>2
  <2>2. PICK k \in Nat : 1 .. reached - 1 = 1 .. k
    BY <2>1
  <2>3. PICK S : S = NodeIds(t)
    OBVIOUS
  <2>4. s = [j \in 1 .. k |-> j] /\ \A j \in 1 .. k : j \in S
    BY <1>1, <1>3, <2>2, <2>3
  <2>5. s \in [1 .. k -> S]
    BY ONLY <2>4
  <2>6. s \in Seq(S)
    BY <2>5
  <2> QED  BY <2>3, <2>6
<1>5. u = Judging!Of(0, t, s)
  BY <1>1 DEF JudgeNode, Judging!Of, FoldLeft, MapThenFoldSet, Max, Judging!Highest
<1>6. ASSUME NEW acc, NEW n \in NodeIds(t), Judged(t, acc) PROVE Judged(t, JudgeNode(0, acc, n))
  <2>1. Arena(acc) /\ n \in NodeIds(acc)
    BY <1>6 DEF Judged, Grew
  <2> QED  BY <1>6, <2>1, JudgeStep, JudgedOn DEF JudgeNode
<1>7. Judged(t, Judging!Of(0, t, s))
  BY ONLY <1>4, <1>6, Arena(t), JudgedSelf, Judging!Preserved
<1> QED  BY <1>5, <1>7

(***************************************************************************)
(* The passes that draw.                                                   *)
(***************************************************************************)
Generated(shapes) == IsList(shapes) /\ \A s \in ToSet(shapes) : s.brush \in GeneratedBrushes
ArrowsAreGenerated == \A pos : Generated(Arrows(pos))

\* What a pass drew is replaced by what it draws now; the rest stays.
LEMMA HandKept ==
  ASSUME NEW old, IsList(old), NEW new, Generated(new), NEW v, v = MergeShapes(old, new)
  PROVE  IsList(v) /\ ByHand(v) = ByHand(old)
<1>1. PICK kept : kept = ByHand(old)
  OBVIOUS
<1>2. v = kept \o new
  BY <1>1 DEF MergeShapes, ByHand
<1>3. PICK A : A = ToSet(kept)
  OBVIOUS
<1>4. kept \in Seq(A) /\ \A s \in A : s.brush \notin GeneratedBrushes
  <2>1. PICK H : H = {s \in ToSet(old) : s.brush \notin GeneratedBrushes}
    OBVIOUS
  <2>2. kept = Only(old, H)
    BY <1>1, <2>1 DEF ByHand
  <2>3. PICK S : S = ToSet(old) \cap H
    OBVIOUS
  <2>4. kept \in Seq(S)
    BY <2>2, <2>3, OnlyIn DEF IsList
  <2>5. kept \in Seq(ToSet(kept)) /\ ToSet(kept) \subseteq S
    BY ONLY <2>4, RangeFacts
  <2>6. \A s \in S : s.brush \notin GeneratedBrushes
    BY ONLY <2>1, <2>3
  <2> QED  BY ONLY <1>3, <2>5, <2>6
<1>5. PICK B : B = ToSet(new)
  OBVIOUS
<1>6. new \in Seq(B) /\ \A s \in B : s.brush \in GeneratedBrushes
  BY <1>5 DEF Generated, IsList
<1>7. IsList(v) /\ ToSet(v) = A \cup B
  BY <1>2, <1>3, <1>4, <1>5, <1>6, ListOf, ListJoined
<1>8. PICK K : K = {s \in ToSet(v) : s.brush \notin GeneratedBrushes}
  OBVIOUS
<1>9. A \subseteq K /\ B \cap K = {}
  BY ONLY <1>4, <1>6, <1>7, <1>8
<1>10. Only(kept \o new, K) = kept
  BY ONLY <1>4, <1>6, <1>9, OnlySplit
<1>11. ByHand(v) = kept
  BY <1>2, <1>8, <1>10 DEF ByHand
<1> QED  BY <1>1, <1>7, <1>11

LEMMA NothingGenerated == Generated(<<>>)
<1>1. PICK none : none = <<>>
  OBVIOUS
<1>2. ToSet(none) = {} /\ none \in Seq({})
  BY <1>1 DEF ToSet
<1> QED  BY <1>1, <1>2 DEF Generated, IsList

\* Nothing changes but the shapes of some nodes.
Redrawn(x, y) ==
  /\ IsNode(y) /\ y.parent = x.parent /\ y.san = x.san /\ y.children = x.children
  /\ y.comment = x.comment /\ y.nags = x.nags
LEMMA ShapesRedrawn ==
  ASSUME NEW x, IsNode(x), NEW v, NEW y, y = WithShapes(x, v)
  PROVE  Redrawn(x, y) /\ y.shapes = v
BY DEF IsNode, WithShapes, Redrawn
LEMMA NoneRedrawn == ASSUME NEW x, IsNode(x) PROVE Redrawn(x, x)
BY DEF Redrawn

LEMMA AllRedrawn ==
  ASSUME NEW t, Arena(t), NEW ns, IsMap(ns), DOMAIN ns = NodeIds(t),
         \A n \in NodeIds(t) : Redrawn(t.nodes[n], ns[n]), NEW u, u = [t EXCEPT !.nodes = ns]
  PROVE  Grew(t, u) /\ NodeIds(u) = NodeIds(t) /\ u.nodes = ns
<1>1. IsTree(u) /\ u.nodes = ns /\ NodeIds(u) = NodeIds(t)
  BY Renoded DEF Arena, NodesOK
<1>2. \A n \in NodeIds(t) : t.nodes[n].children \in Seq(NodeIds(t))
  BY DEF Arena, NodesOK
<1>3. Trimmed(t, u)
  <2> SUFFICES ASSUME NEW n \in NodeIds(t)
      PROVE  /\ IsNode(u.nodes[n])
             /\ u.nodes[n].parent = t.nodes[n].parent /\ u.nodes[n].san = t.nodes[n].san
             /\ u.nodes[n].children \in Seq(ToSet(t.nodes[n].children))
    BY <1>1 DEF Trimmed
  <2>1. PICK cs : cs = t.nodes[n].children
    OBVIOUS
  <2>2. cs \in Seq(ToSet(cs))
    BY <1>2, <2>1, RangeFacts
  <2> QED  BY <1>1, <2>1, <2>2 DEF Redrawn
<1> QED  BY <1>1, <1>3, TrimmedArena DEF Grew

\* The user's drawings stay, and all that is not a drawing.
Redraws(t, u) ==
  /\ Grew(t, u) /\ NodeIds(u) = NodeIds(t)
  /\ \A n \in NodeIds(t) : Redrawn(t.nodes[n], u.nodes[n])
HandsSpared(t, u) ==
  \A n \in NodeIds(t) : IsList(u.nodes[n].shapes) /\ ByHand(t.nodes[n].shapes) = ByHand(u.nodes[n].shapes)
LEMMA RedrawsSpare ==
  ASSUME NEW t, NEW u, Redraws(t, u), Listed(t), HandsSpared(t, u)
  PROVE  Listed(u) /\ SameWork(t, u)
<1>1. Listed(u)
  BY DEF Listed, Redraws, Redrawn, HandsSpared
<1>2. ASSUME NEW n \in NodeIds(t) PROVE UserWork(t.nodes[n]) = UserWork(u.nodes[n])
  <2>1. Redrawn(t.nodes[n], u.nodes[n]) /\ ByHand(t.nodes[n].shapes) = ByHand(u.nodes[n].shapes)
    BY DEF Redraws, HandsSpared
  <2> QED  BY <2>1, WorkOf DEF Redrawn
<1> QED  BY <1>1, <1>2 DEF SameWork

\* clear_shapes
Cleared(t, all) ==
  [t EXCEPT !.nodes = [n \in NodeIds(t) |-> [t.nodes[n] EXCEPT
     !.shapes = IF all THEN <<>> ELSE MergeShapes(t.nodes[n].shapes, <<>>)]]]
LEMMA ClearSpares ==
  ASSUME NEW t, Arena(t), NEW all \in BOOLEAN, NEW u, u = Cleared(t, all)
  PROVE  Redraws(t, u) /\ (Listed(t) => Listed(u) /\ (~all => SameWork(t, u)))
<1>1. PICK none : none = <<>>
  OBVIOUS
<1>2. PICK sh : sh = [n \in NodeIds(t) |-> IF all THEN none ELSE MergeShapes(t.nodes[n].shapes, none)]
  OBVIOUS
<1>3. PICK ns : ns = [n \in NodeIds(t) |-> WithShapes(t.nodes[n], sh[n])]
  OBVIOUS
<1>4. u = [t EXCEPT !.nodes = ns]
  <2>1. ns = [n \in NodeIds(t) |-> [t.nodes[n] EXCEPT
                !.shapes = IF all THEN <<>> ELSE MergeShapes(t.nodes[n].shapes, <<>>)]]
    BY <1>1, <1>2, <1>3 DEF WithShapes
  <2> QED  BY <2>1 DEF Cleared
<1>5. IsMap(ns) /\ DOMAIN ns = NodeIds(t)
  BY <1>3 DEF IsMap
<1>6. ASSUME NEW n \in NodeIds(t) PROVE Redrawn(t.nodes[n], ns[n]) /\ ns[n].shapes = sh[n]
  <2>1. IsNode(t.nodes[n])
    BY DEF Arena, NodesOK
  <2>2. ns[n] = WithShapes(t.nodes[n], sh[n])
    BY <1>3
  <2> QED  BY <2>1, <2>2, ShapesRedrawn
<1>7. Redraws(t, u) /\ u.nodes = ns
  BY <1>4, <1>5, <1>6, AllRedrawn DEF Redraws
<1>8. ASSUME Listed(t), NEW n \in NodeIds(t)
      PROVE  IsList(sh[n]) /\ (~all => ByHand(sh[n]) = ByHand(t.nodes[n].shapes))
  <2>1. CASE all
    BY <1>1, <1>2, <2>1, NothingGenerated DEF Generated
  <2>2. CASE ~all
    <3>1. IsList(t.nodes[n].shapes) /\ Generated(none) /\ sh[n] = MergeShapes(t.nodes[n].shapes, none)
      BY <1>1, <1>2, <1>8, <2>2, NothingGenerated DEF Listed
    <3> QED  BY <3>1, HandKept
  <2> QED  BY <2>1, <2>2
<1>9. Listed(t) => Listed(u)
  BY <1>6, <1>7, <1>8 DEF Redraws, Redrawn, Listed
<1>10. Listed(t) /\ ~all => HandsSpared(t, u)
  BY <1>6, <1>7, <1>8 DEF HandsSpared
<1> QED  BY <1>7, <1>9, <1>10, RedrawsSpare

\* regenerate_shapes
Regenerated(t, layers, reached) ==
  LET drawn(n) == IF layers THEN Arrows(PositionAt(t, n)) ELSE <<>>
  IN [t EXCEPT !.nodes = [n \in NodeIds(t) |-> IF n < reached
        THEN [t.nodes[n] EXCEPT !.shapes = MergeShapes(t.nodes[n].shapes, drawn(n))]
        ELSE t.nodes[n]]]
LEMMA RegenerateSpares ==
  ASSUME NEW t, Arena(t), NEW layers \in BOOLEAN, NEW reached, NEW u, u = Regenerated(t, layers, reached)
  PROVE  Redraws(t, u) /\ (ArrowsAreGenerated /\ Listed(t) => Listed(u) /\ SameWork(t, u))
<1>1. PICK new : new = [n \in NodeIds(t) |-> IF layers THEN Arrows(PositionAt(t, n)) ELSE <<>>]
  OBVIOUS
<1>2. PICK sh : sh = [n \in NodeIds(t) |-> MergeShapes(t.nodes[n].shapes, new[n])]
  OBVIOUS
<1>3. PICK ns : ns = [n \in NodeIds(t) |-> IF n < reached THEN WithShapes(t.nodes[n], sh[n]) ELSE t.nodes[n]]
  OBVIOUS
<1>4. u = [t EXCEPT !.nodes = ns]
  <2>1. ns = [n \in NodeIds(t) |-> IF n < reached
               THEN [t.nodes[n] EXCEPT !.shapes = MergeShapes(t.nodes[n].shapes,
                       IF layers THEN Arrows(PositionAt(t, n)) ELSE <<>>)]
               ELSE t.nodes[n]]
    BY <1>1, <1>2, <1>3 DEF WithShapes
  <2> QED  BY <2>1 DEF Regenerated
<1>5. IsMap(ns) /\ DOMAIN ns = NodeIds(t)
  BY <1>3 DEF IsMap
<1>6. ASSUME NEW n \in NodeIds(t)
      PROVE  Redrawn(t.nodes[n], ns[n]) /\ ns[n].shapes \in {sh[n], t.nodes[n].shapes}
  <2>1. IsNode(t.nodes[n])
    BY DEF Arena, NodesOK
  <2>2. ns[n] \in {WithShapes(t.nodes[n], sh[n]), t.nodes[n]}
    BY <1>3
  <2> QED  BY <2>1, <2>2, ShapesRedrawn, NoneRedrawn
<1>7. Redraws(t, u) /\ u.nodes = ns
  BY <1>4, <1>5, <1>6, AllRedrawn DEF Redraws
<1>8. ASSUME ArrowsAreGenerated, Listed(t), NEW n \in NodeIds(t)
      PROVE  /\ IsList(sh[n]) /\ ByHand(sh[n]) = ByHand(t.nodes[n].shapes)
             /\ IsList(t.nodes[n].shapes)
  <2>1. IsList(t.nodes[n].shapes)
    BY <1>8 DEF Listed
  <2>2. Generated(new[n])
    <3>1. new[n] = IF layers THEN Arrows(PositionAt(t, n)) ELSE <<>>
      BY <1>1
    <3> QED  BY <1>8, <3>1, NothingGenerated DEF ArrowsAreGenerated
  <2>3. sh[n] = MergeShapes(t.nodes[n].shapes, new[n])
    BY <1>2
  <2> QED  BY <2>1, <2>2, <2>3, HandKept
<1>9. ArrowsAreGenerated /\ Listed(t) => HandsSpared(t, u)
  BY <1>6, <1>7, <1>8 DEF HandsSpared
<1> QED  BY <1>7, <1>9, RedrawsSpare

(***************************************************************************)
(* The edits of a client.                                                  *)
(***************************************************************************)
LEMMA PartOf ==
  ASSUME NEW S, NEW s \in Seq(S), NEW m \in Int, NEW n \in Int, 1 <= m, n <= Len(s)
  PROVE  SubSeq(s, m, n) \in Seq(S)
<1>1. CASE m <= n
  BY <1>1, SubSeqProperties
<1>2. CASE m > n
  BY <1>2, SubSeqProperties
<1> QED  BY <1>1, <1>2

LEMMA RemovedOf ==
  ASSUME NEW S, NEW s \in Seq(S), NEW e
  PROVE  RemoveFirst(s, e) \in Seq(S)
<1>1. PICK I : I = {i \in 1 .. Len(s) : s[i] = e}
  OBVIOUS
<1>2. CASE I = {}
  BY <1>1, <1>2 DEF RemoveFirst
<1>3. CASE I # {}
  <2>1. PICK k : k = Min(I)
    OBVIOUS
  <2>2. I \subseteq Nat
    BY <1>1
  <2>3. k \in I
    BY <1>3, <2>1, <2>2, LeastOf
  <2>4. k \in Int /\ 1 <= k /\ k <= Len(s) /\ Len(s) \in Nat
    BY <1>1, <2>3
  <2>5. RemoveFirst(s, e) = RemoveAt(s, k)
    BY <1>1, <1>3, <2>1 DEF RemoveFirst, SelectInSeq
  <2>6. PICK a : a = SubSeq(s, 1, k - 1)
    OBVIOUS
  <2>7. PICK b : b = SubSeq(s, k + 1, Len(s))
    OBVIOUS
  <2>8. a \in Seq(S) /\ b \in Seq(S)
    BY <2>4, <2>6, <2>7, PartOf
  <2>9. RemoveAt(s, k) = a \o b
    BY <2>6, <2>7 DEF RemoveAt
  <2> QED  BY ONLY <2>5, <2>8, <2>9
<1> QED  BY <1>2, <1>3

LEMMA InsertedOf ==
  ASSUME NEW S, NEW s \in Seq(S), NEW i \in Nat, i <= Len(s), NEW e \in S
  PROVE  InsertAt(s, i + 1, e) \in Seq(S)
<1>1. PICK a : a = SubSeq(s, 1, i)
  OBVIOUS
<1>2. PICK b : b = SubSeq(s, i + 1, Len(s))
  OBVIOUS
<1>3. Len(s) \in Nat /\ i \in Int /\ i + 1 \in Int /\ 1 <= i + 1
  OBVIOUS
<1>4. a \in Seq(S) /\ b \in Seq(S)
  BY <1>1, <1>2, <1>3, PartOf
<1>5. PICK m : m = <<e>>
  OBVIOUS
<1>6. m \in Seq(S)
  BY <1>5
<1>7. InsertAt(s, i + 1, e) = a \o m \o b
  <2>1. PICK j : j = i + 1
    OBVIOUS
  <2>2. j - 1 = i
    BY <2>1
  <2>3. InsertAt(s, j, e) = SubSeq(s, 1, j - 1) \o m \o SubSeq(s, j, Len(s))
    BY <1>5 DEF InsertAt
  <2>4. SubSeq(s, 1, j - 1) = a
    BY ONLY <1>1, <2>2
  <2>5. SubSeq(s, j, Len(s)) = b
    BY ONLY <1>2, <2>1
  <2>6. InsertAt(s, j, e) = a \o m \o b
    BY ONLY <2>3, <2>4, <2>5
  <2> QED  BY ONLY <2>1, <2>6
<1>8. a \o m \o b \in Seq(S)
  BY ONLY <1>4, <1>6
<1> QED  BY <1>7, <1>8

\* toggle_nag
LEMMA Toggled ==
  ASSUME NEW t, Arena(t), NEW n \in NodeIds(t), NEW nag
  PROVE  OnlyAt(t, n, ToggleNag(t, n, nag))
<1>1. PICK old : old = t.nodes[n].nags
  OBVIOUS
<1>2. PICK K : K = {g \in ToSet(old) : nag \notin QualityNags \/ g \notin QualityNags}
  OBVIOUS
<1>3. PICK v : v = IF Contains(old, nag) THEN RemoveFirst(old, nag) ELSE Append(Only(old, K), nag)
  OBVIOUS
<1>4. ToggleNag(t, n, nag) = SetNags(t, n, v)
  BY <1>1, <1>2, <1>3 DEF ToggleNag, SetNags
<1>5. ASSUME Listed(t) PROVE IsList(v)
  <2>1. old \in Seq(ToSet(old))
    BY <1>1, <1>5 DEF Listed, IsList
  <2>2. IsList(RemoveFirst(old, nag))
    BY <2>1, RemovedOf, ListOf
  <2>3. IsList(Append(Only(old, K), nag))
    BY <2>1, OnlyOf, ListOf, ListGrows
  <2> QED  BY <1>3, <2>2, <2>3
<1> QED  BY <1>4, <1>5, NagsAt

\* annotate
WithWords(t, n, words, nag) ==
  LET t1 == IF words = NoWords THEN t ELSE SetComment(t, n, words.text)
      t2 == IF words = NoWords \/ words.shapes = <<>> THEN t1 ELSE SetShapes(t1, n, words.shapes)
  IN IF nag = 0 THEN t2 ELSE ToggleNag(t2, n, nag)
LEMMA AnnotatedAt ==
  ASSUME NEW t, Arena(t), NEW n \in NodeIds(t), NEW words, words # NoWords => IsList(words.shapes), NEW nag
  PROVE  OnlyAt(t, n, WithWords(t, n, words, nag))
<1>1. PICK t1 : t1 = IF words = NoWords THEN t ELSE SetComment(t, n, words.text)
  OBVIOUS
<1>2. PICK t2 : t2 = IF words = NoWords \/ words.shapes = <<>> THEN t1 ELSE SetShapes(t1, n, words.shapes)
  OBVIOUS
<1>3. PICK t3 : t3 = IF nag = 0 THEN t2 ELSE ToggleNag(t2, n, nag)
  OBVIOUS
<1>4. t3 = WithWords(t, n, words, nag)
  BY <1>1, <1>2, <1>3 DEF WithWords
<1>5. OnlyAt(t, n, t1)
  BY <1>1, CommentAt, OnlyAtSelf
<1>6. Arena(t1) /\ n \in NodeIds(t1)
  BY <1>5 DEF OnlyAt, Grew
<1>7. OnlyAt(t1, n, t2)
  <2>1. CASE words = NoWords \/ words.shapes = <<>>
    BY <1>2, <1>6, <2>1, OnlyAtSelf
  <2>2. CASE ~(words = NoWords \/ words.shapes = <<>>)
    BY <1>2, <1>6, <2>2, ShapesAt
  <2> QED  BY <2>1, <2>2
<1>8. Arena(t2) /\ n \in NodeIds(t2)
  BY <1>6, <1>7 DEF OnlyAt, Grew
<1>9. OnlyAt(t2, n, t3)
  BY <1>3, <1>8, OnlyAtSelf, Toggled
<1> QED  BY <1>4, <1>5, <1>7, <1>9, OnlyAtOn

\* reorder; Contains says that the node is there to be moved.
LEMMA ChildrenSet ==
  ASSUME NEW t, Arena(t), NEW n \in NodeIds(t), NEW v, v \in Seq(ToSet(t.nodes[n].children)),
         NEW u, u = SetChildren(t, n, v)
  PROVE  Grew(t, u) /\ NodeIds(u) = NodeIds(t) /\ SameNotes(t, u)
<1>1. Trimmed(t, u)
  BY SetTrimmed
<1>2. PICK x : x = t.nodes[n]
  OBVIOUS
<1>3. IsTree(t) /\ IsNode(x)
  BY <1>2 DEF Arena, NodesOK
<1>4. Changed(t, n, WithChildren(x, v), u)
  BY <1>2, <1>3, Setters
<1>5. PICK y : y = WithChildren(x, v)
  OBVIOUS
<1>6. y.shapes = x.shapes /\ y.comment = x.comment /\ y.nags = x.nags
  BY ONLY <1>3, <1>5 DEF IsNode, WithChildren
<1>7. SameNotes(t, u)
  BY <1>2, <1>4, <1>5, <1>6 DEF Changed, SameNotes
<1> QED  BY <1>1, <1>7, TrimmedArena DEF Grew

LEMMA NotesListed ==
  ASSUME NEW t, NEW u, NodeIds(u) = NodeIds(t), SameNotes(t, u), Listed(t)
  PROVE  Listed(u)
BY DEF SameNotes, Listed

LEMMA Reordered ==
  ASSUME NEW t, Arena(t), NEW id, Movable(t, id), NEW index \in Nat, NEW u, u = Reorder(t, id, index)
  PROVE  Grew(t, u) /\ NodeIds(u) = NodeIds(t) /\ (Listed(t) => Listed(u))
<1>1. PICK p : p = t.nodes[id].parent
  OBVIOUS
<1>2. PICK cs : cs = t.nodes[p].children
  OBVIOUS
<1>3. id \in NodeIds(t) /\ p # NoNode /\ \E k \in 1 .. Len(cs) : cs[k] = id
  BY <1>1, <1>2 DEF Movable, HasParent, Siblings, Contains
<1>4. p \in NodeIds(t)
  BY <1>1, <1>3 DEF Arena, NodesOK
<1>5. cs \in Seq(NodeIds(t))
  BY <1>2, <1>4 DEF Arena, NodesOK
<1>6. cs \in Seq(ToSet(cs)) /\ id \in ToSet(cs)
  <2>1. cs \in Seq(ToSet(cs)) /\ \A k \in DOMAIN cs : cs[k] \in ToSet(cs)
    BY ONLY <1>5, RangeFacts
  <2>2. DOMAIN cs = 1 .. Len(cs)
    BY ONLY <1>5
  <2> QED  BY ONLY <1>3, <2>1, <2>2
<1>7. PICK rest : rest = Only(cs, ToSet(cs) \ {id})
  OBVIOUS
<1>8. rest \in Seq(ToSet(cs))
  BY <1>6, <1>7, OnlyOf
<1>9. PICK at : at = IF index <= Len(rest) THEN index ELSE Len(rest)
  OBVIOUS
<1>10. at \in Nat /\ at <= Len(rest)
  BY <1>8, <1>9
<1>11. PICK v : v = InsertAt(rest, at + 1, id)
  OBVIOUS
<1>12. v \in Seq(ToSet(cs))
  BY <1>6, <1>8, <1>10, <1>11, InsertedOf
<1>13. u = SetChildren(t, p, v)
  <2>1. cs = Siblings(t, id)
    BY <1>1, <1>2 DEF Siblings
  <2>2. u = [t EXCEPT !.nodes[t.nodes[id].parent].children = InsertAt(rest, at + 1, id)]
    BY <1>7, <1>9, <2>1 DEF Reorder
  <2> QED  BY <1>1, <1>11, <2>2 DEF SetChildren
<1> QED  BY <1>2, <1>4, <1>12, <1>13, ChildrenSet, NotesListed

\* delete
LEMMA RenamedNotes ==
  ASSUME NEW o, IsNode(o), NEW v, NEW i, NEW y, y = Renamed(o, v, i)
  PROVE  y.nags = o.nags /\ y.shapes = o.shapes
BY DEF IsNode, Renamed

LEMMA CompactListed ==
  ASSUME NEW t, Arena(t), Listed(t), NEW u, u = Compact(t)
  PROVE  Listed(u)
<1>1. PICK v : v = Preorder(t, 0)
  OBVIOUS
<1>2. /\ NodeIds(u) = 0 .. Len(v) - 1
      /\ \A i \in NodeIds(u) : u.nodes[i] = Renamed(t.nodes[v[i + 1]], v, i)
  BY <1>1, CompactShape DEF Arena, NodesOK
<1>3. v \in Seq(NodeIds(t))
  <2>1. PICK b \in Nat : \E r \in [NodeIds(t) -> 0 .. b] : Rising(t, r)
    BY DEF Arena
  <2>2. PICK r \in [NodeIds(t) -> 0 .. b] : Rising(t, r)
    BY <2>1
  <2>3. PICK G \in SUBSET NodeIds(t) : Hanging(t, G)
    BY DEF Arena
  <2>4. v \in Seq(G)
    BY <1>1, <2>2, <2>3, PreorderVisits DEF Hanging, Visited
  <2> QED  BY <2>4
<1> SUFFICES ASSUME NEW i \in NodeIds(u) PROVE IsList(u.nodes[i].nags) /\ IsList(u.nodes[i].shapes)
  BY DEF Listed
<1>4. PICK n : n = v[i + 1]
  OBVIOUS
<1>5. n \in NodeIds(t)
  BY <1>2, <1>3, <1>4
<1>6. IsNode(t.nodes[n]) /\ u.nodes[i] = Renamed(t.nodes[n], v, i)
  BY <1>2, <1>4, <1>5 DEF Arena, NodesOK
<1>7. u.nodes[i].nags = t.nodes[n].nags /\ u.nodes[i].shapes = t.nodes[n].shapes
  BY <1>6, RenamedNotes
<1> QED  BY <1>5, <1>7 DEF Listed

LEMMA Deleted ==
  ASSUME NEW t, Arena(t), NEW id, HasParent(t, id), NEW u, u = DeleteNode(t, id)
  PROVE  Arena(u) /\ (Listed(t) => Listed(u))
<1>1. PICK p : p = t.nodes[id].parent
  OBVIOUS
<1>2. p \in NodeIds(t)
  BY <1>1 DEF Arena, NodesOK, HasParent
<1>3. PICK cs : cs = t.nodes[p].children
  OBVIOUS
<1>4. cs \in Seq(NodeIds(t))
  BY <1>2, <1>3 DEF Arena, NodesOK
<1>5. PICK v : v = Only(cs, ToSet(cs) \ {id})
  OBVIOUS
<1>6. v \in Seq(ToSet(cs))
  BY <1>4, <1>5, OnlyOf
<1>7. PICK a : a = SetChildren(t, p, v)
  OBVIOUS
<1>8. u = Compact(a)
  BY <1>1, <1>3, <1>5, <1>7 DEF DeleteNode, SetChildren, Siblings
<1>9. Arena(a) /\ (Listed(t) => Listed(a))
  BY <1>2, <1>3, <1>6, <1>7, ChildrenSet, NotesListed DEF Grew
<1> QED  BY <1>8, <1>9, CompactArena, CompactListed

\* add_line
LEMMA LineAdded ==
  ASSUME NEW t, Arena(t), NEW S, NEW sans \in Seq(S), NEW words,
         NEW grown, grown = Graft(t, 0, LinearTree(sans)).tree,
         NEW leaf, leaf = ResolveLine(grown, 0, sans), leaf # NoNode,
         NEW u \in {grown, SetComment(grown, leaf, words)}
  PROVE  Grew(t, u) /\ (Listed(t) => Listed(u))
<1>1. PICK src : src = LinearTree(sans)
  OBVIOUS
<1>2. PICK g : g = Graft(t, 0, src)
  OBVIOUS
<1>3. Arena(src) /\ 0 \in NodeIds(t)
  BY <1>1, LinearArena, ArenaSize
<1>4. Grafted(t, src, g.at, g.added, g.tree)
  BY <1>2, <1>3, GraftUntouched
<1>5. Grew(t, grown) /\ (Listed(t) => Listed(grown))
  BY <1>1, <1>2, <1>4 DEF Grafted, Untouched
<1>6. Arena(grown) /\ 0 \in NodeIds(grown)
  BY <1>5, ArenaSize DEF Grew
<1>7. leaf \in NodeIds(grown)
  BY <1>6, LineFound
<1>8. OnlyAt(grown, leaf, u)
  BY <1>6, <1>7, CommentAt, OnlyAtSelf
<1> QED  BY <1>5, <1>8, GrewOn DEF OnlyAt

(***************************************************************************)
(* The reader of movetext.                                                 *)
(***************************************************************************)
Building(b) ==
  /\ b = [tree |-> b.tree, cur |-> b.cur, stack |-> b.stack, ok |-> b.ok]
  /\ Arena(b.tree) /\ b.cur \in NodeIds(b.tree) /\ b.stack \in Seq(NodeIds(b.tree))
  /\ Listed(b.tree)
BuildingSoFar(c, b) == Building(b)
ReadStep(c, b, tok) == ReadToken(b, tok)
Reading == INSTANCE Folding WITH Op <- ReadStep, Inv <- BuildingSoFar

LEMMA Built ==
  ASSUME NEW tree, NEW cur, NEW stack, NEW ok, Arena(tree), Listed(tree), cur \in NodeIds(tree), stack \in Seq(NodeIds(tree)),
         NEW b, b = [tree |-> tree, cur |-> cur, stack |-> stack, ok |-> ok]
  PROVE  Building(b)
BY DEF Building

LEMMA SanRead ==
  ASSUME NEW b, Building(b), NEW san
  PROVE  Building(ReadSan(b, san))
<1>1. PICK t : t = b.tree
  OBVIOUS
<1>2. PICK on : on = ReadSan(b, san)
  OBVIOUS
<1>3. b = [tree |-> b.tree, cur |-> b.cur, stack |-> b.stack, ok |-> b.ok]
  BY DEF Building
<1>4. /\ Arena(t) /\ b.cur \in NodeIds(t) /\ b.stack \in Seq(NodeIds(t)) /\ Listed(t)
      /\ t = b.tree
  BY <1>1 DEF Building
<1>5. CASE Plays(PositionAt(b.tree, b.cur), san) = Illegal
  <2>1. on = [b EXCEPT !.ok = FALSE]
    BY <1>2, <1>5 DEF ReadSan
  <2>2. on = [tree |-> t, cur |-> b.cur, stack |-> b.stack, ok |-> FALSE]
    BY ONLY Zenon, <1>3, <1>4, <2>1
  <2>3. Building(on)
    BY ONLY <1>4, <2>2, Built
  <2> QED  BY <1>2, <2>3
<1>6. CASE Plays(PositionAt(b.tree, b.cur), san) # Illegal
  <2>1. PICK u : u = AddMove(t, b.cur, san)
    OBVIOUS
  <2>2. PICK id : id = Size(t)
    OBVIOUS
  <2>3. on = [b EXCEPT !.tree = u, !.cur = id]
    BY <1>1, <1>2, <1>6, <2>1, <2>2 DEF ReadSan
  <2>4. on = [tree |-> u, cur |-> id, stack |-> b.stack, ok |-> b.ok]
    BY ONLY Zenon, <1>3, <2>3
  <2>5. Untouched(t, u) /\ id \in NodeIds(u) /\ NodeIds(t) \subseteq NodeIds(u)
    BY <1>4, <2>1, <2>2, UntouchedSelf, UntouchedAdd
  <2>6. b.stack \in Seq(NodeIds(u))
    BY ONLY <1>4, <2>5
  <2>7. Arena(u) /\ Listed(u)
    BY <1>4, <2>5 DEF Untouched, Grew
  <2>8. Building(on)
    BY ONLY Zenon, <2>4, <2>5, <2>6, <2>7, Built
  <2> QED  BY <1>2, <2>8
<1> QED  BY <1>5, <1>6

LEMMA NagRead ==
  ASSUME NEW b, Building(b), NEW nag, NEW on, on = [b EXCEPT !.tree = AddNag(b.tree, b.cur, nag)]
  PROVE  Building(on)
<1>1. PICK t : t = b.tree
  OBVIOUS
<1>2. PICK u : u = AddNag(t, b.cur, nag)
  OBVIOUS
<1>3. on = [tree |-> u, cur |-> b.cur, stack |-> b.stack, ok |-> b.ok]
  BY <1>1, <1>2 DEF Building
<1>4. Arena(t) /\ b.cur \in NodeIds(t) /\ b.stack \in Seq(NodeIds(t)) /\ Listed(t)
  BY <1>1 DEF Building
<1>5. OnlyAt(t, b.cur, u)
  BY <1>2, <1>4, NagAt
<1> QED  BY Zenon, <1>3, <1>4, <1>5, Built DEF OnlyAt, Grew

Remarked(n, shapes, eval, comment) == [n EXCEPT !.shapes = shapes, !.eval = eval, !.comment = comment]
LEMMA NodeRemarked ==
  ASSUME NEW n, IsNode(n), NEW shapes, NEW eval, NEW comment, NEW y, y = Remarked(n, shapes, eval, comment)
  PROVE  /\ IsNode(y) /\ y.parent = n.parent /\ y.san = n.san /\ y.children = n.children
         /\ y.nags = n.nags /\ y.shapes = shapes
<1>1. y = [parent |-> n.parent, san |-> n.san, comment |-> comment, nags |-> n.nags,
           shapes |-> shapes, eval |-> eval, children |-> n.children]
  <2>1. n = [parent |-> n.parent, san |-> n.san, comment |-> n.comment, nags |-> n.nags,
             shapes |-> n.shapes, eval |-> n.eval, children |-> n.children]
    BY DEF IsNode
  <2>2. y = [n EXCEPT !.shapes = shapes, !.eval = eval, !.comment = comment]
    BY DEF Remarked
  <2> QED  BY ONLY Zenon, <2>1, <2>2
<1> QED  BY ONLY <1>1 DEF IsNode

LEMMA CommentRead ==
  ASSUME NEW b, Building(b), NEW c, IsList(c.shapes), \A told \in BOOLEAN : IsList(Parsed(c.text, told).shapes)
  PROVE  Building(ReadComment(b, c))
<1>1. PICK t : t = b.tree
  OBVIOUS
<1>2. PICK cur : cur = b.cur
  OBVIOUS
<1>3. PICK n : n = t.nodes[cur]
  OBVIOUS
<1>4. Arena(t) /\ cur \in NodeIds(t) /\ b.stack \in Seq(NodeIds(t)) /\ Listed(t)
  BY <1>1, <1>2 DEF Building
<1>5. IsTree(t) /\ IsNode(n) /\ n.children \in Seq(NodeIds(t))
  BY <1>3, <1>4 DEF Arena, NodesOK
<1>0. PICK p : p = Parsed(c.text, c.eval # NoEval)
  OBVIOUS
<1>6. PICK shapes : shapes = n.shapes \o c.shapes \o p.shapes
  BY Zenon
<1>7. PICK eval : eval = EvalOf(c, p, n.eval)
  OBVIOUS
<1>8. PICK text : text = Joined(n.comment, p.text)
  OBVIOUS
<1>9. PICK y : y = Remarked(n, shapes, eval, text)
  OBVIOUS
<1>10. PICK u : u = [t EXCEPT !.nodes = [t.nodes EXCEPT ![cur] = y]]
  BY Zenon
<1>11. PICK on : on = ReadComment(b, c)
  OBVIOUS
<1>12. on = [tree |-> u, cur |-> cur, stack |-> b.stack, ok |-> b.ok]
  <2>1. on = [b EXCEPT !.tree.nodes[b.cur] = Remarked(n, shapes, eval, text)]
    BY ONLY Zenon, <1>0, <1>1, <1>2, <1>3, <1>6, <1>7, <1>8, <1>11 DEF ReadComment, Remarked
  <2>2. on = [b EXCEPT !.tree.nodes[b.cur] = y]
    BY ONLY <1>9, <2>1
  <2>3. b = [tree |-> t, cur |-> cur, stack |-> b.stack, ok |-> b.ok]
    BY <1>1, <1>2 DEF Building
  <2> QED  BY ONLY <1>10, <2>2, <2>3
<1>13. Changed(t, cur, y, u)
  BY <1>4, <1>5, <1>10, ChangedTree
<1>14. /\ IsNode(y) /\ y.parent = n.parent /\ y.san = n.san /\ y.children = n.children
       /\ y.nags = n.nags /\ y.shapes = shapes
  BY <1>5, <1>9, NodeRemarked
<1>15. Arena(u) /\ NodeIds(u) = NodeIds(t)
  <2>1. y.children \in Seq(ToSet(n.children))
    <3>1. PICK cs : cs = n.children
      OBVIOUS
    <3>2. cs \in Seq(ToSet(cs))
      BY <1>5, <3>1, RangeFacts
    <3> QED  BY <1>14, <3>1, <3>2
  <2>2. Trimmed(t, u)
    BY <1>3, <1>4, <1>13, <1>14, <2>1, ChangedTrimmed
  <2> QED  BY <1>4, <2>2, TrimmedArena
<1>16. IsList(shapes) /\ IsList(n.nags)
  <2>1. IsList(n.shapes) /\ IsList(n.nags) /\ IsList(c.shapes) /\ IsList(p.shapes)
    BY <1>0, <1>3, <1>4 DEF Listed
  <2>2. IsList(n.shapes \o c.shapes)
    BY <2>1, ListJoined
  <2> QED  BY <1>6, <2>1, <2>2, ListJoined
<1>17. Listed(u)
  BY <1>4, <1>13, <1>14, <1>16 DEF Listed, Changed
<1> QED  BY Zenon, <1>4, <1>11, <1>12, <1>15, <1>17, Built

LEMMA VariationBegun ==
  ASSUME NEW b, Building(b)
  PROVE  Building(BeginVariation(b))
<1>1. PICK p : p = b.tree.nodes[b.cur].parent
  OBVIOUS
<1>2. PICK cur : cur = IF p = NoNode THEN b.cur ELSE p
  OBVIOUS
<1>3. PICK stack : stack = Append(b.stack, b.cur)
  BY Zenon
<1>4. BeginVariation(b) = [b EXCEPT !.stack = stack, !.cur = cur]
  BY <1>1, <1>2, <1>3 DEF BeginVariation
<1>5. BeginVariation(b) = [tree |-> b.tree, cur |-> cur, stack |-> stack, ok |-> b.ok]
  BY Zenon, <1>4 DEF Building
<1>6. cur \in NodeIds(b.tree)
  BY <1>1, <1>2 DEF Building, Arena, NodesOK
<1>7. stack \in Seq(NodeIds(b.tree))
  BY <1>3 DEF Building
<1> QED  BY <1>5, <1>6, <1>7, Built DEF Building

LEMMA VariationEnded ==
  ASSUME NEW b, Building(b)
  PROVE  Building(EndVariation(b))
<1>1. CASE b.stack = <<>>
  BY <1>1 DEF EndVariation
<1>2. CASE b.stack # <<>>
  <2>1. PICK s : s = b.stack
    OBVIOUS
  <2>2. s \in Seq(NodeIds(b.tree)) /\ s # <<>>
    BY <1>2, <2>1 DEF Building
  <2>3. Len(s) \in Nat /\ Len(s) >= 1 /\ Len(s) \in DOMAIN s
    BY ONLY <2>2
  <2>4. PICK cur : cur = Last(s)
    OBVIOUS
  <2>5. cur \in NodeIds(b.tree)
    BY <2>2, <2>3, <2>4 DEF Last
  <2>6. PICK stack : stack = Front(s)
    OBVIOUS
  <2>7. stack \in Seq(NodeIds(b.tree))
    BY <2>2, <2>3, <2>6, PartOf DEF Front
  <2>8. EndVariation(b) = [b EXCEPT !.cur = cur, !.stack = stack]
    BY <1>2, <2>1, <2>4, <2>6 DEF EndVariation
  <2>9. EndVariation(b) = [tree |-> b.tree, cur |-> cur, stack |-> stack, ok |-> b.ok]
    BY Zenon, <2>8 DEF Building
  <2> QED  BY <2>5, <2>7, <2>9, Built DEF Building
<1> QED  BY <1>1, <1>2

LEMMA TokenRead ==
  ASSUME NEW b, Building(b), NEW tok, IsToken(tok)
  PROVE  Building(ReadToken(b, tok))
<1>1. CASE ~b.ok
  BY <1>1 DEF ReadToken
<1>2. CASE b.ok
  <2>1. CASE tok.is = "move"
    <3>1. ReadToken(b, tok) = ReadSan(b, tok.san)
      BY <1>2, <2>1 DEF ReadToken
    <3> QED  BY <3>1, SanRead
  <2>2. CASE tok.is = "nag"
    <3>1. ReadToken(b, tok) = [b EXCEPT !.tree = AddNag(b.tree, b.cur, tok.nag)]
      BY <1>2, <2>2 DEF ReadToken
    <3> QED  BY <3>1, NagRead
  <2>3. CASE tok.is = "comment"
    <3>1. ReadToken(b, tok) = ReadComment(b, tok.comment)
      BY <1>2, <2>3 DEF ReadToken
    <3> QED  BY <2>3, <3>1, CommentRead DEF IsToken
  <2>4. CASE tok.is = "open"
    <3>1. ReadToken(b, tok) = BeginVariation(b)
      BY <1>2, <2>4 DEF ReadToken
    <3> QED  BY <3>1, VariationBegun
  <2>5. CASE tok.is = "close"
    <3>1. ReadToken(b, tok) = EndVariation(b)
      BY <1>2, <2>5 DEF ReadToken
    <3> QED  BY <3>1, VariationEnded
  <2>6. CASE tok.is = "fen"
    BY <1>2, <2>6 DEF ReadToken
  <2> QED  BY <2>1, <2>2, <2>3, <2>4, <2>5, <2>6 DEF IsToken
<1> QED  BY <1>1, <1>2

\* A tree with another start.
LEMMA Restarted ==
  ASSUME NEW t, Arena(t), NEW start, NEW u, u = [t EXCEPT !.start = start]
  PROVE  Arena(u) /\ (Listed(t) => Listed(u)) /\ NodeIds(u) = NodeIds(t)
<1>1. IsTree(t)
  BY DEF Arena, NodesOK
<1>2. u = [start |-> start, nodes |-> t.nodes] /\ u.nodes = t.nodes
  BY <1>1 DEF IsTree
<1>3. IsTree(u) /\ NodeIds(u) = NodeIds(t)
  BY <1>1, <1>2 DEF IsTree, NodeIds
<1>4. NodesOK(u)
  BY <1>2, <1>3 DEF Arena, NodesOK
<1>5. Dense(u)
  BY <1>3 DEF Arena, Dense
<1>6. \E b \in Nat : \E r \in [NodeIds(u) -> 0 .. b] : Rising(u, r)
  BY <1>2, <1>3 DEF Arena, Rising
<1>7. \E G \in SUBSET NodeIds(u) : Hanging(u, G)
  BY <1>2, <1>3 DEF Arena, Hanging
<1> QED  BY <1>2, <1>3, <1>4, <1>5, <1>6, <1>7 DEF Arena, Listed

LEMMA PgnRead ==
  ASSUME NEW S, \A tok \in S : IsToken(tok), NEW tokens \in Seq(S)
  PROVE  Arena(FromPgn(tokens).tree) /\ Listed(FromPgn(tokens).tree)
<1>1. PICK start : start = IF tokens # <<>> /\ tokens[1].is = "fen" THEN tokens[1].start ELSE StartPos
  BY Zenon
<1>2. PICK b : b = Build(start)
  OBVIOUS
<1>3. FromPgn(tokens) = Reading!Of(0, b, tokens)
  BY <1>1, <1>2 DEF FromPgn, ReadStep, Reading!Of, FoldLeft, MapThenFoldSet, Max, Reading!Highest
<1>4. Building(b)
  <2>1. PICK t : t = [NewTree EXCEPT !.start = start]
    BY Zenon
  <2>2. Arena(t) /\ Listed(t)
    BY ONLY Zenon, <2>1, NewTreeArena, NewTreeListed, Restarted
  <2>2a. 0 \in NodeIds(t)
    BY ONLY <2>2, ArenaSize
  <2>3. PICK none : none = <<>>
    OBVIOUS
  <2>4. none \in Seq(NodeIds(t))
    BY <2>3
  <2>5. b = [tree |-> t, cur |-> 0, stack |-> none, ok |-> TRUE]
    BY <1>2, <2>1, <2>3 DEF Build
  <2> QED  BY ONLY <2>2, <2>2a, <2>4, <2>5, Built
<1>5. \A acc : \A tok \in S : BuildingSoFar(0, acc) => BuildingSoFar(0, ReadStep(0, acc, tok))
  BY TokenRead DEF BuildingSoFar, ReadStep
<1>6. BuildingSoFar(0, Reading!Of(0, b, tokens))
  BY ONLY <1>4, <1>5, tokens \in Seq(S), Reading!Preserved DEF BuildingSoFar
<1> QED  BY <1>3, <1>6 DEF BuildingSoFar, Building

\* A tree built move by move.
LEMMA BuiltArena == ASSUME NEW t, BuiltUp(t) PROVE Arena(t)
<1>1. Size(t) \in Nat
  BY FS_CardinalityType DEF BuiltUp, Size
<1>2. PICK b : b = Size(t) - 1
  OBVIOUS
<1>3. NodeIds(t) = 0 .. b /\ b \in Nat
  <2>1. NodeIds(t) = 0 .. b /\ 0 \in NodeIds(t)
    BY <1>2 DEF BuiltUp
  <2> QED  BY <1>1, <1>2, <2>1
<1>4. /\ IsTree(t)
      /\ \A n \in NodeIds(t) :
           /\ IsNode(t.nodes[n]) /\ t.nodes[n].children \in Seq(NodeIds(t))
           /\ IF n = 0 THEN t.nodes[n].parent = NoNode ELSE t.nodes[n].parent \in 0 .. n - 1
           /\ \A k \in DOMAIN t.nodes[n].children : t.nodes[t.nodes[n].children[k]].parent = n
  BY DEF BuiltUp
<1>5. NodesOK(t)
  <2>1. ASSUME NEW n \in NodeIds(t), n # 0 PROVE t.nodes[n].parent \in NodeIds(t) /\ t.nodes[n].parent < n
    <3>1. t.nodes[n].parent \in 0 .. n - 1 /\ n \in 0 .. b
      BY <1>3, <1>4, <2>1
    <3> QED  BY ONLY <1>3, <3>1
  <2> QED  BY <1>4, <2>1 DEF NodesOK
<1>6. PICK r : r = [n \in NodeIds(t) |-> n]
  OBVIOUS
<1>7. r \in [NodeIds(t) -> 0 .. b] /\ \A n \in NodeIds(t) : r[n] = n
  BY <1>3, <1>6
<1>8. ASSUME NEW n \in NodeIds(t), NEW c \in NodeIds(t), t.nodes[c].parent = n PROVE n < c
  <2>1. c # 0
    BY <1>3, <1>4, <1>8, MoveTreeAssumption
  <2>2. n \in 0 .. c - 1 /\ c \in 0 .. b
    BY <1>3, <1>4, <1>8, <2>1
  <2> QED  BY ONLY <1>3, <2>2
<1>9. Rising(t, r)
  <2>1. ASSUME NEW n \in NodeIds(t), n # 0 PROVE r[t.nodes[n].parent] < r[n]
    BY <1>5, <1>7, <1>8, <2>1 DEF NodesOK
  <2>2. ASSUME NEW n \in NodeIds(t), NEW k \in DOMAIN t.nodes[n].children
        PROVE  r[n] < r[t.nodes[n].children[k]]
    <3>1. PICK c : c = t.nodes[n].children[k]
      OBVIOUS
    <3>2. c \in NodeIds(t) /\ t.nodes[c].parent = n
      BY <1>4, <3>1
    <3> QED  BY <1>7, <1>8, <3>1, <3>2
  <2> QED  BY <2>1, <2>2 DEF Rising
<1>10. Hanging(t, NodeIds(t))
  <2>1. 0 \in NodeIds(t)
    BY DEF BuiltUp
  <2>2. ASSUME NEW n \in NodeIds(t), NEW k \in DOMAIN t.nodes[n].children
        PROVE  t.nodes[n].children[k] \in NodeIds(t) /\ t.nodes[t.nodes[n].children[k]].parent = n
    BY <1>4
  <2> QED  BY <2>1, <2>2 DEF Hanging
<1> QED  BY <1>3, <1>5, <1>7, <1>9, <1>10 DEF Arena, Dense

(***************************************************************************)
(* The inductive invariant.  What each row, view and request may rely on   *)
(* is said of the table S as it stands, and of the next free key.          *)
(***************************************************************************)
\* What the passes are parameterised with is what it is meant to be.
Honest == GlyphVerdicts /\ ArrowsAreGenerated
TreeOK(t) == Arena(t) /\ (Honest => Listed(t))

RowOK(row) == row = [owner |-> row.owner, public |-> row.public, tree |-> row.tree] /\ TreeOK(row.tree)
RowsOK(S, next) == next \in Nat /\ \A s \in DOMAIN S : s \in Nat /\ s < next /\ RowOK(S[s])

\* In a good view each id of the stored tree that the client has seen is the
\* node that it saw.
ViewOK(v, S, next) ==
  v # NoView =>
    /\ v = [study |-> v.study, tree |-> v.tree, good |-> v.good]
    /\ v.study \in Nat /\ v.study < next /\ Arena(v.tree)
    /\ v.good /\ v.study \in DOMAIN S => Extends(v.tree, S[v.study].tree)

IsShare(r, next) ==
  /\ r = [op |-> "share", study |-> r.study, public |-> r.public]
  /\ r.study \in Nat /\ r.study < next

\* What was read and what is to be written.
Work(r) ==
  /\ r = [op |-> r.op, study |-> r.study, loaded |-> r.loaded, tree |-> r.tree, lines |-> r.lines,
          pass |-> r.pass, input |-> r.input, at |-> r.at, new |-> r.new, intact |-> r.intact]
  /\ r.op \in StudyEdits \ {"share"}
  /\ Arena(r.loaded.tree) /\ TreeOK(r.tree)
  /\ r.op # "delete" => Extends(r.loaded.tree, r.tree)
  /\ r.pass => r.op # "delete" /\ (Honest => SameWork(r.loaded.tree, r.tree))

\* A tree that has been written grows until somebody renumbers it.
EditOK(r, S, next) ==
  /\ Work(r) /\ r.study \in Nat /\ r.study < next
  /\ r.at \in {"persist", "refresh"}
  /\ r.at = "refresh" =>
       /\ r.new = Size(r.tree) - 1
       /\ r.intact /\ r.study \in DOMAIN S => Extends(r.tree, S[r.study].tree)

ReqOK(r, S, next) == r = Idle \/ IsShare(r, next) \/ EditOK(r, S, next)

StudyInv ==
  /\ RowsOK(studies, nextStudy)
  /\ DOMAIN views = StudyClients /\ \A c \in StudyClients : ViewOK(views[c], studies, nextStudy)
  /\ DOMAIN studyReq = StudyClients /\ \A c \in StudyClients : ReqOK(studyReq[c], studies, nextStudy)
  /\ misaddressed = FALSE

\* The table moves on: no tree but that of x is renumbered.
Onward(S, T, next, x) ==
  \A s \in DOMAIN T : s < next /\ s # x => s \in DOMAIN S /\ Extends(S[s].tree, T[s].tree)

LEMMA ViewStays ==
  ASSUME NEW v, NEW S, NEW T, NEW next \in Nat, NEW later \in Nat, next <= later, NEW x,
         ViewOK(v, S, next), Onward(S, T, next, x), v # NoView /\ v.study = x => ~v.good
  PROVE  ViewOK(v, T, later)
<1> SUFFICES ASSUME v # NoView PROVE ViewOK(v, T, later)
  BY DEF ViewOK
<1>1. /\ v = [study |-> v.study, tree |-> v.tree, good |-> v.good]
      /\ v.study \in Nat /\ v.study < next /\ Arena(v.tree)
      /\ v.good /\ v.study \in DOMAIN S => Extends(v.tree, S[v.study].tree)
  BY DEF ViewOK
<1>2. v.study < later
  BY <1>1
<1>3. ASSUME v.good, v.study \in DOMAIN T PROVE Extends(v.tree, T[v.study].tree)
  <2>1. v.study \in DOMAIN S /\ Extends(S[v.study].tree, T[v.study].tree)
    BY <1>1, <1>3 DEF Onward
  <2> QED  BY <1>1, <1>3, <2>1, ExtendsOn
<1> QED  BY ONLY <1>1, <1>2, <1>3 DEF ViewOK

LEMMA ReqStays ==
  ASSUME NEW r, NEW S, NEW T, NEW next \in Nat, NEW later \in Nat, next <= later, NEW x,
         ReqOK(r, S, next), Onward(S, T, next, x), EditOK(r, S, next) /\ r.study = x => r.at = "persist" \/ ~r.intact
  PROVE  ReqOK(r, T, later)
<1>1. CASE r = Idle
  BY <1>1 DEF ReqOK
<1>2. CASE IsShare(r, next)
  <2>1. IsShare(r, later)
    <3>1. r.study \in Nat /\ r.study < next
      BY <1>2 DEF IsShare
    <3>2. r.study < later
      BY <3>1
    <3> QED  BY <1>2, <3>2 DEF IsShare
  <2> QED  BY <2>1 DEF ReqOK
<1>3. CASE EditOK(r, S, next)
  <2>1. /\ Work(r) /\ r.study \in Nat /\ r.study < next
        /\ r.at \in {"persist", "refresh"}
        /\ r.at = "refresh" =>
             /\ r.new = Size(r.tree) - 1
             /\ r.intact /\ r.study \in DOMAIN S => Extends(r.tree, S[r.study].tree)
    BY <1>3 DEF EditOK
  <2>2. r.study < later
    BY <2>1
  <2>3. ASSUME r.at = "refresh", r.intact, r.study \in DOMAIN T PROVE Extends(r.tree, T[r.study].tree)
    <3>1. r.study # x
      BY <1>3, <2>3
    <3>2. r.study \in DOMAIN S /\ Extends(S[r.study].tree, T[r.study].tree)
      BY <2>1, <2>3, <3>1 DEF Onward
    <3> QED  BY <2>1, <2>3, <3>2, ExtendsOn
  <2>4. EditOK(r, T, later)
    BY ONLY <2>1, <2>2, <2>3 DEF EditOK
  <2> QED  BY <2>4 DEF ReqOK
<1> QED  BY <1>1, <1>2, <1>3 DEF ReqOK

LEMMA OnwardSelf ==
  ASSUME NEW S, NEW next, NEW x
  PROVE  Onward(S, S, next, x)
BY ExtendsSelf DEF Onward

LEMMA StudyInits == StudyInit => StudyInv
<1> SUFFICES ASSUME StudyInit PROVE StudyInv
  OBVIOUS
<1>1. PICK S : S = studies
  OBVIOUS
<1>2. DOMAIN S = {}
  BY <1>1 DEF StudyInit
<1>3. RowsOK(studies, nextStudy)
  BY <1>1, <1>2 DEF RowsOK, StudyInit
<1>4. DOMAIN views = StudyClients /\ \A c \in StudyClients : views[c] = NoView
  BY DEF StudyInit
<1>5. DOMAIN studyReq = StudyClients /\ \A c \in StudyClients : studyReq[c] = Idle
  BY DEF StudyInit
<1>6. misaddressed = FALSE
  BY DEF StudyInit
<1> QED  BY <1>3, <1>4, <1>5, <1>6 DEF StudyInv, ViewOK, ReqOK

(***************************************************************************)
(* Studies come and go.                                                    *)
(***************************************************************************)
LEMMA TableMoves ==
  ASSUME StudyInv, NEW T, NEW later \in Nat, nextStudy <= later, NEW x, Onward(studies, T, nextStudy, x),
         NEW c \in StudyClients,
         views[c] # NoView /\ views[c].study = x => ~views[c].good,
         EditOK(studyReq[c], studies, nextStudy) /\ studyReq[c].study = x =>
           studyReq[c].at = "persist" \/ ~studyReq[c].intact
  PROVE  ViewOK(views[c], T, later) /\ ReqOK(studyReq[c], T, later)
<1>1. nextStudy \in Nat
  BY DEF StudyInv, RowsOK
<1> QED  BY <1>1, ViewStays, ReqStays DEF StudyInv

\* The rows that stay keep their trees.
LEMMA TableStays ==
  ASSUME StudyInv, NEW T, NEW later \in Nat, nextStudy <= later, Onward(studies, T, nextStudy, NoStudy),
         NEW c \in StudyClients
  PROVE  ViewOK(views[c], T, later) /\ ReqOK(studyReq[c], T, later)
<1>1. views[c] # NoView => views[c].study \in Nat
  BY DEF StudyInv, ViewOK
<1>2. EditOK(studyReq[c], studies, nextStudy) => studyReq[c].study \in Nat
  BY DEF EditOK
<1> QED  BY <1>1, <1>2, StudyAssumption, TableMoves

LEMMA InsertKeeps ==
  ASSUME StudyInv, NEW c \in StudyClients, NEW global, NEW tree, TreeOK(tree), InsertStudy(c, global, tree)
  PROVE  StudyInv'
<1>1. PICK owner : owner = IF global THEN Global ELSE StudyCallers[c].id
  BY Zenon
<1>2. PICK row : row = [owner |-> owner, public |-> FALSE, tree |-> tree]
  OBVIOUS
<1>3. /\ studies' = [s \in Stored \cup {nextStudy} |-> IF s = nextStudy THEN row ELSE studies[s]]
      /\ views' = [views EXCEPT ![c] = [study |-> nextStudy, tree |-> tree, good |-> TRUE]]
      /\ nextStudy' = nextStudy + 1 /\ studyReq' = studyReq /\ misaddressed' = misaddressed
  BY <1>1, <1>2 DEF InsertStudy
<1>4. PICK T : T = studies'
  OBVIOUS
<1>5. PICK next : next = nextStudy
  OBVIOUS
<1>6. /\ next \in Nat /\ \A s \in Stored : s \in Nat /\ s < next /\ RowOK(studies[s])
  BY <1>5 DEF StudyInv, RowsOK, Stored
<1>7. /\ DOMAIN T = Stored \cup {next} /\ T[next] = row
      /\ \A s \in Stored : T[s] = studies[s]
  <2>1. T = [s \in Stored \cup {next} |-> IF s = next THEN row ELSE studies[s]]
    BY <1>3, <1>4, <1>5
  <2>2. next \notin Stored
    BY <1>6
  <2> QED  BY ONLY <2>1, <2>2
<1>8. RowsOK(T, next + 1)
  <2>1. RowOK(row)
    BY <1>2 DEF RowOK
  <2>2. next + 1 \in Nat /\ next < next + 1 /\ \A s \in Nat : s < next => s < next + 1
    BY <1>6
  <2> QED  BY <1>6, <1>7, <2>1, <2>2 DEF RowsOK
<1>9. Onward(studies, T, next, NoStudy)
  <2>1. ASSUME NEW s \in DOMAIN T, s < next PROVE s \in Stored /\ T[s] = studies[s]
    <3>1. s # next
      BY <1>6, <2>1
    <3> QED  BY <1>7, <2>1, <3>1
  <2> QED  BY <2>1, ExtendsSelf DEF Onward, Stored
<1>10. next <= next + 1 /\ next + 1 \in Nat
  BY <1>6
<1>11. \A d \in StudyClients : ViewOK(views[d], T, next + 1) /\ ReqOK(studyReq[d], T, next + 1)
  BY <1>5, <1>9, <1>10, TableStays
<1>12. PICK v : v = [study |-> next, tree |-> tree, good |-> TRUE]
  OBVIOUS
<1>13. ViewOK(v, T, next + 1)
  <2>1. /\ v = [study |-> v.study, tree |-> v.tree, good |-> v.good]
        /\ v.study = next /\ v.tree = tree
    BY <1>12
  <2>2. Extends(v.tree, T[v.study].tree)
    BY <1>2, <1>7, <2>1, ExtendsSelf
  <2>3. next < next + 1 /\ Arena(tree)
    BY <1>6 DEF TreeOK
  <2> QED  BY <1>6, <2>1, <2>2, <2>3 DEF ViewOK
<1>14. DOMAIN views = StudyClients /\ DOMAIN studyReq = StudyClients /\ misaddressed = FALSE
  BY DEF StudyInv
<1>15. DOMAIN views' = StudyClients /\ \A d \in StudyClients : ViewOK(views'[d], T, next + 1)
  <2>1. views' = [views EXCEPT ![c] = v]
    BY <1>3, <1>5, <1>12
  <2> QED  BY <1>11, <1>13, <1>14, <2>1
<1>16. nextStudy' = next + 1
  BY <1>3, <1>5
<1> QED  BY <1>3, <1>4, <1>8, <1>11, <1>14, <1>15, <1>16 DEF StudyInv

LEMMA CreateKeeps ==
  ASSUME StudyInv, NEW c \in StudyClients, NEW global \in BOOLEAN, CreateStudy(c, global)
  PROVE  StudyInv'
<1>1. TreeOK(NewTree)
  BY NewTreeArena, NewTreeListed DEF TreeOK
<1> QED  BY <1>1, InsertKeeps DEF CreateStudy

LEMMA ImportKeeps ==
  ASSUME StudyInv, NEW c \in StudyClients, NEW pgn \in Imports, ImportPgn(c, pgn)
  PROVE  StudyInv'
<1>1. PICK tree : tree = FromPgn(pgn).tree
  OBVIOUS
<1>2. TreeOK(tree)
  <2>1. PICK S : S = ToSet(pgn)
    OBVIOUS
  <2>2. pgn \in Seq(S) /\ \A tok \in S : IsToken(tok)
    BY <2>1, StudyAssumption DEF IsList
  <2> QED  BY <1>1, <2>2, PgnRead DEF TreeOK
<1> QED  BY <1>1, <1>2, InsertKeeps DEF ImportPgn

LEMMA FromGameKeeps ==
  ASSUME StudyInv, NEW c \in StudyClients, NEW game \in GameRows, CreateFromGame(c, game)
  PROVE  StudyInv'
<1>1. PICK start : start = IF game.standard THEN StartPos ELSE game.start
  BY Zenon
<1>2. PICK line : line = LinearTree(game.sans)
  OBVIOUS
<1>3. PICK tree : tree = [line EXCEPT !.start = start]
  OBVIOUS
<1>4. game.sans \in Seq(ToSet(game.sans))
  BY StudyAssumption DEF IsList
<1>5. Arena(line) /\ Listed(line)
  BY <1>2, <1>4, LinearArena
<1>6. TreeOK(tree)
  BY <1>3, <1>5, Restarted DEF TreeOK
<1>7. InsertStudy(c, FALSE, tree)
  BY <1>1, <1>2, <1>3 DEF CreateFromGame
<1> QED  BY <1>6, <1>7, InsertKeeps

LEMMA RequestSet ==
  ASSUME StudyInv, NEW c \in StudyClients, NEW r, ReqOK(r, studies, nextStudy),
         studyReq' = [studyReq EXCEPT ![c] = r], UNCHANGED <<studies, nextStudy, views, misaddressed>>
  PROVE  StudyInv'
<1>1. /\ studies' = studies /\ nextStudy' = nextStudy /\ views' = views /\ misaddressed' = misaddressed
  OBVIOUS
<1>2. DOMAIN studyReq = StudyClients
  BY DEF StudyInv
<1>3. DOMAIN studyReq' = StudyClients /\ \A d \in StudyClients : studyReq'[d] = IF d = c THEN r ELSE studyReq[d]
  BY <1>2
<1>4. \A d \in StudyClients : ReqOK(studyReq'[d], studies, nextStudy)
  BY <1>3 DEF StudyInv
<1> QED  BY <1>1, <1>3, <1>4 DEF StudyInv

LEMMA LoadForFlagKeeps ==
  ASSUME StudyInv, NEW c \in StudyClients, NEW s \in Stored, NEW public, LoadForFlag(c, s, public)
  PROVE  StudyInv'
<1>1. PICK r : r = [op |-> "share", study |-> s, public |-> public]
  OBVIOUS
<1>2. studyReq' = [studyReq EXCEPT ![c] = r] /\ UNCHANGED <<studies, nextStudy, views, misaddressed>>
  BY <1>1 DEF LoadForFlag
<1>3. s \in Nat /\ s < nextStudy
  BY DEF StudyInv, RowsOK, Stored
<1>4. IsShare(r, nextStudy)
  BY <1>1, <1>3 DEF IsShare
<1> QED  BY <1>2, <1>4, RequestSet DEF ReqOK

Shared(row, public) == [row EXCEPT !.public = public]
LEMMA SharedRow ==
  ASSUME NEW row, RowOK(row), NEW public
  PROVE  RowOK(Shared(row, public)) /\ Shared(row, public).tree = row.tree
BY DEF RowOK, Shared

LEMMA SetPublicKeeps ==
  ASSUME StudyInv, NEW c \in StudyClients, SetPublic(c)
  PROVE  StudyInv'
<1>1. PICK r : r = studyReq[c]
  OBVIOUS
<1>2. PICK x : x = r.study
  OBVIOUS
<1>3. PICK S : S = studies
  OBVIOUS
<1>4. PICK T : T = studies'
  OBVIOUS
<1>5. PICK next : next = nextStudy
  OBVIOUS
<1>6. /\ T = IF x \in DOMAIN S THEN [S EXCEPT ![x] = Shared(S[x], r.public)] ELSE S
      /\ studyReq' = [studyReq EXCEPT ![c] = Idle]
      /\ nextStudy' = next /\ views' = views /\ misaddressed' = misaddressed
  BY <1>1, <1>2, <1>3, <1>4, <1>5 DEF SetPublic, Stored, Shared
<1>7. next \in Nat /\ \A s \in DOMAIN S : s \in Nat /\ s < next /\ RowOK(S[s])
  BY <1>3, <1>5 DEF StudyInv, RowsOK
<1>8. DOMAIN T = DOMAIN S /\ \A s \in DOMAIN S : T[s] \in {S[s], Shared(S[s], r.public)}
  BY ONLY <1>6
<1>9. \A s \in DOMAIN S : RowOK(T[s]) /\ T[s].tree = S[s].tree
  BY <1>7, <1>8, SharedRow
<1>10. RowsOK(T, next)
  BY <1>7, <1>8, <1>9 DEF RowsOK
<1>11. Onward(S, T, next, NoStudy)
  BY <1>8, <1>9, ExtendsSelf DEF Onward
<1>12. \A d \in StudyClients : ViewOK(views[d], T, next) /\ ReqOK(studyReq[d], T, next)
  BY <1>3, <1>5, <1>7, <1>11, TableStays
<1>13. DOMAIN views = StudyClients /\ DOMAIN studyReq = StudyClients /\ misaddressed = FALSE
  BY DEF StudyInv
<1>14. DOMAIN studyReq' = StudyClients /\ \A d \in StudyClients : ReqOK(studyReq'[d], T, next)
  BY <1>6, <1>12, <1>13 DEF ReqOK
<1> QED  BY <1>4, <1>6, <1>10, <1>12, <1>13, <1>14 DEF StudyInv

LEMMA DeleteStudyKeeps ==
  ASSUME StudyInv, NEW c \in StudyClients, NEW x \in Stored, DeleteStudy(c, x)
  PROVE  StudyInv'
<1>1. PICK S : S = studies
  OBVIOUS
<1>2. PICK T : T = studies'
  OBVIOUS
<1>3. PICK next : next = nextStudy
  OBVIOUS
<1>4. /\ T = [s \in DOMAIN S \ {x} |-> S[s]]
      /\ nextStudy' = next /\ views' = views /\ misaddressed' = misaddressed /\ studyReq' = studyReq
  BY <1>1, <1>2, <1>3 DEF DeleteStudy, Stored
<1>5. next \in Nat /\ \A s \in DOMAIN S : s \in Nat /\ s < next /\ RowOK(S[s])
  BY <1>1, <1>3 DEF StudyInv, RowsOK
<1>6. \A s \in DOMAIN T : s \in DOMAIN S /\ T[s] = S[s]
  BY <1>4
<1>7. RowsOK(T, next)
  BY <1>5, <1>6 DEF RowsOK
<1>8. Onward(S, T, next, NoStudy)
  BY <1>6, ExtendsSelf DEF Onward
<1>9. \A d \in StudyClients : ViewOK(views[d], T, next) /\ ReqOK(studyReq[d], T, next)
  BY <1>1, <1>3, <1>5, <1>8, TableStays
<1> QED  BY <1>2, <1>4, <1>7, <1>9 DEF StudyInv

\* A client is shown a study as it is stored.
LEMMA ViewShown ==
  ASSUME StudyInv, NEW s \in Stored
  PROVE  ViewOK(ViewOf(s), studies, nextStudy)
<1>1. PICK row : row = studies[s]
  OBVIOUS
<1>2. s \in Nat /\ s < nextStudy /\ RowOK(row)
  BY <1>1 DEF StudyInv, RowsOK, Stored
<1>3. PICK v : v = [study |-> s, tree |-> row.tree, good |-> TRUE]
  OBVIOUS
<1>4. v = [study |-> v.study, tree |-> v.tree, good |-> v.good] /\ v.study = s /\ v.tree = row.tree
  BY <1>3
<1>5. ViewOf(s) = v
  BY <1>1, <1>3 DEF ViewOf
<1>6. Arena(row.tree) /\ Extends(row.tree, row.tree)
  BY <1>2, ExtendsSelf DEF RowOK, TreeOK
<1> QED  BY <1>1, <1>2, <1>4, <1>5, <1>6 DEF ViewOK

LEMMA OpenStudyKeeps ==
  ASSUME StudyInv, NEW c \in StudyClients, NEW s \in Stored, OpenStudy(c, s)
  PROVE  StudyInv'
<1>1. PICK v : v = ViewOf(s)
  OBVIOUS
<1>2. /\ views' = [views EXCEPT ![c] = v]
      /\ studies' = studies /\ nextStudy' = nextStudy /\ studyReq' = studyReq /\ misaddressed' = misaddressed
  BY <1>1 DEF OpenStudy
<1>3. DOMAIN views = StudyClients
  BY DEF StudyInv
<1>4. DOMAIN views' = StudyClients /\ \A d \in StudyClients : views'[d] = IF d = c THEN v ELSE views[d]
  BY <1>2, <1>3
<1>5. ViewOK(v, studies, nextStudy)
  BY <1>1, ViewShown
<1>6. \A d \in StudyClients : ViewOK(views'[d], studies, nextStudy)
  BY <1>4, <1>5 DEF StudyInv
<1> QED  BY <1>2, <1>4, <1>6 DEF StudyInv

(***************************************************************************)
(* A request reads a tree and edits it in memory.                          *)
(***************************************************************************)
Edited(t, op, tree, pass) ==
  /\ TreeOK(tree) /\ (op # "delete" => Extends(t, tree))
  /\ pass => op # "delete" /\ (Honest => SameWork(t, tree))

LEMMA LoadedOK ==
  ASSUME StudyInv, NEW c \in StudyClients, CanLoad(c)
  PROVE  /\ TreeOK(Loaded(c)) /\ 0 \in NodeIds(Loaded(c))
         /\ Seen(c) = NodeIds(views[c].tree) /\ 0 \in Seen(c)
<1>1. views[c] # NoView /\ views[c].study \in Stored
  BY DEF CanLoad
<1>2. RowOK(studies[views[c].study])
  BY <1>1 DEF StudyInv, RowsOK, Stored
<1>3. Arena(views[c].tree)
  BY <1>1 DEF StudyInv, ViewOK
<1> QED  BY <1>1, <1>2, <1>3, ArenaSize DEF RowOK, TreeOK, Loaded, Seen

LEMMA LoadKeeps ==
  ASSUME StudyInv, NEW c \in StudyClients, CanLoad(c),
         NEW op, NEW n \in Seen(c), NEW tree, NEW lines, NEW pass, NEW input,
         op # "share", Edited(Loaded(c), op, tree, pass), LoadAndEdit(c, op, n, tree, lines, pass, input)
  PROVE  StudyInv'
<1>1. PICK v : v = views[c]
  OBVIOUS
<1>2. PICK row : row = studies[v.study]
  OBVIOUS
<1>3. PICK t : t = row.tree
  OBVIOUS
<1>4. PICK r : r = [op |-> op, study |-> v.study, loaded |-> row, tree |-> tree, lines |-> lines,
                    pass |-> pass, input |-> input, at |-> "persist", new |-> 0, intact |-> TRUE]
  OBVIOUS
<1>5. /\ op \in StudyEdits /\ v # NoView /\ v.study \in Stored /\ n \in NodeIds(t)
      /\ studyReq' = [studyReq EXCEPT ![c] = r]
      /\ misaddressed' = (misaddressed \/ (v.good /\ LineTo(v.tree, n) # LineTo(t, n)))
      /\ UNCHANGED <<studies, nextStudy, views>>
  BY <1>1, <1>2, <1>3, <1>4 DEF LoadAndEdit
<1>6. t = Loaded(c) /\ Arena(t) /\ n \in NodeIds(v.tree)
  BY <1>1, <1>2, <1>3, LoadedOK DEF Loaded, TreeOK
<1>7. /\ v.study \in Nat /\ v.study < nextStudy /\ Arena(v.tree)
      /\ v.good => Extends(v.tree, t)
  BY <1>1, <1>2, <1>3, <1>5 DEF StudyInv, ViewOK, Stored
<1>8. misaddressed' = FALSE
  <2>1. v.good => LineTo(v.tree, n) = LineTo(t, n)
    BY <1>6, <1>7, SameLine
  <2>2. misaddressed = FALSE
    BY DEF StudyInv
  <2> QED  BY ONLY <1>5, <2>1, <2>2
<1>9. ReqOK(r, studies, nextStudy)
  <2>1. /\ r = [op |-> r.op, study |-> r.study, loaded |-> r.loaded, tree |-> r.tree, lines |-> r.lines,
                pass |-> r.pass, input |-> r.input, at |-> r.at, new |-> r.new, intact |-> r.intact]
        /\ r.op = op /\ r.study = v.study /\ r.loaded = row /\ r.tree = tree /\ r.pass = pass /\ r.at = "persist"
    BY ONLY <1>4
  <2>2. Edited(t, op, tree, pass)
    BY <1>6
  <2>3. Work(r)
    BY ONLY <1>3, <1>5, <1>6, <2>1, <2>2, op # "share" DEF Work, Edited
  <2> QED  BY <1>7, <2>1, <2>3 DEF ReqOK, EditOK
<1>10. misaddressed' = misaddressed
  BY <1>8 DEF StudyInv
<1> QED  BY <1>5, <1>9, <1>10, RequestSet

\* What an edit that is not a pass and grows the tree owes.
LEMMA GrownEdited ==
  ASSUME NEW t, TreeOK(t), NEW u, Grew(t, u), Listed(t) => Listed(u), NEW op
  PROVE  Edited(t, op, u, FALSE)
BY DEF Edited, TreeOK, Grew

LEMMA AddMoveKeeps ==
  ASSUME StudyInv, NEW c \in StudyClients, NEW n \in Seen(c), NEW san, AddMoveEdit(c, n, san)
  PROVE  StudyInv'
<1>1. PICK t : t = Loaded(c)
  OBVIOUS
<1>2. PICK u : u = AddMove(t, n, Core(san))
  OBVIOUS
<1>3. CanLoad(c) /\ n \in NodeIds(t)
  BY <1>1 DEF AddMoveEdit
<1>4. TreeOK(t)
  BY <1>1, <1>3, LoadedOK
<1>5. Untouched(t, u)
  BY <1>2, <1>3, <1>4, UntouchedSelf, UntouchedAdd DEF TreeOK
<1>6. Edited(t, "add", u, FALSE)
  BY <1>4, <1>5, GrownEdited DEF Untouched
<1>7. PICK lines : lines = Kept0(c) \cup Unmarked({Append(LineTo(t, n), san)})
  OBVIOUS
<1>8. LoadAndEdit(c, "add", n, u, lines, FALSE, <<>>)
  BY <1>1, <1>2, <1>7 DEF AddMoveEdit
<1> QED  BY <1>1, <1>3, <1>6, <1>8, LoadKeeps

LEMMA AnnotateKeeps ==
  ASSUME StudyInv, NEW c \in StudyClients, NEW n \in Seen(c), NEW words \in Words \cup {NoWords}, NEW nag,
         AnnotateEdit(c, n, words, nag)
  PROVE  StudyInv'
<1>1. PICK t : t = Loaded(c)
  OBVIOUS
<1>2. PICK u : u = WithWords(t, n, words, nag)
  OBVIOUS
<1>3. CanLoad(c) /\ n \in NodeIds(t)
  BY <1>1 DEF AnnotateEdit
<1>4. TreeOK(t)
  BY <1>1, <1>3, LoadedOK
<1>5. OnlyAt(t, n, u)
  <2>1. words # NoWords => IsList(words.shapes)
    BY StudyAssumption
  <2> QED  BY <1>2, <1>3, <1>4, <2>1, AnnotatedAt DEF TreeOK
<1>6. Edited(t, "annotate", u, FALSE)
  BY <1>4, <1>5, GrownEdited DEF OnlyAt
<1>7. LoadAndEdit(c, "annotate", n, u, Kept0(c), FALSE, <<>>)
  BY <1>1, <1>2 DEF AnnotateEdit, WithWords
<1> QED  BY <1>1, <1>3, <1>6, <1>7, LoadKeeps

LEMMA ShapesKeeps ==
  ASSUME StudyInv, NEW c \in StudyClients, NEW n \in Seen(c), NEW shapes \in Drawings, ShapesEdit(c, n, shapes)
  PROVE  StudyInv'
<1>1. PICK t : t = Loaded(c)
  OBVIOUS
<1>2. PICK u : u = SetShapes(t, n, shapes)
  OBVIOUS
<1>3. CanLoad(c) /\ n \in NodeIds(t)
  BY <1>1 DEF ShapesEdit
<1>4. TreeOK(t)
  BY <1>1, <1>3, LoadedOK
<1>5. OnlyAt(t, n, u)
  BY <1>2, <1>3, <1>4, StudyAssumption, ShapesAt DEF TreeOK
<1>6. Edited(t, "shapes", u, FALSE)
  BY <1>4, <1>5, GrownEdited DEF OnlyAt
<1>7. LoadAndEdit(c, "shapes", n, u, Kept0(c), FALSE, <<>>)
  BY <1>1, <1>2 DEF ShapesEdit
<1> QED  BY <1>1, <1>3, <1>6, <1>7, LoadKeeps

LEMMA ReorderKeeps ==
  ASSUME StudyInv, NEW c \in StudyClients, NEW n \in Seen(c), NEW index \in Nat, ReorderEdit(c, n, index)
  PROVE  StudyInv'
<1>1. PICK t : t = Loaded(c)
  OBVIOUS
<1>2. PICK u : u = Reorder(t, n, index)
  OBVIOUS
<1>3. CanLoad(c) /\ Movable(t, n)
  BY <1>1 DEF ReorderEdit
<1>4. TreeOK(t)
  BY <1>1, <1>3, LoadedOK
<1>5. Edited(t, "reorder", u, FALSE)
  BY <1>2, <1>3, <1>4, Reordered, GrownEdited DEF TreeOK
<1>6. LoadAndEdit(c, "reorder", n, u, Kept0(c), FALSE, <<>>)
  BY <1>1, <1>2 DEF ReorderEdit
<1> QED  BY <1>1, <1>3, <1>5, <1>6, LoadKeeps

LEMMA PromoteKeeps ==
  ASSUME StudyInv, NEW c \in StudyClients, NEW n \in Seen(c), PromoteEdit(c, n)
  PROVE  StudyInv'
<1>1. PICK t : t = Loaded(c)
  OBVIOUS
<1>2. PICK u : u = Reorder(t, n, 0)
  OBVIOUS
<1>3. CanLoad(c) /\ Movable(t, n)
  BY <1>1 DEF PromoteEdit
<1>4. TreeOK(t)
  BY <1>1, <1>3, LoadedOK
<1>5. Edited(t, "promote", u, FALSE)
  <2>1. 0 \in Nat
    OBVIOUS
  <2> QED  BY <1>2, <1>3, <1>4, <2>1, Reordered, GrownEdited DEF TreeOK
<1>6. LoadAndEdit(c, "promote", n, u, Kept0(c), FALSE, <<>>)
  BY <1>1, <1>2 DEF PromoteEdit, Promote
<1> QED  BY <1>1, <1>3, <1>5, <1>6, LoadKeeps

LEMMA DeleteKeeps ==
  ASSUME StudyInv, NEW c \in StudyClients, NEW n \in Seen(c), DeleteEdit(c, n)
  PROVE  StudyInv'
<1>1. PICK t : t = Loaded(c)
  OBVIOUS
<1>2. PICK u : u = DeleteNode(t, n)
  OBVIOUS
<1>3. CanLoad(c) /\ HasParent(t, n)
  BY <1>1 DEF DeleteEdit
<1>4. TreeOK(t)
  BY <1>1, <1>3, LoadedOK
<1>5. Edited(t, "delete", u, FALSE)
  BY <1>2, <1>3, <1>4, Deleted DEF TreeOK, Edited
<1>6. \E lines : LoadAndEdit(c, "delete", n, u, lines, FALSE, <<>>)
  BY <1>1, <1>2 DEF DeleteEdit
<1> QED  BY <1>1, <1>3, <1>5, <1>6, LoadKeeps

LEMMA AddLineKeeps ==
  ASSUME StudyInv, NEW c \in StudyClients, NEW game \in GameRows, NEW words, AddLineEdit(c, game.sans, words)
  PROVE  StudyInv'
<1>1. PICK t : t = Loaded(c)
  OBVIOUS
<1>2. PICK sans : sans = game.sans
  OBVIOUS
<1>3. PICK grown : grown = Graft(t, 0, LinearTree(sans)).tree
  OBVIOUS
<1>4. PICK leaf : leaf = ResolveLine(grown, 0, sans)
  OBVIOUS
<1>5. PICK u : u = IF words = NoWords THEN grown ELSE SetComment(grown, leaf, words.text)
  OBVIOUS
<1>6. CanLoad(c) /\ leaf # NoNode
  BY <1>1, <1>2, <1>3, <1>4 DEF AddLineEdit
<1>7. TreeOK(t) /\ 0 \in Seen(c)
  BY <1>1, <1>6, LoadedOK
<1>8. sans \in Seq(ToSet(sans))
  BY <1>2, StudyAssumption DEF IsList
<1>9. Edited(t, "add_line", u, FALSE)
  <2>1. Arena(t) /\ u \in {grown, SetComment(grown, leaf, words.text)}
    BY <1>5, <1>7 DEF TreeOK
  <2>2. Grew(t, u) /\ (Listed(t) => Listed(u))
    BY <1>3, <1>4, <1>6, <1>8, <2>1, LineAdded
  <2> QED  BY <1>7, <2>2, GrownEdited
<1>10. \E lines : LoadAndEdit(c, "add_line", 0, u, lines, FALSE, <<>>)
  BY <1>1, <1>2, <1>3, <1>4, <1>5 DEF AddLineEdit
<1> QED  BY <1>1, <1>6, <1>7, <1>9, <1>10, LoadKeeps

LEMMA MergeKeeps ==
  ASSUME StudyInv, NEW c \in StudyClients, NEW games \in MergeLists, MergeEdit(c, games)
  PROVE  StudyInv'
<1>1. PICK t : t = Loaded(c)
  OBVIOUS
<1>2. PICK list : list = Mergeable(games)
  OBVIOUS
<1>3. PICK u : u = MergeGames(t, list, MergeCap)
  OBVIOUS
<1>4. CanLoad(c)
  BY DEF MergeEdit
<1>5. TreeOK(t) /\ 0 \in Seen(c)
  BY <1>1, <1>4, LoadedOK
<1>6. PICK S : S = ToSet(games)
  OBVIOUS
<1>7. list \in Seq(S) /\ \A g \in S : IsList(g.sans)
  <2>1. IsList(games) /\ \A g \in S : IsList(g.sans)
    BY <1>6, StudyAssumption
  <2>2. PICK K : K = {g \in ToSet(games) : g.standard /\ g.sans # <<>>}
    OBVIOUS
  <2>3. list = Only(games, K)
    BY <1>2, <2>2 DEF Mergeable
  <2> QED  BY <1>6, <2>1, <2>3, OnlyOf DEF IsList
<1>8. Grew(t, u) /\ SameWords(t, u) /\ (Listed(t) => Listed(u))
  BY <1>3, <1>5, <1>7, StudyAssumption, MergeSpares DEF TreeOK
<1>9. Edited(t, "merge", u, TRUE)
  BY <1>5, <1>8, WordsAreWork DEF Edited, TreeOK, Grew, Honest
<1>10. \E lines : LoadAndEdit(c, "merge", 0, u, lines, TRUE, list)
  BY <1>1, <1>2, <1>3 DEF MergeEdit
<1> QED  BY <1>1, <1>4, <1>5, <1>9, <1>10, LoadKeeps

LEMMA MarkKeeps ==
  ASSUME StudyInv, NEW c \in StudyClients, MarkEdit(c)
  PROVE  StudyInv'
<1>1. PICK t : t = Loaded(c)
  OBVIOUS
<1>2. PICK u : u = MarkTranspositions(t).tree
  OBVIOUS
<1>3. CanLoad(c)
  BY DEF MarkEdit
<1>4. TreeOK(t) /\ 0 \in Seen(c)
  BY <1>1, <1>3, LoadedOK
<1>5. Grew(t, u) /\ NodeIds(u) = NodeIds(t) /\ SameWords(t, u)
  BY <1>2, <1>4, MarksSpare DEF TreeOK, Marking
<1>6. Edited(t, "mark", u, TRUE)
  BY <1>4, <1>5, WordsAreWork, WordsListed DEF Edited, TreeOK, Grew, Honest
<1>7. LoadAndEdit(c, "mark", 0, u, Kept0(c), TRUE, <<>>)
  BY <1>1, <1>2 DEF MarkEdit
<1> QED  BY <1>1, <1>3, <1>4, <1>6, <1>7, LoadKeeps

LEMMA MergeDangerKeeps ==
  ASSUME StudyInv, NEW c \in StudyClients, NEW n \in Seen(c), NEW danger \in Dangers, MergeDangerEdit(c, n, danger)
  PROVE  StudyInv'
<1>1. PICK t : t = Loaded(c)
  OBVIOUS
<1>2. PICK g : g = Graft(t, n, danger.tree)
  OBVIOUS
<1>3. PICK u : u = DangerTold(danger, g)
  OBVIOUS
<1>4. CanLoad(c) /\ n \in NodeIds(t)
  BY <1>1 DEF MergeDangerEdit, LoadAndEdit, Loaded
<1>5. TreeOK(t)
  BY <1>1, <1>4, LoadedOK
<1>6. Arena(danger.tree)
  BY StudyAssumption, BuiltArena
<1>7. Spared(t, u)
  BY <1>2, <1>3, <1>4, <1>5, <1>6, DangerSpares DEF TreeOK
<1>8. Edited(t, "danger", u, TRUE)
  BY <1>5, <1>7, NotesAreWords, WordsAreWork DEF Spared, Edited, TreeOK, Grew
<1>9. \E lines : LoadAndEdit(c, "danger", n, u, lines, TRUE, <<>>)
  BY <1>1, <1>2, <1>3 DEF MergeDangerEdit, DangerTold
<1> QED  BY <1>1, <1>4, <1>8, <1>9, LoadKeeps

LEMMA ClearKeeps ==
  ASSUME StudyInv, NEW c \in StudyClients, NEW all \in BOOLEAN, ClearShapesEdit(c, all)
  PROVE  StudyInv'
<1>1. PICK t : t = Loaded(c)
  OBVIOUS
<1>2. PICK u : u = Cleared(t, all)
  OBVIOUS
<1>3. CanLoad(c)
  BY DEF ClearShapesEdit
<1>4. TreeOK(t) /\ 0 \in Seen(c)
  BY <1>1, <1>3, LoadedOK
<1>5. Redraws(t, u) /\ (Listed(t) => Listed(u) /\ (~all => SameWork(t, u)))
  BY <1>2, <1>4, ClearSpares DEF TreeOK
<1>6. Edited(t, "clear", u, ~all)
  BY <1>4, <1>5 DEF Edited, TreeOK, Redraws, Grew
<1>7. LoadAndEdit(c, "clear", 0, u, Kept0(c), ~all, <<>>)
  BY <1>1, <1>2 DEF ClearShapesEdit, Cleared
<1> QED  BY <1>1, <1>3, <1>4, <1>6, <1>7, LoadKeeps

LEMMA RegenerateKeeps ==
  ASSUME StudyInv, NEW c \in StudyClients, NEW layers \in BOOLEAN, NEW reached, RegenerateEdit(c, layers, reached)
  PROVE  StudyInv'
<1>1. PICK t : t = Loaded(c)
  OBVIOUS
<1>2. PICK u : u = Regenerated(t, layers, reached)
  OBVIOUS
<1>3. CanLoad(c)
  BY DEF RegenerateEdit
<1>4. TreeOK(t) /\ 0 \in Seen(c)
  BY <1>1, <1>3, LoadedOK
<1>5. Redraws(t, u) /\ (ArrowsAreGenerated /\ Listed(t) => Listed(u) /\ SameWork(t, u))
  BY <1>2, <1>4, RegenerateSpares DEF TreeOK
<1>6. Edited(t, "regenerate", u, TRUE)
  BY <1>4, <1>5 DEF Edited, TreeOK, Redraws, Grew, Honest
<1>7. LoadAndEdit(c, "regenerate", 0, u, Kept0(c), TRUE, <<>>)
  BY <1>1, <1>2 DEF RegenerateEdit, Regenerated
<1> QED  BY <1>1, <1>3, <1>4, <1>6, <1>7, LoadKeeps

LEMMA AnalyseKeeps ==
  ASSUME StudyInv, NEW c \in StudyClients, NEW reached \in Nat, reached <= Size(Loaded(c)), AnalyseEdit(c, reached)
  PROVE  StudyInv'
<1>1. PICK t : t = Loaded(c)
  OBVIOUS
<1>2. PICK u : u = FoldLeft(Judge, t, [k \in 1 .. reached - 1 |-> k])
  OBVIOUS
<1>3. CanLoad(c)
  BY DEF AnalyseEdit
<1>4. TreeOK(t) /\ 0 \in Seen(c)
  BY <1>1, <1>3, LoadedOK
<1>5. Judged(t, u)
  BY <1>1, <1>2, <1>4, AnalysisSpares DEF TreeOK
<1>6. Edited(t, "analyse", u, TRUE)
  BY <1>4, <1>5 DEF Edited, TreeOK, Judged, Grew, Honest
<1>7. LoadAndEdit(c, "analyse", 0, u, Kept0(c), TRUE, <<>>)
  BY <1>1, <1>2 DEF AnalyseEdit
<1> QED  BY <1>1, <1>3, <1>4, <1>6, <1>7, LoadKeeps

(***************************************************************************)
(* What was edited is written, and read again for the answer.              *)
(***************************************************************************)
LEMMA EditInFlight ==
  ASSUME StudyInv, NEW c \in StudyClients, studyReq[c].op \in StudyEdits \ {"share"}
  PROVE  EditOK(studyReq[c], studies, nextStudy)
<1>1. ReqOK(studyReq[c], studies, nextStudy)
  BY DEF StudyInv
<1>2. studyReq[c] # Idle
  <2>1. Idle.op = "none"
    BY DEF Idle
  <2> QED  BY <2>1, StudyAssumption
<1>3. ~IsShare(studyReq[c], nextStudy)
  BY DEF IsShare
<1> QED  BY <1>1, <1>2, <1>3 DEF ReqOK

Answered(r, new) == [r EXCEPT !.at = "refresh", !.new = new]
Broken(r)        == [r EXCEPT !.intact = FALSE]
Stale(v)         == [v EXCEPT !.good = FALSE]

LEMMA WorkAnswered ==
  ASSUME NEW r, Work(r), NEW new, NEW q, q = Answered(r, new)
  PROVE  Work(q) /\ q.study = r.study /\ q.at = "refresh" /\ q.new = new /\ q.tree = r.tree
<1>1. r = [op |-> r.op, study |-> r.study, loaded |-> r.loaded, tree |-> r.tree, lines |-> r.lines,
           pass |-> r.pass, input |-> r.input, at |-> r.at, new |-> r.new, intact |-> r.intact]
  BY DEF Work
<1>2. q = [op |-> r.op, study |-> r.study, loaded |-> r.loaded, tree |-> r.tree, lines |-> r.lines,
           pass |-> r.pass, input |-> r.input, at |-> "refresh", new |-> new, intact |-> r.intact]
  BY ONLY <1>1, q = Answered(r, new) DEF Answered
<1>3. /\ q = [op |-> q.op, study |-> q.study, loaded |-> q.loaded, tree |-> q.tree, lines |-> q.lines,
              pass |-> q.pass, input |-> q.input, at |-> q.at, new |-> q.new, intact |-> q.intact]
      /\ q.op = r.op /\ q.study = r.study /\ q.loaded = r.loaded /\ q.tree = r.tree /\ q.pass = r.pass
      /\ q.at = "refresh" /\ q.new = new
  BY ONLY <1>2
<1> QED  BY ONLY <1>3, Work(r) DEF Work

LEMMA WorkBroken ==
  ASSUME NEW r, Work(r), NEW q, q = Broken(r)
  PROVE  Work(q) /\ q.study = r.study /\ q.at = r.at /\ q.new = r.new /\ q.tree = r.tree /\ q.intact = FALSE
<1>1. r = [op |-> r.op, study |-> r.study, loaded |-> r.loaded, tree |-> r.tree, lines |-> r.lines,
           pass |-> r.pass, input |-> r.input, at |-> r.at, new |-> r.new, intact |-> r.intact]
  BY DEF Work
<1>2. q = [op |-> r.op, study |-> r.study, loaded |-> r.loaded, tree |-> r.tree, lines |-> r.lines,
           pass |-> r.pass, input |-> r.input, at |-> r.at, new |-> r.new, intact |-> FALSE]
  BY ONLY <1>1, q = Broken(r) DEF Broken
<1>3. /\ q = [op |-> q.op, study |-> q.study, loaded |-> q.loaded, tree |-> q.tree, lines |-> q.lines,
              pass |-> q.pass, input |-> q.input, at |-> q.at, new |-> q.new, intact |-> q.intact]
      /\ q.op = r.op /\ q.study = r.study /\ q.loaded = r.loaded /\ q.tree = r.tree /\ q.pass = r.pass
      /\ q.at = r.at /\ q.new = r.new /\ q.intact = FALSE
  BY ONLY <1>2
<1> QED  BY ONLY <1>3, Work(r) DEF Work

LEMMA StaleView ==
  ASSUME NEW v, NEW S, NEW T, NEW next, v # NoView, ViewOK(v, S, next)
  PROVE  ViewOK(Stale(v), T, next)
<1>1. /\ v = [study |-> v.study, tree |-> v.tree, good |-> v.good]
      /\ v.study \in Nat /\ v.study < next /\ Arena(v.tree)
  BY DEF ViewOK
<1>2. PICK w : w = Stale(v)
  OBVIOUS
<1>3. w = [study |-> v.study, tree |-> v.tree, good |-> FALSE]
  BY ONLY <1>1, <1>2 DEF Stale
<1>4. w = [study |-> w.study, tree |-> w.tree, good |-> w.good] /\ w.study = v.study /\ w.tree = v.tree /\ ~w.good
  BY ONLY <1>3
<1> QED  BY <1>1, <1>2, <1>4 DEF ViewOK

LEMMA RowWritten ==
  ASSUME NEW row, RowOK(row), NEW r, TreeOK(r.tree), NEW new, new = WithTree(row, r)
  PROVE  RowOK(new) /\ new.tree = r.tree
<1>1. row = [owner |-> row.owner, public |-> row.public, tree |-> row.tree]
  BY DEF RowOK
<1>2. new = [owner |-> row.owner, public |-> row.public, tree |-> r.tree]
  BY ONLY <1>1, new = WithTree(row, r) DEF WithTree
<1>3. new = [owner |-> new.owner, public |-> new.public, tree |-> new.tree] /\ new.tree = r.tree
  BY ONLY <1>2
<1> QED  BY <1>3 DEF RowOK

LEMMA PersistKeeps ==
  ASSUME StudyInv, NEW c \in StudyClients, Persist(c)
  PROVE  StudyInv'
<1>1. PICK r : r = studyReq[c]
  OBVIOUS
<1>2. PICK S : S = studies
  OBVIOUS
<1>3. PICK next : next = nextStudy
  OBVIOUS
<1>4. PICK x : x = r.study
  OBVIOUS
<1>5. r.op \in StudyEdits \ {"share"} /\ r.at = "persist"
  BY <1>1 DEF Persist
<1>6. EditOK(r, S, next)
  BY <1>1, <1>2, <1>3, <1>5, EditInFlight
<1>7. Work(r) /\ x \in Nat /\ x < next
  BY <1>4, <1>6 DEF EditOK
<1>8. CASE x \notin DOMAIN S
  <2>1. studyReq' = [studyReq EXCEPT ![c] = Idle] /\ UNCHANGED <<studies, nextStudy, views, misaddressed>>
    BY <1>1, <1>2, <1>4, <1>8 DEF Persist, Stored
  <2> QED  BY <2>1, RequestSet DEF ReqOK
<1>9. CASE x \in DOMAIN S
  <2>1. PICK renumbers \in BOOLEAN : renumbers <=> r.op = "delete" \/ S[x].tree # r.loaded.tree
    <3>1. CASE r.op = "delete" \/ S[x].tree # r.loaded.tree
      BY <3>1
    <3>2. CASE ~(r.op = "delete" \/ S[x].tree # r.loaded.tree)
      BY <3>2
    <3> QED  BY <3>1, <3>2
  <2>2. PICK T : T = studies'
    OBVIOUS
  <2>3. PICK new : new = Size(r.tree) - 1
    OBVIOUS
  <2>4. /\ T = [S EXCEPT ![x] = WithTree(S[x], r)]
        /\ views' = [d \in StudyClients |->
             IF renumbers /\ views[d].study = x THEN Stale(views[d]) ELSE views[d]]
        /\ studyReq' = [d \in StudyClients |->
             IF d = c THEN Answered(r, new)
             ELSE IF renumbers /\ StudyBusy(d) /\ studyReq[d].study = x /\ studyReq[d].op # "share"
                  THEN Broken(studyReq[d]) ELSE studyReq[d]]
        /\ nextStudy' = next /\ misaddressed' = misaddressed
    BY <1>1, <1>2, <1>3, <1>4, <1>9, <2>1, <2>2, <2>3 DEF Persist, Stored, Stale, Answered, Broken
  <2>5. next \in Nat /\ \A s \in DOMAIN S : s \in Nat /\ s < next /\ RowOK(S[s])
    BY <1>2, <1>3 DEF StudyInv, RowsOK
  <2>6. DOMAIN T = DOMAIN S /\ T[x] = WithTree(S[x], r) /\ \A s \in DOMAIN S : s # x => T[s] = S[s]
    BY ONLY <1>9, <2>4
  <2>7. RowOK(T[x]) /\ T[x].tree = r.tree
    BY <1>7, <1>9, <2>5, <2>6, RowWritten DEF Work
  <2>8. RowsOK(T, next)
    BY <2>5, <2>6, <2>7 DEF RowsOK
  <2>9. PICK y : y = IF renumbers THEN x ELSE NoStudy
    BY Zenon
  <2>10. Onward(S, T, next, y)
    <3>1. ASSUME NEW s \in DOMAIN S, s # y PROVE Extends(S[s].tree, T[s].tree)
      <4>1. CASE s # x
        BY <2>6, <4>1, ExtendsSelf
      <4>2. CASE s = x
        <5>1. ~renumbers
          BY <2>9, <3>1, <4>2
        <5>2. r.op # "delete" /\ S[x].tree = r.loaded.tree
          BY <2>1, <5>1
        <5> QED  BY <1>7, <2>7, <4>2, <5>2 DEF Work
      <4> QED  BY <4>1, <4>2
    <3> QED  BY <2>6, <3>1 DEF Onward
  <2>11. next <= next
    BY <2>5
  <2>12. \A d \in StudyClients : ViewOK(views'[d], T, next)
    <3> SUFFICES ASSUME NEW d \in StudyClients PROVE ViewOK(views'[d], T, next)
      OBVIOUS
    <3>1. PICK v : v = views[d]
      OBVIOUS
    <3>2. ViewOK(v, S, next)
      BY <1>2, <1>3, <3>1 DEF StudyInv
    <3>3. views'[d] = IF renumbers /\ v.study = x THEN Stale(v) ELSE v
      BY <2>4, <3>1
    <3>4. CASE v = NoView
      <4>1. v.study = NoStudy /\ NoStudy # x
        BY <1>7, <3>4, StudyAssumption DEF NoView
      <4> QED  BY <3>3, <3>4, <4>1 DEF ViewOK
    <3>5. CASE v # NoView /\ renumbers /\ v.study = x
      BY <3>2, <3>3, <3>5, StaleView
    <3>6. CASE v # NoView /\ ~(renumbers /\ v.study = x)
      <4>1. views'[d] = v
        BY <3>3, <3>6
      <4>2. v.study # y
        <5>1. v.study \in Nat
          BY <3>2, <3>6 DEF ViewOK
        <5> QED  BY <2>9, <3>6, <5>1, StudyAssumption
      <4> QED  BY <2>5, <2>10, <2>11, <3>2, <4>1, <4>2, ViewStays
    <3> QED  BY <3>4, <3>5, <3>6
  <2>13. \A d \in StudyClients : ReqOK(studyReq'[d], T, next)
    <3> SUFFICES ASSUME NEW d \in StudyClients PROVE ReqOK(studyReq'[d], T, next)
      OBVIOUS
    <3>1. CASE d = c
      <4>1. PICK q : q = Answered(r, new)
        OBVIOUS
      <4>2. studyReq'[d] = q
        BY <2>4, <3>1, <4>1
      <4>3. Work(q) /\ q.study = x /\ q.at = "refresh" /\ q.new = new /\ q.tree = r.tree
        BY <1>4, <1>7, <4>1, WorkAnswered
      <4>4. Extends(q.tree, T[x].tree)
        BY <2>7, <4>3, ExtendsSelf
      <4>5. EditOK(q, T, next)
        BY <1>7, <2>3, <4>3, <4>4 DEF EditOK
      <4> QED  BY <4>2, <4>5 DEF ReqOK
    <3>2. CASE d # c
      <4>1. PICK q : q = studyReq[d]
        OBVIOUS
      <4>2. ReqOK(q, S, next)
        BY <1>2, <1>3, <4>1 DEF StudyInv
      <4>3. studyReq'[d] = IF renumbers /\ q # Idle /\ q.study = x /\ q.op # "share" THEN Broken(q) ELSE q
        BY <2>4, <3>2, <4>1 DEF StudyBusy
      <4>4. CASE renumbers /\ q # Idle /\ q.study = x /\ q.op # "share"
        <5>1. ~IsShare(q, next)
          BY <4>4 DEF IsShare
        <5>2. EditOK(q, S, next)
          BY <4>2, <4>4, <5>1 DEF ReqOK
        <5>3. PICK b : b = Broken(q)
          OBVIOUS
        <5>4. Work(b) /\ b.study = q.study /\ b.at = q.at /\ b.new = q.new /\ b.tree = q.tree /\ b.intact = FALSE
          BY <5>2, <5>3, WorkBroken DEF EditOK
        <5>5. EditOK(b, T, next)
          BY <5>2, <5>4 DEF EditOK
        <5> QED  BY <4>3, <4>4, <5>3, <5>5 DEF ReqOK
      <4>5. CASE ~(renumbers /\ q # Idle /\ q.study = x /\ q.op # "share")
        <5>1. studyReq'[d] = q
          BY <4>3, <4>5
        <5>2. ~(EditOK(q, S, next) /\ q.study = y)
          <6>1. SUFFICES ASSUME EditOK(q, S, next), q.study = y PROVE FALSE
            OBVIOUS
          <6>2. q.study \in Nat /\ q.op \in StudyEdits \ {"share"}
            BY <6>1 DEF EditOK, Work
          <6>3. Idle.op = "none"
            BY DEF Idle
          <6>4. q # Idle
            BY <6>2, <6>3, StudyAssumption
          <6>5. y # NoStudy
            BY <6>1, <6>2, StudyAssumption
          <6> QED  BY <2>9, <4>5, <6>1, <6>2, <6>4, <6>5
        <5> QED  BY <2>5, <2>10, <2>11, <4>2, <5>1, <5>2, ReqStays
      <4> QED  BY <4>4, <4>5
    <3> QED  BY <3>1, <3>2
  <2>14. DOMAIN views' = StudyClients /\ DOMAIN studyReq' = StudyClients /\ misaddressed' = FALSE
    BY <2>4 DEF StudyInv
  <2> QED  BY <2>2, <2>4, <2>8, <2>12, <2>13, <2>14 DEF StudyInv
<1> QED  BY <1>8, <1>9

LEMMA RefreshedKeeps ==
  ASSUME StudyInv, NEW c \in StudyClients, Refreshed(c)
  PROVE  StudyInv'
<1>1. PICK r : r = studyReq[c]
  OBVIOUS
<1>2. PICK x : x = r.study
  OBVIOUS
<1>3. PICK v : v = IF x \in Stored /\ Readable(studies[x], StudyCallers[c]) THEN ViewOf(x) ELSE NoView
  BY Zenon
<1>4. /\ r.op \in StudyEdits \ {"share"} /\ r.at = "refresh"
      /\ studyReq' = [studyReq EXCEPT ![c] = Idle]
      /\ views' = [views EXCEPT ![c] = v]
      /\ studies' = studies /\ nextStudy' = nextStudy
  BY <1>1, <1>2, <1>3 DEF Refreshed
<1>5. EditOK(r, studies, nextStudy)
  BY <1>1, <1>4, EditInFlight
<1>6. Arena(r.tree) /\ r.new = Size(r.tree) - 1 /\ r.new \in NodeIds(r.tree)
  BY <1>4, <1>5, ArenaSize DEF EditOK, Work, TreeOK
<1>7. ASSUME r.intact, x \in Stored
      PROVE  /\ r.new \in NodeIds(studies[x].tree)
             /\ LineTo(studies[x].tree, r.new) = LineTo(r.tree, r.new)
  <2>1. Extends(r.tree, studies[x].tree)
    BY <1>2, <1>4, <1>5, <1>7 DEF EditOK, Stored
  <2>2. Arena(studies[x].tree)
    BY <1>7 DEF StudyInv, RowsOK, RowOK, TreeOK, Stored
  <2> QED  BY <1>6, <2>1, <2>2, SameLine DEF Extends
<1>8. misaddressed' = FALSE
  <2>1. misaddressed = FALSE
    BY DEF StudyInv
  <2>2. misaddressed' = (misaddressed \/
          ((r.op = "add" /\ r.intact /\ x \in Stored)
            /\ (r.new \notin NodeIds(studies[x].tree) \/ LineTo(studies[x].tree, r.new) # LineTo(r.tree, r.new))))
    BY <1>1, <1>2 DEF Refreshed
  <2> QED  BY <1>7, <2>1, <2>2
<1>9. ViewOK(v, studies, nextStudy)
  <2>1. x \in Stored => ViewOK(ViewOf(x), studies, nextStudy)
    BY ViewShown
  <2>2. ViewOK(NoView, studies, nextStudy)
    BY DEF ViewOK
  <2> QED  BY <1>3, <2>1, <2>2
<1>10. DOMAIN views = StudyClients /\ DOMAIN studyReq = StudyClients
  BY DEF StudyInv
<1>11. DOMAIN views' = StudyClients /\ \A d \in StudyClients : ViewOK(views'[d], studies, nextStudy)
  BY <1>4, <1>9, <1>10 DEF StudyInv
<1>12. DOMAIN studyReq' = StudyClients /\ \A d \in StudyClients : ReqOK(studyReq'[d], studies, nextStudy)
  BY <1>4, <1>10 DEF StudyInv, ReqOK
<1> QED  BY <1>4, <1>8, <1>11, <1>12 DEF StudyInv

(***************************************************************************)
(* The steps of the specification.                                         *)
(***************************************************************************)
LEMMA EditKeeps ==
  ASSUME StudyInv, NEW c \in StudyClients, StudyEdit(c)
  PROVE  StudyInv'
<1>1. CASE \E n \in Seen(c), san \in Sans : AddMoveEdit(c, n, san)
  BY <1>1, AddMoveKeeps
<1>2. CASE \E n \in Seen(c), w \in Words \cup {NoWords}, nag \in {0, 1, 2} : AnnotateEdit(c, n, w, nag)
  BY <1>2, AnnotateKeeps
<1>3. CASE \E n \in Seen(c), d \in Drawings : ShapesEdit(c, n, d)
  BY <1>3, ShapesKeeps
<1>4. CASE \E n \in Seen(c), k \in 0 .. MaxTree : ReorderEdit(c, n, k)
  <2>1. PICK n \in Seen(c) : \E k \in 0 .. MaxTree : ReorderEdit(c, n, k)
    BY <1>4
  <2>2. PICK k \in 0 .. MaxTree : ReorderEdit(c, n, k)
    BY <2>1
  <2>3. k \in Nat
    OBVIOUS
  <2> QED  BY <2>2, <2>3, ReorderKeeps
<1>5. CASE \E n \in Seen(c) : PromoteEdit(c, n) \/ DeleteEdit(c, n)
  BY <1>5, PromoteKeeps, DeleteKeeps
<1>6. CASE \E g \in GameRows, w \in Words \cup {NoWords} : AddLineEdit(c, g.sans, w)
  BY <1>6, AddLineKeeps
<1>7. CASE \E games \in MergeLists : MergeEdit(c, games)
  BY <1>7, MergeKeeps
<1>8. CASE MarkEdit(c)
  BY <1>8, MarkKeeps
<1>9. CASE \E n \in Seen(c), d \in Dangers : MergeDangerEdit(c, n, d)
  BY <1>9, MergeDangerKeeps
<1>10. CASE \E all \in BOOLEAN : ClearShapesEdit(c, all)
  BY <1>10, ClearKeeps
<1>11. CASE \E layers \in BOOLEAN, k \in 0 .. MaxTree : RegenerateEdit(c, layers, k)
  BY <1>11, RegenerateKeeps
<1>12. CASE \E k \in 1 .. MaxTree : CanLoad(c) /\ k <= Size(Loaded(c)) /\ AnalyseEdit(c, k)
  <2>1. PICK k \in 1 .. MaxTree : CanLoad(c) /\ k <= Size(Loaded(c)) /\ AnalyseEdit(c, k)
    BY <1>12
  <2>2. k \in Nat
    OBVIOUS
  <2> QED  BY <2>1, <2>2, AnalyseKeeps
<1> QED  BY <1>1, <1>2, <1>3, <1>4, <1>5, <1>6, <1>7, <1>8, <1>9, <1>10, <1>11, <1>12 DEF StudyEdit

LEMMA StudySteps == StudyInv /\ [StudyNext]_studyVars => StudyInv'
<1> SUFFICES ASSUME StudyInv, [StudyNext]_studyVars PROVE StudyInv'
  OBVIOUS
<1>1. CASE StudyNext
  <2>1. PICK c \in StudyClients :
          \/ \E global \in BOOLEAN : CreateStudy(c, global)
          \/ \E pgn \in Imports : ImportPgn(c, pgn)
          \/ \E game \in GameRows : CreateFromGame(c, game)
          \/ \E s \in Stored : OpenStudy(c, s) \/ DeleteStudy(c, s) \/ \E p \in BOOLEAN : LoadForFlag(c, s, p)
          \/ StudyEdit(c)
          \/ SetPublic(c) \/ Persist(c) \/ Refreshed(c)
    BY <1>1 DEF StudyNext
  <2>2. CASE \E global \in BOOLEAN : CreateStudy(c, global)
    BY <2>2, CreateKeeps
  <2>3. CASE \E pgn \in Imports : ImportPgn(c, pgn)
    BY <2>3, ImportKeeps
  <2>4. CASE \E game \in GameRows : CreateFromGame(c, game)
    BY <2>4, FromGameKeeps
  <2>5. CASE \E s \in Stored : OpenStudy(c, s) \/ DeleteStudy(c, s) \/ \E p \in BOOLEAN : LoadForFlag(c, s, p)
    BY <2>5, OpenStudyKeeps, DeleteStudyKeeps, LoadForFlagKeeps
  <2>6. CASE StudyEdit(c)
    BY <2>6, EditKeeps
  <2>7. CASE SetPublic(c)
    BY <2>7, SetPublicKeeps
  <2>8. CASE Persist(c)
    BY <2>8, PersistKeeps
  <2>9. CASE Refreshed(c)
    BY <2>9, RefreshedKeeps
  <2> QED  BY <2>1, <2>2, <2>3, <2>4, <2>5, <2>6, <2>7, <2>8, <2>9
<1>2. CASE UNCHANGED studyVars
  BY <1>2 DEF studyVars, StudyInv
<1> QED  BY <1>1, <1>2

\* However the requests of any number of clients interleave, every tree stays
\* an arena, every write but a deletion's extends what it read, and a good view
\* agrees with the row it was read from (studies/mod.rs, pgn_tree.rs).
THEOREM StudiesStaySound == StudySpec => []StudyInv
<1>1. StudyInit => StudyInv
  BY StudyInits
<1>2. StudyInv /\ [StudyNext]_studyVars => StudyInv'
  BY StudySteps
<1> QED  BY <1>1, <1>2, PTL DEF StudySpec

\* A node id that a client has seen names, when its request is served, the
\* move that the client saw, unless a deletion or an overlap has come between;
\* and add_move answers with the id of its own move.
THEOREM IdsHold == StudySpec => []IdsNameTheirMoves
<1>1. StudyInv => IdsNameTheirMoves
  BY DEF StudyInv, IdsNameTheirMoves
<1> QED  BY <1>1, StudiesStaySound, PTL

\* No pass of the program (merge, transposition notes, danger, analysis,
\* arrows) drops a move, a positional glyph, an arrow or the words of the user
\* (those apart that read like the pass's own), if its verdicts are quality glyphs and its arrows are marked as generated.
THEOREM WorkIsKept ==
  ASSUME GlyphVerdicts, ArrowsAreGenerated
  PROVE  StudySpec => []PassesKeepUserWork
<1>1. ASSUME StudyInv PROVE PassesKeepUserWork
  <2> SUFFICES ASSUME NEW c \in StudyClients, StudyBusy(c), studyReq[c].op # "share", studyReq[c].pass
               PROVE  KeepsUserWork(studyReq[c].loaded.tree, studyReq[c].tree)
    BY DEF PassesKeepUserWork
  <2>1. PICK r : r = studyReq[c]
    OBVIOUS
  <2>2. ReqOK(r, studies, nextStudy) /\ r # Idle /\ r.op # "share" /\ r.pass
    BY <1>1, <2>1 DEF StudyInv, StudyBusy
  <2>3. Work(r)
    <3>1. ~IsShare(r, nextStudy)
      BY <2>2 DEF IsShare
    <3> QED  BY <2>2, <3>1 DEF ReqOK, EditOK
  <2>4. PICK t : t = r.loaded.tree
    OBVIOUS
  <2>5. PICK u : u = r.tree
    OBVIOUS
  <2>6. Arena(t) /\ Arena(u) /\ Extends(t, u) /\ SameWork(t, u)
    BY <2>2, <2>3, <2>4, <2>5 DEF Work, TreeOK, Honest
  <2>7. \A n \in NodeIds(t) : LineTo(t, n) = LineTo(u, n)
    BY <2>6, SameLine
  <2>8. KeepsUserWork(t, u)
    BY <2>6, <2>7 DEF KeepsUserWork, Extends, SameWork
  <2> QED  BY <2>1, <2>4, <2>5, <2>8
<1> QED  BY <1>1, StudiesStaySound, PTL
============================================================================
