------------------------------ MODULE Movetext ------------------------------
(***************************************************************************)
(* A study written as PGN movetext and read back (pgn_tree/pgn.rs, with    *)
(* the comment commands of shapes.rs and eval.rs).  A PGN is a sequence of *)
(* tokens; spacing and move numbers, which the reader skips, are left out. *)
(***************************************************************************)
EXTENDS MoveTree

CONSTANTS NoDest,       \* a shape without one highlights a square
          EmptyText,    \* a comment of no words
          Join(_, _),   \* one comment after another on a move
          Inside(_),    \* what a comment holds up to its first closing brace
          After(_),     \* the tokens that the rest of it reads as
          Parsed(_, _)  \* [shapes, eval, text] of the words inside braces, and
                        \* whether an evaluation stands before them

Move(san)     == [is |-> "move", san |-> san]
Nag(n)        == [is |-> "nag", nag |-> n]
Braces(c)     == [is |-> "comment", comment |-> c]
Open          == [is |-> "open"]
Close         == [is |-> "close"]
FenTag(start) == [is |-> "fen", start |-> start]

Shape(orig, dest, brush) == [orig |-> orig, dest |-> dest, brush |-> brush]

\* color_letter, brush_name: four brushes have a letter, any other is
\* written as green.
Lettered == {"green", "red", "blue", "yellow"}
Written(s) == [s EXCEPT !.brush = IF s.brush \in Lettered THEN s.brush ELSE "green"]

\* shapes::encode then shapes::parse: the squares come before the arrows.
EncodeShapes(shapes) ==
  LET out == [k \in DOMAIN shapes |-> Written(shapes[k])]
  IN SelectSeq(out, LAMBDA s : s.dest = NoDest) \o SelectSeq(out, LAMBDA s : s.dest # NoDest)

\* The commands and the text share one pair of braces.  The text is written
\* as it is: to a reader a brace in it is the closing one.
Enclosed(eval, shapes, text) ==
  <<Braces([eval |-> eval, shapes |-> shapes, text |-> Inside(text)])>> \o After(text)

\* write_move
WriteMove(node) ==
  LET shapes == EncodeShapes(node.shapes)
      bare   == node.eval = NoEval /\ shapes = <<>> /\ node.comment = NoComment
  IN <<Move(node.san)>>
     \o [k \in DOMAIN node.nags |-> Nag(node.nags[k])]
     \o (IF bare THEN <<>> ELSE Enclosed(node.eval, shapes, node.comment))

\* write_line: the main move, the variations beside it, the rest of the line.
WriteLine(t, parent) ==
  LET write[p \in NodeIds(t)] ==
        LET cs == t.nodes[p].children
            variation(v) == <<Open>> \o WriteMove(t.nodes[v]) \o write[v] \o <<Close>>
        IN IF cs = <<>> THEN <<>>
           ELSE WriteMove(t.nodes[cs[1]])
                \o FoldLeft(LAMBDA acc, v : acc \o variation(v), <<>>, Tail(cs))
                \o write[cs[1]]
  IN write[parent]

\* to_pgn, movetext: of the root only the text of its comment is written.
ToPgn(t) ==
  (IF t.start = StartPos THEN <<>> ELSE <<FenTag(t.start)>>)
  \o (IF t.nodes[0].comment = NoComment THEN <<>> ELSE Enclosed(NoEval, <<>>, t.nodes[0].comment))
  \o WriteLine(t, 0)

(***************************************************************************)
(* The reader: the tree built so far, the node moves are added to, the     *)
(* nodes to return to when a variation closes.                             *)
(***************************************************************************)
Build(start) == [tree |-> [NewTree EXCEPT !.start = start], cur |-> 0, stack |-> <<>>, ok |-> TRUE]

\* san: an illegal move ends the import.
ReadSan(b, san) ==
  IF Plays(PositionAt(b.tree, b.cur), san) = Illegal THEN [b EXCEPT !.ok = FALSE]
  ELSE [b EXCEPT !.tree = AddMove(b.tree, b.cur, san), !.cur = Size(b.tree)]

\* comment: shapes and text add up, the last evaluation wins.  Commands that
\* the text itself holds are taken out of it, behind those of its head; of
\* evaluations only the first.
Blank(text) == text \in {NoComment, EmptyText}
EvalOf(c, p, old) == IF c.eval # NoEval THEN c.eval ELSE IF p.eval # NoEval THEN p.eval ELSE old
Joined(old, text) ==
  IF Blank(text) THEN old ELSE IF old = NoComment THEN text ELSE Join(old, text)
ReadComment(b, c) ==
  LET n == b.tree.nodes[b.cur]
      p == Parsed(c.text, c.eval # NoEval)
  IN [b EXCEPT !.tree.nodes[b.cur] =
        [n EXCEPT !.shapes  = n.shapes \o c.shapes \o p.shapes,
                  !.eval    = EvalOf(c, p, n.eval),
                  !.comment = Joined(n.comment, p.text)]]

\* Mutant: a variation starts behind the move it is an alternative to.
BeginVariation_Behind(b) == [b EXCEPT !.stack = Append(b.stack, b.cur)]

\* begin_variation, end_variation: the variation resumes from the parent.
BeginVariation(b) ==
  LET p == b.tree.nodes[b.cur].parent
  IN [b EXCEPT !.stack = Append(b.stack, b.cur), !.cur = IF p = NoNode THEN b.cur ELSE p]
EndVariation(b) ==
  IF b.stack = <<>> THEN b ELSE [b EXCEPT !.cur = Last(b.stack), !.stack = Front(b.stack)]

ReadToken(b, tok) ==
  IF ~b.ok THEN b
  ELSE CASE tok.is = "move"    -> ReadSan(b, tok.san)
         [] tok.is = "nag"     -> [b EXCEPT !.tree = AddNag(b.tree, b.cur, tok.nag)]
         [] tok.is = "comment" -> ReadComment(b, tok.comment)
         [] tok.is = "open"    -> BeginVariation(b)
         [] tok.is = "close"   -> EndVariation(b)
         [] tok.is = "fen"     -> b

\* from_pgn: the start is the FEN tag's, else the standard one.
FromPgn(tokens) ==
  LET start == IF tokens # <<>> /\ tokens[1].is = "fen" THEN tokens[1].start ELSE StartPos
  IN FoldLeft(ReadToken, Build(start), tokens)

(***************************************************************************)
(* What a round trip keeps: everything on a move but a comment of no       *)
(* words, its shapes as their letters can tell them; of the root only its  *)
(* comment, so glyphs, drawings and an evaluation pinned on the start are  *)
(* lost.  The ids are dealt out anew, so trees are compared once compacted.*)
(***************************************************************************)
Kept(t) ==
  LET text(n) == IF Blank(t.nodes[n].comment) THEN NoComment ELSE t.nodes[n].comment
  IN Compact([t EXCEPT !.nodes = [n \in NodeIds(t) |->
       IF n = 0 THEN [t.nodes[0] EXCEPT !.nags = <<>>, !.shapes = <<>>, !.eval = NoEval,
                                        !.comment = text(0)]
       ELSE [t.nodes[n] EXCEPT !.shapes = EncodeShapes(t.nodes[n].shapes), !.comment = text(n)]]])

\* A comment that means itself inside braces: no closing brace in it, no
\* command, no run of white space.
Plain(c) ==
  /\ Inside(c) = c /\ After(c) = <<>>
  /\ \A told \in BOOLEAN : Parsed(c, told) = [shapes |-> <<>>, eval |-> NoEval, text |-> c]

RoundTrips(t) ==
  LET back == FromPgn(ToPgn(t)) IN back.ok /\ Compact(back.tree) = Kept(t)
=============================================================================
