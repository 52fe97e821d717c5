------------------------------ MODULE MCStudies ------------------------------
(***************************************************************************)
(* Studies on a board of two or three moves, each of which can be played   *)
(* once, in any order: orders of the same moves transpose.                 *)
(***************************************************************************)
EXTENDS StudyProperties

CONSTANTS c1, c2

VARIABLE scene   \* one client with every edit, or two with a few

CoreOf(san) == CASE san = "a+" -> "a" [] OTHER -> san
PlaysOf(pos, san) ==
  IF CoreOf(san) \in pos THEN Illegal ELSE pos \cup {CoreOf(san)}
Start == {}
SetUp == {"b"}

EmptyOf == Comment(Empty, <<>>)
Own     == Comment(Prose, <<>>)
JoinOf(a, b) == a

\* Words of a user that begin as a statistic or a note does, "12 games ...";
\* words with a brace and a move behind it, "see} a"; words with a command.
UserWords(kind) == Comment(Text(kind, NoStat), <<>>)
KindOf(c)    == TextOf(c).kind
InsideOf(c)  == IF KindOf(c) = "braced" THEN Own ELSE c
AfterOf(c)   == IF KindOf(c) = "braced" THEN <<Move("a")>> ELSE <<>>
ParsedOf(c, told) ==
  [shapes |-> <<>>,
   eval   |-> IF KindOf(c) = "command" /\ ~told THEN 3 ELSE NoEval,
   text   |-> IF KindOf(c) = "command" /\ ~told THEN Own ELSE c]

Draw(orig, dest, brush) == Shape(orig, dest, brush)
MyArrow  == Draw("x", "y", "red")
MyCircle == Draw("x", NoDest, "pink")
Plan     == Draw("x", "y", "plan1")
WordsOf    == {[text |-> Own, shapes |-> <<>>], [text |-> EmptyOf, shapes |-> <<MyArrow>>]}
LookalikesOf == {[text |-> UserWords("userstats"), shapes |-> <<>>]}
BracedOf     == {[text |-> UserWords("braced"), shapes |-> <<>>]}
DrawingsOf == {<<MyArrow, MyCircle>>, <<Plan>>}

CallersOf == [c \in {c1, c2} |->
  IF c = c1 THEN Caller("alice", TRUE, FALSE, FALSE, FALSE) ELSE Caller("alice", FALSE, FALSE, FALSE, FALSE)]

Token(san) == Move(san)
Said(kind) == Braces([eval |-> NoEval, shapes |-> <<>>, text |-> UserWords(kind)])
\* Its variation is written before the main line goes on, and gets its id first.
Annotated == <<Token("a"), Braces([eval |-> 3, shapes |-> <<MyArrow>>, text |-> Own]),
               Open, Token("b"), Close, Token("b"), Nag(14)>>
ImportsOf == {
  <<FenTag(SetUp), Token("a"), Nag(1), Nag(2)>>,
  <<Token("a"), Said("userstats"), Open, Token("b"), Token("a"), Said("usernote"), Close,
    Token("b"), Said("command")>>,
  Annotated}

Game(sans, score, standard, start) ==
  [sans |-> sans, label |-> sans, score |-> score, standard |-> standard, owner |-> Global, start |-> start]
Game1 == Game(<<"a", "b">>, 2, TRUE, Start)
Game2 == Game(<<"b", "a+", "c">>, NoEval, TRUE, Start)
Game3 == Game(<<"a">>, 0, FALSE, SetUp)
GamesOf  == {Game1, Game2, Game3}
MergesOf == {<<Game1, Game2>>, <<Game2, Game3, Game2>>}

DangersOf == {[tree |-> LinearTree(<<"b", "a">>),
               tags |-> [n \in {1, 2} |-> [role |-> IF n = 1 THEN "weapon" ELSE "off_book",
                                           eval |-> IF n = 1 THEN 1 ELSE NoEval, comment |-> Comment(Text("danger", NoStat), <<>>)]]]}
VerdictOf(line) == [eval |-> Len(line), nag |-> IF Last(line) = "b" THEN 2 ELSE 0]
ArrowsOf(pos)   == IF pos = Start THEN <<>> ELSE <<Plan>>

Few == {"create", "add", "delete", "analyse", "share"}
Scenes ==
  /\ scene = "alone" => studyWrites' <= 2 /\ c2 \in DOMAIN studyReq' /\ studyReq'[c2] = Idle /\ views'[c2] = NoView
  /\ scene = "together" =>
       /\ \A c \in StudyClients : studyReq'[c].op \in Few \cup {"none"}
       /\ nextStudy' > nextStudy => studies'[nextStudy].tree \in {NewTree, FromPgn(Annotated).tree}
       /\ \A s \in DOMAIN studies' : studies'[s].owner = "alice"

MCInit == StudyInit /\ scene \in {"alone", "together"}
MCNext == StudyNext /\ UNCHANGED scene /\ Scenes
MCSpec == MCInit /\ [][MCNext]_<<studyVars, scene>>
=============================================================================
