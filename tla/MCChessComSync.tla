--------------------------- MODULE MCChessComSync ---------------------------
(***************************************************************************)
(* ChessComSync on small instances: two games share a month, so that it    *)
(* can grow after it was synced, and a later game can follow them.  The    *)
(* cfg says which game is malformed.                                       *)
(***************************************************************************)
EXTENDS ChessComSync, TLC

MCGames == 1 .. 4
MCGames3 == 1 .. 3
MCMonth == [g \in Games |-> CASE g = 1 -> 1 [] g \in {2, 4} -> 2 [] g = 3 -> 3]
\* Two games in the first month, the later month's one malformed.
MCMonthTwice == [g \in Games |-> IF g = 3 THEN 2 ELSE 1]
MCUploads == {{2, 3}}
MCRemovable == {1}
MCNone == {}
Symmetry == Permutations(Actors)
=============================================================================
