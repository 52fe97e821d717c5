---------------------------- MODULE MCLichessSync ----------------------------
(***************************************************************************)
(* LichessSync on small instances: games 2 and 3 share a second, so that   *)
(* a cursor can rest on a second that still gains a game.                  *)
(***************************************************************************)
EXTENDS LichessSync, TLC

MCGames == 1 .. 4
MCGames3 == 1 .. 3
MCSecond == [g \in Games |-> CASE g = 1 -> 1 [] g \in {2, 3} -> 2 [] g = 4 -> 3]
MCUploads == {{1}}
MCNone == {}
Symmetry == Permutations(Actors)
=============================================================================
