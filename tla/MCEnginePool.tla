---------------------------- MODULE MCEnginePool ----------------------------
(***************************************************************************)
(* EnginePool on two small instances: three callers who each want one line *)
(* of a good position, and two who also want two lines and ask for a       *)
(* position that is malformed.                                             *)
(***************************************************************************)
EXTENDS EnginePool

CONSTANTS c3, p2, bad

VARIABLE scene

Scenes ==
  /\ scene = "crowd" => \A c \in Callers : task'[c].want = 1 /\ task'[c].pos # bad
  /\ scene = "modes" => task'[c3] = NoTask /\ \A c \in Callers : task'[c].pos # p2

MCInit == Init /\ scene \in {"crowd", "modes"}
MCNext == Next /\ UNCHANGED scene /\ Scenes
MCSpec == MCInit /\ [][MCNext]_<<vars, scene>> /\ Fairness
=============================================================================
