----------------------------- MODULE GameLibrary -----------------------------
(***************************************************************************)
(* What incremental sync promises a user about one database (ADR-0020),    *)
(* without runs, streams or cursors in flight: games appear at the         *)
(* provider in time order, a game enters the library once, and the         *)
(* horizon below which no later sync will look again may only be moved     *)
(* to a point that every acceptable published game before it has passed    *)
(* through the library.                                                    *)
(***************************************************************************)
EXTENDS Naturals

CONSTANTS
  Games, Bad,
  When     \* When[g]: the provider's time of game g, in cursor units

VARIABLES
  published,   \* games the provider offers
  library,     \* games that ever entered the library
  horizon      \* where the next incremental sync starts

Covered(h) == \A g \in published \ Bad : When[g] < h => g \in library

LibraryInit ==
  /\ published \in SUBSET Games
  /\ library = {}
  /\ horizon = 0

PublishGame(g) ==
  /\ g \notin published
  /\ \A h \in published : When[h] <= When[g]
  /\ published' = published \cup {g}
  /\ UNCHANGED <<library, horizon>>

AddGame(g) ==
  /\ g \notin library \cup Bad
  /\ library' = library \cup {g}
  /\ UNCHANGED <<published, horizon>>

MoveHorizon ==
  /\ horizon' \in Nat
  /\ Covered(horizon')
  /\ UNCHANGED <<published, library>>

LibraryNext ==
  \/ \E g \in Games : PublishGame(g) \/ AddGame(g)
  \/ MoveHorizon

LibrarySpec == LibraryInit /\ [][LibraryNext]_<<published, library, horizon>>
=============================================================================
