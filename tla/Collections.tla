----------------------------- MODULE Collections -----------------------------
(***************************************************************************)
(* The components around the stored data, and what two of them promise of  *)
(* the same listing.  They share no state.                                 *)
(***************************************************************************)
EXTENDS Folders, Library, MastersExplorer, GameSearch

\* However games are listed, by page number (games/mod.rs) or from a key on
\* (search/headers.rs), each game is listed exactly once.
ListingsServeOnce == PagesPartition /\ PagesRepeatNothing /\ PagesMissNothing
=============================================================================
