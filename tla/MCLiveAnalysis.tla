---------------------------- MODULE MCLiveAnalysis ----------------------------
(***************************************************************************)
(* LiveAnalysis on small instances.                                        *)
(***************************************************************************)
EXTENDS LiveAnalysis

MCSockets == 1 .. 2
MCSocket == {1}
=============================================================================
