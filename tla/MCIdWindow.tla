----------------------------- MODULE MCIdWindow -----------------------------
(***************************************************************************)
(* Instance of IdWindow for TLC: four ids through a window of two, enough  *)
(* adds for repeats, removes and evictions to mix and for the queue to be  *)
(* compacted more than once.                                               *)
(***************************************************************************)
EXTENDS IdWindowRefinement
=============================================================================
