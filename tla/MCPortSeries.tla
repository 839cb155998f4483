---------------------------- MODULE MCPortSeries ----------------------------
(***************************************************************************)
(* Instance of PortSeries for TLC: two ports that share the order of three *)
(* eras, whose two Reset Counts repeat, and a window of one.               *)
(***************************************************************************)
EXTENDS PortSeries
=============================================================================
