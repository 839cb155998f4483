----------------------------- MODULE MCOrderFlow -----------------------------
(***************************************************************************)
(* Instance of OrderFlow for TLC: windows of one id, so that every second  *)
(* removal, hidden order or trade is forgotten.                            *)
(***************************************************************************)
EXTENDS OrderFlow
=============================================================================
