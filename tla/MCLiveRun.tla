------------------------------ MODULE MCLiveRun ------------------------------
(***************************************************************************)
(* Instances of LiveRun for TLC. A queue of one that two datagrams fill up *)
(* is enough to block a read loop in its send; a queue of two is needed to *)
(* leave two datagrams behind.                                             *)
(***************************************************************************)
EXTENDS LiveRun

Closers  == {"main", "signal"}
TwoPorts == {"mktdata", "refdata"}

NarrowOrWide == {[room |-> 1, sends |-> 2, fair |-> TRUE], [room |-> 2, sends |-> 2, fair |-> FALSE]}
=============================================================================
