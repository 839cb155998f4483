----------------------------- MODULE MCMbpFeed -----------------------------
(***************************************************************************)
(* An instance of MbpFeed for TLC: three plans, so that one run sees the   *)
(* two ports skewed, groups losing datagrams, and the resets.              *)
(***************************************************************************)
EXTENDS MbpFeed

FeedPorts  == {"mktdata", "snapshot"}
InTurn     == <<"mktdata", "snapshot">>
Eras       == 0 .. 1
AnyBody    == {}    \* bodies are sequences of messages and never enumerated

SkewedPorts ==
  [ skewed |-> TRUE, lossy |-> {}, resets |-> 0, instruments |-> {"i"}, prices |-> {1, 2},
    packed |-> TRUE, correcting |-> FALSE, deltas |-> 3, groups |-> 2, beat |-> 3, ahead |-> 9 ]

LossyGroups ==
  [ skewed |-> FALSE, lossy |-> {"snapshot"}, resets |-> 0, instruments |-> {"i", "j"},
    prices |-> {1}, packed |-> FALSE, correcting |-> FALSE, deltas |-> 1, groups |-> 2, beat |-> 0, ahead |-> 1 ]

Resets ==
  [ skewed |-> FALSE, lossy |-> {}, resets |-> 1, instruments |-> {"i"}, prices |-> {1},
    packed |-> FALSE, correcting |-> TRUE, deltas |-> 2, groups |-> 2, beat |-> 0, ahead |-> 1 ]

ThreePlans == {SkewedPorts, LossyGroups, Resets}
=============================================================================
