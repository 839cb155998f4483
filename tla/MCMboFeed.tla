----------------------------- MODULE MCMboFeed -----------------------------
(***************************************************************************)
(* Instances of MboFeed for TLC.                                           *)
(***************************************************************************)
EXTENDS MboFeed

FeedPorts  == {"mktdata", "snapshot"}
InTurn     == <<"mktdata", "snapshot">>
Eras       == 0 .. 1
AnyBody    == {}    \* bodies are sequences of messages and never enumerated

SkewedResets ==
  [ skewed |-> TRUE, lossy |-> {}, resets |-> 1, instruments |-> {"i"}, orders |-> {1},
    packed |-> TRUE, correcting |-> "between", deltas |-> 2, groups |-> 2, beats |-> {}, ahead |-> 9 ]

SkewedTwoOrders ==
  [ skewed |-> TRUE, lossy |-> {}, resets |-> 1, instruments |-> {"i"}, orders |-> {1, 2},
    packed |-> TRUE, correcting |-> "between", deltas |-> 2, groups |-> 1, beats |-> {}, ahead |-> 9 ]

SkewedBook ==
  [ skewed |-> TRUE, lossy |-> {}, resets |-> 0, instruments |-> {"i"}, orders |-> {1, 2},
    packed |-> TRUE, correcting |-> "between", deltas |-> 2, groups |-> 2, beats |-> {}, ahead |-> 9 ]

LossyBook ==
  [ skewed |-> FALSE, lossy |-> {"mktdata", "snapshot"}, resets |-> 0, instruments |-> {"i"},
    orders |-> {1, 2}, packed |-> FALSE, correcting |-> "never",
    deltas |-> 3, groups |-> 1, beats |-> {0}, ahead |-> 1 ]

LossySnapshot ==
  [ skewed |-> FALSE, lossy |-> {"snapshot"}, resets |-> 0, instruments |-> {"i"},
    orders |-> {1}, packed |-> FALSE, correcting |-> "never",
    deltas |-> 2, groups |-> 2, beats |-> {}, ahead |-> 9 ]

Overlap ==
  [ skewed |-> FALSE, lossy |-> {}, resets |-> 0, instruments |-> {"i", "j"},
    orders |-> {1}, packed |-> FALSE, correcting |-> "during",
    deltas |-> 1, groups |-> 1, beats |-> {}, ahead |-> 9 ]

OverlapTwice ==
  [ skewed |-> FALSE, lossy |-> {}, resets |-> 0, instruments |-> {"i", "j"},
    orders |-> {1}, packed |-> FALSE, correcting |-> "during",
    deltas |-> 1, groups |-> 2, beats |-> {4}, ahead |-> 1 ]

SkewedOverlap == [OverlapTwice EXCEPT !.skewed = TRUE, !.groups = 1, !.ahead = 3]

LawfulPlans  == {SkewedResets, SkewedTwoOrders, SkewedBook, LossyBook, OverlapTwice, SkewedOverlap}
LossPlans    == {LossySnapshot}
OverlapPlans == {Overlap}
=============================================================================
