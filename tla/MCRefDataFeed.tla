---------------------------- MODULE MCRefDataFeed ----------------------------
(***************************************************************************)
(* Instances of RefDataFeed for TLC.                                       *)
(***************************************************************************)
EXTENDS RefDataFeed

TwoPaths == {"mktdata", "A", "B"}
InOrderOf == <<"mktdata", "A", "B">>
Eras     == 0 .. 1
AnyBody  == {}    \* bodies are sequences of messages and never enumerated

Listed(strike) == [symbol |-> 1, strike |-> strike]

OneOf(s) == {[id \in Ids |-> IF id = 1 THEN Listed(s) ELSE NoOne]}
Both(s)  == {[id \in Ids |-> Listed(s)]}

Untimed == [ skewed |-> FALSE, lossy |-> {}, resets |-> 0, paths |-> {"A"}, opening |-> {"A"}, seqs |-> {1},
             start |-> Both("pending"), moving |-> {1}, strikes |-> {"absent"}, changes |-> 2,
             sessions |-> 1, announces |-> {}, paced |-> FALSE, liberties |-> {}, cadence |-> 0, cycle |-> 0,
             length |-> 5, heartbeats |-> 0, instants |-> {0} ]

(* Set changes with loss, and ahead of their summaries; a wrap of Manifest *)
(* Seq and a reset; a session's end on two skewed ports, and a reset about *)
(* it.                                                                     *)
LossySets == [Untimed EXCEPT !.lossy = {"A"}, !.length = 5]
Ahead     == [LossySets EXCEPT !.start = OneOf("absent"), !.moving = {2},
                               !.length = 4, !.liberties = {"ahead"}]
Wrap      == [Untimed EXCEPT !.start = OneOf("pending"), !.moving = {1, 2}, !.resets = 1,
                             !.seqs = {M - 1}, !.length = 4]
Shutdown  == [Untimed EXCEPT !.skewed = TRUE, !.start = OneOf("absent"), !.changes = 0,
                             !.moving = {}, !.sessions = 2, !.announces = {"endOfSession"},
                             !.heartbeats = 1]
Restart   == [Shutdown EXCEPT !.heartbeats = 0, !.resets = 1, !.length = 3]

Timed == [Untimed EXCEPT !.start = Both("absent"), !.changes = 0, !.cadence = 1, !.cycle = 1]

(* A paced publisher and loss, and one that lets the cycle run out; a late *)
(* one that changes the set; one that stops and starts; two late paths.    *)
Paced   == [Timed EXCEPT !.paced = TRUE, !.lossy = {"A"}, !.changes = 1, !.cycle = 3,
                         !.instants = 0 .. 5, !.length = 6, !.resets = 1]
Longer  == [Paced EXCEPT !.lossy = {}, !.resets = 0, !.liberties = {"interval"}]
LateSet == [Timed EXCEPT !.changes = 1, !.instants = {0, 2, 5}]
Resumes == [Timed EXCEPT !.sessions = 2, !.instants = {0, 2, 3, 5}]
TwoLate == [Timed EXCEPT !.paths = {"A", "B"}, !.instants = {0, 2, 3, 5}, !.length = 3]

(* Of two late paths: a set each may define a part of, and a set both      *)
(* define, right at the deadline.                                          *)
TwoParts   == [TwoLate EXCEPT !.instants = {0, 3}]
TwoRepeats == [TwoLate EXCEPT !.start = OneOf("absent"), !.instants = {0, 2, 3}]

AllPlans == {LossySets, Ahead, Wrap, Shutdown, Restart, Paced, Longer, LateSet, Resumes,
             TwoParts, TwoRepeats}
Clean    == {Shutdown}
TwoArms  == {TwoLate}
=============================================================================
