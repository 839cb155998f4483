----------------------------- MODULE ChannelFeed -----------------------------
(***************************************************************************)
(* One channel end to end: a conformant publisher that numbers each port's *)
(* datagrams from 0 in every era and resets at will, a network that loses, *)
(* duplicates and reorders, and the intake of PortSeries. What the intake  *)
(* reports here is a false finding, because the publisher does nothing     *)
(* wrong.                                                                  *)
(*                                                                         *)
(* Publisher and network are not part of the repository's program. The     *)
(* network reorders by overtaking: a datagram is passed by at most Jitter  *)
(* arrivals of its port, and passes at most Jitter datagrams that are      *)
(* still under way. --reorder-window is sized for that. The body of a      *)
(* datagram names the publisher's era, which its Reset Count repeats only  *)
(* modulo the number of values.                                            *)
(***************************************************************************)
EXTENDS PortSeries, SequencesExt

CONSTANTS
  Jitter,       \* how far the network reorders
  MaxResets     \* bound on the resets of one run

ASSUME JitterAssumption == Jitter \in Nat /\ MaxResets \in Nat

VARIABLES
  faulty,    \* whether the network loses and duplicates in this run
  feedEra,   \* the publisher's era
  sent,      \* the next sequence number of each port in that era
  net,       \* datagrams under way
  heard,     \* history: the eras the channel has heard of, in that order
  missed,    \* history: the ports with a datagram lost, dropped or forgotten
  findings,  \* rules reported as violations
  running    \* FALSE once the run has ended

feedVars == <<faulty, feedEra, sent, net, heard, missed, findings, running>>
allVars  == <<vars, feedVars>>

Transit == [port : Ports, rc : ResetCounts, seq : Seqs, body : 0 .. MaxResets,
            lag : 0 .. Jitter]

ResetCountOf(e) == e % Cardinality(ResetCounts)

ASSUME FeedAssumption ==
  \A e \in 0 .. MaxResets : ResetCountOf(e) \in ResetCounts /\ e \in Bodies

-----------------------------------------------------------------------------
(* The publisher.                                                          *)
Send(p) ==
  /\ running
  /\ sent[p] <= MaxSeq
  /\ net' = net \cup {[port |-> p, rc |-> ResetCountOf(feedEra), seq |-> sent[p],
                       body |-> feedEra, lag |-> 0]}
  /\ sent' = [sent EXCEPT ![p] = @ + 1]
  /\ UNCHANGED <<vars, faulty, feedEra, heard, missed, findings, running>>

Reset ==
  /\ running
  /\ feedEra < MaxResets
  /\ feedEra' = feedEra + 1
  /\ sent' = [p \in Ports |-> 0]
  /\ UNCHANGED <<vars, faulty, net, heard, missed, findings, running>>

-----------------------------------------------------------------------------
(* The batches classify walks for a datagram of port p: the old era's      *)
(* buffer before an advance, and the item an overflow pops.                *)
TailBatch(t, d) ==
  LET pushed == Push(t, d)
  IN  IF Overflows(pushed) THEN {<<Without(pushed, HeadOf(pushed)), {HeadOf(pushed)}>>}
                           ELSE {}

Batches(p, d) ==
  IF Quarantines(p, d) THEN {}
  ELSE TailBatch(Opened(p, d), d)
       \cup (IF Advances(p, d) THEN {<<pt[p], pt[p].buf>>} ELSE {})

BatchRules(B) ==
  (IF \E b \in B : MovesBack(b[1], FreshOf(b[1], b[2])) THEN {"SEQ_RESET_GAP"} ELSE {})
  \cup (IF \E b \in B : Diverges(b[1], b[2]) THEN {"SEQ_DUP_DIVERGENT"} ELSE {})

(* FRAME.MKTDATA_SEQ_START (market-by-order feed): the datagram that opens *)
(* a new era on the mktdata port carries sequence number 0.                *)
SeqStartViolated(p, d) ==
  p = "mktdata" /\ Advances(p, d) /\ d.seq # 0 /\ ~Late(pt[p], d)

Reported(p, d) ==
  BatchRules(Batches(p, d))
  \cup (IF SeqStartViolated(p, d) THEN {"MKTDATA_SEQ_START"} ELSE {})

-----------------------------------------------------------------------------
(* The network.                                                            *)
Older(n, m) == n.port = m.port /\ (n.body < m.body \/ (n.body = m.body /\ n.seq < m.seq))

PassedBy(d) == {n \in net : Older(n, d)}

Passing(d, S) == {IF Older(n, d) THEN [n EXCEPT !.lag = @ + 1] ELSE n : n \in S}

(* The eras a tracker holds frames of.                                     *)
ErasIn(t) == {x.body : x \in t.buf} \cup {x.body : x \in t.accepted}

(* A datagram delayed past two resets. The intake reads it as a reset (see *)
(* enqueue's comment), so its era counts as heard of again.                *)
Outlived(d) ==
  /\ \E e \in ErasIn(pt[d.port]) : d.body < e
  /\ \E e, f \in ToSet(heard) : d.body < e /\ e < f

(* The port enters an era it is in or has left: the frames it had of that  *)
(* era are forgotten.                                                      *)
Reopens(p, d) == Advances(p, d) /\ \E e \in ErasIn(pt[p]) : d.body <= e

Arrive(d) ==
  LET dg == [rc |-> d.rc, seq |-> d.seq, body |-> d.body]
  IN  /\ running
      /\ Cardinality(PassedBy(d)) <= Jitter
      /\ \A n \in PassedBy(d) : n.lag < Jitter
      /\ Process(d.port, dg)
      /\ heard' = IF d.body \in ToSet(heard) /\ ~Outlived(d) THEN heard
                  ELSE Append(heard, d.body)
      /\ missed' = IF Quarantines(d.port, dg) \/ Reopens(d.port, dg)
                     THEN missed \cup {d.port} ELSE missed
      /\ findings' = findings \cup Reported(d.port, dg)
      /\ UNCHANGED <<faulty, feedEra, sent, running>>

Deliver(d) == Arrive(d) /\ net' = Passing(d, net \ {d})

(* One copy arrives and one stays under way.                               *)
Duplicate(d) ==
  /\ faulty /\ d.lag < Jitter
  /\ Arrive(d)
  /\ net' = Passing(d, net \ {d}) \cup {[d EXCEPT !.lag = @ + 1]}

Lose(d) ==
  /\ running /\ faulty
  /\ net' = net \ {d}
  /\ missed' = missed \cup {d.port}
  /\ UNCHANGED <<vars, faulty, feedEra, sent, heard, findings, running>>

(* The run ends at any time: run.go drains the buffers, then stops.        *)
EndRun ==
  /\ running
  /\ running' = FALSE
  /\ pt' = [p \in Ports |-> Drained(pt[p])]
  /\ findings' = findings \cup BatchRules({<<pt[p], pt[p].buf>> : p \in Ports})
  /\ UNCHANGED <<pos, next, faulty, feedEra, sent, net, heard, missed>>

FeedInit ==
  /\ Init
  /\ faulty \in BOOLEAN
  /\ feedEra = 0
  /\ sent = [p \in Ports |-> 0]
  /\ net = {}
  /\ heard = << >>
  /\ missed = {}
  /\ findings = {}
  /\ running = TRUE

FeedNext ==
  \/ \E p \in Ports : Send(p)
  \/ Reset
  \/ \E d \in net : Deliver(d)
  \/ \E d \in net : Duplicate(d)
  \/ \E d \in net : Lose(d)
  \/ EndRun

FeedSpec == FeedInit /\ [][FeedNext]_allVars

(* Where there are no faults, the publisher keeps sending and the network  *)
(* keeps delivering: neither may stop for good while it has something to   *)
(* do. Neither a reset nor the end of the run is ever forced.              *)
FairFeedSpec ==
  /\ FeedSpec
  /\ WF_allVars(~faulty /\ \E p \in Ports : Send(p))
  /\ WF_allVars(~faulty /\ \E d \in net : Deliver(d))

-----------------------------------------------------------------------------
(* A reorder window no smaller than the jitter hides it completely:        *)
(* FRAME.SEQ_RESET_GAP never fires on a publisher that numbers correctly,  *)
(* whatever is lost, duplicated or delayed past a reset.                   *)
NoFalseResetGap == "SEQ_RESET_GAP" \notin findings

(* Frames of two eras that reuse a sequence number are never compared:     *)
(* FRAME.SEQ_DUP_DIVERGENT never fires while the Reset Counts of a run     *)
(* differ.                                                                 *)
NoFalseDivergence == "SEQ_DUP_DIVERGENT" \notin findings

(* While a run lasts, a window is tainted only on a port that missed a     *)
(* datagram - one was lost, or dropped as a straggler, or went with an era *)
(* the port opened twice: a reset or a reordering alone taints nothing, so *)
(* no gated rule hides behind loss that did not happen.                    *)
NoTaintWithoutLoss ==
  running => \A p \in Ports : pt[p].dirty => p \in missed

HeardInOrder(h) == \A m, n \in DOMAIN h : m < n => h[m] < h[n]

(* The datagrams that can still come once their port has entered another   *)
(* era: Jitter are under way, each as often as its lag allows. enqueue     *)
(* takes a longer run of stragglers for a reset.                           *)
StragglersFit == Jitter * (IF faulty THEN Jitter ELSE 1) <= MaxStragglers

(* A datagram delayed past a reset is a straggler and is dropped: while    *)
(* the channel hears of its eras in their order, no datagram outlives two  *)
(* resets and the stragglers fit the window, a port that holds frames of   *)
(* an era never takes one of an earlier era, however the resets and the    *)
(* delays fall.                                                            *)
StragglersReopenNoEra ==
  [][HeardInOrder(heard') /\ StragglersFit =>
       \A p \in Ports :
         \A old \in ErasIn(pt[p]), new \in ErasIn(pt'[p]) : old <= new]_allVars

(* No port is shut out of its channel: once the publisher stops resetting, *)
(* each port ends in the publisher's era, however many resets it slept     *)
(* through and whichever stragglers it took for resets on the way, where   *)
(* the network only delays and reorders.                                   *)
PortsCatchUp ==
  ~faulty => <>[](running => \A p \in Ports : ErasIn(pt[p]) = {feedEra})
=============================================================================
