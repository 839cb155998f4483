-------------------------- MODULE ChannelFeedProofs --------------------------
(***************************************************************************)
(* What the intake reports of a conformant publisher, for every window,    *)
(* jitter, number of ports and resets, whatever the network does.          *)
(*                                                                         *)
(* The feed is an instance of the open intake of PortSeries: every step of *)
(* it is a step of that specification or leaves the trackers alone. What   *)
(* PortSeriesProofs shows for any datagrams therefore holds here, and its  *)
(* inductive invariant is strengthened with what is known of the publisher *)
(* and the network: a tracker holds frames of its own Reset Count only;    *)
(* and a datagram under way has been overtaken in the heap by at most its  *)
(* lag, and in the accepted series not at all, while the heap holds        *)
(* nothing the series has passed.                                          *)
(*                                                                         *)
(* Two results follow. A window is tainted only where a datagram is        *)
(* missing: until a port misses one, every number below one it knows of is *)
(* under way, buffered or accepted, and a frame that leaves the heap over  *)
(* a hole would have overtaken a datagram under way. And a port never goes *)
(* back to an earlier era: while the channel hears of its eras in their    *)
(* order, the ordinals in eraOrder are those of the eras heard, so only a  *)
(* run of stragglers longer than the window could reopen one; and the      *)
(* stragglers a port dropped, with the arrivals that can still come, never *)
(* exceed what was under way when it entered its era.                      *)
(***************************************************************************)
EXTENDS ChannelFeed, PortSeriesProofs

(* A datagram under way, without the bound on its lag. *)
UnderWay == [port : Ports, rc : ResetCounts, seq : Seqs, body : 0 .. MaxResets, lag : Nat]

FeedTyped ==
  /\ feedEra \in 0 .. MaxResets
  /\ sent \in [Ports -> Nat]
  /\ net \in SUBSET UnderWay
  /\ \A n \in net : n.rc = ResetCountOf(n.body)

(* Frames the publisher sent under one Reset Count. *)
OfCount(S, rc) == \A x \in S : x.body \in 0 .. MaxResets /\ ResetCountOf(x.body) = rc

HoldsOwn(t) ==
  /\ t.eraPos = 0 => t.accepted = {}
  /\ OfCount(t.buf, t.era)
  /\ OfCount(t.accepted, t.era)

(* No two eras of a run share a Reset Count. *)
CountsDiffer ==
  \A e, f \in 0 .. MaxResets : ResetCountOf(e) = ResetCountOf(f) => e = f

OwnInv == NoFalseDivergence /\ \A p \in Ports : HoldsOwn(pt[p])

-----------------------------------------------------------------------------
(* The feed runs the intake.                                               *)

(* Draining an empty buffer changes nothing. *)
LEMMA NothingToDrain ==
  ASSUME NEW t \in Tracker, t.buf = {}
  PROVE  Drained(t) = t
<1>1. FreshOf(t, {}) = {}
  BY DEF FreshOf
<1>2. HighestOf(t.lastSeq, {}) = t.lastSeq /\ ~HasGap(t, {})
  BY DEF HighestOf, HasGap
<1>3. Classify(t, {}) = [t EXCEPT !.lastSeq = t.lastSeq, !.first = t.first,
                                  !.accepted = t.accepted \cup {}, !.dirty = t.dirty]
  <2>1. (t.dirty \/ HasGap(t, {})) = t.dirty
    BY <1>2 DEF Tracker
  <2>2. {[seq |-> f.seq, body |-> f.body] : f \in {}} = {}
    OBVIOUS
  <2> QED
    BY <1>1, <1>2, <2>1, <2>2 DEF Classify
<1>4. t.accepted \cup {} = t.accepted
  OBVIOUS
<1>5. Classify(t, {}) = t
  BY <1>3, <1>4 DEF Tracker
<1> QED
  BY <1>5 DEF Drained, Tracker

(* What arrives is a datagram of the intake. *)
LEMMA ArrivesTyped ==
  ASSUME FeedTyped, NEW d \in net
  PROVE  LET dg == [rc |-> d.rc, seq |-> d.seq, body |-> d.body]
         IN  /\ d.port \in Ports /\ dg \in Datagram
             /\ OfCount({dg}, dg.rc)
  BY FeedAssumption DEF FeedTyped, UnderWay, Datagram, OfCount

(* Every step of the feed is a step of the intake or none. *)
LEMMA FeedStepsIntake ==
  ASSUME IInv, FeedTyped, [FeedNext]_allVars
  PROVE  [Next]_vars
<1>1. ASSUME NEW d \in net, Arrive(d)
      PROVE  Next
  BY <1>1, ArrivesTyped DEF Arrive, Next
<1>2. CASE EndRun
  <2>1. CASE \E p \in Ports : pt[p].buf # {}
    BY <1>2, <2>1 DEF EndRun, Flush, Next
  <2>2. CASE \A p \in Ports : pt[p].buf = {}
    <3>1. pt \in [Ports -> Tracker]
      BY DEF IInv, PortsInv
    <3>2. \A p \in Ports : Drained(pt[p]) = pt[p]
      BY <2>2, <3>1, NothingToDrain
    <3> QED
      BY <1>2, <3>1, <3>2 DEF EndRun, vars
  <2> QED
    BY <2>1, <2>2
<1>3. CASE \E p \in Ports : Send(p)
  BY <1>3 DEF Send, vars
<1>4. CASE Reset
  BY <1>4 DEF Reset, vars
<1>5. CASE \E d \in net : Lose(d)
  BY <1>5 DEF Lose, vars
<1>6. CASE UNCHANGED allVars
  BY <1>6 DEF allVars, vars
<1> QED
  BY <1>1, <1>2, <1>3, <1>4, <1>5, <1>6 DEF FeedNext, Deliver, Duplicate

(* The network hands on what it was given. *)
LEMMA PassingTyped ==
  ASSUME NEW S \in SUBSET UnderWay, \A n \in S : n.rc = ResetCountOf(n.body), NEW d
  PROVE  /\ Passing(d, S) \in SUBSET UnderWay
         /\ \A n \in Passing(d, S) : n.rc = ResetCountOf(n.body)
<1>1. ASSUME NEW n \in S
      PROVE  LET m == [n EXCEPT !.lag = @ + 1]
             IN  m \in UnderWay /\ m.rc = n.rc /\ m.body = n.body
  BY DEF UnderWay
<1> QED
  BY <1>1, SMTT(30), ZenonT(30) DEF Passing

(* Every step keeps the publisher and the network as they must be. *)
LEMMA StepFeedTyped ==
  ASSUME FeedTyped, [FeedNext]_allVars
  PROVE  FeedTyped'
<1>1. ASSUME NEW p \in Ports, Send(p)
      PROVE  FeedTyped'
  <2> DEFINE new == [port |-> p, rc |-> ResetCountOf(feedEra), seq |-> sent[p],
                     body |-> feedEra, lag |-> 0]
  <2>1. sent[p] \in Seqs /\ sent' \in [Ports -> Nat] /\ feedEra' = feedEra
        /\ net' = net \cup {new}
    BY <1>1, SeqAssumption DEF Send, FeedTyped, Seqs
  <2>2. new \in UnderWay
    BY <2>1, FeedAssumption DEF UnderWay, FeedTyped
  <2> QED
    BY <2>1, <2>2 DEF FeedTyped
<1>2. CASE Reset
  BY <1>2, JitterAssumption DEF Reset, FeedTyped
<1>3. ASSUME NEW d \in net, Deliver(d)
      PROVE  FeedTyped'
  <2>1. net' = Passing(d, net \ {d}) /\ feedEra' = feedEra /\ sent' = sent
    BY <1>3 DEF Deliver, Arrive
  <2> QED
    BY <2>1, PassingTyped DEF FeedTyped
<1>4. ASSUME NEW d \in net, Duplicate(d)
      PROVE  FeedTyped'
  <2> DEFINE copy == [d EXCEPT !.lag = @ + 1]
  <2>1. net' = Passing(d, net \ {d}) \cup {copy} /\ feedEra' = feedEra /\ sent' = sent
    BY <1>4 DEF Duplicate, Arrive
  <2>2. copy \in UnderWay /\ copy.rc = d.rc /\ copy.body = d.body
    BY DEF FeedTyped, UnderWay
  <2> HIDE DEF copy
  <2>3. /\ Passing(d, net \ {d}) \in SUBSET UnderWay
        /\ \A n \in Passing(d, net \ {d}) : n.rc = ResetCountOf(n.body)
    BY PassingTyped DEF FeedTyped
  <2> QED
    BY <2>1, <2>2, <2>3 DEF FeedTyped
<1>5. ASSUME NEW d \in net, Lose(d)
      PROVE  FeedTyped'
  BY <1>5 DEF Lose, FeedTyped
<1>6. CASE EndRun
  BY <1>6 DEF EndRun, FeedTyped
<1>7. CASE UNCHANGED allVars
  BY <1>7 DEF allVars, feedVars, FeedTyped
<1> QED
  BY <1>1, <1>2, <1>3, <1>4, <1>5, <1>6, <1>7 DEF FeedNext

LEMMA FeedInitTyped == FeedInit => IInv /\ FeedTyped
<1>1. FeedInit => FeedTyped
  BY JitterAssumption DEF FeedInit, FeedTyped
<1> QED
  BY <1>1, InitIInv DEF FeedInit

(* The intake of the feed is the open intake: whatever PortSeries promises *)
(* for any datagrams, a channel with a conformant publisher inherits.      *)
THEOREM FeedRunsTheIntake == FeedSpec => Spec
<1>1. FeedInit => Init
  BY DEF FeedInit
<1>2. IInv /\ FeedTyped /\ [FeedNext]_allVars => [Next]_vars
  BY FeedStepsIntake
<1>3. IInv /\ FeedTyped /\ [FeedNext]_allVars => IInv' /\ FeedTyped'
  BY <1>2, StepIInv, StepFeedTyped
<1> QED
  BY <1>1, <1>2, <1>3, FeedInitTyped, PTL DEF FeedSpec, Spec

-----------------------------------------------------------------------------
(* Frames of one Reset Count.                                              *)

(* Two frames of one Reset Count come from one era, so no batch of them    *)
(* diverges. *)
LEMMA OwnAgree ==
  ASSUME CountsDiffer, NEW t, NEW S, NEW rc, OfCount(t.accepted, rc), OfCount(S, rc)
  PROVE  ~Diverges(t, S)
BY DEF CountsDiffer, OfCount, Diverges, FreshOf

LEMMA ClassifyOwn ==
  ASSUME NEW t \in Tracker, NEW S, NEW rc, OfCount(t.accepted, rc), OfCount(S, rc)
  PROVE  OfCount(Classify(t, S).accepted, rc)
<1>1. Classify(t, S).accepted =
        t.accepted \cup {[seq |-> f.seq, body |-> f.body] : f \in FreshOf(t, S)}
  BY DEF Classify, Tracker
<1> QED
  BY <1>1 DEF OfCount, FreshOf

LEMMA PushOwn ==
  ASSUME NEW t \in Tracker, NEW d \in Datagram, NEW rc,
         OfCount(t.buf, rc), OfCount({d}, rc)
  PROVE  OfCount(Push(t, d).buf, rc)
<1>1. PICK n : Push(t, d).buf =
        t.buf \cup {[rc |-> d.rc, seq |-> d.seq, body |-> d.body, copy |-> n]}
  BY DEF Push, Tracker
<1> QED
  BY <1>1 DEF OfCount

LEMMA PopOwn ==
  ASSUME NEW q \in Tracker, NEW h, NEW rc, OfCount(q.buf, rc)
  PROVE  OfCount(Without(q, h).buf, rc)
<1> DEFINE Lower(i) == IF i.seq = h.seq THEN [i EXCEPT !.copy = @ - 1] ELSE i
<1>1. Without(q, h).buf = {Lower(i) : i \in q.buf \ {h}}
  BY DEF Without, Tracker
<1>2. \A i \in q.buf : Lower(i).body = i.body
  BY DEF Tracker, Item
<1> QED
  BY <1>1, <1>2 DEF OfCount

(* Push and, past the window, pop: the frame that leaves the buffer agrees *)
(* with the era. *)
LEMMA IntakeOwn ==
  ASSUME CountsDiffer, NEW t, TrackerOK(t, W), NEW d \in Datagram, d.rc = t.era,
         OfCount(t.buf, t.era), OfCount(t.accepted, t.era), OfCount({d}, d.rc)
  PROVE  /\ OfCount(Intake(t, d).buf, t.era)
         /\ OfCount(Intake(t, d).accepted, t.era)
         /\ \A b \in TailBatch(t, d) : ~Diverges(b[1], b[2])
<1> DEFINE q == Push(t, d)
           h == HeadOf(q)
           r == Without(q, h)
<1>1. t \in Tracker /\ Heap(t.buf, t.era, W)
  BY DEF TrackerOK
<1>2. Heap(q.buf, t.era, W + 1) /\ q = [t EXCEPT !.buf = q.buf]
  BY <1>1, PushHeap
<1>3. OfCount(q.buf, t.era)
  BY <1>1, PushOwn
<1>4. Intake(t, d) = (IF Overflows(q) THEN Classify(r, {h}) ELSE q)
      /\ TailBatch(t, d) = IF Overflows(q) THEN {<<r, {h}>>} ELSE {}
  BY DEF Intake, PopAndClassify, TailBatch
<1> HIDE DEF q
<1>5. q \in Tracker /\ q.accepted = t.accepted /\ q.era = t.era
  <2> DEFINE b == q.buf
  <2>1. q = [t EXCEPT !.buf = b] /\ b \in SUBSET Item
    BY <1>2 DEF Heap
  <2> HIDE DEF b
  <2> QED
    BY <1>1, <2>1 DEF Tracker
<1>6. CASE ~Overflows(q)
  BY <1>3, <1>4, <1>5, <1>6
<1>7. CASE Overflows(q)
  <2>1. q.buf # {}
    BY <1>2, <1>7, FS_EmptySet, WindowAssumption DEF Overflows, Heap
  <2>2. h \in q.buf /\ Heap(r.buf, q.era, W) /\ r = [q EXCEPT !.buf = r.buf]
    BY <1>2, <1>5, <2>1, PopHeap
  <2>3. OfCount(r.buf, t.era) /\ OfCount({h}, t.era)
    <3>1. OfCount({h}, t.era)
      BY <1>3, <2>2 DEF OfCount
    <3> HIDE DEF h
    <3> QED
      BY <1>3, <1>5, <3>1, PopOwn
  <2> HIDE DEF r, h
  <2>4. r \in Tracker /\ r.accepted = t.accepted
    <3> DEFINE b == r.buf
    <3>1. r = [q EXCEPT !.buf = b] /\ b \in SUBSET Item
      BY <2>2 DEF Heap
    <3> HIDE DEF b
    <3> QED
      BY <1>5, <3>1 DEF Tracker
  <2>5. OfCount(r.accepted, t.era)
    BY <2>4
  <2>6. ~Diverges(r, {h})
    BY <2>3, <2>5, OwnAgree
  <2>7. OfCount(Classify(r, {h}).accepted, t.era)
    BY <2>3, <2>4, <2>5, ClassifyOwn
  <2>8. Classify(r, {h}).buf = r.buf
    BY <2>4 DEF Classify, Tracker
  <2>9. Intake(t, d) = Classify(r, {h}) /\ TailBatch(t, d) = {<<r, {h}>>}
    BY <1>4, <1>7
  <2>10. \A b \in TailBatch(t, d) : ~Diverges(b[1], b[2])
    BY <2>6, <2>9
  <2> QED
    BY <2>3, <2>7, <2>8, <2>9, <2>10
<1> QED
  BY <1>6, <1>7

(* The tracker a datagram is pushed into holds frames of its own Reset     *)
(* Count, and the datagram is of that Reset Count. *)
LEMMA OpenedOwn ==
  ASSUME IInv, NEW p \in Ports, HoldsOwn(pt[p]), NEW d \in Datagram, ~Quarantines(p, d)
  PROVE  LET t == Opened(p, d)
         IN  /\ TrackerOK(t, W) /\ d.rc = t.era
             /\ OfCount(t.buf, t.era) /\ OfCount(t.accepted, t.era)
             /\ t.eraPos # 0
<1>1. CASE Seeds(p, d)
  BY <1>1, SeededOK DEF HoldsOwn, OfCount, Seeds
<1>2. CASE Advances(p, d)
  BY <1>2, AdvancedOK DEF OfCount
<1>3. CASE pt[p].eraPos # 0 /\ ~OtherEra(pt[p], d)
  BY <1>3, ReceivedOK DEF HoldsOwn
<1> QED
  BY <1>1, <1>2, <1>3 DEF Seeds, Advances

(* An arrival reports no divergence and leaves every port its own frames.  *)
LEMMA ArriveOwn ==
  ASSUME CountsDiffer, IInv, FeedTyped, OwnInv, IInv', NEW d \in net, Arrive(d)
  PROVE  OwnInv'
<1> DEFINE p  == d.port
           dg == [rc |-> d.rc, seq |-> d.seq, body |-> d.body]
           t  == Opened(p, dg)
           u  == Intake(t, dg)
<1>1. p \in Ports /\ dg \in Datagram /\ OfCount({dg}, dg.rc)
  BY ArrivesTyped
<1>2. Process(p, dg) /\ findings' = findings \cup Reported(p, dg)
  BY DEF Arrive
<1> HIDE DEF p, dg
<1>3. /\ pt \in [Ports -> Tracker] /\ pt' \in [Ports -> Tracker]
      /\ \A q \in Ports : HoldsOwn(pt[q])
      /\ "SEQ_DUP_DIVERGENT" \notin findings
  BY DEF IInv, PortsInv, OwnInv, NoFalseDivergence
<1>4. CASE Quarantines(p, dg)
  <2>1. pt' = [pt EXCEPT ![p].stragglers = @ + 1]
    BY <1>2, <1>4 DEF Process, Seed, Receive, Quarantine, Advance, Seeds, Advances, Quarantines
  <2>2. \A q \in Ports : pt'[q].eraPos = pt[q].eraPos /\ pt'[q].era = pt[q].era
                         /\ pt'[q].buf = pt[q].buf /\ pt'[q].accepted = pt[q].accepted
    BY <1>1, <1>3, <2>1 DEF Tracker
  <2>3. \A q \in Ports : HoldsOwn(pt'[q])
    BY <1>3, <2>2 DEF HoldsOwn
  <2>4. "SEQ_DUP_DIVERGENT" \notin Reported(p, dg)
    BY <1>4 DEF Reported, BatchRules, Batches
  <2> QED
    BY <1>2, <1>3, <2>3, <2>4 DEF OwnInv, NoFalseDivergence
<1>5. CASE ~Quarantines(p, dg)
  <2>1. /\ TrackerOK(t, W) /\ dg.rc = t.era
        /\ OfCount(t.buf, t.era) /\ OfCount(t.accepted, t.era)
        /\ t.eraPos # 0
    BY <1>1, <1>3, <1>5, OpenedOwn
  <2>2. pt' = [pt EXCEPT ![p] = u]
    BY <1>2, <1>5 DEF Process, Seed, Receive, Quarantine, Advance
  <2> HIDE DEF t
  <2>3. /\ OfCount(u.buf, t.era) /\ OfCount(u.accepted, t.era)
        /\ \A b \in TailBatch(t, dg) : ~Diverges(b[1], b[2])
    BY <1>1, <2>1, IntakeOwn
  <2>4. u.era = t.era /\ u.eraPos = t.eraPos
    BY <1>1, <2>1, IntakeOK
  <2> HIDE DEF u
  <2>5. \A q \in Ports : HoldsOwn(pt'[q])
    BY <1>1, <1>3, <2>1, <2>2, <2>3, <2>4 DEF HoldsOwn
  <2>6. ~Diverges(pt[p], pt[p].buf)
    BY <1>1, <1>3, OwnAgree DEF HoldsOwn
  <2>7. \A b \in Batches(p, dg) : ~Diverges(b[1], b[2])
    BY <2>3, <2>6 DEF Batches, t
  <2>8. "SEQ_DUP_DIVERGENT" \notin Reported(p, dg)
    BY <2>7 DEF Reported, BatchRules
  <2> QED
    BY <1>2, <1>3, <2>5, <2>8 DEF OwnInv, NoFalseDivergence
<1> QED
  BY <1>4, <1>5

(* Draining the buffers at the end of the run compares own frames only. *)
LEMMA EndRunOwn ==
  ASSUME CountsDiffer, IInv, OwnInv, EndRun
  PROVE  OwnInv'
<1>1. \A p \in Ports : TrackerOK(pt[p], W) /\ pt[p] \in Tracker /\ HoldsOwn(pt[p])
  BY DEF IInv, PortsInv, OwnInv
<1>2. \A p \in Ports : ~Diverges(pt[p], pt[p].buf)
  BY <1>1, OwnAgree DEF HoldsOwn
<1>3. "SEQ_DUP_DIVERGENT" \notin BatchRules({<<pt[p], pt[p].buf>> : p \in Ports})
  BY <1>2 DEF BatchRules
<1>4. ASSUME NEW p \in Ports
      PROVE  HoldsOwn(Drained(pt[p]))
  <2>1. /\ Drained(pt[p]).buf = {} /\ Drained(pt[p]).era = pt[p].era
        /\ Drained(pt[p]).eraPos = pt[p].eraPos
    BY <1>1, DrainedOK
  <2>2. Classify(pt[p], pt[p].buf).accepted = Drained(pt[p]).accepted
    BY <1>1 DEF Drained, Classify, Tracker
  <2>3. OfCount(Classify(pt[p], pt[p].buf).accepted, pt[p].era)
    BY <1>1, ClassifyOwn DEF HoldsOwn
  <2>4. pt[p].eraPos = 0 => Drained(pt[p]) = pt[p]
    BY <1>1, NothingToDrain DEF IInv, PortsInv
  <2> QED
    BY <1>1, <2>1, <2>2, <2>3, <2>4 DEF HoldsOwn, OfCount
<1> QED
  BY <1>3, <1>4 DEF EndRun, OwnInv, NoFalseDivergence

(* Every step reports no divergence. *)
LEMMA StepOwn ==
  ASSUME CountsDiffer, IInv, FeedTyped, OwnInv, IInv', [FeedNext]_allVars
  PROVE  OwnInv'
<1>1. ASSUME NEW d \in net, Arrive(d)
      PROVE  OwnInv'
  BY <1>1, ArriveOwn
<1>2. CASE EndRun
  BY <1>2, EndRunOwn
<1>3. CASE UNCHANGED <<pt, findings>>
  BY <1>3 DEF OwnInv, NoFalseDivergence
<1> QED
  BY <1>1, <1>2, <1>3
  DEF FeedNext, Deliver, Duplicate, Send, Reset, Lose, allVars, vars, feedVars

(* FRAME.SEQ_DUP_DIVERGENT is never reported of a publisher whose Reset    *)
(* Counts do not come back within a run, whatever the network loses,       *)
(* duplicates or delays, at every window. *)
THEOREM DivergenceIsReal ==
  ASSUME CountsDiffer
  PROVE  FeedSpec => []NoFalseDivergence
<1>1. FeedInit => IInv /\ FeedTyped
  BY FeedInitTyped
<1>2. FeedInit => OwnInv
  BY DEF FeedInit, Init, OwnInv, NoFalseDivergence, HoldsOwn, OfCount, NewTracker
<1>3. IInv /\ FeedTyped /\ [FeedNext]_allVars => IInv' /\ FeedTyped'
  BY FeedStepsIntake, StepIInv, StepFeedTyped
<1>4. IInv /\ FeedTyped /\ OwnInv /\ IInv' /\ [FeedNext]_allVars => OwnInv'
  BY StepOwn
<1>5. OwnInv => NoFalseDivergence
  BY DEF OwnInv
<1> QED
  BY <1>1, <1>2, <1>3, <1>4, <1>5, PTL DEF FeedSpec

-----------------------------------------------------------------------------
(* Reordering within the window.                                           *)

(* A buffered item is no older than what the era has accepted, unless it   *)
(* is a copy of a frame the era has.                                       *)
Ahead(t, i) == i.seq \in SeqsOf(t.accepted) \/ \A a \in t.accepted : a.seq < i.seq

(* The buffered items that overtook a datagram still under way.            *)
Above(n, B) == {i \in B : i.body = n.body /\ i.seq > n.seq}

(* A datagram is overtaken in the buffer by no more items than its lag     *)
(* counts, and in the accepted series by none.                             *)
Awaited(n, t) ==
  /\ Cardinality(Above(n, t.buf)) <= n.lag
  /\ \A a \in t.accepted : a.body = n.body => a.seq <= n.seq

(* The publisher has sent x on port p. *)
Published(p, x) == x.body <= feedEra /\ (x.body = feedEra => x.seq < sent[p])

LagInv ==
  /\ NoFalseResetGap
  /\ \A p \in Ports : \A i \in pt[p].buf : Ahead(pt[p], i)
  /\ running =>
       /\ \A n \in net : n.lag <= Jitter /\ Published(n.port, n) /\ Awaited(n, pt[n.port])
       /\ \A p \in Ports : \A x \in pt[p].buf \cup pt[p].accepted : Published(p, x)

(* A batch of items that are ahead moves the series nowhere back. *)
LEMMA AheadMovesOn ==
  ASSUME NEW t \in Tracker, Series(t), NEW S \in SUBSET Item, \A i \in S : Ahead(t, i)
  PROVE  ~MovesBack(t, FreshOf(t, S))
<1> SUFFICES ASSUME MovesBack(t, FreshOf(t, S)) PROVE FALSE
  OBVIOUS
<1>1. PICK f \in S : f.seq \notin SeqsOf(t.accepted) /\ f.seq < t.lastSeq /\ t.lastSeq # NoSeq
  BY DEF MovesBack, FreshOf
<1>2. PICK a \in t.accepted : a.seq = t.lastSeq
  BY <1>1 DEF Series, SeqsOf
<1>3. a.seq < f.seq
  BY <1>1 DEF Ahead
<1>4. f.seq \in Int /\ t.lastSeq \in Int
  BY SeqAssumption DEF Item, Seqs, Tracker, NoSeq
<1> QED
  BY <1>1, <1>2, <1>3, <1>4

(* What Intake does to the frames of a tracker t. Its heap takes in an item *)
(* for the datagram; within the window that is all, and past it a least    *)
(* item h leaves for the accepted series, and only the ranks of the others *)
(* change.                                                                 *)
Keeps(t, d, u, B) ==
  u.buf = B /\ u.accepted = t.accepted /\ u.dirty = t.dirty /\ TailBatch(t, d) = {}

Pops(t, d, u, B, h, r, lower) ==
  /\ h \in B /\ Cardinality(B) > W
  /\ \A j \in B : h.seq <= j.seq
  /\ lower \in Surjection(B \ {h}, u.buf)
  /\ \A j \in B \ {h} : lower[j].seq = j.seq /\ lower[j].body = j.body
  /\ t.accepted \subseteq u.accepted
  /\ u.accepted \subseteq t.accepted \cup {[seq |-> h.seq, body |-> h.body]}
  /\ h.seq \in SeqsOf(u.accepted)
  /\ r \in Tracker /\ Series(r) /\ r.accepted = t.accepted
  /\ u.dirty = (t.dirty \/ HasGap(r, FreshOf(r, {h})))
  /\ TailBatch(t, d) = {<<r, {h}>>}

TakesIn(t, d, u, new) ==
  /\ new.seq = d.seq /\ new.body = d.body
  /\ IsFiniteSet(t.buf \cup {new}) /\ t.buf \cup {new} \in SUBSET Item
  /\ \/ Keeps(t, d, u, t.buf \cup {new})
     \/ \E h, r, lower : Pops(t, d, u, t.buf \cup {new}, h, r, lower)

LEMMA IntakeShape ==
  ASSUME NEW t, TrackerOK(t, W), NEW d \in Datagram, d.rc = t.era
  PROVE  \E new : TakesIn(t, d, Intake(t, d), new)
<1> DEFINE q == Push(t, d)
           h == HeadOf(q)
           r == Without(q, h)
           u == Intake(t, d)
           new == [rc |-> d.rc, seq |-> d.seq, body |-> d.body,
                   copy |-> Cardinality({i \in t.buf : i.seq = d.seq})]
           lower == [i \in q.buf \ {h} |-> IF i.seq = h.seq THEN [i EXCEPT !.copy = @ - 1] ELSE i]
<1>1. t \in Tracker /\ Heap(t.buf, t.era, W) /\ Series(t)
  BY DEF TrackerOK
<1>2. Heap(q.buf, t.era, W + 1) /\ q = [t EXCEPT !.buf = q.buf]
  BY <1>1, PushHeap
<1>3. q.buf = t.buf \cup {new} /\ new.seq = d.seq /\ new.body = d.body
  BY <1>1 DEF Push, Tracker
<1>4. u = (IF Overflows(q) THEN Classify(r, {h}) ELSE q)
      /\ TailBatch(t, d) = IF Overflows(q) THEN {<<r, {h}>>} ELSE {}
  BY DEF Intake, PopAndClassify, TailBatch
<1> HIDE DEF q, new, u
<1>5. q \in Tracker /\ q.accepted = t.accepted /\ q.dirty = t.dirty /\ q.era = t.era /\ Series(q)
  <2> DEFINE b == q.buf
  <2>1. q = [t EXCEPT !.buf = b] /\ b \in SUBSET Item
    BY <1>2 DEF Heap
  <2> HIDE DEF b
  <2> QED
    BY <1>1, <2>1 DEF Tracker, Series
<1>6. IsFiniteSet(q.buf) /\ q.buf \in SUBSET Item /\ new \in Item
  BY <1>2, <1>3 DEF Heap
<1> SUFFICES \/ Keeps(t, d, u, t.buf \cup {new})
             \/ \E h0, r0, lower0 : Pops(t, d, u, t.buf \cup {new}, h0, r0, lower0)
  <2>1. IsFiniteSet(t.buf \cup {new}) /\ t.buf \cup {new} \in SUBSET Item
    BY <1>3, <1>6
  <2>2. TakesIn(t, d, u, new)
    BY <1>3, <1>6, <2>1 DEF TakesIn
  <2> QED
    BY <2>2 DEF u
<1>7. CASE ~Overflows(q)
  <2>1. u.buf = t.buf \cup {new} /\ u.accepted = t.accepted /\ u.dirty = t.dirty
        /\ TailBatch(t, d) = {}
    BY <1>3, <1>4, <1>5, <1>7
  <2>2. Keeps(t, d, u, t.buf \cup {new})
    BY <2>1 DEF Keeps
  <2> QED
    BY <2>2
<1>8. CASE Overflows(q)
  <2>1. q.buf # {} /\ Cardinality(q.buf) > W
    BY <1>2, <1>8, FS_EmptySet, WindowAssumption DEF Overflows, Heap
  <2>2. h \in q.buf /\ h.copy = 0 /\ Heap(r.buf, q.era, W) /\ r = [q EXCEPT !.buf = r.buf]
    BY <1>2, <1>5, <2>1, PopHeap
  <2>3. \A j \in q.buf : h.seq <= j.seq
    BY <1>2, <1>5, <2>1, HeadExists DEF Heap, IsHead
  <2>4. r.buf = {lower[j] : j \in q.buf \ {h}}
    BY <1>5 DEF Without, Tracker
  <2>5. \A j \in q.buf \ {h} : lower[j].seq = j.seq /\ lower[j].body = j.body
    BY <1>6 DEF Item
  <2>51. lower = [j \in q.buf \ {h} |-> lower[j]]
    OBVIOUS
  <2> HIDE DEF r, h, lower
  <2>6. r \in Tracker /\ r.accepted = t.accepted /\ r.dirty = t.dirty /\ Series(r)
    <3> DEFINE b == r.buf
    <3>1. r = [q EXCEPT !.buf = b] /\ b \in SUBSET Item
      BY <2>2 DEF Heap
    <3> HIDE DEF b
    <3> QED
      BY <1>5, <3>1 DEF Tracker, Series
  <2>7. /\ u = Classify(r, {h}) /\ TailBatch(t, d) = {<<r, {h}>>}
        /\ u.buf = r.buf
        /\ u.accepted = r.accepted \cup {[seq |-> f.seq, body |-> f.body] : f \in FreshOf(r, {h})}
    BY <1>4, <1>8, <2>6 DEF Classify, Tracker
  <2>71. u.dirty = (t.dirty \/ HasGap(r, FreshOf(r, {h})))
    BY <1>4, <1>8, <2>6 DEF Classify, Tracker
  <2>8. /\ t.accepted \subseteq u.accepted
        /\ u.accepted \subseteq t.accepted \cup {[seq |-> h.seq, body |-> h.body]}
    BY <2>6, <2>7 DEF FreshOf
  <2>9. h.seq \in SeqsOf(u.accepted)
    <3>1. CASE h.seq \in SeqsOf(r.accepted)
      BY <2>7, <3>1 DEF SeqsOf
    <3>2. CASE h.seq \notin SeqsOf(r.accepted)
      <4>1. [seq |-> h.seq, body |-> h.body] \in u.accepted
        BY <2>2, <2>7, <3>2 DEF FreshOf
      <4> QED
        BY <4>1 DEF SeqsOf
    <3> QED
      BY <3>1, <3>2
  <2>10. lower \in Surjection(q.buf \ {h}, u.buf)
    <3>1. {lower[j] : j \in q.buf \ {h}} = u.buf
      BY <2>4, <2>7
    <3> QED
      BY <2>51, <3>1 DEF Surjection
  <2>11. Pops(t, d, u, q.buf, h, r, lower)
    BY <2>1, <2>2, <2>3, <2>5, <2>6, <2>7, <2>71, <2>8, <2>9, <2>10 DEF Pops
  <2>12. Pops(t, d, u, t.buf \cup {new}, h, r, lower)
    BY <1>3, <2>11
  <2> QED
    BY <2>12
<1> QED
  BY <1>7, <1>8

(* Taking in a datagram that nothing accepted has overtaken keeps every    *)
(* item ahead, and classifies only an item that is. *)
LEMMA IntakeAhead ==
  ASSUME NEW t, TrackerOK(t, W), NEW d \in Datagram, d.rc = t.era,
         \A i \in t.buf : Ahead(t, i), \A a \in t.accepted : a.seq <= d.seq
  PROVE  /\ \A i \in Intake(t, d).buf : Ahead(Intake(t, d), i)
         /\ \A b \in TailBatch(t, d) : ~MovesBack(b[1], FreshOf(b[1], b[2]))
<1> DEFINE u == Intake(t, d)
<1>1. PICK new : TakesIn(t, d, u, new)
  BY IntakeShape
<1> DEFINE B == t.buf \cup {new}
<1> HIDE DEF u
<1>2. t.accepted \in SUBSET Accepted /\ B \in SUBSET Item
  BY <1>1 DEF TrackerOK, Tracker, TakesIn
<1>3. \A i \in B : i.seq \in Int /\ \A a \in t.accepted : a.seq \in Int
  BY <1>2, SeqAssumption DEF Item, Accepted, Seqs
<1>4. \A i \in B : Ahead(t, i)
  <2>1. Ahead(t, new)
    BY <1>1, <1>3 DEF Ahead, SeqsOf, TakesIn
  <2> QED
    BY <2>1
<1>5. CASE Keeps(t, d, u, B)
  BY <1>4, <1>5 DEF u, Ahead, Keeps
<1>6. ASSUME NEW h, NEW r, NEW lower, Pops(t, d, u, B, h, r, lower)
      PROVE  /\ \A i \in u.buf : Ahead(u, i)
             /\ \A b \in TailBatch(t, d) : ~MovesBack(b[1], FreshOf(b[1], b[2]))
  <2> HIDE DEF B
  <2>1. /\ h \in B /\ r \in Tracker
        /\ \A j \in B : h.seq <= j.seq
        /\ \A i \in u.buf : \E j \in B : i.seq = j.seq
        /\ t.accepted \subseteq u.accepted
        /\ u.accepted \subseteq t.accepted \cup {[seq |-> h.seq, body |-> h.body]}
        /\ h.seq \in SeqsOf(u.accepted)
        /\ Series(r) /\ r.accepted = t.accepted
        /\ TailBatch(t, d) = {<<r, {h}>>}
    BY <1>6 DEF Pops, Surjection
  <2>2. ASSUME NEW i \in u.buf
        PROVE  Ahead(u, i)
    <3>1. PICK j \in B : i.seq = j.seq
      BY <2>1
    <3>2. CASE j.seq \in SeqsOf(t.accepted)
      BY <2>1, <3>1, <3>2 DEF Ahead, SeqsOf
    <3>3. CASE j.seq = h.seq
      BY <2>1, <3>1, <3>3 DEF Ahead
    <3>4. CASE j.seq \notin SeqsOf(t.accepted) /\ j.seq # h.seq
      <4>1. \A a \in t.accepted : a.seq < j.seq
        BY <1>4, <3>4 DEF Ahead
      <4>2. h.seq < j.seq
        BY <1>3, <2>1, <3>4
      <4>3. \A a \in u.accepted : a.seq < j.seq
        BY <2>1, <4>1, <4>2
      <4> QED
        BY <3>1, <4>3 DEF Ahead
    <3> QED
      BY <3>2, <3>3, <3>4
  <2>3. ~MovesBack(r, FreshOf(r, {h}))
    <3>1. Ahead(r, h) /\ h \in Item
      BY <1>2, <1>4, <2>1 DEF Ahead
    <3> QED
      BY <2>1, <3>1, AheadMovesOn
  <2> QED
    BY <2>1, <2>2, <2>3
<1> QED
  BY <1>1, <1>5, <1>6 DEF TakesIn, u

-----------------------------------------------------------------------------
(* What an arrival does to a datagram still under way.                     *)

(* At most k buffered items overtook n, and no accepted frame did.         *)
Overtaken(n, t, k) ==
  /\ Cardinality(Above(n, t.buf)) <= k
  /\ \A a \in t.accepted : a.body = n.body => a.seq <= n.seq

(* The bodies of a set of frames of one Reset Count are one era's. *)
LEMMA OwnBody ==
  ASSUME CountsDiffer, NEW S, NEW rc, OfCount(S, rc), NEW x \in S, NEW y \in S
  PROVE  x.body = y.body
BY DEF CountsDiffer, OfCount

(* The window is no smaller than the jitter, so a datagram that is passed  *)
(* at most Jitter times is never overtaken in the accepted series: the     *)
(* item that would overtake it is the least of a heap of more than Jitter  *)
(* items, all of which have overtaken it too.                              *)
LEMMA IntakeOvertaken ==
  ASSUME CountsDiffer, Jitter <= W,
         NEW t, TrackerOK(t, W), NEW d \in Datagram, d.rc = t.era,
         OfCount(t.buf, d.rc), OfCount({d}, d.rc),
         NEW n, n.seq \in Seqs, NEW j \in Nat, NEW k \in Nat,
         Overtaken(n, t, j), j <= k, k <= Jitter,
         d.body = n.body /\ d.seq > n.seq => j < k
  PROVE  Overtaken(n, Intake(t, d), k)
<1> DEFINE u == Intake(t, d)
<1>1. PICK new : TakesIn(t, d, u, new)
  BY IntakeShape
<1> DEFINE B == t.buf \cup {new}
           A == Above(n, B)
<1> HIDE DEF u
<1>2. IsFiniteSet(B) /\ B \in SUBSET Item /\ new.seq = d.seq /\ new.body = d.body
  BY <1>1 DEF TakesIn
<1>3. IsFiniteSet(A) /\ Cardinality(A) \in Nat /\ Cardinality(A) <= k
  <2> DEFINE A0 == Above(n, t.buf)
  <2>1. IsFiniteSet(A) /\ A0 \in SUBSET A
    BY <1>2, FS_Subset DEF Above
  <2>2. IsFiniteSet(A0)
    BY <2>1, FS_Subset
  <2>3. Cardinality(A0) \in Nat /\ Cardinality(A) \in Nat /\ Cardinality(A0) <= j
    BY <2>1, <2>2, FS_CardinalityType DEF Overtaken
  <2>4. CASE d.body = n.body /\ d.seq > n.seq
    <3>1. A = A0 \cup {new}
      BY <1>2, <2>4 DEF Above
    <3>2. Cardinality(A) <= Cardinality(A0) + 1
      <4>1. \/ Cardinality(A0 \cup {new}) = Cardinality(A0)
            \/ Cardinality(A0 \cup {new}) = Cardinality(A0) + 1
        BY <2>2, FS_AddElement
      <4> HIDE DEF A, A0
      <4> QED
        BY <2>3, <3>1, <4>1
    <3> HIDE DEF A, A0
    <3> QED
      BY <2>1, <2>3, <2>4, <3>2
  <2>5. CASE ~(d.body = n.body /\ d.seq > n.seq)
    <3>1. A = A0
      BY <1>2, <2>5 DEF Above
    <3> HIDE DEF A, A0
    <3> QED
      BY <2>1, <2>3, <3>1
  <2> QED
    BY <2>4, <2>5
<1>4. CASE Keeps(t, d, u, B)
  <2>1. u.buf = B /\ u.accepted = t.accepted
    BY <1>4 DEF Keeps
  <2> QED
    BY <1>3, <2>1 DEF Overtaken, u
<1>5. ASSUME NEW h, NEW r, NEW lower, Pops(t, d, u, B, h, r, lower)
      PROVE  Overtaken(n, u, k)
  <2>1. /\ h \in B /\ Cardinality(B) > W
        /\ \A i \in B : h.seq <= i.seq
        /\ lower \in Surjection(B \ {h}, u.buf)
        /\ \A i \in B \ {h} : lower[i].seq = i.seq /\ lower[i].body = i.body
        /\ u.accepted \subseteq t.accepted \cup {[seq |-> h.seq, body |-> h.body]}
    BY <1>5 DEF Pops
  <2>2. Cardinality(Above(n, u.buf)) <= k
    <3> DEFINE A1 == A \ {h}
               f  == [i \in A1 |-> lower[i]]
               C  == Above(n, u.buf)
    <3>1. A1 \subseteq B \ {h}
      BY DEF Above
    <3>2. \A i \in A1 : lower[i] \in C
      BY <2>1, <3>1 DEF Above, Surjection
    <3>3. \A c \in C : \E i \in A1 : lower[i] = c
      <4> HIDE DEF B
      <4> QED
        BY <2>1 DEF Above, Surjection
    <3>4. IsFiniteSet(A1) /\ Cardinality(A1) <= Cardinality(A)
      <4> HIDE DEF A
      <4> QED
        BY <1>3, FS_Subset
    <3> HIDE DEF A1, C
    <3>5. f \in Surjection(A1, C)
      BY <3>2, <3>3 DEF Surjection
    <3>6. IsFiniteSet(C) /\ Cardinality(C) <= Cardinality(A1)
      BY <3>4, <3>5, FS_Surjection
    <3>7. Cardinality(C) \in Nat /\ Cardinality(A1) \in Nat
      BY <3>4, <3>6, FS_CardinalityType
    <3> HIDE DEF A
    <3> QED
      BY <1>3, <3>4, <3>6, <3>7 DEF C
  <2>3. h.body = n.body => h.seq <= n.seq
    <3> SUFFICES ASSUME h.body = n.body, h.seq > n.seq PROVE FALSE
      BY <1>2, <2>1, SeqAssumption DEF Item, Seqs
    <3>1. OfCount(B, d.rc)
      BY <1>2 DEF OfCount
    <3>2. \A i \in B : i.body = n.body
      BY <2>1, <3>1, OwnBody
    <3>3. \A i \in B : i.seq > n.seq
      BY <1>2, <2>1, SeqAssumption DEF Item, Seqs
    <3>4. A = B
      BY <3>2, <3>3 DEF Above
    <3> HIDE DEF A, B
    <3> QED
      BY <1>3, <2>1, <3>4, WindowAssumption, JitterAssumption
  <2>4. \A a \in u.accepted : a.body = n.body => a.seq <= n.seq
    <3> HIDE DEF B
    <3> QED
      BY <2>1, <2>3 DEF Overtaken
  <2> QED
    BY <2>2, <2>4 DEF Overtaken
<1> QED
  BY <1>1, <1>4, <1>5 DEF TakesIn, u

(* What a tracker holds after an intake is what it held and the datagram.  *)
LEMMA IntakeHolds ==
  ASSUME NEW t, TrackerOK(t, W), NEW d \in Datagram, d.rc = t.era,
         NEW x \in Intake(t, d).buf \cup Intake(t, d).accepted
  PROVE  \E y \in t.buf \cup t.accepted \cup {d} : x.seq = y.seq /\ x.body = y.body
<1> DEFINE u == Intake(t, d)
<1>1. PICK new : TakesIn(t, d, u, new)
  BY IntakeShape
<1> DEFINE B == t.buf \cup {new}
<1> HIDE DEF u
<1>2. new.seq = d.seq /\ new.body = d.body
  BY <1>1 DEF TakesIn
<1>3. \E y \in B \cup t.accepted : x.seq = y.seq /\ x.body = y.body
  <2>1. CASE Keeps(t, d, u, B)
    BY <2>1 DEF Keeps, u
  <2>2. ASSUME NEW h, NEW r, NEW lower, Pops(t, d, u, B, h, r, lower)
        PROVE  \E y \in B \cup t.accepted : x.seq = y.seq /\ x.body = y.body
    <3> HIDE DEF B
    <3>1. /\ h \in B
          /\ \A i \in u.buf : \E j \in B : i.seq = j.seq /\ i.body = j.body
          /\ u.accepted \subseteq t.accepted \cup {[seq |-> h.seq, body |-> h.body]}
      BY <2>2 DEF Pops, Surjection
    <3> QED
      BY <3>1 DEF u
  <2> QED
    BY <1>1, <2>1, <2>2 DEF TakesIn
<1> QED
  BY <1>2, <1>3

(* The tracker a datagram is pushed into has the frames of its port, or    *)
(* none. *)
LEMMA OpenedFrames ==
  ASSUME IInv, NEW p \in Ports, HoldsOwn(pt[p]), NEW d \in Datagram, ~Quarantines(p, d)
  PROVE  LET t == Opened(p, d)
         IN  \/ t.buf = pt[p].buf /\ t.accepted = pt[p].accepted
             \/ t.buf = {} /\ t.accepted = {}
<1>1. CASE Seeds(p, d)
  BY <1>1, SeededOK DEF HoldsOwn, Seeds
<1>2. CASE Advances(p, d)
  BY <1>2, AdvancedOK
<1>3. CASE pt[p].eraPos # 0 /\ ~OtherEra(pt[p], d)
  BY <1>3, ReceivedOK
<1> QED
  BY <1>1, <1>2, <1>3 DEF Seeds, Advances

-----------------------------------------------------------------------------
(* Every step of the feed.                                                 *)

(* What stays under way when d arrives, with one more lag where d passed   *)
(* it. *)
LEMMA PassingShape ==
  ASSUME FeedTyped, LagInv, running, NEW d \in net, Arrive(d),
         Deliver(d) \/ Duplicate(d), NEW n \in net'
  PROVE  \E m \in net :
           /\ n.port = m.port /\ n.seq = m.seq /\ n.body = m.body
           /\ m.lag \in Nat /\ n.lag \in Nat
           /\ m.lag <= n.lag /\ n.lag <= Jitter
           /\ Older(m, d) => m.lag < n.lag
<1>1. \A m \in net : m \in UnderWay /\ m.lag \in Nat /\ m.lag <= Jitter
  BY DEF FeedTyped, LagInv, UnderWay
<1>2. ASSUME NEW m \in net, n = IF Older(m, d) THEN [m EXCEPT !.lag = @ + 1] ELSE m
      PROVE  /\ n.port = m.port /\ n.seq = m.seq /\ n.body = m.body
             /\ n.lag \in Nat
             /\ m.lag <= n.lag /\ n.lag <= Jitter
             /\ Older(m, d) => m.lag < n.lag
  <2>1. CASE Older(m, d)
    <3>1. m.lag < Jitter
      BY <2>1 DEF Arrive, PassedBy
    <3>2. n = [m EXCEPT !.lag = m.lag + 1]
      BY <1>2, <2>1
    <3>3. /\ n.port = m.port /\ n.seq = m.seq /\ n.body = m.body
          /\ n.lag = m.lag + 1
      BY <1>1, <3>2 DEF UnderWay
    <3> QED
      BY <1>1, <3>1, <3>3, JitterAssumption
  <2>2. CASE ~Older(m, d)
    BY <1>1, <1>2, <2>2, JitterAssumption
  <2> QED
    BY <2>1, <2>2
<1>3. CASE n \in Passing(d, net \ {d})
  <2>1. PICK m \in net : n = IF Older(m, d) THEN [m EXCEPT !.lag = @ + 1] ELSE m
    BY <1>3 DEF Passing
  <2> QED
    BY <1>1, <1>2, <2>1
<1>4. CASE n \notin Passing(d, net \ {d})
  <2>1. n = [d EXCEPT !.lag = d.lag + 1] /\ d.lag < Jitter
    BY <1>4 DEF Deliver, Duplicate
  <2>2. n.port = d.port /\ n.seq = d.seq /\ n.body = d.body /\ n.lag = d.lag + 1
    BY <1>1, <2>1 DEF UnderWay
  <2>3. d.lag \in Nat /\ d.body \in Nat /\ d.seq \in Nat
    BY <1>1, JitterAssumption, SeqAssumption DEF UnderWay, Seqs
  <2>4. ~Older(d, d)
    BY <2>3 DEF Older
  <2> QED
    BY <2>1, <2>2, <2>3, <2>4, JitterAssumption
<1> QED
  BY <1>3, <1>4

(* An arrival moves no series back, overtakes nothing beyond its lag and   *)
(* leaves nothing unpublished behind. *)
LEMMA ArriveLag ==
  ASSUME CountsDiffer, Jitter <= W, IInv, FeedTyped, OwnInv, LagInv, IInv',
         NEW d \in net, Deliver(d) \/ Duplicate(d)
  PROVE  LagInv'
<1> DEFINE p  == d.port
           dg == [rc |-> d.rc, seq |-> d.seq, body |-> d.body]
           t  == Opened(p, dg)
           u  == Intake(t, dg)
<1>1. p \in Ports /\ dg \in Datagram /\ OfCount({dg}, dg.rc)
  BY ArrivesTyped
<1>2. /\ Arrive(d) /\ running /\ Process(p, dg)
      /\ findings' = findings \cup Reported(p, dg)
      /\ UNCHANGED <<feedEra, sent, running>>
  BY DEF Deliver, Duplicate, Arrive
<1>3. /\ dg.seq = d.seq /\ dg.body = d.body /\ d.seq \in Nat
      /\ Awaited(d, pt[p]) /\ Published(p, d) /\ d.port = p
  BY <1>2, SeqAssumption DEF LagInv, FeedTyped, UnderWay, Seqs
<1>4. /\ pt \in [Ports -> Tracker] /\ pt' \in [Ports -> Tracker]
      /\ \A q \in Ports : HoldsOwn(pt[q]) /\ TrackerOK(pt[q], W)
      /\ \A q \in Ports : \A i \in pt[q].buf : Ahead(pt[q], i)
      /\ \A q \in Ports : \A x \in pt[q].buf \cup pt[q].accepted : Published(q, x)
      /\ "SEQ_RESET_GAP" \notin findings
  BY <1>2 DEF IInv, PortsInv, OwnInv, LagInv, NoFalseResetGap
<1> SUFFICES /\ "SEQ_RESET_GAP" \notin Reported(p, dg)
             /\ \A i \in pt'[p].buf : Ahead(pt'[p], i)
             /\ \A x \in pt'[p].buf \cup pt'[p].accepted : Published(p, x)
             /\ \A m \in net : \A k \in Nat :
                  /\ m.port = p /\ m.lag \in Nat /\ m.lag <= k /\ k <= Jitter
                  /\ dg.body = m.body /\ dg.seq > m.seq => m.lag < k
                  => Overtaken(m, pt'[p], k)
  <2>1. \A q \in Ports : q # p => pt'[q] = pt[q]
    BY <1>2, <1>4 DEF Process, Seed, Receive, Quarantine, Advance
  <2>2. \A q, x : Published(q, x)' <=> Published(q, x)
    BY <1>2 DEF Published
  <2>3. ASSUME NEW n \in net'
        PROVE  n.lag <= Jitter /\ Published(n.port, n)' /\ Awaited(n, pt'[n.port])
    <3>1. PICK m \in net :
            /\ n.port = m.port /\ n.seq = m.seq /\ n.body = m.body
            /\ m.lag \in Nat /\ n.lag \in Nat
            /\ m.lag <= n.lag /\ n.lag <= Jitter
            /\ Older(m, d) => m.lag < n.lag
      BY <1>2, PassingShape
    <3>2. /\ Published(n.port, n) /\ Overtaken(m, pt[m.port], m.lag)
          /\ m.port \in Ports /\ m.seq \in Nat
      BY <1>2, <3>1, SeqAssumption
      DEF LagInv, Published, Awaited, Overtaken, FeedTyped, UnderWay, Seqs
    <3>3. Overtaken(m, pt'[m.port], n.lag)
      <4>1. CASE m.port = p
        <5>1. dg.body = m.body /\ dg.seq > m.seq => m.lag < n.lag
          BY <1>3, <3>1, <3>2, <4>1 DEF Older
        <5> HIDE DEF p, dg
        <5> QED
          BY <3>1, <4>1, <5>1
      <4>2. CASE m.port # p
        <5>1. pt'[m.port] = pt[m.port]
          BY <2>1, <3>2, <4>2
        <5>2. Cardinality(Above(m, pt[m.port].buf)) \in Nat
          BY <1>4, <3>2, FS_Subset, FS_CardinalityType DEF Above, TrackerOK, Heap
        <5> QED
          BY <3>1, <3>2, <5>1, <5>2 DEF Overtaken
      <4> QED
        BY <4>1, <4>2
    <3>4. Above(n, pt'[n.port].buf) = Above(m, pt'[m.port].buf)
      BY <3>1 DEF Above
    <3> QED
      BY <2>2, <3>1, <3>2, <3>3, <3>4 DEF Overtaken, Awaited
  <2> HIDE DEF p, dg
  <2>4. \A q \in Ports : \A i \in pt'[q].buf : Ahead(pt'[q], i)
    BY <1>4, <2>1
  <2>5. \A q \in Ports : \A x \in pt'[q].buf \cup pt'[q].accepted : Published(q, x)
    BY <1>4, <2>1
  <2>6. "SEQ_RESET_GAP" \notin findings'
    BY <1>2, <1>4
  <2> QED
    BY <2>2, <2>3, <2>4, <2>5, <2>6 DEF LagInv, NoFalseResetGap, Ahead, Awaited, Above
<1> HIDE DEF p, dg
<1>5. \A m \in net : m.port = p => Overtaken(m, pt[p], m.lag) /\ m.seq \in Seqs
  BY <1>2 DEF LagInv, Awaited, Overtaken, FeedTyped, UnderWay
<1>6. CASE Quarantines(p, dg)
  <2>1. pt' = [pt EXCEPT ![p].stragglers = @ + 1]
    BY <1>2, <1>6 DEF Process, Seed, Receive, Quarantine, Advance, Seeds, Advances, Quarantines
  <2>2. pt'[p].buf = pt[p].buf /\ pt'[p].accepted = pt[p].accepted
    BY <1>1, <1>4, <2>1 DEF Tracker
  <2>3. "SEQ_RESET_GAP" \notin Reported(p, dg)
    BY <1>6 DEF Reported, BatchRules, Batches
  <2>4. ASSUME NEW m \in net, NEW k \in Nat, m.port = p, m.lag \in Nat, m.lag <= k
        PROVE  Overtaken(m, pt'[p], k)
    <3>1. Cardinality(Above(m, pt[p].buf)) \in Nat
      BY <1>1, <1>4, FS_Subset, FS_CardinalityType DEF Above, TrackerOK, Heap
    <3> QED
      BY <1>5, <2>2, <2>4, <3>1 DEF Overtaken
  <2> QED
    BY <1>1, <1>4, <2>2, <2>3, <2>4 DEF Ahead
<1>7. CASE ~Quarantines(p, dg)
  <2>1. /\ TrackerOK(t, W) /\ dg.rc = t.era
        /\ OfCount(t.buf, t.era) /\ OfCount(t.accepted, t.era)
    BY <1>1, <1>4, <1>7, OpenedOwn
  <2>2. \/ t.buf = pt[p].buf /\ t.accepted = pt[p].accepted
        \/ t.buf = {} /\ t.accepted = {}
    BY <1>1, <1>4, <1>7, OpenedFrames
  <2>3. pt'[p] = u
    BY <1>1, <1>2, <1>4, <1>7 DEF Process, Seed, Receive, Quarantine, Advance
  <2> HIDE DEF t
  <2>4. \A i \in t.buf : Ahead(t, i)
    BY <1>1, <1>4, <2>2 DEF Ahead
  <2>5. \A a \in t.accepted : a.seq <= dg.seq
    <3>1. OfCount(t.accepted \cup {dg}, dg.rc)
      BY <1>1, <2>1 DEF OfCount
    <3>2. \A a \in t.accepted : a.body = dg.body
      BY <3>1, OwnBody
    <3> QED
      BY <1>3, <2>2, <3>2 DEF Awaited
  <2>6. /\ \A i \in u.buf : Ahead(u, i)
        /\ \A b \in TailBatch(t, dg) : ~MovesBack(b[1], FreshOf(b[1], b[2]))
    BY <1>1, <2>1, <2>4, <2>5, IntakeAhead
  <2>7. ASSUME NEW x \in u.buf \cup u.accepted
        PROVE  Published(p, x)
    <3>1. PICK y \in t.buf \cup t.accepted \cup {dg} : x.seq = y.seq /\ x.body = y.body
      BY <1>1, <2>1, <2>7, IntakeHolds
    <3>2. Published(p, y)
      BY <1>1, <1>3, <1>4, <2>2, <3>1 DEF Published
    <3> QED
      BY <3>1, <3>2 DEF Published
  <2>8. ASSUME NEW m \in net, NEW k \in Nat,
               m.port = p, m.lag \in Nat, m.lag <= k, k <= Jitter,
               dg.body = m.body /\ dg.seq > m.seq => m.lag < k
        PROVE  Overtaken(m, u, k)
    <3>1. Overtaken(m, t, m.lag) /\ m.seq \in Seqs
      <4>1. CASE t.buf = pt[p].buf /\ t.accepted = pt[p].accepted
        BY <1>5, <2>8, <4>1 DEF Overtaken
      <4>2. CASE t.buf = {} /\ t.accepted = {}
        <5>1. Above(m, t.buf) = {}
          BY <4>2 DEF Above
        <5> QED
          BY <1>5, <2>8, <4>2, <5>1, FS_EmptySet, SMTT(30) DEF Overtaken
      <4> QED
        BY <2>2, <4>1, <4>2
    <3>2. OfCount(t.buf, dg.rc)
      BY <2>1
    <3> QED
      BY <1>1, <2>1, <2>8, <3>1, <3>2, IntakeOvertaken
  <2>9. ~MovesBack(pt[p], FreshOf(pt[p], pt[p].buf))
    <3>1. pt[p] \in Tracker /\ Series(pt[p]) /\ pt[p].buf \in SUBSET Item
      BY <1>1, <1>4 DEF TrackerOK, Heap
    <3> QED
      BY <1>1, <1>4, <3>1, AheadMovesOn
  <2> HIDE DEF u
  <2>10. \A b \in Batches(p, dg) : ~MovesBack(b[1], FreshOf(b[1], b[2]))
    BY <2>6, <2>9 DEF Batches, t
  <2>11. "SEQ_RESET_GAP" \notin Reported(p, dg)
    BY <2>10 DEF Reported, BatchRules
  <2> QED
    BY <2>3, <2>6, <2>7, <2>8, <2>11
<1> QED
  BY <1>6, <1>7

(* What the publisher sends is ahead of everything the channel holds. *)
LEMMA SendLag ==
  ASSUME IInv, FeedTyped, LagInv, NEW p \in Ports, Send(p)
  PROVE  LagInv'
<1> DEFINE new == [port |-> p, rc |-> ResetCountOf(feedEra), seq |-> sent[p],
                   body |-> feedEra, lag |-> 0]
<1>1. /\ net' = net \cup {new} /\ running /\ running' = running
      /\ pt' = pt /\ feedEra' = feedEra /\ findings' = findings
      /\ sent' = [sent EXCEPT ![p] = @ + 1]
  BY DEF Send, vars
<1>2. new.port = p /\ new.seq = sent[p] /\ new.body = feedEra /\ new.lag = 0
  OBVIOUS
<1> HIDE DEF new
<1>3. /\ sent \in [Ports -> Nat] /\ feedEra \in Nat
      /\ \A n \in net : n.port \in Ports /\ n.seq \in Nat
  BY SeqAssumption DEF FeedTyped, UnderWay, Seqs
<1>4. \A q \in Ports : sent[q] \in Nat /\ sent'[q] \in Nat /\ sent[q] <= sent'[q]
  BY <1>1, <1>3
<1>5. sent[p] < sent'[p]
  BY <1>1, <1>3
<1>6. ASSUME NEW q \in Ports, NEW x, x.seq \in Nat, Published(q, x)
      PROVE  Published(q, x)'
  BY <1>1, <1>4, <1>6 DEF Published
<1>7. /\ \A q \in Ports : \A x \in pt[q].buf \cup pt[q].accepted :
           x.seq \in Nat /\ Published(q, x)
      /\ IsFiniteSet(pt[p].buf)
  BY <1>1, SeqAssumption DEF IInv, PortsInv, TrackerOK, Heap, Tracker, Item, Accepted, Seqs, LagInv
<1>8. Awaited(new, pt[p])
  <2>1. Above(new, pt[p].buf) = {}
    BY <1>2, <1>3, <1>7 DEF Above, Published
  <2>2. \A a \in pt[p].accepted : a.body = new.body => a.seq <= new.seq
    BY <1>2, <1>3, <1>7 DEF Published
  <2> QED
    BY <1>2, <2>1, <2>2, FS_EmptySet DEF Awaited
<1>9. \A n \in net' : n.lag <= Jitter /\ Published(n.port, n)' /\ Awaited(n, pt[n.port])
  <2>1. ASSUME NEW n \in net
        PROVE  n.lag <= Jitter /\ Published(n.port, n)' /\ Awaited(n, pt[n.port])
    BY <1>1, <1>3, <1>6 DEF LagInv
  <2>2. ASSUME NEW n, n = new
        PROVE  n.lag <= Jitter /\ Published(n.port, n)' /\ Awaited(n, pt[n.port])
    BY <1>1, <1>2, <1>3, <1>5, <1>8, <2>2, JitterAssumption DEF Published
  <2> QED
    BY <1>1, <2>1, <2>2
<1> QED
  BY <1>1, <1>6, <1>7, <1>9 DEF LagInv, NoFalseResetGap, Ahead, Awaited, Above

(* A reset leaves everything sent so far in an earlier era. *)
LEMMA ResetLag ==
  ASSUME IInv, OwnInv, FeedTyped, LagInv, Reset
  PROVE  LagInv'
<1>1. /\ net' = net /\ running /\ running' = running
      /\ pt' = pt /\ feedEra' = feedEra + 1 /\ findings' = findings
  BY DEF Reset, vars
<1>2. \A q, x : x.body \in Nat /\ Published(q, x) => Published(q, x)'
  BY <1>1 DEF Published, FeedTyped
<1>3. /\ \A n \in net : n.body \in Nat
      /\ \A q \in Ports : \A x \in pt[q].buf \cup pt[q].accepted : x.body \in Nat
  BY JitterAssumption DEF FeedTyped, UnderWay, OwnInv, HoldsOwn, OfCount
<1> QED
  BY <1>1, <1>2, <1>3 DEF LagInv, NoFalseResetGap, Ahead, Awaited, Above

(* The final drain classifies items that are ahead, and empties the        *)
(* buffers. *)
LEMMA EndRunLag ==
  ASSUME IInv, LagInv, EndRun
  PROVE  LagInv'
<1>1. \A p \in Ports : /\ TrackerOK(pt[p], W) /\ pt[p] \in Tracker /\ Series(pt[p])
                       /\ pt[p].buf \in SUBSET Item
                       /\ \A i \in pt[p].buf : Ahead(pt[p], i)
  BY DEF IInv, PortsInv, TrackerOK, Heap, LagInv
<1>2. \A p \in Ports : ~MovesBack(pt[p], FreshOf(pt[p], pt[p].buf))
  BY <1>1, AheadMovesOn
<1>3. "SEQ_RESET_GAP" \notin BatchRules({<<pt[p], pt[p].buf>> : p \in Ports})
  BY <1>2 DEF BatchRules
<1>4. \A p \in Ports : Drained(pt[p]).buf = {}
  BY <1>1, DrainedOK
<1> QED
  BY <1>3, <1>4 DEF EndRun, LagInv, NoFalseResetGap

(* Every step keeps what is buffered ahead, and what is under way awaited. *)
LEMMA StepLag ==
  ASSUME CountsDiffer, Jitter <= W, IInv, FeedTyped, OwnInv, LagInv, IInv',
         [FeedNext]_allVars
  PROVE  LagInv'
<1>1. ASSUME NEW d \in net, Deliver(d) \/ Duplicate(d)
      PROVE  LagInv'
  BY <1>1, ArriveLag
<1>2. ASSUME NEW p \in Ports, Send(p)
      PROVE  LagInv'
  BY <1>2, SendLag
<1>3. CASE Reset
  BY <1>3, ResetLag
<1>4. CASE EndRun
  BY <1>4, EndRunLag
<1>5. CASE /\ net' \subseteq net
           /\ UNCHANGED <<pt, findings, running, feedEra, sent>>
  <2>1. \A q, x : Published(q, x)' <=> Published(q, x)
    BY <1>5 DEF Published
  <2> QED
    BY <1>5, <2>1 DEF LagInv, NoFalseResetGap, Ahead, Awaited, Above
<1>6. ASSUME NEW d \in net, Lose(d)
      PROVE  LagInv'
  BY <1>5, <1>6 DEF Lose, vars
<1>7. CASE UNCHANGED allVars
  BY <1>5, <1>7 DEF allVars, vars, feedVars
<1> QED
  BY <1>1, <1>2, <1>3, <1>4, <1>6, <1>7 DEF FeedNext

(* FRAME.SEQ_RESET_GAP is never reported of a conformant publisher while   *)
(* the reorder window is no smaller than the jitter and Reset Counts do    *)
(* not come back: whatever the network loses, duplicates or delays past a  *)
(* reset, in whichever order the ports hear of it, no series moves back.   *)
THEOREM ResetGapIsReal ==
  ASSUME CountsDiffer, Jitter <= W
  PROVE  FeedSpec => []NoFalseResetGap
<1>1. FeedInit => IInv /\ FeedTyped
  BY FeedInitTyped
<1>2. FeedInit => OwnInv
  BY DEF FeedInit, Init, OwnInv, NoFalseDivergence, HoldsOwn, OfCount, NewTracker
<1>3. FeedInit => LagInv
  BY DEF FeedInit, Init, LagInv, NoFalseResetGap, NewTracker
<1>4. IInv /\ FeedTyped /\ [FeedNext]_allVars => IInv' /\ FeedTyped'
  BY FeedStepsIntake, StepIInv, StepFeedTyped
<1>5. IInv /\ FeedTyped /\ OwnInv /\ IInv' /\ [FeedNext]_allVars => OwnInv'
  BY StepOwn
<1>6. IInv /\ FeedTyped /\ OwnInv /\ LagInv /\ IInv' /\ [FeedNext]_allVars => LagInv'
  BY StepLag
<1>7. LagInv => NoFalseResetGap
  BY DEF LagInv
<1> QED
  BY <1>1, <1>2, <1>3, <1>4, <1>5, <1>6, <1>7, PTL DEF FeedSpec

-----------------------------------------------------------------------------
(* The tracker has a frame of era e with number s. *)
Held(t, e, s) == \E x \in t.buf \cup t.accepted : x.body = e /\ x.seq = s

(* A datagram of port p, era e and number s is under way. *)
Waiting(p, e, s) == \E n \in net : n.port = p /\ n.body = e /\ n.seq = s

-----------------------------------------------------------------------------
(* What a tracker holds.                                                   *)

LEMMA ErasHeld ==
  ASSUME NEW t, NEW e
  PROVE  e \in ErasIn(t) <=> \E s : Held(t, e, s)
<1>1. ASSUME e \in ErasIn(t)
      PROVE  \E s : Held(t, e, s)
  <2>1. PICK x \in t.buf \cup t.accepted : x.body = e
    BY <1>1 DEF ErasIn
  <2>2. Held(t, e, x.seq)
    BY <2>1 DEF Held
  <2> QED
    BY <2>2
<1>2. ASSUME NEW s, Held(t, e, s)
      PROVE  e \in ErasIn(t)
  BY <1>2 DEF Held, ErasIn
<1> QED
  BY <1>1, <1>2

(* An intake forgets nothing and adds the datagram. *)
LEMMA IntakeKeeps ==
  ASSUME CountsDiffer, NEW t, TrackerOK(t, W), NEW d \in Datagram, d.rc = t.era,
         OfCount(t.buf, d.rc), OfCount(t.accepted, d.rc), OfCount({d}, d.rc),
         NEW e, NEW s
  PROVE  Held(Intake(t, d), e, s) <=> Held(t, e, s) \/ (d.body = e /\ d.seq = s)
<1> DEFINE u == Intake(t, d)
<1>1. ASSUME Held(u, e, s)
      PROVE  Held(t, e, s) \/ (d.body = e /\ d.seq = s)
  <2>1. PICK x \in Intake(t, d).buf \cup Intake(t, d).accepted : x.body = e /\ x.seq = s
    BY <1>1 DEF Held
  <2>2. PICK y \in t.buf \cup t.accepted \cup {d} : x.seq = y.seq /\ x.body = y.body
    BY <2>1, IntakeHolds
  <2> QED
    BY <2>1, <2>2 DEF Held
<1>2. ASSUME Held(t, e, s) \/ (d.body = e /\ d.seq = s)
      PROVE  Held(u, e, s)
  <2>1. PICK new : TakesIn(t, d, u, new)
    BY IntakeShape
  <2> DEFINE B == t.buf \cup {new}
  <2>2. PICK y \in B \cup t.accepted : y.body = e /\ y.seq = s
    BY <1>2, <2>1 DEF TakesIn, Held
  <2>3. OfCount(B \cup t.accepted, d.rc)
    BY <2>1 DEF TakesIn, OfCount
  <2>4. CASE Keeps(t, d, u, B)
    BY <2>2, <2>4 DEF Keeps, Held
  <2>5. ASSUME NEW h, NEW r, NEW lower, Pops(t, d, u, B, h, r, lower)
        PROVE  Held(u, e, s)
    <3> HIDE DEF B, u
    <3>1. /\ h \in B
          /\ \A j \in B \ {h} : lower[j] \in u.buf /\ lower[j].seq = j.seq /\ lower[j].body = j.body
          /\ t.accepted \subseteq u.accepted
          /\ u.accepted \subseteq t.accepted \cup {[seq |-> h.seq, body |-> h.body]}
          /\ h.seq \in SeqsOf(u.accepted)
      BY <2>5 DEF Pops, Surjection
    <3>2. CASE y \in t.accepted
      BY <2>2, <3>1, <3>2 DEF Held
    <3>3. CASE y \in B \ {h}
      BY <2>2, <3>1, <3>3 DEF Held
    <3>4. CASE y = h
      <4>1. PICK a \in u.accepted : a.seq = h.seq
        BY <3>1 DEF SeqsOf
      <4>2. a.body = h.body
        <5>1. CASE a \in t.accepted
          BY <2>3, <3>1, <5>1, OwnBody
        <5>2. CASE a \notin t.accepted
          BY <3>1, <4>1, <5>2
        <5> QED
          BY <5>1, <5>2
      <4> QED
        BY <2>2, <3>4, <4>1, <4>2 DEF Held
    <3> QED
      BY <2>2, <3>2, <3>3, <3>4
  <2> QED
    BY <2>1, <2>4, <2>5 DEF TakesIn
<1> QED
  BY <1>1, <1>2

(* A window taints only over a hole: the frame just before an accepted one *)
(* is not accepted, and nothing buffered is lower. *)
LEMMA IntakeTaints ==
  ASSUME NEW t, TrackerOK(t, W), NEW d \in Datagram, d.rc = t.era,
         ~t.dirty, Intake(t, d).dirty
  PROVE  \E a \in Intake(t, d).accepted :
           /\ a.seq - 1 \in Nat
           /\ \A x \in Intake(t, d).accepted : x.seq # a.seq - 1
           /\ \A i \in Intake(t, d).buf : a.seq <= i.seq
<1> DEFINE u == Intake(t, d)
<1>1. PICK new : TakesIn(t, d, u, new)
  BY IntakeShape
<1> DEFINE B == t.buf \cup {new}
<1> HIDE DEF u
<1>2. PICK h, r, lower : Pops(t, d, u, B, h, r, lower)
  BY <1>1 DEF TakesIn, Keeps, u
<1>3. /\ h \in B /\ B \in SUBSET Item
      /\ \A j \in B : h.seq <= j.seq
      /\ \A i \in u.buf : \E j \in B : i.seq = j.seq
      /\ u.accepted \subseteq t.accepted \cup {[seq |-> h.seq, body |-> h.body]}
      /\ h.seq \in SeqsOf(u.accepted)
      /\ r \in Tracker /\ Series(r) /\ r.accepted = t.accepted
  BY <1>1, <1>2 DEF TakesIn, Pops, Surjection
<1>4. HasGap(r, FreshOf(r, {h}))
  BY <1>2 DEF Pops, u
<1>5. /\ h.seq > r.lastSeq /\ r.lastSeq # NoSeq
      /\ h.seq - 1 # r.lastSeq
  <2>1. PICK f \in FreshOf(r, {h}) :
          /\ f.seq > r.lastSeq
          /\ f.seq - 1 \notin SeqsOf(FreshOf(r, {h})) \cup {r.lastSeq}
          /\ r.lastSeq # NoSeq \/ \E g \in FreshOf(r, {h}) : g.seq < f.seq
    BY <1>4 DEF HasGap
  <2>2. f = h /\ h.seq \in Int
    BY <1>3, SeqAssumption DEF FreshOf, Item, Seqs
  <2> QED
    BY <2>1, <2>2 DEF FreshOf
<1>6. r.lastSeq \in Nat /\ h.seq \in Nat
  BY <1>3, <1>5, SeqAssumption DEF Item, Seqs, Tracker
<1>7. PICK a \in u.accepted : a.seq = h.seq
  BY <1>3 DEF SeqsOf
<1>8. \A x \in u.accepted : x.seq # h.seq - 1
  <2>1. \A x \in t.accepted : x.seq <= r.lastSeq /\ x.seq \in Nat
    BY <1>3, SeqAssumption DEF Series, Tracker, Accepted, Seqs
  <2> QED
    BY <1>3, <1>5, <1>6, <2>1
<1>9. \A i \in u.buf : h.seq <= i.seq
  BY <1>3
<1> QED
  BY <1>5, <1>6, <1>7, <1>8, <1>9 DEF u

(* Where the datagram is pushed: what the tracker knows of the order of    *)
(* the eras, of its stragglers and of its window. *)
LEMMA OpenedPlace ==
  ASSUME IInv, NEW p \in Ports, NEW d \in Datagram, ~Quarantines(p, d)
  PROVE  LET t == Opened(p, d)
         IN  /\ Seeds(p, d) => /\ t.floorPos = t.eraPos - 1
                               /\ t.stragglers = pt[p].stragglers
                               /\ t.dirty = pt[p].dirty
             /\ Advances(p, d) => /\ t.floorPos = pt[p].eraPos
                                  /\ t.stragglers = 0
                                  /\ t.dirty = Late(pt[p], d)
             /\ ~Seeds(p, d) /\ ~Advances(p, d) =>
                  /\ t.floorPos = pt[p].floorPos
                  /\ t.stragglers = 0
                  /\ t.dirty = pt[p].dirty
<1>1. pt[p] \in Tracker /\ TrackerOK(pt[p], W)
  BY DEF IInv, PortsInv
<1>2. CASE Seeds(p, d)
  BY <1>1, <1>2 DEF Opened, Seeded, Tracker, Seeds, Advances
<1>3. CASE Advances(p, d)
  <2> DEFINE g == Drained(pt[p])
  <2>1. g \in Tracker /\ g.eraPos = pt[p].eraPos
    BY <1>1, DrainedOK DEF TrackerOK
  <2> HIDE DEF g
  <2>2. Opened(p, d) = [AdvanceEra(g, d.rc) EXCEPT !.dirty = Late(pt[p], d)]
    BY <1>3 DEF Opened, Seeds, Advances, g
  <2> QED
    BY <1>3, <2>1, <2>2 DEF AdvanceEra, Tracker, Seeds, Advances
<1>4. CASE ~Seeds(p, d) /\ ~Advances(p, d)
  BY <1>1, <1>4 DEF Opened, Tracker
<1> QED
  BY <1>2, <1>3, <1>4

-----------------------------------------------------------------------------
(* What the network does to the datagrams under way.                       *)

(* The arrival of d leaves every other datagram under way and adds none. *)
LEMMA ArrivalWaits ==
  ASSUME FeedTyped, LagInv, NEW d \in net, Deliver(d) \/ Duplicate(d),
         NEW p, NEW e, NEW s
  PROVE  /\ Waiting(p, e, s)' => Waiting(p, e, s)
         /\ Waiting(p, e, s) => \/ Waiting(p, e, s)'
                                \/ p = d.port /\ e = d.body /\ s = d.seq
<1>1. running /\ Arrive(d)
  BY DEF Deliver, Duplicate, Arrive
<1>2. ASSUME Waiting(p, e, s)'
      PROVE  Waiting(p, e, s)
  <2>1. PICK n \in net' : n.port = p /\ n.body = e /\ n.seq = s
    BY <1>2 DEF Waiting
  <2>2. PICK m \in net : n.port = m.port /\ n.seq = m.seq /\ n.body = m.body
    BY <1>1, PassingShape
  <2> QED
    BY <2>1, <2>2 DEF Waiting
<1>3. ASSUME Waiting(p, e, s), ~(p = d.port /\ e = d.body /\ s = d.seq)
      PROVE  Waiting(p, e, s)'
  <2>1. PICK m \in net : m.port = p /\ m.body = e /\ m.seq = s
    BY <1>3 DEF Waiting
  <2> DEFINE n == IF Older(m, d) THEN [m EXCEPT !.lag = @ + 1] ELSE m
  <2>2. n.port = p /\ n.body = e /\ n.seq = s
    BY <2>1 DEF FeedTyped, UnderWay
  <2>3. n \in Passing(d, net \ {d})
    BY <1>3, <2>1 DEF Passing
  <2>4. n \in net'
    BY <2>3 DEF Deliver, Duplicate
  <2> HIDE DEF n
  <2> QED
    BY <2>2, <2>4 DEF Waiting
<1> QED
  BY <1>2, <1>3

-----------------------------------------------------------------------------
(* No taint without loss.                                                  *)

(* Port p knows of the frame: it is under way or held. *)
Known(p, e, s) == Waiting(p, e, s) \/ Held(pt[p], e, s)

(* The port is in era e, or has yet to enter it. *)
Reaches(p, e) == \A b \in ErasIn(pt[p]) : b <= e

(* Nothing is missing below a frame the port knows of, in its era and in   *)
(* those it has yet to enter, nor below what the publisher sent last. *)
Dense(p) ==
  /\ \A e \in 0 .. MaxResets, s \in Nat, r \in Nat :
       Reaches(p, e) /\ Known(p, e, s) /\ r < s => Known(p, e, r)
  /\ \A r \in Nat : r < sent[p] => Known(p, feedEra, r)

Unharmed(p) == ~pt[p].dirty /\ pt[p].stragglers = 0 /\ Dense(p)

TaintInv == running => \A p \in Ports : p \notin missed => Unharmed(p)

(* Holding a frame where nothing below is missing, a tracker whose window  *)
(* has a hole would hold a frame that overtook one still under way. *)
LEMMA DenseIsClean ==
  ASSUME CountsDiffer, IInv', OwnInv', LagInv', running',
         NEW p \in Ports, Dense(p)', NEW a \in pt'[p].accepted, a.seq - 1 \in Nat,
         \A x \in pt'[p].accepted : x.seq # a.seq - 1,
         \A i \in pt'[p].buf : a.seq <= i.seq
  PROVE  FALSE
<1> DEFINE s == a.seq - 1
<1>1. /\ pt'[p] \in Tracker /\ HoldsOwn(pt'[p])
      /\ a.body \in 0 .. MaxResets /\ a.seq \in Nat
  BY SeqAssumption DEF IInv, PortsInv, OwnInv, HoldsOwn, OfCount, Tracker, Accepted, Seqs
<1>2. \A x \in pt'[p].buf \cup pt'[p].accepted : x.body = a.body
  BY <1>1, OwnBody DEF HoldsOwn, OfCount, CountsDiffer
<1>3. Reaches(p, a.body)'
  BY <1>1, <1>2 DEF Reaches, ErasIn
<1>4. Known(p, a.body, a.seq)'
  BY DEF Known, Held
<1>5. s \in Nat /\ s < a.seq
  BY <1>1
<1> HIDE DEF s
<1>6. Known(p, a.body, s)'
  BY <1>1, <1>3, <1>4, <1>5 DEF Dense
<1>7. CASE Held(pt'[p], a.body, s)
  <2>1. PICK x \in pt'[p].buf \cup pt'[p].accepted : x.seq = s
    BY <1>7 DEF Held
  <2>2. CASE x \in pt'[p].accepted
    BY <2>1, <2>2 DEF s
  <2>3. CASE x \in pt'[p].buf
    BY <1>1, <1>5, <2>1, <2>3
  <2> QED
    BY <2>1, <2>2, <2>3
<1>8. CASE Waiting(p, a.body, s)'
  <2>1. PICK n \in net' : n.port = p /\ n.body = a.body /\ n.seq = s
    BY <1>8 DEF Waiting
  <2>2. a.seq <= n.seq
    BY <2>1 DEF LagInv, Awaited
  <2> QED
    BY <1>1, <1>5, <2>1, <2>2
<1> QED
  BY <1>6, <1>7, <1>8 DEF Known

(* What a port knows after an arrival that is no straggler's: the frames   *)
(* it knew of, or those under way once it enters an era. *)
LEMMA ArriveDense ==
  ASSUME CountsDiffer, IInv, FeedTyped, OwnInv, LagInv,
         NEW d \in net, Deliver(d) \/ Duplicate(d),
         NEW p \in Ports, Dense(p),
         LET dg == [rc |-> d.rc, seq |-> d.seq, body |-> d.body]
         IN  d.port = p => ~Quarantines(p, dg) /\ ~Reopens(p, dg)
  PROVE  Dense(p)'
<1> DEFINE dg == [rc |-> d.rc, seq |-> d.seq, body |-> d.body]
           t  == Opened(p, dg)
           u  == Intake(t, dg)
<1>1. dg \in Datagram /\ OfCount({dg}, dg.rc) /\ dg.body = d.body /\ dg.seq = d.seq
  BY ArrivesTyped
<1>2. /\ Arrive(d) /\ running /\ Process(d.port, dg)
      /\ feedEra' = feedEra /\ sent' = sent
  BY DEF Deliver, Duplicate, Arrive
<1>3. /\ pt \in [Ports -> Tracker] /\ HoldsOwn(pt[p]) /\ d.port \in Ports
      /\ d.body \in Int /\ feedEra \in Int /\ d.body <= feedEra
  BY <1>2, JitterAssumption
  DEF IInv, PortsInv, OwnInv, FeedTyped, UnderWay, LagInv, Published
<1>4. \A e, s : /\ Waiting(p, e, s)' => Waiting(p, e, s)
                /\ Waiting(p, e, s) => \/ Waiting(p, e, s)'
                                       \/ p = d.port /\ e = d.body /\ s = d.seq
  BY ArrivalWaits
<1> SUFFICES
      /\ \A e \in 0 .. MaxResets, s \in Nat, r \in Nat :
           Reaches(p, e)' /\ Known(p, e, s)' /\ r < s => Known(p, e, r)'
      /\ \A r \in Nat : r < sent[p] => Known(p, feedEra, r)'
  BY <1>2 DEF Dense
<1>5. CASE d.port # p
  <2>1. pt'[p] = pt[p]
    BY <1>2, <1>3, <1>5 DEF Process, Seed, Receive, Quarantine, Advance
  <2>2. \A e, s : Known(p, e, s)' <=> Known(p, e, s)
    BY <1>4, <1>5, <2>1 DEF Known, Held
  <2>3. \A e : Reaches(p, e)' <=> Reaches(p, e)
    BY <2>1 DEF Reaches, ErasIn
  <2> QED
    BY <1>2, <2>2, <2>3 DEF Dense
<1>6. CASE d.port = p
  <2>1. ~Quarantines(p, dg) /\ ~Reopens(p, dg)
    BY <1>6
  <2>2. /\ TrackerOK(t, W) /\ dg.rc = t.era
        /\ OfCount(t.buf, t.era) /\ OfCount(t.accepted, t.era)
    BY <1>1, <1>3, <2>1, OpenedOwn
  <2>3. \/ t.buf = pt[p].buf /\ t.accepted = pt[p].accepted
        \/ t.buf = {} /\ t.accepted = {}
    BY <1>1, <1>3, <2>1, OpenedFrames
  <2>4. pt'[p] = u
    BY <1>2, <1>3, <1>6, <2>1 DEF Process, Seed, Receive, Quarantine, Advance
  <2>5. ASSUME ~(t.buf = pt[p].buf /\ t.accepted = pt[p].accepted)
        PROVE  \A e \in ErasIn(pt[p]) : e < d.body
    <3>1. CASE Seeds(p, dg)
      <4>1. pt[p].buf = {} /\ pt[p].accepted = {}
        BY <1>3, <3>1 DEF Seeds, HoldsOwn, IInv, PortsInv
      <4> QED
        BY <4>1 DEF ErasIn
    <3>2. CASE Advances(p, dg)
      <4>1. \A e \in ErasIn(pt[p]) : e \in Int
        BY <1>3 DEF HoldsOwn, OfCount, ErasIn
      <4> QED
        BY <1>1, <1>3, <2>1, <3>2, <4>1 DEF Reopens
    <3>3. CASE pt[p].eraPos # 0 /\ ~OtherEra(pt[p], dg)
      BY <1>1, <2>5, <3>3, ReceivedOK
    <3> QED
      BY <2>1, <3>1, <3>2, <3>3 DEF Seeds, Advances
  <2> HIDE DEF t, dg
  <2>6. \A e, s : Held(u, e, s) <=> Held(t, e, s) \/ (d.body = e /\ d.seq = s)
    BY <1>1, <2>2, IntakeKeeps
  <2> HIDE DEF u
  <2>7. \A e, s : Known(p, e, s)' <=> Waiting(p, e, s)' \/ Held(u, e, s)
    BY <2>4 DEF Known
  <2>8. \A e : Reaches(p, e)' => \A b, s : Held(u, b, s) => b <= e
    BY <2>4, ErasHeld DEF Reaches
  <2>9. Waiting(p, d.body, d.seq)
    BY <1>6 DEF Waiting
  <2>10. CASE t.buf = pt[p].buf /\ t.accepted = pt[p].accepted
    <3>1. \A e, s : Held(t, e, s) <=> Held(pt[p], e, s)
      BY <2>10 DEF Held
    <3>2. \A e, s : Known(p, e, s)' <=> Known(p, e, s)
      BY <1>4, <2>6, <2>7, <2>9, <3>1 DEF Known
    <3>3. \A e : Reaches(p, e)' => Reaches(p, e)
      BY <2>6, <2>8, <3>1, ErasHeld DEF Reaches
    <3> QED
      BY <1>2, <3>2, <3>3 DEF Dense
  <2>11. CASE ~(t.buf = pt[p].buf /\ t.accepted = pt[p].accepted)
    <3>1. \A e, s : ~Held(t, e, s)
      BY <2>3, <2>11 DEF Held
    <3>2. \A e, s : Held(pt[p], e, s) => e < d.body
      BY <2>5, <2>11, ErasHeld
    <3>3. \A e, s : Known(p, e, s)' => Waiting(p, e, s)
      BY <1>4, <2>6, <2>7, <2>9, <3>1
    <3>4. \A e, s : Waiting(p, e, s) => Known(p, e, s)'
      BY <1>4, <2>6, <2>7
    <3>5. ASSUME NEW e \in 0 .. MaxResets, NEW s \in Nat, NEW r \in Nat,
                 Reaches(p, e)', Known(p, e, s)', r < s
          PROVE  Known(p, e, r)'
      <4>1. d.body <= e
        BY <2>6, <2>8, <3>5
      <4>2. Reaches(p, e)
        <5> SUFFICES ASSUME NEW b \in ErasIn(pt[p]) PROVE b <= e
          BY DEF Reaches
        <5>1. b < d.body /\ b \in Int
          BY <1>3, <2>5, <2>11 DEF HoldsOwn, OfCount, ErasIn
        <5> QED
          BY <1>3, <4>1, <5>1
      <4>3. Known(p, e, s)
        BY <3>3, <3>5 DEF Known
      <4>4. Known(p, e, r)
        BY <3>5, <4>2, <4>3 DEF Dense
      <4>5. ~Held(pt[p], e, r)
        <5> SUFFICES ASSUME Held(pt[p], e, r) PROVE FALSE
          OBVIOUS
        <5>1. e < d.body
          BY <3>2
        <5> QED
          BY <1>3, <4>1, <5>1
      <4> QED
        BY <3>4, <4>4, <4>5 DEF Known
    <3>6. ASSUME NEW r \in Nat, r < sent[p]
          PROVE  Known(p, feedEra, r)'
      <4>1. Known(p, feedEra, r)
        BY <3>6 DEF Dense
      <4>2. ~Held(pt[p], feedEra, r)
        <5> SUFFICES ASSUME Held(pt[p], feedEra, r) PROVE FALSE
          OBVIOUS
        <5>1. feedEra < d.body
          BY <3>2
        <5> QED
          BY <1>3, <5>1
      <4> QED
        BY <1>2, <3>4, <4>1, <4>2 DEF Known
    <3> QED
      BY <3>5, <3>6
  <2> QED
    BY <2>10, <2>11
<1> QED
  BY <1>5, <1>6

(* An arrival taints no window of a port that misses nothing. *)
LEMMA ArriveTaint ==
  ASSUME CountsDiffer, IInv, FeedTyped, OwnInv, LagInv, TaintInv,
         IInv', OwnInv', LagInv', NEW d \in net, Deliver(d) \/ Duplicate(d)
  PROVE  TaintInv'
<1> DEFINE dg == [rc |-> d.rc, seq |-> d.seq, body |-> d.body]
           q  == d.port
<1>1. q \in Ports /\ dg \in Datagram
  BY ArrivesTyped
<1>2. /\ Arrive(d) /\ running /\ running' /\ Process(q, dg) /\ missed \subseteq missed'
      /\ Quarantines(q, dg) \/ Reopens(q, dg) => q \in missed'
  BY DEF Deliver, Duplicate, Arrive
<1>3. pt \in [Ports -> Tracker] /\ pt' \in [Ports -> Tracker]
  BY DEF IInv, PortsInv
<1> SUFFICES ASSUME NEW p \in Ports, p \notin missed'
             PROVE  Unharmed(p)'
  BY DEF TaintInv
<1>4. Unharmed(p)
  BY <1>2 DEF TaintInv
<1>5. q = p => ~Quarantines(q, dg) /\ ~Reopens(q, dg)
  BY <1>2
<1>6. Dense(p)'
  BY <1>4, <1>5, ArriveDense DEF Unharmed
<1> HIDE DEF dg, q
<1>7. CASE p # q
  <2>1. pt'[p] = pt[p]
    BY <1>1, <1>2, <1>3, <1>7 DEF Process, Seed, Receive, Quarantine, Advance
  <2> QED
    BY <1>4, <1>6, <2>1 DEF Unharmed
<1>8. CASE p = q
  <2> DEFINE t == Opened(p, dg)
             u == Intake(t, dg)
  <2>1. ~Quarantines(p, dg)
    BY <1>5, <1>8
  <2>2. TrackerOK(t, W) /\ dg.rc = t.era
    <3>1. HoldsOwn(pt[p])
      BY DEF OwnInv
    <3> QED
      BY <1>1, <2>1, <3>1, OpenedOwn
  <2>3. pt'[p] = u
    BY <1>1, <1>2, <1>3, <1>8, <2>1 DEF Process, Seed, Receive, Quarantine, Advance
  <2>4. Advances(p, dg) => ~Late(pt[p], dg)
    <3>1. pt[p].stragglers < MaxStragglers
      BY <1>4, WindowAssumption DEF Unharmed, MaxStragglers
    <3> QED
      BY <2>1, <3>1 DEF Advances, Quarantines
  <2>5. ~t.dirty /\ t.stragglers = 0
    <3>1. t.dirty \in BOOLEAN /\ ~pt[p].dirty /\ pt[p].stragglers = 0
      BY <1>4, <2>2 DEF TrackerOK, Tracker, Unharmed
    <3> HIDE DEF t
    <3>2. CASE Seeds(p, dg)
      BY <1>1, <2>1, <3>1, <3>2, OpenedPlace DEF t
    <3>3. CASE Advances(p, dg)
      BY <1>1, <2>1, <2>4, <3>1, <3>3, OpenedPlace DEF t
    <3>4. CASE ~Seeds(p, dg) /\ ~Advances(p, dg)
      BY <1>1, <2>1, <3>1, <3>4, OpenedPlace DEF t
    <3> QED
      BY <3>2, <3>3, <3>4
  <2> HIDE DEF t
  <2>6. u.stragglers = 0
    BY <1>1, <2>2, <2>5, IntakeOK
  <2>7. ~u.dirty
    <3> SUFFICES ASSUME u.dirty PROVE FALSE
      OBVIOUS
    <3>1. PICK a \in u.accepted :
            /\ a.seq - 1 \in Nat
            /\ \A x \in u.accepted : x.seq # a.seq - 1
            /\ \A i \in u.buf : a.seq <= i.seq
      BY <1>1, <2>2, <2>5, IntakeTaints
    <3> HIDE DEF u
    <3> QED
      BY <1>2, <1>6, <2>3, <3>1, DenseIsClean
  <2> HIDE DEF u
  <2> QED
    BY <1>6, <2>3, <2>6, <2>7 DEF Unharmed
<1> QED
  BY <1>7, <1>8

(* What the publisher sends follows what it sent. *)
LEMMA SendTaint ==
  ASSUME FeedTyped, TaintInv, NEW q \in Ports, Send(q)
  PROVE  TaintInv'
<1> DEFINE new == [port |-> q, rc |-> ResetCountOf(feedEra), seq |-> sent[q],
                   body |-> feedEra, lag |-> 0]
<1>1. /\ net' = net \cup {new} /\ running /\ missed' = missed
      /\ pt' = pt /\ feedEra' = feedEra
      /\ sent' = [sent EXCEPT ![q] = @ + 1]
      /\ sent \in [Ports -> Nat] /\ feedEra \in 0 .. MaxResets
  BY DEF Send, vars, FeedTyped
<1>2. new.port = q /\ new.seq = sent[q] /\ new.body = feedEra
  OBVIOUS
<1> HIDE DEF new
<1>3. \A p, e, s : Known(p, e, s)' <=> \/ Known(p, e, s)
                                       \/ p = q /\ e = feedEra /\ s = sent[q]
  BY <1>1, <1>2 DEF Known, Waiting, Held
<1>4. \A p, e : Reaches(p, e)' <=> Reaches(p, e)
  BY <1>1 DEF Reaches, ErasIn
<1>5. ASSUME NEW p \in Ports, Dense(p)
      PROVE  Dense(p)'
  <2>1. ASSUME NEW e \in 0 .. MaxResets, NEW s \in Nat, NEW r \in Nat,
               Reaches(p, e)', Known(p, e, s)', r < s
        PROVE  Known(p, e, r)'
    <3>1. CASE Known(p, e, s)
      <4>1. Known(p, e, r)
        BY <1>4, <1>5, <2>1, <3>1 DEF Dense
      <4> QED
        BY <1>3, <4>1
    <3>2. CASE p = q /\ e = feedEra /\ s = sent[q]
      <4>1. Known(p, feedEra, r)
        BY <1>5, <2>1, <3>2 DEF Dense
      <4> QED
        BY <1>3, <3>2, <4>1
    <3> QED
      BY <1>3, <2>1, <3>1, <3>2
  <2>2. ASSUME NEW r \in Nat, r < sent'[p]
        PROVE  Known(p, feedEra, r)'
    <3>1. r < sent[p] \/ (p = q /\ r = sent[q])
      BY <1>1, <2>2
    <3>2. CASE r < sent[p]
      <4>1. Known(p, feedEra, r)
        BY <1>5, <3>2 DEF Dense
      <4> QED
        BY <1>1, <1>3, <4>1
    <3>3. CASE p = q /\ r = sent[q]
      BY <1>1, <1>3, <3>3
    <3> QED
      BY <3>1, <3>2, <3>3
  <2> QED
    BY <2>1, <2>2 DEF Dense
<1> QED
  BY <1>1, <1>5 DEF TaintInv, Unharmed

(* Every step keeps a port that misses nothing unharmed. *)
LEMMA StepTaint ==
  ASSUME CountsDiffer, IInv, FeedTyped, OwnInv, LagInv, TaintInv,
         IInv', FeedTyped', OwnInv', LagInv', [FeedNext]_allVars
  PROVE  TaintInv'
<1>1. ASSUME NEW d \in net, Deliver(d) \/ Duplicate(d)
      PROVE  TaintInv'
  BY <1>1, ArriveTaint
<1>2. ASSUME NEW p \in Ports, Send(p)
      PROVE  TaintInv'
  BY <1>2, SendTaint
<1>3. CASE Reset
  <2>1. /\ net' = net /\ running /\ missed' = missed /\ pt' = pt
        /\ sent' = [p \in Ports |-> 0]
    BY <1>3 DEF Reset, vars
  <2>2. \A p, e, s : Known(p, e, s)' <=> Known(p, e, s)
    BY <2>1 DEF Known, Waiting, Held
  <2>3. \A p, e : Reaches(p, e)' <=> Reaches(p, e)
    BY <2>1 DEF Reaches, ErasIn
  <2>4. ASSUME NEW p \in Ports, Dense(p)
        PROVE  Dense(p)'
    BY <2>1, <2>2, <2>3, <2>4 DEF Dense
  <2> QED
    BY <2>1, <2>4 DEF TaintInv, Unharmed
<1>4. ASSUME NEW d \in net, Lose(d)
      PROVE  TaintInv'
  <2>1. /\ net' = net \ {d} /\ running /\ missed' = missed \cup {d.port}
        /\ UNCHANGED <<pt, sent, feedEra>>
    BY <1>4 DEF Lose, vars
  <2>2. \A p, e, s : p # d.port => (Known(p, e, s)' <=> Known(p, e, s))
    BY <2>1 DEF Known, Waiting, Held
  <2>3. \A p, e : Reaches(p, e)' <=> Reaches(p, e)
    BY <2>1 DEF Reaches, ErasIn
  <2>4. ASSUME NEW p \in Ports, p # d.port, Dense(p)
        PROVE  Dense(p)'
    BY <2>1, <2>2, <2>3, <2>4 DEF Dense
  <2> QED
    BY <2>1, <2>4 DEF TaintInv, Unharmed
<1>5. CASE EndRun
  BY <1>5 DEF EndRun, TaintInv
<1>6. CASE UNCHANGED allVars
  <2>1. UNCHANGED <<pt, sent, net, feedEra, missed, running>>
    BY <1>6 DEF allVars, vars, feedVars
  <2>2. \A p, e, s : Known(p, e, s)' <=> Known(p, e, s)
    BY <2>1 DEF Known, Waiting, Held
  <2>3. \A p, e : Reaches(p, e)' <=> Reaches(p, e)
    BY <2>1 DEF Reaches, ErasIn
  <2>4. ASSUME NEW p \in Ports, Dense(p)
        PROVE  Dense(p)'
    BY <2>1, <2>2, <2>3, <2>4 DEF Dense
  <2> QED
    BY <2>1, <2>4 DEF TaintInv, Unharmed
<1> QED
  BY <1>1, <1>2, <1>3, <1>4, <1>5, <1>6 DEF FeedNext

(* While a run lasts, the window of a port is tainted only if the port     *)
(* missed a datagram, whatever the network loses, duplicates and delays    *)
(* past a reset, and in whichever order the ports hear of the resets.      *)
THEOREM TaintIsReal ==
  ASSUME CountsDiffer, Jitter <= W
  PROVE  FeedSpec => []NoTaintWithoutLoss
<1> DEFINE Inv == IInv /\ FeedTyped /\ OwnInv /\ LagInv /\ TaintInv
<1>1. FeedInit => Inv
  <2>1. FeedInit => IInv /\ FeedTyped
    BY FeedInitTyped
  <2>2. FeedInit => OwnInv
    BY DEF FeedInit, Init, OwnInv, NoFalseDivergence, HoldsOwn, OfCount, NewTracker
  <2>3. FeedInit => LagInv
    BY DEF FeedInit, Init, LagInv, NoFalseResetGap, NewTracker
  <2>4. FeedInit => TaintInv
    <3> SUFFICES ASSUME FeedInit, NEW p \in Ports PROVE Unharmed(p)
      BY DEF TaintInv
    <3>1. /\ pt[p] = NewTracker /\ net = {} /\ sent = [r \in Ports |-> 0]
      BY DEF FeedInit, Init
    <3> QED
      BY <3>1 DEF Unharmed, Dense, Known, Waiting, Held, NewTracker
  <2> QED
    BY <2>1, <2>2, <2>3, <2>4
<1>2. Inv /\ [FeedNext]_allVars => Inv'
  <2>1. IInv /\ FeedTyped /\ [FeedNext]_allVars => IInv' /\ FeedTyped'
    BY FeedStepsIntake, StepIInv, StepFeedTyped
  <2>2. Inv /\ IInv' /\ [FeedNext]_allVars => OwnInv' /\ LagInv'
    BY StepOwn, StepLag
  <2>3. Inv /\ IInv' /\ FeedTyped' /\ OwnInv' /\ LagInv' /\ [FeedNext]_allVars => TaintInv'
    BY StepTaint
  <2> QED
    BY <2>1, <2>2, <2>3
<1>3. Inv => NoTaintWithoutLoss
  BY DEF TaintInv, Unharmed, NoTaintWithoutLoss
<1> QED
  BY <1>1, <1>2, <1>3, PTL DEF FeedSpec

-----------------------------------------------------------------------------
(* Stragglers: what is still to come of the eras a port has left.          *)

(* How often a datagram can still arrive, as the lags it may arrive with. *)
Chances(n) == IF faulty THEN n.lag .. Jitter ELSE {Jitter}

(* The arrivals on port p, of eras before e, that the network may still    *)
(* make. *)
Frames   == (0 .. MaxResets) \X Seqs
Arrivals == Frames \X (0 .. Jitter)

StillToCome(p, e) ==
  {x \in Arrivals :
     \E n \in net : /\ n.port = p /\ n.body < e
                    /\ x[1] = <<n.body, n.seq>> /\ x[2] \in Chances(n)}

Copies == IF faulty THEN Jitter ELSE 1

(* The network holds each datagram once, and finitely many. *)
NetInv ==
  /\ faulty \in BOOLEAN
  /\ IsFiniteSet(net)
  /\ \A m, n \in net : m.port = n.port /\ m.body = n.body /\ m.seq = n.seq => m = n

LEMMA ArrivalsFinite ==
  ASSUME NEW p, NEW e
  PROVE  /\ IsFiniteSet(StillToCome(p, e))
         /\ Cardinality(StillToCome(p, e)) \in Nat
<1>1. IsFiniteSet(0 .. MaxResets) /\ IsFiniteSet(Seqs) /\ IsFiniteSet(0 .. Jitter)
  BY FS_Interval, JitterAssumption, SeqAssumption DEF Seqs
<1>2. IsFiniteSet(Frames)
  BY <1>1, FS_Product DEF Frames
<1>3. IsFiniteSet(Arrivals)
  BY <1>1, <1>2, FS_Product DEF Arrivals
<1>4. StillToCome(p, e) \in SUBSET Arrivals
  BY DEF StillToCome
<1>5. IsFiniteSet(StillToCome(p, e))
  BY <1>3, <1>4, FS_Subset
<1> QED
  BY <1>5, FS_CardinalityType

(* The datagrams under way after d arrives, with the lag d gave them. *)
Passed(d, m) == IF Older(m, d) THEN [m EXCEPT !.lag = @ + 1] ELSE m

LEMMA PassedShape ==
  ASSUME FeedTyped, NEW d, NEW m \in net
  PROVE  /\ Passed(d, m).port = m.port /\ Passed(d, m).body = m.body
         /\ Passed(d, m).seq = m.seq
         /\ Passed(d, m).lag \in Nat /\ m.lag \in Nat
         /\ m.lag <= Passed(d, m).lag
         /\ Older(m, d) => 1 <= Passed(d, m).lag
BY DEF Passed, FeedTyped, UnderWay

LEMMA CopyShape ==
  ASSUME FeedTyped, NEW d \in net, NEW n, n = [d EXCEPT !.lag = @ + 1]
  PROVE  /\ n.port = d.port /\ n.body = d.body /\ n.seq = d.seq /\ n.lag = d.lag + 1
         /\ d.lag \in Nat
BY DEF FeedTyped, UnderWay

LEMMA ArrivalLeaves ==
  ASSUME NEW d \in net, NEW n \in net', Deliver(d) \/ Duplicate(d)
  PROVE  \/ \E m \in net \ {d} : n = Passed(d, m)
         \/ Duplicate(d) /\ n = [d EXCEPT !.lag = @ + 1]
BY DEF Deliver, Duplicate, Passing, Passed

(* The network goes on holding each datagram once. *)
LEMMA StepNet ==
  ASSUME FeedTyped, LagInv, NetInv, [FeedNext]_allVars
  PROVE  NetInv' /\ faulty' = faulty
<1>1. ASSUME NEW d \in net, Deliver(d) \/ Duplicate(d)
      PROVE  NetInv' /\ faulty' = faulty
  <2>1. faulty' = faulty
    BY <1>1 DEF Deliver, Duplicate, Arrive
  <2>2. IsFiniteSet(net')
    <3> DEFINE rest == net \ {d}
               f == [m \in rest |-> Passed(d, m)]
               P == {Passed(d, m) : m \in rest}
               n == [d EXCEPT !.lag = @ + 1]
    <3>1. f \in Surjection(rest, P)
      BY DEF Surjection
    <3>2. IsFiniteSet(rest)
      BY FS_Subset DEF NetInv
    <3>3. IsFiniteSet(P)
      <4> HIDE DEF f, P, rest
      <4> QED
        BY <3>1, <3>2, FS_Surjection
    <3>4. net' = P \/ net' = P \cup {n}
      BY <1>1 DEF Deliver, Duplicate, Passing, Passed
    <3> HIDE DEF P, n
    <3> QED
      BY <3>3, <3>4, FS_AddElement
  <2>3. ASSUME NEW m \in net', NEW n \in net',
               m.port = n.port, m.body = n.body, m.seq = n.seq
        PROVE  m = n
    <3> DEFINE copy == [d EXCEPT !.lag = @ + 1]
    <3>1. (\E k \in net \ {d} : m = Passed(d, k)) \/ m = copy
      BY <1>1, ArrivalLeaves
    <3>2. (\E k \in net \ {d} : n = Passed(d, k)) \/ n = copy
      BY <1>1, ArrivalLeaves
    <3>3. copy.port = d.port /\ copy.body = d.body /\ copy.seq = d.seq
      BY CopyShape
    <3> HIDE DEF copy
    <3>4. \A k \in net : /\ Passed(d, k).port = k.port /\ Passed(d, k).body = k.body
                         /\ Passed(d, k).seq = k.seq
      BY PassedShape
    <3> QED
      BY <2>3, <3>1, <3>2, <3>3, <3>4 DEF NetInv
  <2> QED
    BY <2>1, <2>2, <2>3 DEF NetInv
<1>2. ASSUME NEW p \in Ports, Send(p)
      PROVE  NetInv' /\ faulty' = faulty
  <2> DEFINE new == [port |-> p, rc |-> ResetCountOf(feedEra), seq |-> sent[p],
                     body |-> feedEra, lag |-> 0]
  <2>1. net' = net \cup {new} /\ running /\ faulty' = faulty
    BY <1>2 DEF Send
  <2>2. new.port = p /\ new.body = feedEra /\ new.seq = sent[p]
    OBVIOUS
  <2> HIDE DEF new
  <2>3. IsFiniteSet(net')
    BY <2>1, FS_AddElement DEF NetInv
  <2>4. \A n \in net : ~(n.port = p /\ n.body = feedEra /\ n.seq = sent[p])
    <3>1. \A n \in net : n.seq \in Nat /\ Published(n.port, n)
      BY <2>1, SeqAssumption DEF LagInv, FeedTyped, UnderWay, Seqs
    <3> QED
      BY <3>1 DEF Published
  <2> QED
    BY <2>1, <2>2, <2>3, <2>4 DEF NetInv
<1>3. CASE net' \subseteq net /\ faulty' = faulty
  <2>1. IsFiniteSet(net')
    BY <1>3, FS_Subset DEF NetInv
  <2> QED
    BY <1>3, <2>1 DEF NetInv
<1>4. ASSUME NEW d \in net, Lose(d)
      PROVE  NetInv' /\ faulty' = faulty
  BY <1>3, <1>4 DEF Lose
<1>5. CASE Reset
  BY <1>3, <1>5 DEF Reset
<1>6. CASE EndRun
  BY <1>3, <1>6 DEF EndRun
<1>7. CASE UNCHANGED allVars
  BY <1>3, <1>7 DEF allVars, feedVars
<1> QED
  BY <1>1, <1>2, <1>4, <1>5, <1>6, <1>7 DEF FeedNext

(* An arrival adds nothing to what is still to come. *)
LEMMA ArrivalsShrink ==
  ASSUME FeedTyped, LagInv, NetInv, NEW d \in net, Deliver(d) \/ Duplicate(d),
         NEW p, NEW e
  PROVE  StillToCome(p, e)' \subseteq StillToCome(p, e)
<1> SUFFICES ASSUME NEW x \in Arrivals, NEW n \in net',
                    n.port = p, n.body < e, x[1] = <<n.body, n.seq>>,
                    x[2] \in Chances(n)'
             PROVE  \E m \in net : /\ m.port = p /\ m.body < e
                                   /\ x[1] = <<m.body, m.seq>> /\ x[2] \in Chances(m)
  BY DEF StillToCome
<1>1. running /\ Arrive(d) /\ faulty' = faulty
  BY DEF Deliver, Duplicate, Arrive
<1>2. PICK m \in net :
        /\ n.port = m.port /\ n.seq = m.seq /\ n.body = m.body
        /\ m.lag \in Nat /\ n.lag \in Nat /\ m.lag <= n.lag
  BY <1>1, PassingShape
<1>3. x[2] \in Chances(m)
  BY <1>1, <1>2, JitterAssumption DEF Chances
<1> QED
  BY <1>2, <1>3

(* An arrival of an era that is left behind uses up one that was to come. *)
LEMMA ArrivalCounts ==
  ASSUME FeedTyped, LagInv, NetInv, NEW d \in net, Deliver(d) \/ Duplicate(d),
         NEW e, d.body < e
  PROVE  /\ Cardinality(StillToCome(d.port, e)) >= 1
         /\ Cardinality(StillToCome(d.port, e)') <= Cardinality(StillToCome(d.port, e)) - 1
<1> DEFINE p == d.port
           S == StillToCome(p, e)
           T == StillToCome(p, e)'
<1>1. running /\ faulty' = faulty /\ faulty \in BOOLEAN
  BY DEF Deliver, Duplicate, Arrive, NetInv
<1>2. /\ d.body \in 0 .. MaxResets /\ d.seq \in Seqs /\ d.lag \in Nat /\ d.lag <= Jitter
      /\ Jitter \in Nat
  BY <1>1, JitterAssumption DEF FeedTyped, UnderWay, LagInv
<1> DEFINE k == IF Deliver(d) THEN Jitter ELSE d.lag
           x == <<<<d.body, d.seq>>, k>>
<1>3. x \in Arrivals /\ k \in Chances(d)
  <2>1. k \in 0 .. Jitter /\ (faulty => k \in d.lag .. Jitter)
    BY <1>2
  <2>2. ~Deliver(d) => faulty
    BY DEF Duplicate
  <2> QED
    BY <1>2, <2>1, <2>2 DEF Arrivals, Frames, Chances
<1> HIDE DEF k
<1>4. x \in S
  BY <1>3 DEF StillToCome
<1>5. x \notin T
  <2> SUFFICES ASSUME NEW n \in net', n.port = p, n.body = d.body, n.seq = d.seq,
                      k \in Chances(n)'
               PROVE  FALSE
    BY DEF StillToCome
  <2>1. ASSUME NEW m \in net \ {d}
        PROVE  n # Passed(d, m)
    BY PassedShape DEF NetInv
  <2>2. ~Deliver(d)
    BY <2>1 DEF Deliver, Passing, Passed
  <2>3. Duplicate(d) /\ n = [d EXCEPT !.lag = @ + 1]
    BY <2>1, ArrivalLeaves
  <2>4. n.lag = d.lag + 1
    BY <2>3, CopyShape
  <2>5. faulty /\ k = d.lag
    BY <2>2, <2>3 DEF Duplicate, k
  <2> QED
    BY <1>1, <1>2, <2>4, <2>5 DEF Chances
<1>6. T \subseteq S
  BY ArrivalsShrink
<1>7. IsFiniteSet(S) /\ Cardinality(S) \in Nat
  BY ArrivalsFinite
<1> HIDE DEF S, T, x
<1>8. /\ IsFiniteSet(S \ {x}) /\ Cardinality(S \ {x}) = Cardinality(S) - 1
      /\ Cardinality(S \ {x}) \in Nat
  BY <1>4, <1>7, FS_RemoveElement, FS_CardinalityType
<1>9. T \in SUBSET (S \ {x})
  BY <1>5, <1>6
<1>10. Cardinality(T) <= Cardinality(S \ {x})
  BY <1>8, <1>9, FS_Subset
<1> QED
  BY <1>7, <1>8, <1>10 DEF S, T

(* When d opens an era, at most Jitter datagrams of earlier ones are under *)
(* way on its port, and d has passed each. *)
LEMMA EntryBound ==
  ASSUME FeedTyped, LagInv, NetInv, NEW d \in net, Deliver(d) \/ Duplicate(d)
  PROVE  Cardinality(StillToCome(d.port, d.body)') <= Jitter * Copies
<1> DEFINE p == d.port
           S == PassedBy(d)
           X == {<<m.body, m.seq>> : m \in S}
           K == IF faulty THEN 1 .. Jitter ELSE {Jitter}
           T == StillToCome(p, d.body)'
<1>1. running /\ Arrive(d) /\ faulty' = faulty /\ faulty \in BOOLEAN
      /\ Jitter \in Nat /\ Cardinality(S) <= Jitter
  BY JitterAssumption DEF Deliver, Duplicate, Arrive, NetInv
<1>2. IsFiniteSet(S) /\ Cardinality(S) \in Nat
  BY FS_Subset, FS_CardinalityType DEF PassedBy, NetInv
<1>3. IsFiniteSet(X) /\ Cardinality(X) \in Nat /\ Cardinality(X) <= Jitter
  <2> DEFINE f == [m \in S |-> <<m.body, m.seq>>]
  <2>1. f \in Surjection(S, X)
    BY DEF Surjection
  <2> HIDE DEF f, S, X
  <2>2. IsFiniteSet(X) /\ Cardinality(X) <= Cardinality(S)
    BY <1>2, <2>1, FS_Surjection
  <2>3. Cardinality(X) \in Nat
    BY <2>2, FS_CardinalityType
  <2> QED
    BY <1>1, <1>2, <2>2, <2>3
<1>4. IsFiniteSet(K) /\ Cardinality(K) = Copies
  <2>1. IsFiniteSet(1 .. Jitter) /\ Cardinality(1 .. Jitter) = Jitter
    <3>1. 1 \in Int /\ Jitter \in Int
      BY <1>1
    <3>2. /\ IsFiniteSet(1 .. Jitter)
          /\ Cardinality(1 .. Jitter) = IF 1 > Jitter THEN 0 ELSE Jitter - 1 + 1
      BY <3>1, FS_Interval
    <3> QED
      BY <1>1, <3>2
  <2>2. IsFiniteSet({Jitter}) /\ Cardinality({Jitter}) = 1
    BY FS_Singleton
  <2> QED
    BY <2>1, <2>2 DEF Copies
<1>5. T \subseteq X \X K
  <2> SUFFICES ASSUME NEW x \in Arrivals, NEW n \in net',
                      n.port = p, n.body < d.body, x[1] = <<n.body, n.seq>>,
                      x[2] \in Chances(n)'
               PROVE  x \in X \X K
    BY DEF StillToCome
  <2>1. PICK m \in net :
          /\ n.port = m.port /\ n.seq = m.seq /\ n.body = m.body
          /\ m.lag \in Nat /\ n.lag \in Nat
          /\ Older(m, d) => m.lag < n.lag
    BY <1>1, PassingShape
  <2>2. m \in S /\ 1 <= n.lag
    BY <2>1 DEF Older, PassedBy
  <2>3. x[2] \in K
    BY <1>1, <2>1, <2>2 DEF Chances
  <2>4. x[1] \in X
    BY <2>1, <2>2
  <2>5. x = <<x[1], x[2]>>
    BY DEF Arrivals
  <2> HIDE DEF X, K
  <2> QED
    BY <2>3, <2>4, <2>5
<1> HIDE DEF X, K, T
<1>6. IsFiniteSet(X \X K) /\ Cardinality(X \X K) = Cardinality(X) * Copies
  BY <1>3, <1>4, FS_Product
<1>7. Cardinality(T) <= Cardinality(X) * Copies
  BY <1>5, <1>6, FS_Subset
<1>8. Cardinality(X) * Copies <= Jitter * Copies
  <2>1. CASE faulty
    <3>1. Copies = Jitter
      BY <2>1 DEF Copies
    <3> DEFINE a == Cardinality(X)
    <3>2. a \in Nat /\ a <= Jitter
      BY <1>3
    <3> HIDE DEF a
    <3>3. a * Jitter <= Jitter * Jitter
      BY <1>1, <3>2
    <3> QED
      BY <3>1, <3>3 DEF a
  <2>2. CASE ~faulty
    <3>1. Copies = 1
      BY <2>2 DEF Copies
    <3> QED
      BY <1>1, <1>3, <3>1
  <2> QED
    BY <1>1, <2>1, <2>2
<1>9. Cardinality(T) \in Nat /\ Cardinality(X) * Copies \in Nat /\ Jitter * Copies \in Nat
  <2>1. Copies \in Nat
    BY <1>1 DEF Copies
  <2>2. IsFiniteSet(T)
    BY <1>5, <1>6, FS_Subset
  <2>3. Cardinality(T) \in Nat
    BY <2>2, FS_CardinalityType
  <2> HIDE DEF Copies
  <2> QED
    BY <1>1, <1>3, <2>1, <2>3
<1> QED
  BY <1>7, <1>8, <1>9 DEF T

-----------------------------------------------------------------------------
(* The order of the eras, as long as the channel hears them in theirs.     *)

HeardTyped == heard \in Seq(0 .. MaxResets)

(* eraOrder is the list of the eras heard. *)
OrderMirrors ==
  /\ next = Len(heard)
  /\ \A k \in 1 .. Len(heard) : pos[ResetCountOf(heard[k])] = k
  /\ \A rc \in ResetCounts :
       pos[rc] # 0 => pos[rc] \in 1 .. Len(heard) /\ ResetCountOf(heard[pos[rc]]) = rc

(* A port is in the era e. *)
InEra(p, e) ==
  /\ pt[p].eraPos \in 1 .. Len(heard) /\ heard[pt[p].eraPos] = e
  /\ pt[p].era = ResetCountOf(e)
  /\ pt[p].floorPos \in Nat /\ pt[p].floorPos < pt[p].eraPos
  /\ ErasIn(pt[p]) \subseteq {e}
  /\ running => e \in ErasIn(pt[p])

(* The stragglers a port has dropped and those still to come are no more   *)
(* than were under way when it entered its era. *)
Counted(p, e) ==
  running => pt[p].stragglers + Cardinality(StillToCome(p, e)) <= Jitter * Copies

OrderedInv ==
  /\ HeardTyped
  /\ \A p \in Ports : pt[p].eraPos = 0 => pt[p].stragglers = 0
  /\ HeardInOrder(heard) /\ StragglersFit =>
       /\ OrderMirrors
       /\ \A p \in Ports :
            pt[p].eraPos # 0 => \E e \in 0 .. MaxResets : InEra(p, e) /\ Counted(p, e)

LEMMA ListTyped ==
  ASSUME NEW S, NEW h \in Seq(S)
  PROVE  /\ Len(h) \in Nat /\ DOMAIN h = 1 .. Len(h)
         /\ \A k \in 1 .. Len(h) : h[k] \in S
OBVIOUS

(* A list in order grows at its end. *)
LEMMA OrderGrows ==
  ASSUME NEW h \in Seq(0 .. MaxResets), NEW b \in 0 .. MaxResets,
         HeardInOrder(Append(h, b))
  PROVE  HeardInOrder(h) /\ \A k \in 1 .. Len(h) : h[k] < b
<1> DEFINE g == Append(h, b)
<1>1. /\ DOMAIN h = 1 .. Len(h) /\ DOMAIN g = 1 .. Len(h) + 1
      /\ g[Len(h) + 1] = b /\ Len(h) \in Nat
      /\ \A k \in 1 .. Len(h) : g[k] = h[k]
  OBVIOUS
<1> HIDE DEF g
<1>2. \A m, n \in 1 .. Len(h) + 1 : m < n => g[m] < g[n]
  BY <1>1 DEF HeardInOrder, g
<1>3. HeardInOrder(h)
  BY <1>1, <1>2 DEF HeardInOrder
<1>4. \A k \in 1 .. Len(h) : h[k] < b
  <2> TAKE k \in 1 .. Len(h)
  <2>1. k < Len(h) + 1 /\ k \in 1 .. Len(h) + 1 /\ Len(h) + 1 \in 1 .. Len(h) + 1
    BY <1>1
  <2>2. g[k] < g[Len(h) + 1]
    BY <1>2, <2>1
  <2> QED
    BY <1>1, <2>2
<1> QED
  BY <1>3, <1>4

(* What the channel hears with the arrival of d: an era it knows, of a     *)
(* datagram that outlived at most one, or one past all it knows. *)
HearsAgain(d) == heard' = heard /\ d.body \in ToSet(heard) /\ ~Outlived(d)

HearsNew(d) ==
  heard' = Append(heard, d.body) /\ \A k \in 1 .. Len(heard) : heard[k] < d.body

LEMMA ArrivalHeard ==
  ASSUME FeedTyped, HeardTyped, NEW d \in net, Arrive(d)
  PROVE  /\ HeardTyped'
         /\ HeardInOrder(heard') => HeardInOrder(heard) /\ (HearsAgain(d) \/ HearsNew(d))
<1>1. d.body \in 0 .. MaxResets
  BY DEF FeedTyped, UnderWay
<1>2. CASE d.body \in ToSet(heard) /\ ~Outlived(d)
  <2>1. heard' = heard
    BY <1>2 DEF Arrive
  <2> QED
    BY <1>2, <2>1 DEF HeardTyped, HearsAgain
<1>3. CASE ~(d.body \in ToSet(heard) /\ ~Outlived(d))
  <2>1. heard' = Append(heard, d.body)
    BY <1>3 DEF Arrive
  <2>2. heard' \in Seq(0 .. MaxResets)
    BY <1>1, <2>1 DEF HeardTyped
  <2>3. ASSUME HeardInOrder(heard')
        PROVE  HeardInOrder(heard) /\ HearsNew(d)
    <3>1. HeardInOrder(Append(heard, d.body))
      BY <2>1, <2>3
    <3> QED
      BY <1>1, <2>1, <3>1, OrderGrows DEF HeardTyped, HearsNew
  <2> QED
    BY <2>2, <2>3 DEF HeardTyped
<1> QED
  BY <1>2, <1>3

(* What was heard stays where it is. *)
LEMMA HeardStays ==
  ASSUME HeardTyped, NEW d \in net, FeedTyped, HearsAgain(d) \/ HearsNew(d)
  PROVE  /\ Len(heard) <= Len(heard') /\ Len(heard) \in Nat /\ Len(heard') \in Nat
         /\ \A k \in 1 .. Len(heard) : k \in 1 .. Len(heard') /\ heard'[k] = heard[k]
<1>1. d.body \in 0 .. MaxResets
  BY DEF FeedTyped, UnderWay
<1>2. CASE HearsAgain(d)
  BY <1>2 DEF HearsAgain, HeardTyped
<1>3. CASE HearsNew(d)
  BY <1>1, <1>3 DEF HearsNew, HeardTyped
<1> QED
  BY <1>2, <1>3

(* Entering the era of d from an earlier one of the list, or from none,    *)
(* keeps the order a mirror of the list, and joins it where d is in it. *)
LEMMA EnterMirrors ==
  ASSUME CountsDiffer, FeedTyped, HeardTyped, HeardInOrder(heard), OrderMirrors,
         pos \in [ResetCounts -> Nat],
         NEW d \in net, HearsAgain(d) \/ HearsNew(d),
         NEW from \in Nat,
         from # 0 => from \in 1 .. Len(heard) /\ heard[from] < d.body,
         Enter(d.rc, from)
  PROVE  /\ OrderMirrors'
         /\ OrdinalFor(d.rc, from) \in 1 .. Len(heard')
         /\ heard'[OrdinalFor(d.rc, from)] = d.body
         /\ from < OrdinalFor(d.rc, from)
<1>1. /\ d.body \in 0 .. MaxResets /\ d.rc = ResetCountOf(d.body) /\ d.rc \in ResetCounts
      /\ Len(heard) \in Nat /\ next = Len(heard) /\ DOMAIN heard = 1 .. Len(heard)
      /\ \A k \in 1 .. Len(heard) : heard[k] \in 0 .. MaxResets
  <2>1. d.body \in 0 .. MaxResets /\ d.rc = ResetCountOf(d.body) /\ d.rc \in ResetCounts
    BY DEF FeedTyped, UnderWay
  <2>2. /\ Len(heard) \in Nat /\ DOMAIN heard = 1 .. Len(heard)
        /\ \A k \in 1 .. Len(heard) : heard[k] \in 0 .. MaxResets
    BY ListTyped DEF HeardTyped
  <2> QED
    BY <2>1, <2>2 DEF OrderMirrors
<1>2. CASE HearsAgain(d)
  <2>1. PICK k \in 1 .. Len(heard) : heard[k] = d.body
    BY <1>1, <1>2 DEF HearsAgain, ToSet
  <2>2. pos[d.rc] = k
    BY <1>1, <2>1 DEF OrderMirrors
  <2>3. from < k
    <3> SUFFICES ASSUME from # 0, k <= from PROVE FALSE
      BY <2>1
    <3>1. from \in 1 .. Len(heard) /\ heard[from] < heard[k]
      BY <2>1
    <3>2. CASE k = from
      BY <1>1, <3>1, <3>2
    <3>3. CASE k < from
      <4>1. heard[k] < heard[from]
        BY <1>1, <3>1, <3>3 DEF HeardInOrder
      <4> QED
        BY <1>1, <2>1, <3>1, <4>1
    <3> QED
      BY <3>2, <3>3
  <2>4. Joins(d.rc, from)
    BY <2>2, <2>3 DEF Joins
  <2>5. OrdinalFor(d.rc, from) = k /\ pos' = pos /\ next' = next /\ heard' = heard
    BY <1>2, <2>2, <2>4 DEF OrdinalFor, Enter, HearsAgain
  <2> QED
    BY <2>1, <2>3, <2>5 DEF OrderMirrors
<1>3. CASE HearsNew(d)
  <2>1. /\ heard' = Append(heard, d.body) /\ Len(heard') = Len(heard) + 1
        /\ heard'[Len(heard) + 1] = d.body
        /\ \A k \in 1 .. Len(heard) : heard'[k] = heard[k] /\ heard[k] < d.body
    BY <1>1, <1>3 DEF HearsNew, HeardTyped
  <2>2. pos[d.rc] = 0
    <3> SUFFICES ASSUME pos[d.rc] # 0 PROVE FALSE
      OBVIOUS
    <3>1. pos[d.rc] \in 1 .. Len(heard) /\ ResetCountOf(heard[pos[d.rc]]) = d.rc
      BY <1>1 DEF OrderMirrors
    <3>2. heard[pos[d.rc]] = d.body
      BY <1>1, <3>1 DEF CountsDiffer
    <3> QED
      BY <1>1, <2>1, <3>1, <3>2
  <2>3. ~Joins(d.rc, from)
    BY <2>2 DEF Joins
  <2>4. /\ OrdinalFor(d.rc, from) = Len(heard) + 1
        /\ next' = Len(heard) + 1 /\ pos' = [pos EXCEPT ![d.rc] = Len(heard) + 1]
    BY <1>1, <2>3 DEF OrdinalFor, Enter
  <2>5. \A rc \in ResetCounts :
          pos'[rc] = IF rc = d.rc THEN Len(heard) + 1 ELSE pos[rc]
    BY <2>4
  <2>6. \A k \in 1 .. Len(heard) : ResetCountOf(heard[k]) \in ResetCounts
                                   /\ ResetCountOf(heard[k]) # d.rc
    <3> TAKE k \in 1 .. Len(heard)
    <3>1. ResetCountOf(heard[k]) \in ResetCounts
      BY <1>1, FeedAssumption
    <3>2. heard[k] # d.body
      BY <1>1, <2>1
    <3> QED
      BY <1>1, <3>1, <3>2 DEF CountsDiffer
  <2>7. ASSUME NEW k \in 1 .. Len(heard')
        PROVE  pos'[ResetCountOf(heard'[k])] = k
    <3>1. CASE k \in 1 .. Len(heard)
      BY <2>1, <2>5, <2>6, <3>1 DEF OrderMirrors
    <3>2. CASE k = Len(heard) + 1
      BY <1>1, <2>1, <2>5, <3>2
    <3> QED
      BY <1>1, <2>1, <3>1, <3>2
  <2>8. ASSUME NEW rc \in ResetCounts, pos'[rc] # 0
        PROVE  pos'[rc] \in 1 .. Len(heard') /\ ResetCountOf(heard'[pos'[rc]]) = rc
    <3>1. CASE rc = d.rc
      BY <1>1, <2>1, <2>5, <3>1
    <3>2. CASE rc # d.rc
      <4>1. pos'[rc] = pos[rc]
        BY <2>5, <3>2
      <4>2. pos[rc] \in 1 .. Len(heard) /\ ResetCountOf(heard[pos[rc]]) = rc
        BY <2>8, <4>1 DEF OrderMirrors
      <4> QED
        BY <1>1, <2>1, <4>1, <4>2
    <3> QED
      BY <3>1, <3>2
  <2>9. OrderMirrors'
    BY <2>1, <2>4, <2>7, <2>8 DEF OrderMirrors
  <2>10. from < Len(heard) + 1
    BY <1>1
  <2> QED
    BY <1>1, <2>1, <2>4, <2>9, <2>10
<1> QED
  BY <1>2, <1>3

(* A port that advances moves to a later era: a datagram of an era it left *)
(* would be late, and the run of stragglers is longer than those under way *)
(* can make it. *)
LEMMA AdvanceMovesOn ==
  ASSUME CountsDiffer, StragglersFit, IInv, FeedTyped, OwnInv, LagInv, NetInv,
         HeardTyped, HeardInOrder(heard), OrderMirrors,
         NEW d \in net, Deliver(d) \/ Duplicate(d), HearsAgain(d) \/ HearsNew(d),
         NEW dg \in Datagram, dg.rc = d.rc, dg.body = d.body,
         Advances(d.port, dg),
         NEW e \in 0 .. MaxResets, InEra(d.port, e), Counted(d.port, e)
  PROVE  e < d.body
<1> DEFINE p == d.port
           k == pt[p].eraPos
<1>1. /\ running /\ p \in Ports /\ d.body \in 0 .. MaxResets
      /\ d.rc = ResetCountOf(d.body) /\ d.rc \in ResetCounts
  BY DEF Deliver, Duplicate, Arrive, FeedTyped, UnderWay
<1>2. /\ Len(heard) \in Nat /\ DOMAIN heard = 1 .. Len(heard)
      /\ \A m \in 1 .. Len(heard) : heard[m] \in 0 .. MaxResets
  BY ListTyped DEF HeardTyped
<1>3. /\ k \in 1 .. Len(heard) /\ heard[k] = e /\ pt[p].era = ResetCountOf(e)
      /\ pt[p].floorPos \in Nat /\ pt[p].floorPos < k /\ ErasIn(pt[p]) = {e}
  BY <1>1 DEF InEra
<1>4. pos[ResetCountOf(e)] = k
  BY <1>3 DEF OrderMirrors
<1>5. OtherEra(pt[p], dg) /\ ~Quarantines(p, dg)
  BY DEF Advances
<1> HIDE DEF p, k
<1> SUFFICES ASSUME d.body <= e PROVE FALSE
  BY <1>1, JitterAssumption
<1>6. d.body # e
  <2> SUFFICES ASSUME d.body = e PROVE FALSE
    OBVIOUS
  <2>1. dg.rc = pt[p].era /\ pos[dg.rc] = k
    BY <1>1, <1>3, <1>4
  <2> QED
    BY <1>3, <1>5, <2>1 DEF OtherEra, k
<1>7. d.body < e
  BY <1>1, <1>6, JitterAssumption
<1>8. HearsAgain(d)
  BY <1>1, <1>3, <1>7 DEF HearsNew
<1>9. PICK m \in 1 .. Len(heard) : heard[m] = d.body
  BY <1>2, <1>8 DEF HearsAgain, ToSet
<1>10. m < k
  <2> SUFFICES ASSUME k <= m PROVE FALSE
    BY <1>2, <1>3
  <2>1. k = m \/ heard[k] < heard[m]
    BY <1>2, <1>3 DEF HeardInOrder
  <2> QED
    BY <1>1, <1>3, <1>7, <1>9, <2>1
<1>11. pt[p].floorPos <= m
  <2> SUFFICES ASSUME m < pt[p].floorPos PROVE FALSE
    BY <1>2, <1>3
  <2> DEFINE f == pt[p].floorPos
  <2>1. f \in 1 .. Len(heard) /\ m < f /\ f < k
    BY <1>2, <1>3
  <2> HIDE DEF f
  <2>2. heard[m] < heard[f] /\ heard[f] < heard[k]
    BY <1>2, <1>3, <2>1 DEF HeardInOrder
  <2>3. heard[f] \in ToSet(heard) /\ heard[k] \in ToSet(heard)
    BY <1>2, <1>3, <2>1 DEF ToSet
  <2>4. Outlived(d)
    BY <1>3, <1>7, <1>9, <2>2, <2>3 DEF Outlived, p
  <2> QED
    BY <1>8, <2>4 DEF HearsAgain
<1>12. Late(pt[p], dg)
  <2>1. pos[dg.rc] = m
    BY <1>1, <1>9 DEF OrderMirrors
  <2>2. dg.rc # pt[p].era
    BY <1>1, <1>3, <1>6 DEF CountsDiffer
  <2> QED
    BY <1>2, <1>10, <1>11, <2>1, <2>2 DEF Late, k
<1>13. ~(pt[p].stragglers < MaxStragglers)
  BY <1>3, <1>5, <1>12 DEF Quarantines, k
<1>14. Cardinality(StillToCome(p, e)) >= 1
  BY <1>7, ArrivalCounts DEF p
<1>15. pt[p].stragglers + Cardinality(StillToCome(p, e)) <= Jitter * Copies
  BY <1>1 DEF Counted, p
<1>16. Jitter * Copies <= MaxStragglers
  BY DEF StragglersFit, Copies
<1>17. /\ pt[p].stragglers \in Nat /\ MaxStragglers \in Nat
       /\ Cardinality(StillToCome(p, e)) \in Nat
  BY <1>1, ArrivalsFinite, WindowAssumption
  DEF IInv, PortsInv, Tracker, MaxStragglers
<1>18. Jitter * Copies \in Nat
  <2>1. Copies \in Nat /\ Jitter \in Nat
    BY JitterAssumption DEF Copies
  <2> HIDE DEF Copies
  <2> QED
    BY <2>1
<1> HIDE DEF Copies
<1> QED
  BY <1>13, <1>14, <1>15, <1>16, <1>17, <1>18

(* Stragglers and what is still to come stay within the count. *)
LEMMA CountKept ==
  ASSUME FeedTyped, LagInv, NetInv, IInv, IInv',
         NEW d \in net, Deliver(d) \/ Duplicate(d),
         NEW p \in Ports, NEW e, Counted(p, e),
         \/ pt'[p].stragglers <= pt[p].stragglers
         \/ /\ p = d.port /\ d.body < e
            /\ pt'[p].stragglers = pt[p].stragglers + 1
  PROVE  Counted(p, e)'
<1> DEFINE S == StillToCome(p, e)
           T == StillToCome(p, e)'
<1>1. running /\ running' /\ faulty' = faulty /\ Copies' = Copies
  BY DEF Deliver, Duplicate, Arrive, Copies
<1>2. pt[p].stragglers \in Nat /\ pt'[p].stragglers \in Nat
  BY DEF IInv, PortsInv, Tracker
<1>3. IsFiniteSet(S) /\ Cardinality(S) \in Nat
  BY ArrivalsFinite
<1>4. T \in SUBSET S
  BY ArrivalsShrink
<1>5. p = d.port /\ d.body < e => Cardinality(T) <= Cardinality(S) - 1
  BY ArrivalCounts
<1>6. pt[p].stragglers + Cardinality(S) <= Jitter * Copies
  BY <1>1 DEF Counted
<1> HIDE DEF S, T
<1>7. IsFiniteSet(T) /\ Cardinality(T) <= Cardinality(S)
  BY <1>3, <1>4, FS_Subset
<1>8. Cardinality(T) \in Nat
  BY <1>7, FS_CardinalityType
<1>9. Jitter * Copies \in Nat
  <2>1. Copies \in Nat /\ Jitter \in Nat
    BY JitterAssumption DEF Copies
  <2> HIDE DEF Copies
  <2> QED
    BY <2>1
<1> HIDE DEF Copies
<1>10. pt'[p].stragglers + Cardinality(T) <= Jitter * Copies
  BY <1>2, <1>3, <1>5, <1>6, <1>7, <1>8, <1>9
<1> QED
  BY <1>1, <1>10 DEF Counted, T

(* Port p is in an era after the step, and in none it had left. *)
MovesOn(p) ==
  \E e \in 0 .. MaxResets :
    InEra(p, e)' /\ Counted(p, e)' /\ \A b \in ErasIn(pt[p]) : b <= e

(* A port whose tracker takes in the datagram is in its era then. *)
LEMMA TakenIn ==
  ASSUME CountsDiffer, IInv, FeedTyped, OwnInv, HeardTyped, HeardInOrder(heard),
         OrderMirrors, LagInv, NetInv, IInv', StragglersFit,
         NEW d \in net, Deliver(d) \/ Duplicate(d), HearsAgain(d) \/ HearsNew(d),
         NEW dg \in Datagram, dg.rc = d.rc, dg.seq = d.seq, dg.body = d.body,
         NEW p \in Ports, d.port = p, Process(p, dg), ~Quarantines(p, dg),
         pt[p].eraPos = 0 => pt[p].stragglers = 0,
         pt[p].eraPos # 0 => \E e \in 0 .. MaxResets : InEra(p, e) /\ Counted(p, e)
  PROVE  OrderMirrors' /\ MovesOn(p)
<1> DEFINE t == Opened(p, dg)
           u == Intake(t, dg)
<1>1. /\ pt \in [Ports -> Tracker] /\ HoldsOwn(pt[p]) /\ pt[p].eraPos \in Nat
      /\ pos \in [ResetCounts -> Nat]
      /\ d.body \in 0 .. MaxResets /\ d.rc = ResetCountOf(d.body) /\ d.rc \in ResetCounts
      /\ OfCount({dg}, dg.rc)
  BY DEF IInv, PortsInv, OrderInv, OwnInv, Tracker, FeedTyped, UnderWay, OfCount
<1>2. /\ TrackerOK(t, W) /\ dg.rc = t.era
      /\ OfCount(t.buf, dg.rc) /\ OfCount(t.accepted, dg.rc)
  BY <1>1, OpenedOwn
<1>3. pt'[p] = u
  BY <1>1 DEF Process, Seed, Receive, Quarantine, Advance
<1>4. /\ u.era = t.era /\ u.eraPos = t.eraPos
      /\ u.floorPos = t.floorPos /\ u.stragglers = t.stragglers
  BY <1>2, IntakeOK
<1>5. /\ Len(heard) \in Nat /\ Len(heard') \in Nat /\ Len(heard) <= Len(heard')
      /\ \A k \in 1 .. Len(heard) : k \in 1 .. Len(heard') /\ heard'[k] = heard[k]
  BY HeardStays
<1> HIDE DEF t
<1>6. ErasIn(u) = {d.body}
  <2>1. \A e, s : Held(u, e, s) <=> Held(t, e, s) \/ (dg.body = e /\ dg.seq = s)
    BY <1>1, <1>2, IntakeKeeps
  <2>2. \A e, s : Held(t, e, s) => e = d.body
    BY <1>1, <1>2 DEF Held, OfCount, CountsDiffer
  <2>3. \A e : e \in ErasIn(u) <=> \E s : Held(u, e, s)
    BY ErasHeld
  <2> HIDE DEF u
  <2> QED
    BY <2>1, <2>2, <2>3
<1> HIDE DEF u
<1>7. /\ running /\ running' /\ Copies' = Copies
  BY DEF Deliver, Duplicate, Arrive, Copies
<1>8. u.stragglers = 0 /\ (Seeds(p, dg) \/ Advances(p, dg)) => Counted(p, d.body)'
  <2> SUFFICES ASSUME u.stragglers = 0 PROVE Counted(p, d.body)'
    OBVIOUS
  <2>1. Cardinality(StillToCome(p, d.body)') <= Jitter * Copies
    BY EntryBound
  <2>2. Cardinality(StillToCome(p, d.body)') \in Nat
    <3>1. IsFiniteSet(StillToCome(p, d.body)) /\ StillToCome(p, d.body)' \subseteq StillToCome(p, d.body)
      BY ArrivalsFinite, ArrivalsShrink
    <3> QED
      BY <3>1, FS_Subset, FS_CardinalityType
  <2> HIDE DEF Copies
  <2> QED
    BY <1>3, <1>7, <2>1, <2>2 DEF Counted
<1>9. CASE Seeds(p, dg)
  <2>1. Enter(d.rc, 0)
    BY <1>9 DEF Process, Seed, Receive, Quarantine, Advance, Seeds, Advances, Quarantines
  <2>2. /\ OrderMirrors'
        /\ OrdinalFor(d.rc, 0) \in 1 .. Len(heard') /\ heard'[OrdinalFor(d.rc, 0)] = d.body
    BY <1>1, <2>1, EnterMirrors
  <2>3. t.eraPos = OrdinalFor(d.rc, 0) /\ t.floorPos = t.eraPos - 1
        /\ t.stragglers = pt[p].stragglers
    BY <1>9, SeededOK, OpenedPlace DEF t
  <2>4. pt[p].stragglers = 0 /\ ErasIn(pt[p]) = {}
    BY <1>1, <1>9 DEF Seeds, HoldsOwn, IInv, PortsInv, ErasIn
  <2>5. InEra(p, d.body)'
    BY <1>1, <1>2, <1>3, <1>4, <1>5, <1>6, <2>2, <2>3 DEF InEra
  <2>6. Counted(p, d.body)'
    BY <1>4, <1>8, <1>9, <2>3, <2>4
  <2> QED
    BY <1>1, <2>2, <2>4, <2>5, <2>6 DEF MovesOn
<1>10. CASE Advances(p, dg)
  <2>1. PICK e \in 0 .. MaxResets : InEra(p, e) /\ Counted(p, e)
    BY <1>10 DEF Advances
  <2>2. e < d.body
    BY <1>10, <2>1, AdvanceMovesOn
  <2> DEFINE from == pt[p].eraPos
             o == OrdinalFor(d.rc, from)
  <2>3. Enter(d.rc, from)
    BY <1>10 DEF Process, Seed, Receive, Quarantine, Advance, Seeds, Advances, Quarantines
  <2>4. from \in 1 .. Len(heard) /\ heard[from] < d.body /\ ErasIn(pt[p]) = {e}
    BY <1>7, <2>1, <2>2 DEF InEra
  <2>5. OrderMirrors' /\ o \in 1 .. Len(heard') /\ heard'[o] = d.body /\ from < o
    <3> HIDE DEF from
    <3>1. from \in Nat
      BY <1>5, <2>4
    <3> QED
      BY <1>1, <2>3, <2>4, <3>1, EnterMirrors
  <2>6. t.eraPos = o /\ t.floorPos = from /\ t.stragglers = 0
    BY <1>10, AdvancedOK, OpenedPlace DEF t
  <2> HIDE DEF o
  <2>7. InEra(p, d.body)'
    BY <1>1, <1>2, <1>3, <1>4, <1>6, <2>5, <2>6 DEF InEra
  <2>8. Counted(p, d.body)'
    BY <1>4, <1>8, <1>10, <2>6
  <2>9. \A b \in ErasIn(pt[p]) : b <= d.body
    BY <1>1, <2>2, <2>4, JitterAssumption
  <2> QED
    BY <1>1, <2>5, <2>7, <2>8, <2>9 DEF MovesOn
<1>11. CASE pt[p].eraPos # 0 /\ ~OtherEra(pt[p], dg)
  <2>1. PICK e \in 0 .. MaxResets : InEra(p, e) /\ Counted(p, e)
    BY <1>11
  <2>2. UNCHANGED <<pos, next>>
    BY <1>11 DEF Process, Seed, Receive, Quarantine, Advance, Seeds, Advances, Quarantines
  <2>3. t.eraPos = pt[p].eraPos /\ t.era = pt[p].era
    BY <1>11, ReceivedOK DEF t
  <2>4. ~Seeds(p, dg) /\ ~Advances(p, dg)
    BY <1>11 DEF Seeds, Advances
  <2>5. t.floorPos = pt[p].floorPos /\ t.stragglers = 0
    BY <2>4, OpenedPlace DEF t
  <2>6. e = d.body
    BY <1>1, <1>2, <2>1, <2>3 DEF InEra, CountsDiffer
  <2>7. heard' = heard
    <3>1. pt[p].eraPos \in 1 .. Len(heard) /\ heard[pt[p].eraPos] = d.body
      BY <2>1, <2>6 DEF InEra
    <3>2. ~HearsNew(d)
      BY <1>1, <3>1, JitterAssumption DEF HearsNew
    <3> QED
      BY <3>2 DEF HearsAgain
  <2>8. OrderMirrors'
    BY <2>2, <2>7 DEF OrderMirrors
  <2>9. InEra(p, d.body)'
    BY <1>3, <1>4, <1>6, <2>1, <2>3, <2>5, <2>6, <2>7 DEF InEra
  <2>10. Counted(p, d.body)'
    <3>1. pt'[p].stragglers <= pt[p].stragglers
      BY <1>1, <1>3, <1>4, <2>5 DEF Tracker
    <3> QED
      BY <2>1, <2>6, <3>1, CountKept
  <2>11. \A b \in ErasIn(pt[p]) : b <= d.body
    BY <1>1, <2>1, <2>6, JitterAssumption DEF InEra
  <2> QED
    BY <1>1, <2>8, <2>9, <2>10, <2>11 DEF MovesOn
<1> QED
  BY <1>9, <1>10, <1>11 DEF Seeds, Advances

(* An arrival keeps every port in one era of the list, and moves it to no  *)
(* earlier one. *)
LEMMA ArriveOrdered ==
  ASSUME CountsDiffer, IInv, FeedTyped, OwnInv, LagInv, NetInv, OrderedInv, IInv',
         NEW d \in net, Deliver(d) \/ Duplicate(d),
         HeardInOrder(heard'), StragglersFit
  PROVE  OrderMirrors' /\ \A p \in Ports : pt'[p].eraPos # 0 => MovesOn(p)
<1> DEFINE dg == [rc |-> d.rc, seq |-> d.seq, body |-> d.body]
           q  == d.port
<1>1. q \in Ports /\ dg \in Datagram /\ dg.rc = d.rc /\ dg.seq = d.seq /\ dg.body = d.body
  BY ArrivesTyped
<1>2. Arrive(d) /\ running /\ running' /\ Process(q, dg) /\ d.port = q
  BY DEF Deliver, Duplicate, Arrive
<1> HIDE DEF dg, q
<1>3. HeardTyped /\ HeardInOrder(heard) /\ (HearsAgain(d) \/ HearsNew(d))
  BY <1>2, ArrivalHeard DEF OrderedInv
<1>4. /\ OrderMirrors
      /\ \A p \in Ports :
           pt[p].eraPos # 0 => \E e \in 0 .. MaxResets : InEra(p, e) /\ Counted(p, e)
      /\ \A p \in Ports : pt[p].eraPos = 0 => pt[p].stragglers = 0
  BY <1>3 DEF OrderedInv
<1>5. /\ Len(heard) \in Nat /\ Len(heard') \in Nat /\ Len(heard) <= Len(heard')
      /\ \A k \in 1 .. Len(heard) : k \in 1 .. Len(heard') /\ heard'[k] = heard[k]
  BY <1>3, HeardStays
<1>6. pt \in [Ports -> Tracker] /\ pt' \in [Ports -> Tracker]
  BY DEF IInv, PortsInv
<1>7. ASSUME NEW p \in Ports, NEW e \in 0 .. MaxResets, InEra(p, e), Counted(p, e),
             pt'[p].eraPos = pt[p].eraPos, pt'[p].era = pt[p].era,
             pt'[p].floorPos = pt[p].floorPos, ErasIn(pt'[p]) = ErasIn(pt[p]),
             \/ pt'[p].stragglers <= pt[p].stragglers
             \/ /\ p = d.port /\ d.body < e
                /\ pt'[p].stragglers = pt[p].stragglers + 1
      PROVE  MovesOn(p)
  <2>1. InEra(p, e)'
    BY <1>2, <1>5, <1>7 DEF InEra
  <2>2. Counted(p, e)'
    BY <1>7, CountKept
  <2>3. \A b \in ErasIn(pt[p]) : b <= e
    BY <1>7, JitterAssumption DEF InEra
  <2> QED
    BY <2>1, <2>2, <2>3 DEF MovesOn
<1>8. ASSUME NEW p \in Ports, p # q, pt'[p].eraPos # 0
      PROVE  MovesOn(p)
  <2>1. pt'[p] = pt[p]
    BY <1>1, <1>2, <1>6, <1>8 DEF Process, Seed, Receive, Quarantine, Advance
  <2>2. PICK e \in 0 .. MaxResets : InEra(p, e) /\ Counted(p, e)
    BY <1>4, <1>8, <2>1
  <2>3. pt'[p].stragglers <= pt[p].stragglers
    BY <1>6, <2>1 DEF Tracker
  <2> QED
    BY <1>7, <2>1, <2>2, <2>3
<1>9. CASE Quarantines(q, dg)
  <2>1. pt' = [pt EXCEPT ![q].stragglers = @ + 1] /\ UNCHANGED <<pos, next>>
    BY <1>2, <1>9 DEF Process, Seed, Receive, Quarantine, Advance, Seeds, Advances, Quarantines
  <2>2. /\ pt'[q].eraPos = pt[q].eraPos /\ pt'[q].era = pt[q].era
        /\ pt'[q].floorPos = pt[q].floorPos
        /\ pt'[q].buf = pt[q].buf /\ pt'[q].accepted = pt[q].accepted
        /\ pt'[q].stragglers = pt[q].stragglers + 1
    BY <1>1, <1>6, <2>1 DEF Tracker
  <2>3. PICK e \in 0 .. MaxResets : InEra(q, e) /\ Counted(q, e)
    BY <1>1, <1>4, <1>9 DEF Quarantines
  <2>4. /\ pos[d.rc] # 0 /\ pos[d.rc] < pt[q].eraPos
        /\ d.rc \in ResetCounts /\ d.rc = ResetCountOf(d.body) /\ d.body \in 0 .. MaxResets
    BY <1>1, <1>9 DEF Quarantines, Late, FeedTyped, UnderWay
  <2>5. /\ DOMAIN heard = 1 .. Len(heard)
        /\ \A m \in 1 .. Len(heard) : heard[m] \in 0 .. MaxResets
    BY <1>3, ListTyped DEF HeardTyped
  <2>6. pos[d.rc] \in 1 .. Len(heard) /\ heard[pos[d.rc]] = d.body
    <3>1. pos[d.rc] \in 1 .. Len(heard) /\ ResetCountOf(heard[pos[d.rc]]) = d.rc
      BY <1>4, <2>4 DEF OrderMirrors
    <3> QED
      BY <2>4, <2>5, <3>1 DEF CountsDiffer
  <2>7. d.body < e
    <3>1. pt[q].eraPos \in 1 .. Len(heard) /\ heard[pt[q].eraPos] = e
      BY <2>3 DEF InEra
    <3> QED
      BY <1>3, <2>4, <2>5, <2>6, <3>1 DEF HeardInOrder
  <2>8. heard' = heard
    <3>1. ~HearsNew(d)
      BY <2>4, <2>6, JitterAssumption DEF HearsNew
    <3> QED
      BY <1>3, <3>1 DEF HearsAgain
  <2>9. OrderMirrors'
    BY <1>4, <2>1, <2>8 DEF OrderMirrors
  <2>10. MovesOn(q)
    <3>1. ErasIn(pt'[q]) = ErasIn(pt[q])
      BY <2>2 DEF ErasIn
    <3> QED
      BY <1>1, <1>2, <1>7, <2>2, <2>3, <2>7, <3>1
  <2> QED
    BY <1>8, <2>9, <2>10
<1>10. CASE ~Quarantines(q, dg)
  <2>1. OrderMirrors' /\ MovesOn(q)
    BY <1>1, <1>2, <1>3, <1>4, <1>10, TakenIn
  <2> QED
    BY <1>8, <2>1
<1> QED
  BY <1>9, <1>10

(* What one step does to the order of the eras. *)
ReopensNone ==
  HeardInOrder(heard') /\ StragglersFit =>
    \A p \in Ports : \A old \in ErasIn(pt[p]), new \in ErasIn(pt'[p]) : old <= new

LEMMA ArriveReopensNone ==
  ASSUME CountsDiffer, IInv, FeedTyped, OwnInv, LagInv, NetInv, OrderedInv,
         IInv', OwnInv', NEW d \in net, Deliver(d) \/ Duplicate(d)
  PROVE  OrderedInv' /\ ReopensNone
<1>1. Arrive(d) /\ faulty' = faulty
  BY DEF Deliver, Duplicate, Arrive
<1>2. HeardTyped'
  BY <1>1, ArrivalHeard DEF OrderedInv
<1>3. StragglersFit' <=> StragglersFit
  BY <1>1 DEF StragglersFit
<1>4. ASSUME HeardInOrder(heard'), StragglersFit
      PROVE  OrderMirrors' /\ \A p \in Ports : pt'[p].eraPos # 0 => MovesOn(p)
  BY <1>4, ArriveOrdered
<1>5. ASSUME NEW p \in Ports, pt'[p].eraPos = 0
      PROVE  pt'[p].stragglers = 0 /\ ErasIn(pt'[p]) = {}
  <2> DEFINE dg == [rc |-> d.rc, seq |-> d.seq, body |-> d.body]
             q  == d.port
  <2>1. q \in Ports /\ dg \in Datagram
    BY ArrivesTyped
  <2>2. Process(q, dg) /\ pt \in [Ports -> Tracker] /\ pt' \in [Ports -> Tracker]
    BY <1>1 DEF Arrive, IInv, PortsInv
  <2> HIDE DEF dg, q
  <2>3. ErasIn(pt'[p]) = {}
    BY <1>5 DEF OwnInv, HoldsOwn, IInv, PortsInv, ErasIn
  <2>4. pt[p].eraPos = 0 => pt[p].stragglers = 0
    BY DEF OrderedInv
  <2>5. CASE p # q
    <3>1. pt'[p] = pt[p]
      BY <2>1, <2>2, <2>5 DEF Process, Seed, Receive, Quarantine, Advance
    <3> QED
      BY <1>5, <2>3, <2>4, <3>1
  <2>6. CASE p = q /\ Quarantines(q, dg)
    <3>1. pt' = [pt EXCEPT ![q].stragglers = @ + 1] /\ pt[q].eraPos # 0
      BY <2>2, <2>6 DEF Process, Seed, Receive, Quarantine, Advance, Seeds, Advances, Quarantines
    <3>2. pt'[q].eraPos = pt[q].eraPos
      BY <2>1, <2>2, <3>1 DEF Tracker
    <3> QED
      BY <1>5, <2>6, <3>1, <3>2
  <2>7. CASE p = q /\ ~Quarantines(q, dg)
    <3> DEFINE t == Opened(p, dg)
    <3>1. HoldsOwn(pt[p])
      BY DEF OwnInv
    <3>2. TrackerOK(t, W) /\ dg.rc = t.era /\ t.eraPos # 0
      BY <2>1, <2>7, <3>1, OpenedOwn
    <3>3. pt'[p] = Intake(t, dg)
      BY <2>1, <2>2, <2>7 DEF Process, Seed, Receive, Quarantine, Advance
    <3> HIDE DEF t
    <3> QED
      BY <1>5, <2>1, <3>2, <3>3, IntakeOK
  <2> QED
    BY <2>5, <2>6, <2>7
<1>6. OrderedInv'
  BY <1>2, <1>3, <1>4, <1>5 DEF OrderedInv, MovesOn
<1>7. ReopensNone
  <2> SUFFICES ASSUME HeardInOrder(heard'), StragglersFit, NEW p \in Ports,
                      NEW old \in ErasIn(pt[p]), NEW new \in ErasIn(pt'[p])
               PROVE  old <= new
    BY DEF ReopensNone
  <2>1. MovesOn(p)
    BY <1>4, <1>5
  <2> QED
    BY <2>1 DEF MovesOn, InEra
<1> QED
  BY <1>6, <1>7

(* A step of the publisher or a loss moves no port and brings nothing of   *)
(* an era that is left behind. *)
LEMMA QuietOrdered ==
  ASSUME IInv, OwnInv, OrderedInv,
         UNCHANGED <<pt, pos, next, heard, faulty, running>>,
         \A p \in Ports, e \in 0 .. MaxResets :
           running /\ e \in ErasIn(pt[p]) => StillToCome(p, e)' \subseteq StillToCome(p, e)
  PROVE  OrderedInv' /\ ReopensNone
<1>1. Copies' = Copies /\ StragglersFit' = StragglersFit
  BY DEF Copies, StragglersFit
<1>2. HeardTyped' /\ (OrderMirrors' <=> OrderMirrors)
  BY DEF OrderedInv, HeardTyped, OrderMirrors
<1>3. \A p, e : InEra(p, e)' <=> InEra(p, e)
  BY DEF InEra, ErasIn
<1>4. ASSUME NEW p \in Ports, NEW e \in 0 .. MaxResets, InEra(p, e), Counted(p, e)
      PROVE  Counted(p, e)'
  <2> SUFFICES ASSUME running PROVE Counted(p, e)'
    BY DEF Counted
  <2> DEFINE S == StillToCome(p, e)
             T == StillToCome(p, e)'
  <2>1. T \in SUBSET S
    BY <1>4 DEF InEra
  <2>2. IsFiniteSet(S) /\ Cardinality(S) \in Nat
    BY ArrivalsFinite
  <2>3. pt[p].stragglers + Cardinality(S) <= Jitter * Copies /\ pt[p].stragglers \in Nat
    BY <1>4 DEF Counted, IInv, PortsInv, Tracker
  <2>4. Jitter * Copies \in Nat
    <3>1. Copies \in Nat /\ Jitter \in Nat
      BY JitterAssumption DEF Copies
    <3> HIDE DEF Copies
    <3> QED
      BY <3>1
  <2> HIDE DEF S, T
  <2>5. Cardinality(T) <= Cardinality(S) /\ Cardinality(T) \in Nat
    BY <2>1, <2>2, FS_Subset, FS_CardinalityType
  <2> HIDE DEF Copies
  <2>6. pt[p].stragglers + Cardinality(T) <= Jitter * Copies
    BY <2>2, <2>3, <2>4, <2>5
  <2> QED
    BY <1>1, <2>6 DEF Counted, T
<1>5. OrderedInv'
  BY <1>1, <1>2, <1>3, <1>4 DEF OrderedInv
<1>6. ReopensNone
  <2> SUFFICES ASSUME HeardInOrder(heard), StragglersFit, NEW p \in Ports,
                      NEW old \in ErasIn(pt[p]), NEW new \in ErasIn(pt[p])
               PROVE  old <= new
    BY DEF ReopensNone
  <2>1. pt[p].eraPos # 0
    BY DEF OwnInv, HoldsOwn, IInv, PortsInv, ErasIn
  <2>2. PICK e \in 0 .. MaxResets : InEra(p, e)
    BY <2>1 DEF OrderedInv
  <2> QED
    BY <2>2, JitterAssumption DEF InEra
<1> QED
  BY <1>5, <1>6

(* Draining the buffers leaves every port the frames of its era. *)
LEMMA EndRunOrdered ==
  ASSUME IInv, OwnInv, OrderedInv, EndRun
  PROVE  OrderedInv' /\ ReopensNone
<1>1. /\ pt' = [p \in Ports |-> Drained(pt[p])] /\ ~running'
      /\ UNCHANGED <<pos, next, heard, faulty>>
  BY DEF EndRun
<1>2. ASSUME NEW p \in Ports
      PROVE  /\ pt'[p].eraPos = pt[p].eraPos /\ pt'[p].era = pt[p].era
             /\ pt'[p].floorPos = pt[p].floorPos
             /\ ErasIn(pt'[p]) \subseteq ErasIn(pt[p])
             /\ pt[p].eraPos = 0 => pt'[p] = pt[p]
  <2>1. TrackerOK(pt[p], W) /\ pt[p] \in Tracker /\ pt'[p] = Drained(pt[p])
    BY <1>1 DEF IInv, PortsInv
  <2>2. /\ Drained(pt[p]).eraPos = pt[p].eraPos /\ Drained(pt[p]).era = pt[p].era
        /\ Drained(pt[p]).floorPos = pt[p].floorPos /\ Drained(pt[p]).buf = {}
    BY <2>1, DrainedOK
  <2>3. Drained(pt[p]).accepted = pt[p].accepted
          \cup {[seq |-> f.seq, body |-> f.body] : f \in FreshOf(pt[p], pt[p].buf)}
    BY <2>1 DEF Drained, Classify, Tracker
  <2>4. ErasIn(Drained(pt[p])) \subseteq ErasIn(pt[p])
    BY <2>2, <2>3 DEF ErasIn, FreshOf
  <2>5. pt[p].eraPos = 0 => Drained(pt[p]) = pt[p]
    BY <2>1, NothingToDrain DEF IInv, PortsInv
  <2> QED
    BY <2>1, <2>2, <2>4, <2>5
<1>3. HeardTyped' /\ (OrderMirrors' <=> OrderMirrors) /\ (StragglersFit' <=> StragglersFit)
  BY <1>1 DEF OrderedInv, HeardTyped, OrderMirrors, StragglersFit
<1>4. \A p \in Ports, e \in 0 .. MaxResets : InEra(p, e) => InEra(p, e)' /\ Counted(p, e)'
  BY <1>1, <1>2 DEF InEra, Counted
<1>5. OrderedInv'
  BY <1>1, <1>2, <1>3, <1>4 DEF OrderedInv
<1>6. ReopensNone
  <2> SUFFICES ASSUME HeardInOrder(heard), StragglersFit, NEW p \in Ports,
                      NEW old \in ErasIn(pt[p]), NEW new \in ErasIn(pt'[p])
               PROVE  old <= new
    BY <1>1 DEF ReopensNone
  <2>1. pt[p].eraPos # 0
    BY DEF OwnInv, HoldsOwn, IInv, PortsInv, ErasIn
  <2>2. PICK e \in 0 .. MaxResets : InEra(p, e)
    BY <2>1 DEF OrderedInv
  <2>3. ErasIn(pt[p]) \subseteq {e} /\ e \in Int
    BY <2>2, JitterAssumption DEF InEra
  <2>4. new \in ErasIn(pt[p])
    BY <1>2
  <2>5. old = e /\ new = e
    BY <2>3, <2>4
  <2> QED
    BY <2>3, <2>5
<1> QED
  BY <1>5, <1>6

(* No step takes a port back. *)
LEMMA StepOrdered ==
  ASSUME CountsDiffer, IInv, FeedTyped, OwnInv, LagInv, NetInv, OrderedInv,
         IInv', OwnInv', [FeedNext]_allVars
  PROVE  OrderedInv' /\ ReopensNone
<1>1. ASSUME NEW d \in net, Deliver(d) \/ Duplicate(d)
      PROVE  OrderedInv' /\ ReopensNone
  BY <1>1, ArriveReopensNone
<1>2. ASSUME NEW q \in Ports, Send(q)
      PROVE  OrderedInv' /\ ReopensNone
  <2> DEFINE new == [port |-> q, rc |-> ResetCountOf(feedEra), seq |-> sent[q],
                     body |-> feedEra, lag |-> 0]
  <2>1. /\ net' = net \cup {new} /\ running
        /\ UNCHANGED <<pt, pos, next, heard, faulty, running>>
    BY <1>2 DEF Send, vars
  <2>2. new.body = feedEra
    OBVIOUS
  <2> HIDE DEF new
  <2>3. ASSUME NEW p \in Ports, NEW e \in 0 .. MaxResets, e \in ErasIn(pt[p])
        PROVE  StillToCome(p, e)' \subseteq StillToCome(p, e)
    <3>1. ~(feedEra < e)
      <4>1. PICK x \in pt[p].buf \cup pt[p].accepted : x.body = e
        BY <2>3 DEF ErasIn
      <4>2. e <= feedEra
        BY <2>1, <4>1 DEF LagInv, Published
      <4> QED
        BY <4>2, JitterAssumption DEF FeedTyped
    <3> QED
      BY <2>1, <2>2, <3>1 DEF StillToCome, Chances
  <2> QED
    BY <2>1, <2>3, QuietOrdered
<1>3. CASE net' \subseteq net /\ UNCHANGED <<pt, pos, next, heard, faulty, running>>
  <2>1. \A p, e : StillToCome(p, e)' \subseteq StillToCome(p, e)
    BY <1>3 DEF StillToCome, Chances
  <2> QED
    BY <1>3, <2>1, QuietOrdered
<1>4. CASE Reset
  BY <1>3, <1>4 DEF Reset, vars
<1>5. ASSUME NEW d \in net, Lose(d)
      PROVE  OrderedInv' /\ ReopensNone
  BY <1>3, <1>5 DEF Lose, vars
<1>6. CASE EndRun
  BY <1>6, EndRunOrdered
<1>7. CASE UNCHANGED allVars
  BY <1>3, <1>7 DEF allVars, vars, feedVars
<1> QED
  BY <1>1, <1>2, <1>4, <1>5, <1>6, <1>7 DEF FeedNext

(* A port never takes a frame of an era earlier than one it holds frames   *)
(* of, as long as the channel hears of its eras in their order, nothing    *)
(* outlives two resets and the stragglers fit the window - which they do   *)
(* where the network delays and reorders by at most MaxStragglers arrivals *)
(* and duplicates nothing.                                                 *)
THEOREM StragglersStayOut ==
  ASSUME CountsDiffer, Jitter <= W
  PROVE  FeedSpec => StragglersReopenNoEra
<1> DEFINE Inv == IInv /\ FeedTyped /\ OwnInv /\ LagInv /\ NetInv /\ OrderedInv
<1>1. FeedInit => Inv
  <2>1. FeedInit => IInv /\ FeedTyped
    BY FeedInitTyped
  <2>2. FeedInit => OwnInv
    BY DEF FeedInit, Init, OwnInv, NoFalseDivergence, HoldsOwn, OfCount, NewTracker
  <2>3. FeedInit => LagInv
    BY DEF FeedInit, Init, LagInv, NoFalseResetGap, NewTracker
  <2>4. FeedInit => NetInv
    BY FS_EmptySet DEF FeedInit, NetInv
  <2>5. FeedInit => OrderedInv
    <3> SUFFICES ASSUME FeedInit PROVE OrderedInv
      OBVIOUS
    <3>1. /\ heard = << >> /\ next = 0 /\ pos = [rc \in ResetCounts |-> 0]
          /\ pt = [p \in Ports |-> NewTracker]
      BY DEF FeedInit, Init
    <3>2. OrderMirrors /\ HeardTyped
      BY <3>1 DEF OrderMirrors, HeardTyped
    <3>3. \A p \in Ports : pt[p].eraPos = 0 /\ pt[p].stragglers = 0
      BY <3>1 DEF NewTracker
    <3> QED
      BY <3>2, <3>3 DEF OrderedInv
  <2> QED
    BY <2>1, <2>2, <2>3, <2>4, <2>5
<1>2. Inv /\ [FeedNext]_allVars => Inv' /\ [ReopensNone]_allVars
  <2>1. IInv /\ FeedTyped /\ [FeedNext]_allVars => IInv' /\ FeedTyped'
    BY FeedStepsIntake, StepIInv, StepFeedTyped
  <2>2. Inv /\ IInv' /\ [FeedNext]_allVars => OwnInv' /\ LagInv' /\ NetInv'
    BY StepOwn, StepLag, StepNet
  <2>3. Inv /\ IInv' /\ OwnInv' /\ [FeedNext]_allVars => OrderedInv' /\ ReopensNone
    BY StepOrdered
  <2> QED
    BY <2>1, <2>2, <2>3
<1>3. (FeedSpec => [][ReopensNone]_allVars) => (FeedSpec => StragglersReopenNoEra)
  BY DEF ReopensNone, StragglersReopenNoEra
<1>4. FeedSpec => [][ReopensNone]_allVars
  BY <1>1, <1>2, PTL DEF FeedSpec
<1> QED
  BY <1>3, <1>4
=============================================================================
